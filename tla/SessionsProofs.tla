---------------------------- MODULE SessionsProofs ----------------------------
(***************************************************************************)
(* Theorems about Sessions for every number of runs, sessions, budgets,    *)
(* failing writes and crashes.  First type correctness, the window and     *)
(* count of the rolling context, and that appends of the gateway find a    *)
(* fresh state (IInv).  Then what contexts and transcripts hold: a rebuild *)
(* gathers every readable message (Gathers), contexts follow their         *)
(* transcripts (Follows), what was acknowledged stays in them (Kept), what *)
(* transcripts lose (Losses) and contexts lack (LagInv) is paid for by     *)
(* faults, and the notes are the newest promoted messages (Noted).         *)
(***************************************************************************)
EXTENDS Sessions, FiniteSetTheorems, SequenceTheorems, TLAPS

\* The lines of the rolling notes.
Notes == Records \cup {TrimMarker, CutLine}

\* An entry whose state is well formed, and one that is also current.
GoodEntry(e) == e \in Entries /\ WindowOK(e)

Rebuilding == {"rebuild", "rebuildInAppend"}
\* Where a run is once Touch has returned an entry to it.
Touched == Labels \ {"idle", "done", "failed"}

(***************************************************************************)
(* The strengthening.  Whoever rebuilds or stores holds m.mu, so "work" is *)
(* its own and carries the current signature; a touched session has an     *)
(* entry; what the gateway's runs append to was ensured by ModelContext.   *)
(***************************************************************************)
Holding ==
  \A r \in Runs :
    /\ pc[r] \in Rebuilding => mu = r /\ work \in Entries /\ work.sig = limit
    /\ pc[r] = "store" => mu = r
    /\ pc[r] \in Touched => mem[ses[r]] \in Entries

AllGood ==
  /\ \A k \in SessionKeys : mem[k] # NoEntry => WindowOK(mem[k])
  /\ \A k \in SessionKeys : disk[k] # NoEntry => WindowOK(disk[k])
  /\ work # NoEntry => WindowOK(work)

IInv == TypeOK /\ AllGood /\ Holding /\ AppendFindsFreshState

-----------------------------------------------------------------------------

\* A new entry, whatever its signature, is well formed.
LEMMA NewEntryGood ==
  ASSUME NEW id \in Ids, NEW n \in Limits \cup {NoSig}
  PROVE  GoodEntry(NewEntry(id, n)) /\ NewEntry(id, n).sig = n
<1>1. <<>> \in Seq(Records) /\ <<>> \in Seq(Notes) /\ Len(<<>>) = 0
  BY EmptySeq
<1>2. NewEntry(id, n) \in Entries
  BY <1>1 DEF NewEntry, Entries, Notes
<1>3. n \in Nat
  BY SessionsAssumption DEF NoSig
<1>4. WindowOK(NewEntry(id, n))
  BY <1>1, <1>3 DEF NewEntry, WindowOK
<1>5. QED BY <1>2, <1>4 DEF GoodEntry, NewEntry

\* Clearing an entry stamps it with the budget and leaves it well formed.
LEMMA ClearContextGood ==
  ASSUME NEW e \in Entries, NEW n \in Limits
  PROVE  GoodEntry(ClearContext(e, n)) /\ ClearContext(e, n).sig = n
<1>1. <<>> \in Seq(Records) /\ <<>> \in Seq(Notes) /\ Len(<<>>) = 0
  BY EmptySeq
<1> DEFINE f == ClearContext(e, n)
<1>2. f \in Entries
  BY <1>1 DEF ClearContext, Entries, Notes
<1>3. f.sig = n /\ f.recent = <<>> /\ f.summarized = 0 /\ f.folded = <<>> /\ n \in Nat
  BY SessionsAssumption DEF ClearContext, Entries
<1>4. WindowOK(f)
  BY <1>1, <1>3 DEF WindowOK
<1>5. QED BY <1>2, <1>3, <1>4 DEF GoodEntry

\* The last lines of some lines, one by one.
LEMMA NewerLines ==
  ASSUME NEW S, NEW lines \in Seq(S), NEW n \in 0..Len(lines)
  PROVE  /\ Newer(lines, n) \in Seq(S) /\ Len(Newer(lines, n)) = n
         /\ \A j \in 1..n : Newer(lines, n)[j] = lines[Len(lines) - n + j]
<1> DEFINE L == Len(lines)
           m == L - n + 1
<1>1. L \in Nat /\ n \in Nat /\ m \in Int /\ L \in Int /\ m >= 1 /\ m = L - n + 1
  BY LenProperties
<1>2. \A i \in m..L : lines[i] \in S
  <2>1. \A i \in m..L : i \in 1..L
    BY <1>1
  <2> QED
    BY <2>1, ElementOfSeq
<1> HIDE DEF m, L
<1>3. /\ SubSeq(lines, m, L) \in Seq(S)
      /\ Len(SubSeq(lines, m, L)) = IF m <= L THEN L - m + 1 ELSE 0
      /\ \A i \in 1..(L - m + 1) : SubSeq(lines, m, L)[i] = lines[m + i - 1]
  BY <1>1, <1>2, SubSeqProperties
<1>4. L - m + 1 = n /\ (~(m <= L) => n = 0) /\ \A i \in 1..n : m + i - 1 = L - n + i
  BY <1>1
<1>5. Newer(lines, n) = SubSeq(lines, m, L)
  BY DEF Newer, m, L
<1> QED
  BY <1>3, <1>4, <1>5 DEF L

\* A cut keeps some whole lines, of two or more never all, or the end of the last one.
LEMMA NewestLines ==
  ASSUME NEW lines, Len(lines) \in Nat \ {0}, NEW room, NEW chars
  PROVE  \/ Newest(lines, room, chars) = <<CutLine>>
         \/ \E n \in 1..Len(lines) :
              /\ Len(lines) > 1 => n < Len(lines)
              /\ Newest(lines, room, chars) = Newer(lines, n)
<1> DEFINE m == Len(lines) - 1
           fit == {n \in 1..m : Bytes(Newer(lines, n), chars) < room}
           whole == Cardinality(fit)
<1>1. m \in Nat /\ Len(lines) = m + 1
  OBVIOUS
<1>2. IsFiniteSet(1..m) /\ Cardinality(1..m) = m
  <2>1. 1 \in Int /\ m \in Int /\ m - 1 + 1 = m /\ (1 > m => m = 0)
    BY <1>1
  <2> HIDE DEF m
  <2> QED
    BY <2>1, FS_Interval
<1>3. whole \in Nat /\ whole <= m
  <2>1. fit \subseteq 1..m
    OBVIOUS
  <2> HIDE DEF fit, m
  <2>2. IsFiniteSet(fit) /\ Cardinality(fit) <= Cardinality(1..m)
    BY <1>2, <2>1, FS_Subset
  <2> QED
    BY <1>2, <2>2, FS_CardinalityType
<1>4. Newest(lines, room, chars) =
        IF whole > 0 \/ LineChars(Last(lines), chars) = room
        THEN Newer(lines, IF whole > 0 THEN whole ELSE 1) ELSE <<CutLine>>
  BY DEF Newest
<1> HIDE DEF fit, whole, m
<1>5. CASE whole > 0
  <2>1. whole \in 1..Len(lines) /\ whole < Len(lines)
    BY <1>1, <1>3, <1>5
  <2> QED
    BY <1>4, <1>5, <2>1
<1>6. CASE ~(whole > 0)
  <2>1. 1 \in 1..Len(lines) /\ (Len(lines) > 1 => 1 < Len(lines))
    OBVIOUS
  <2> QED
    BY <1>4, <1>6, <2>1
<1> QED
  BY <1>5, <1>6

(***************************************************************************)
(* What appendConversationSummary returns: all lines, or the marker before *)
(* the newest ones, of which the oldest line is none, or before a cut one. *)
(***************************************************************************)
LEMMA AppendSummaryLines ==
  ASSUME NEW s \in Seq(Notes), NEW msg \in Records, NEW chars
  PROVE  LET lines == Append(s, msg)
             S == AppendSummary(s, msg, chars)
         IN \/ S = lines
            \/ \E n \in 0..Len(s) : S = <<TrimMarker>> \o Newer(lines, n)
            \/ S = <<TrimMarker>> \o <<CutLine>>
<1> DEFINE lines == Append(s, msg)
           keep == Newest(lines, chars, chars)
           S == AppendSummary(s, msg, chars)
<1>1. /\ lines \in Seq(Notes) /\ Len(s) \in Nat /\ Len(lines) = Len(s) + 1
      /\ s # <<>> => Len(s) > 0
  BY AppendProperties, LenProperties, EmptySeq DEF Notes
<1>2. \/ s = <<>> /\ S = lines
      \/ S = lines
      \/ s # <<>> /\ S = <<TrimMarker>>
      \/ s # <<>> /\ S = <<TrimMarker>> \o keep
      \/ s # <<>> /\ S = <<TrimMarker>> \o Newest(keep, Room(chars), chars)
  BY DEF AppendSummary
<1>3. ASSUME s # <<>>
      PROVE  keep = <<CutLine>> \/ \E n \in 1..Len(s) : keep = Newer(lines, n)
  <2>1. Len(lines) \in Nat \ {0} /\ Len(lines) > 1
    BY <1>1, <1>3
  <2>2. \/ keep = <<CutLine>>
        \/ \E n \in 1..Len(lines) : n < Len(lines) /\ keep = Newer(lines, n)
    BY <2>1, NewestLines
  <2>3. \A n \in 1..Len(lines) : n < Len(lines) => n \in 1..Len(s)
    BY <1>1
  <2> QED
    BY <2>2, <2>3
<1>4. CASE s # <<>> /\ S = <<TrimMarker>>
  <2>1. 0 \in 0..Len(lines) /\ 0 \in 0..Len(s)
    BY <1>1
  <2>2. Newer(lines, 0) \in Seq(Notes) /\ Len(Newer(lines, 0)) = 0
    BY <1>1, <2>1, NewerLines
  <2>3. <<TrimMarker>> \o Newer(lines, 0) = <<TrimMarker>>
    <3>1. Newer(lines, 0) = <<>>
      BY <2>2, EmptySeq
    <3>2. <<TrimMarker>> \in Seq(Notes)
      BY DEF Notes
    <3> QED
      BY <3>1, <3>2, ConcatEmptySeq
  <2> QED
    BY <1>4, <2>1, <2>3
<1>5. CASE s # <<>> /\ S = <<TrimMarker>> \o keep
  <2>1. \A n \in 1..Len(s) : n \in 0..Len(s)
    BY <1>1
  <2> HIDE DEF keep, lines, S
  <2> QED
    BY <1>3, <1>5, <2>1 DEF lines, S
<1>6. CASE s # <<>> /\ S = <<TrimMarker>> \o Newest(keep, Room(chars), chars)
  <2> DEFINE kept == Newest(keep, Room(chars), chars)
  <2>1. ASSUME keep = <<CutLine>> PROVE kept = <<CutLine>>
    <3> HIDE DEF keep, lines, S
    <3>1. /\ Len(<<CutLine>>) = 1 /\ <<CutLine>> \in Seq(Notes) /\ <<CutLine>>[1] = CutLine
          /\ 1 \in Nat \ {0} /\ 1 \in 0..1 /\ \A n \in 1..1 : n = 1
      BY DEF Notes
    <3>2. keep \in Seq(Notes) /\ Len(keep) = 1 /\ 1 \in 0..Len(keep)
      BY <2>1, <3>1
    <3>3. kept = <<CutLine>> \/ \E n \in 1..Len(keep) : kept = Newer(keep, n)
      BY <3>1, <3>2, NewestLines
    <3>4. kept = <<CutLine>> \/ kept = Newer(keep, 1)
      BY <3>1, <3>2, <3>3
    <3> DEFINE last == Newer(keep, 1)
    <3>5. /\ last \in Seq(Notes) /\ Len(last) = 1
          /\ \A j \in 1..1 : last[j] = keep[Len(keep) - 1 + j]
      <4>1. keep \in Seq(Notes) /\ 1 \in 0..Len(keep)
        BY <3>2
      <4> QED
        BY ONLY <4>1, NewerLines
    <3> HIDE DEF last
    <3>6. \A j \in 1..1 : last[j] = keep[j]
      BY <3>1, <3>2, <3>5
    <3>7. last = keep
      BY <3>2, <3>5, <3>6, SeqEqual
    <3> QED
      BY <2>1, <3>4, <3>7 DEF last
  <2>2. ASSUME NEW n \in 1..Len(s), keep = Newer(lines, n)
        PROVE  kept = <<CutLine>> \/ \E i \in 0..Len(s) : kept = Newer(lines, i)
    <3> HIDE DEF keep, lines
    <3>1. n \in Nat /\ n >= 1 /\ n <= Len(s) /\ n \in 0..Len(lines)
      BY <1>1
    <3>2. keep \in Seq(Notes) /\ Len(keep) = n
          /\ \A j \in 1..n : keep[j] = lines[Len(lines) - n + j]
      BY <1>1, <2>2, <3>1, NewerLines
    <3>3. \/ kept = <<CutLine>>
          \/ \E i \in 1..Len(keep) : kept = Newer(keep, i)
      BY <3>1, <3>2, NewestLines
    <3>4. ASSUME NEW i \in 1..Len(keep), kept = Newer(keep, i)
          PROVE  i \in 0..Len(s) /\ Newer(keep, i) = Newer(lines, i)
      <4>1. i \in Nat /\ i >= 1 /\ i <= n /\ i \in 0..Len(keep) /\ i \in 0..Len(lines)
            /\ i \in 0..Len(s)
        BY <1>1, <3>1, <3>2
      <4>2. /\ Newer(keep, i) \in Seq(Notes) /\ Len(Newer(keep, i)) = i
            /\ \A j \in 1..i : Newer(keep, i)[j] = keep[Len(keep) - i + j]
        BY <3>2, <4>1, NewerLines
      <4>3. /\ Newer(lines, i) \in Seq(Notes) /\ Len(Newer(lines, i)) = i
            /\ \A j \in 1..i : Newer(lines, i)[j] = lines[Len(lines) - i + j]
        BY <1>1, <4>1, NewerLines
      <4>4. ASSUME NEW j \in 1..i
            PROVE  keep[Len(keep) - i + j] = lines[Len(lines) - i + j]
        <5>1. /\ n - i + j \in 1..n
              /\ Len(lines) - n + (n - i + j) = Len(lines) - i + j
          BY <1>1, <3>1, <4>1
        <5> QED
          BY <3>2, <5>1
      <4>5. \A j \in 1..i : Newer(keep, i)[j] = Newer(lines, i)[j]
        BY <4>2, <4>3, <4>4
      <4> QED
        BY <4>1, <4>2, <4>3, <4>5, SeqEqual
    <3> QED
      BY <3>3, <3>4
  <2> HIDE DEF keep, kept, lines, S
  <2>3. kept = <<CutLine>> \/ \E i \in 0..Len(s) : kept = Newer(lines, i)
    BY <1>3, <1>6, <2>1, <2>2
  <2> QED
    BY <1>6, <2>3 DEF kept, lines, S
<1> HIDE DEF lines, S, keep
<1> QED
  BY <1>2, <1>4, <1>5, <1>6 DEF lines, S

\* The summary stays a sequence of notes.
LEMMA AppendSummaryType ==
  ASSUME NEW s \in Seq(Notes), NEW msg \in Records, NEW chars
  PROVE  AppendSummary(s, msg, chars) \in Seq(Notes)
<1> DEFINE lines == Append(s, msg)
           S == AppendSummary(s, msg, chars)
<1>1. lines \in Seq(Notes) /\ Len(s) \in Nat /\ Len(lines) = Len(s) + 1
  BY AppendProperties, LenProperties DEF Notes
<1>2. <<TrimMarker>> \in Seq(Notes) /\ <<CutLine>> \in Seq(Notes)
  BY DEF Notes
<1>3. ASSUME NEW n \in 0..Len(s) PROVE <<TrimMarker>> \o Newer(lines, n) \in Seq(Notes)
  <2>1. n \in 0..Len(lines)
    BY <1>1
  <2>2. Newer(lines, n) \in Seq(Notes)
    BY <1>1, <2>1, NewerLines
  <2> QED
    BY <1>2, <2>2, ConcatProperties
<1>4. <<TrimMarker>> \o <<CutLine>> \in Seq(Notes)
  BY <1>2, ConcatProperties
<1>5. \/ S = lines
      \/ \E n \in 0..Len(s) : S = <<TrimMarker>> \o Newer(lines, n)
      \/ S = <<TrimMarker>> \o <<CutLine>>
  BY AppendSummaryLines
<1> HIDE DEF lines, S
<1> QED
  BY <1>1, <1>3, <1>4, <1>5 DEF S

\* applyContextMessage keeps the entry well formed when its state is current.
LEMMA ApplyGood ==
  ASSUME NEW e \in Entries, NEW rec \in Records, NEW n \in Limits,
         e.sig = n, WindowOK(e)
  PROVE  /\ GoodEntry(ApplyContextMessage(e, rec, n))
         /\ ApplyContextMessage(e, rec, n).sig = n
<1> DEFINE f == ApplyContextMessage(e, rec, n)
<1>0. /\ e.id \in Ids /\ e.sig \in Limits \cup {NoSig} /\ e.recent \in Seq(Records)
      /\ e.summarized \in Nat /\ e.summary \in Seq(Notes)
      /\ e.folded \in Seq(Records) /\ n \in Nat /\ n > 0
  BY SessionsAssumption DEF Entries, Notes
<1>a. /\ Append(e.recent, rec) \in Seq(Records)
      /\ Len(Append(e.recent, rec)) = Len(e.recent) + 1
      /\ \A i \in 1..Len(e.recent) : Append(e.recent, rec)[i] = e.recent[i]
      /\ Append(e.recent, rec)[Len(e.recent) + 1] = rec
  BY <1>0, AppendProperties
<1>b. /\ Append(e.folded, rec) \in Seq(Records)
      /\ Len(Append(e.folded, rec)) = Len(e.folded) + 1
      /\ \A i \in 1..Len(e.folded) : Append(e.folded, rec)[i] = e.folded[i]
      /\ Append(e.folded, rec)[Len(e.folded) + 1] = rec
  BY <1>0, AppendProperties
<1>c. /\ Len(e.recent) \in Nat /\ Len(e.folded) \in Nat
      /\ e.summarized + Len(e.recent) = Len(e.folded)
      /\ \A i \in 1..Len(e.recent) : e.recent[i] = e.folded[e.summarized + i]
      /\ Len(e.recent) <= n
      /\ e.summarized > 0 => Len(e.recent) = n
  BY <1>0, LenProperties DEF WindowOK
<1>1. CASE Len(e.recent) < n
  <2>1. f = [e EXCEPT !.recent = Append(@, rec), !.folded = Append(@, rec)]
    BY <1>1 DEF ApplyContextMessage
  <2>2. f \in Entries /\ f.sig = n
    BY <2>1, <1>0, <1>a, <1>b DEF Entries, Notes
  <2>3. f.recent = Append(e.recent, rec) /\ f.folded = Append(e.folded, rec)
        /\ f.summarized = e.summarized /\ e.summarized = 0
    BY <2>1, <1>0, <1>1, <1>c DEF Entries
  <2>4. WindowOK(f)
    BY <2>2, <2>3, <1>0, <1>1, <1>a, <1>b, <1>c DEF WindowOK
  <2>5. QED BY <2>2, <2>4 DEF GoodEntry
<1>2. CASE ~(Len(e.recent) < n)
  <2>0. e.recent # <<>> /\ Len(e.recent) = n
    BY <1>0, <1>2, <1>c, EmptySeq
  <2> DEFINE tail == Tail(e.recent)
  <2>1. f = [e EXCEPT !.recent = Append(tail, rec),
                      !.summarized = e.summarized + 1,
                      !.summary = AppendSummary(e.summary, Head(e.recent), SummaryChars[n]),
                      !.folded = Append(e.folded, rec)]
    BY <1>2 DEF ApplyContextMessage, Entries
  <2>2. /\ Head(e.recent) \in Records /\ tail \in Seq(Records)
        /\ Len(tail) = n - 1
        /\ \A i \in 1..(n - 1) : tail[i] = e.recent[i + 1]
    BY <1>0, <2>0, HeadTailProperties
  <2>3. AppendSummary(e.summary, Head(e.recent), SummaryChars[n]) \in Seq(Notes)
    BY <1>0, <2>2, AppendSummaryType
  <2>a. /\ Append(tail, rec) \in Seq(Records)
        /\ Len(Append(tail, rec)) = n
        /\ \A i \in 1..(n - 1) : Append(tail, rec)[i] = tail[i]
        /\ Append(tail, rec)[n] = rec
    BY <1>0, <2>2, AppendProperties
  <2> DEFINE S == AppendSummary(e.summary, Head(e.recent), SummaryChars[n])
             N == e.summarized + 1
             R == Append(tail, rec)
             F == Append(e.folded, rec)
  <2>3a. /\ S \in Seq(Notes) /\ N \in Nat
         /\ R \in Seq(Records) /\ F \in Seq(Records)
    BY <2>3, <2>a, <1>0, <1>b
  <2>3b. /\ Len(R) = n /\ R[n] = rec
         /\ \A i \in 1..(n - 1) : R[i] = tail[i]
    BY <2>a
  <2>3c. /\ Len(F) = Len(e.folded) + 1 /\ F[Len(e.folded) + 1] = rec
         /\ \A i \in 1..Len(e.folded) : F[i] = e.folded[i]
    BY <1>b
  <2>3d. f = [e EXCEPT !.recent = R, !.summarized = N, !.summary = S, !.folded = F]
    BY <2>1
  <2>3e. N = e.summarized + 1
    OBVIOUS
  <2> HIDE DEF tail, S, N, R, F, f
  <2>4. f \in Entries /\ f.sig = n
    BY <2>3a, <2>3d, <1>0 DEF Entries, Notes
  <2>5. f.recent = R /\ f.folded = F /\ f.summarized = N
    BY <2>3d DEF Entries
  <2>6. Len(f.recent) = n /\ f.summarized + Len(f.recent) = Len(f.folded)
    BY <2>0, <2>3b, <2>3c, <2>3e, <2>5, <1>0, <1>c
  <2>7. ASSUME NEW i \in 1..n
        PROVE  f.recent[i] = f.folded[f.summarized + i]
    <3>1. CASE i = n
      <4>1. N + i = Len(e.folded) + 1
        <5>1. e.summarized \in Nat /\ Len(e.folded) = e.summarized + n /\ n \in Nat
          BY <2>0, <1>0, <1>c
        <5>2. QED BY <5>1, <3>1, <2>3e
      <4>2. QED BY <3>1, <4>1, <2>3b, <2>3c, <2>5
    <3>2. CASE i # n
      <4>1. i \in 1..(n - 1) /\ i + 1 \in 1..Len(e.recent)
        BY <3>2, <2>0, <1>0
      <4>2. R[i] = e.recent[i + 1]
        BY <4>1, <2>2, <2>3b
      <4>3. e.recent[i + 1] = e.folded[e.summarized + (i + 1)]
        BY <4>1, <1>c
      <4>4. e.summarized + (i + 1) \in 1..Len(e.folded)
        BY <4>1, <2>0, <1>0, <1>c
      <4>5. N + i = e.summarized + (i + 1)
        <5>1. e.summarized \in Nat /\ i \in Nat
          BY <1>0, <4>1
        <5>2. QED BY <5>1, <2>3e
      <4>6. F[N + i] = e.folded[e.summarized + (i + 1)]
        BY <4>4, <4>5, <2>3c
      <4>7. QED BY <4>2, <4>3, <4>6, <2>5
    <3>3. QED BY <3>1, <3>2
  <2>8. WindowOK(f)
    BY <2>0, <2>4, <2>6, <2>7, <1>0 DEF WindowOK
  <2>9. QED BY <2>4, <2>8 DEF GoodEntry, f
<1>3. QED BY <1>1, <1>2

-----------------------------------------------------------------------------

(***************************************************************************)
(* What a Put does, whether the save succeeds or not: one entry of the map *)
(* is replaced by a well-formed one, and the file stays well formed.       *)
(***************************************************************************)
LEMMA PutGood ==
  ASSUME TypeOK, AllGood, NEW k \in SessionKeys, NEW e, GoodEntry(e),
         PutOk(k, e) \/ PutFails(k, e)
  PROVE  /\ mem' \in [SessionKeys -> Entries \cup {NoEntry}]
         /\ disk' \in [SessionKeys -> Entries \cup {NoEntry}]
         /\ mem'[k] = e
         /\ \A j \in SessionKeys : j # k => mem'[j] = mem[j]
         /\ \A j \in SessionKeys : mem'[j] # NoEntry => WindowOK(mem'[j])
         /\ \A j \in SessionKeys : disk'[j] # NoEntry => WindowOK(disk'[j])
         /\ faults' \in Nat /\ restarts' \in Nat
<1>1. /\ mem' = [mem EXCEPT ![k] = e]
      /\ disk' = mem' \/ disk' = disk
      /\ faults' \in Nat /\ restarts' \in Nat
  BY DEF PutOk, PutFails, TypeOK, bounds
<1>2. mem \in [SessionKeys -> Entries \cup {NoEntry}]
      /\ disk \in [SessionKeys -> Entries \cup {NoEntry}]
      /\ e \in Entries /\ WindowOK(e)
  BY DEF TypeOK, GoodEntry
<1>3. /\ mem' \in [SessionKeys -> Entries \cup {NoEntry}]
      /\ mem'[k] = e
      /\ \A j \in SessionKeys : j # k => mem'[j] = mem[j]
  BY <1>1, <1>2
<1>4. \A j \in SessionKeys : mem'[j] # NoEntry => WindowOK(mem'[j])
  <2>1. SUFFICES ASSUME NEW j \in SessionKeys, mem'[j] # NoEntry
                 PROVE  WindowOK(mem'[j])
    OBVIOUS
  <2>2. CASE j = k
    BY <2>2, <1>2, <1>3
  <2>3. CASE j # k
    BY <2>1, <2>3, <1>3 DEF AllGood
  <2>4. QED BY <2>2, <2>3
<1>5. CASE disk' = mem'
  BY <1>1, <1>3, <1>4, <1>5
<1>6. CASE disk' = disk
  BY <1>1, <1>2, <1>3, <1>4, <1>6 DEF AllGood
<1>7. QED BY <1>1, <1>5, <1>6

\* The initial store: new keys have no entry, legacy ones an empty context.
LEMMA InitInv == Init => IInv
<1> SUFFICES ASSUME Init PROVE IInv
  OBVIOUS
<1> USE DEF Init
<1>1. disk \in [SessionKeys -> Entries \cup {NoEntry}] /\ mem = disk
      /\ \A k \in SessionKeys : disk[k] # NoEntry => WindowOK(disk[k])
  <2>1. ASSUME NEW k \in SessionKeys
        PROVE  /\ disk[k] \in Entries \cup {NoEntry}
               /\ disk[k] # NoEntry => WindowOK(disk[k])
    <3>1. CASE k \in LegacyKeys
      <4>1. GoodEntry(NewEntry(k, NoSig))
        BY <3>1, NewEntryGood DEF Ids
      <4>2. disk[k] = NewEntry(k, NoSig)
        BY <3>1
      <4>3. QED BY <4>1, <4>2 DEF GoodEntry
    <3>2. CASE k \notin LegacyKeys
      BY <3>2
    <3>3. QED BY <3>1, <3>2
  <2>2. QED BY <2>1
<1>2. files \in [Ids -> Seq(Records)]
  <2>1. ASSUME NEW i \in Ids
        PROVE  LegacyRows(i) \in Seq(Records)
    BY <2>1 DEF LegacyRows, Records, Roles, Types
  <2>2. <<>> \in Seq(Records)
    BY EmptySeq
  <2>3. QED BY <2>1, <2>2
<1>3. files \in [Ids -> Seq(Records \cup {Garbage})]
  <2>1. ASSUME NEW i \in Ids
        PROVE  files[i] \in Seq(Records \cup {Garbage})
    BY <1>2, SeqMonotonic
  <2>2. QED BY <1>2, <2>1
<1>4. out \in [Runs -> Records]
  <2>1. ASSUME NEW r \in Runs
        PROVE  UserRecord(r) \in Records
    BY DEF UserRecord, Records, Roles, Types, Ids
  <2>2. QED BY <2>1
<1>5. TypeOK
  BY <1>1, <1>2, <1>3, <1>4 DEF TypeOK, Labels, Ids
<1>6. AllGood
  BY <1>1 DEF AllGood
<1>7. Holding /\ AppendFindsFreshState
  BY DEF Holding, AppendFindsFreshState, Rebuilding, Touched, Labels
<1>8. QED BY <1>5, <1>6, <1>7 DEF IInv

\* What the steps below use of the invariant, and of being outside of m.mu.
LEMMA OutsideLock ==
  ASSUME IInv, mu = Nobody
  PROVE  \A r \in Runs : pc[r] \notin Rebuilding \cup {"store"}
BY SessionsAssumption DEF IInv, Holding

LEMMA InsideLock ==
  ASSUME IInv, NEW r \in Runs, pc[r] \in Rebuilding \cup {"store"}
  PROVE  mu = r /\ \A x \in Runs \ {r} : pc[x] \notin Rebuilding \cup {"store"}
BY DEF IInv, Holding

\* The entry of a touched session is in the map, and it is well formed.
LEMMA TouchedGood ==
  ASSUME IInv, NEW r \in Runs, pc[r] \in Touched
  PROVE  ses[r] \in SessionKeys /\ GoodEntry(mem[ses[r]])
BY NoEntryAssumption DEF IInv, Holding, AllGood, TypeOK, GoodEntry

LEMMA TouchInv ==
  ASSUME IInv, NEW r \in Runs, Touch(r)
  PROVE  IInv'
<1> DEFINE k == ses[r]
           e == TouchedEntry(r)
<1>0. TypeOK /\ AllGood /\ Holding /\ AppendFindsFreshState /\ k \in SessionKeys
  BY DEF IInv, TypeOK
<1>1. /\ pc[r] = "idle" /\ mu = Nobody
      /\ PutOk(k, e) \/ PutFails(k, e)
      /\ UNCHANGED <<files, torn, log, limit, mu, ses, out, work, line, acked>>
  BY DEF Touch, fileVars
<1>2. /\ \/ sid' = [sid EXCEPT ![r] = e.id]
         \/ sid' = sid
      /\ \/ pc' = [pc EXCEPT ![r] = "failed"]
         \/ r \in DirectRuns /\ pc' = [pc EXCEPT ![r] = "write"]
         \/ r \notin DirectRuns /\ pc' = [pc EXCEPT ![r] = "context"]
  BY DEF Touch, Goto
<1>3. GoodEntry(e) /\ (mem[k] \in Entries => e = mem[k])
  <2>1. CASE mem[k] = NoEntry
    <3>1. r \in Ids /\ limit \in Limits \cup {NoSig}
      BY <1>0 DEF Ids, TypeOK
    <3>2. QED BY <2>1, <3>1, NewEntryGood, NoEntryAssumption DEF TouchedEntry
  <2>2. CASE mem[k] # NoEntry
    BY <2>2, <1>0 DEF TouchedEntry, TypeOK, AllGood, GoodEntry
  <2>3. QED BY <2>1, <2>2
<1> HIDE DEF e, k
<1>4. /\ mem' \in [SessionKeys -> Entries \cup {NoEntry}]
      /\ disk' \in [SessionKeys -> Entries \cup {NoEntry}]
      /\ mem'[k] = e
      /\ \A j \in SessionKeys : j # k => mem'[j] = mem[j]
      /\ \A j \in SessionKeys : mem'[j] # NoEntry => WindowOK(mem'[j])
      /\ \A j \in SessionKeys : disk'[j] # NoEntry => WindowOK(disk'[j])
      /\ faults' \in Nat /\ restarts' \in Nat
  BY <1>0, <1>1, <1>3, PutGood
<1>5. \A j \in SessionKeys : mem[j] \in Entries => mem'[j] = mem[j]
  BY <1>3, <1>4
<1>6. TypeOK'
  <2>1. pc' \in [Runs -> Labels]
    BY <1>0, <1>2 DEF TypeOK, Labels
  <2>2. e.id \in Ids
    BY <1>3 DEF GoodEntry, Entries
  <2>3. sid' \in [Runs -> Ids]
    BY <1>0, <1>2, <2>2 DEF TypeOK
  <2>4. QED BY <1>0, <1>1, <1>4, <2>1, <2>3 DEF TypeOK
<1>7. AllGood'
  BY <1>0, <1>1, <1>4 DEF AllGood
<1>8. Holding'
  <2>1. SUFFICES ASSUME NEW x \in Runs
                 PROVE  /\ pc'[x] \notin Rebuilding \cup {"store"}
                        /\ pc'[x] \in Touched => mem'[ses[x]] \in Entries
    BY <1>1 DEF Holding
  <2>2. CASE x = r
    <3>1. pc'[x] \in {"failed", "write", "context"}
      BY <1>0, <1>2, <2>2 DEF TypeOK
    <3>2. mem'[ses[x]] \in Entries
      BY <1>3, <1>4, <2>2 DEF GoodEntry, k
    <3>3. QED BY <3>1, <3>2 DEF Rebuilding
  <2>3. CASE x # r
    <3>1. pc'[x] = pc[x] /\ ses[x] \in SessionKeys
      BY <1>0, <1>2, <2>3 DEF TypeOK
    <3>2. pc[x] \notin Rebuilding \cup {"store"}
      BY <1>1, OutsideLock
    <3>3. pc[x] \in Touched => mem'[ses[x]] \in Entries
      BY <1>0, <1>5, <3>1 DEF Holding
    <3>4. QED BY <3>1, <3>2, <3>3
  <2>4. QED BY <2>2, <2>3
<1>9. AppendFindsFreshState'
  <2>1. SUFFICES ASSUME NEW x \in Runs \ DirectRuns,
                        pc'[x] \in {"write", "store", "events"}
                 PROVE  mem'[ses[x]].sig = limit
    BY <1>1 DEF AppendFindsFreshState, StateIsCurrent
  <2>2. x # r
    BY <1>0, <1>2, <2>1 DEF TypeOK
  <2>3. pc'[x] = pc[x] /\ ses[x] \in SessionKeys
    BY <1>0, <1>2, <2>2 DEF TypeOK
  <2>4. mem[ses[x]] \in Entries
    BY <1>0, <2>1, <2>3 DEF Holding, Touched, Labels
  <2>5. mem[ses[x]].sig = limit
    BY <1>0, <2>1, <2>3 DEF AppendFindsFreshState, StateIsCurrent
  <2>6. QED BY <1>5, <2>3, <2>4, <2>5
<1>10. QED BY <1>6, <1>7, <1>8, <1>9 DEF IInv

\* A rebuild starts from a cleared copy of the entry.
LEMMA StartRebuildGood ==
  ASSUME IInv, NEW r \in Runs, pc[r] \in Touched, StartRebuild(r)
  PROVE  GoodEntry(work') /\ work'.sig = limit /\ mu' = r /\ line' = 0
<1>1. mem[ses[r]] \in Entries /\ limit \in Limits
  BY TouchedGood DEF GoodEntry, IInv, TypeOK
<1>2. QED BY <1>1, ClearContextGood DEF StartRebuild

\* Steps that move one run and leave the store alone.
LEMMA MoveInv ==
  ASSUME IInv, NEW r \in Runs, NEW label \in Labels,
         Goto(r, label), UNCHANGED <<disk, mem, ses, limit, work>>,
         mu' = mu, label \notin Rebuilding \cup {"store"},
         pc[r] \in Touched,
         label \in {"write", "store", "events"} =>
           r \in DirectRuns \/ mem[ses[r]].sig = limit
  PROVE  AllGood' /\ Holding' /\ AppendFindsFreshState'
<1>0. TypeOK /\ AllGood /\ Holding /\ AppendFindsFreshState
  BY DEF IInv
<1>1. pc' = [pc EXCEPT ![r] = label] /\ pc \in [Runs -> Labels]
  BY <1>0 DEF Goto, TypeOK
<1>2. AllGood'
  BY <1>0 DEF AllGood
<1>3. Holding'
  <2>1. SUFFICES ASSUME NEW x \in Runs
                 PROVE  /\ pc'[x] \in Rebuilding => mu = x /\ work \in Entries /\ work.sig = limit
                        /\ pc'[x] = "store" => mu = x
                        /\ pc'[x] \in Touched => mem[ses[x]] \in Entries
    BY DEF Holding
  <2>2. CASE x = r
    BY <1>0, <1>1, <2>2 DEF Holding
  <2>3. CASE x # r
    BY <1>0, <1>1, <2>3 DEF Holding
  <2>4. QED BY <2>2, <2>3
<1>4. AppendFindsFreshState'
  <2>1. SUFFICES ASSUME NEW x \in Runs \ DirectRuns,
                        pc'[x] \in {"write", "store", "events"}
                 PROVE  mem[ses[x]].sig = limit
    BY DEF AppendFindsFreshState, StateIsCurrent
  <2>2. CASE x = r
    BY <1>1, <2>1, <2>2
  <2>3. CASE x # r
    BY <1>0, <1>1, <2>1, <2>3 DEF AppendFindsFreshState, StateIsCurrent
  <2>4. QED BY <2>2, <2>3
<1>5. QED BY <1>2, <1>3, <1>4

\* A run that takes m.mu to rebuild, from outside of it or already inside.
LEMMA EnterRebuildInv ==
  ASSUME IInv, NEW r \in Runs, NEW label \in Rebuilding,
         Goto(r, label), StartRebuild(r), pc[r] \in Touched,
         UNCHANGED <<disk, mem, ses, limit>>,
         \A x \in Runs \ {r} : pc[x] \notin Rebuilding \cup {"store"}
  PROVE  AllGood' /\ Holding' /\ AppendFindsFreshState'
<1>0. TypeOK /\ AllGood /\ Holding /\ AppendFindsFreshState
  BY DEF IInv
<1>1. pc' = [pc EXCEPT ![r] = label] /\ pc \in [Runs -> Labels] /\ label \in Labels
  BY <1>0 DEF Goto, TypeOK, Rebuilding, Labels
<1>2. GoodEntry(work') /\ work'.sig = limit /\ mu' = r
  BY StartRebuildGood
<1>3. AllGood'
  BY <1>0, <1>2 DEF AllGood, GoodEntry
<1>4. Holding'
  <2>1. SUFFICES ASSUME NEW x \in Runs
                 PROVE  /\ pc'[x] \in Rebuilding => mu' = x /\ work' \in Entries /\ work'.sig = limit
                        /\ pc'[x] = "store" => mu' = x
                        /\ pc'[x] \in Touched => mem[ses[x]] \in Entries
    BY DEF Holding
  <2>2. CASE x = r
    BY <1>0, <1>1, <1>2, <2>2 DEF Holding, GoodEntry, Rebuilding
  <2>3. CASE x # r
    BY <1>0, <1>1, <2>3 DEF Holding
  <2>4. QED BY <2>2, <2>3
<1>5. AppendFindsFreshState'
  <2>1. SUFFICES ASSUME NEW x \in Runs \ DirectRuns,
                        pc'[x] \in {"write", "store", "events"}
                 PROVE  mem[ses[x]].sig = limit
    BY DEF AppendFindsFreshState, StateIsCurrent
  <2>2. x # r
    BY <1>1, <2>1 DEF Rebuilding
  <2>3. QED BY <1>0, <1>1, <2>1, <2>2 DEF AppendFindsFreshState, StateIsCurrent
<1>6. QED BY <1>3, <1>4, <1>5

LEMMA ModelContextInv ==
  ASSUME IInv, NEW r \in Runs, ModelContext(r)
  PROVE  IInv'
<1>0. TypeOK /\ pc[r] = "context" /\ pc[r] \in Touched /\ mu = Nobody
  BY DEF IInv, ModelContext, Touched, Labels
<1>1. UNCHANGED <<disk, mem, files, torn, log, ses, sid, out, limit, faults, restarts, acked>>
  BY DEF ModelContext, storeVars, fileVars, runVars, bounds
<1>2. CASE StateIsCurrent(r) /\ Goto(r, "write") /\ UNCHANGED <<mu, work, line>>
  <2>1. AllGood' /\ Holding' /\ AppendFindsFreshState'
    <3>1. "write" \in Labels /\ "write" \notin Rebuilding \cup {"store"}
      BY DEF Labels, Rebuilding
    <3>2. mem[ses[r]].sig = limit
      BY <1>2 DEF StateIsCurrent
    <3>3. QED BY <1>0, <1>1, <1>2, <3>1, <3>2, MoveInv
  <2>2. TypeOK'
    BY <1>0, <1>1, <1>2 DEF TypeOK, Goto, Labels
  <2>3. QED BY <2>1, <2>2 DEF IInv
<1>3. CASE StartRebuild(r) /\ Goto(r, "rebuild")
  <2>1. \A x \in Runs \ {r} : pc[x] \notin Rebuilding \cup {"store"}
    BY <1>0, OutsideLock
  <2>2. AllGood' /\ Holding' /\ AppendFindsFreshState'
    BY <1>0, <1>1, <1>3, <2>1, EnterRebuildInv DEF Rebuilding
  <2>3. work' \in Entries /\ mu' \in Runs /\ line' \in Nat
    BY <1>0, <1>3, StartRebuildGood DEF GoodEntry
  <2>4. TypeOK'
    BY <1>0, <1>1, <1>3, <2>3 DEF TypeOK, Goto, Labels
  <2>5. QED BY <2>2, <2>4 DEF IInv
<1>4. QED BY <1>2, <1>3 DEF ModelContext

LEMMA RebuildLineInv ==
  ASSUME IInv, NEW r \in Runs, RebuildLine(r)
  PROVE  IInv'
<1>0. TypeOK /\ AllGood /\ Holding /\ AppendFindsFreshState
  BY DEF IInv
<1>1. /\ pc[r] \in Rebuilding
      /\ line < Len(files[work.id]) /\ line' = line + 1
      /\ UNCHANGED <<disk, mem, files, torn, log, ses, sid, out, limit, mu, pc, faults, restarts, acked>>
  BY DEF RebuildLine, storeVars, fileVars, runVars, bounds, Rebuilding
<1>2. /\ work \in Entries /\ work.sig = limit /\ WindowOK(work) /\ limit \in Limits
      /\ line \in Nat /\ work.id \in Ids
  BY <1>0, <1>1, NoEntryAssumption DEF Holding, AllGood, TypeOK, Entries
<1> DEFINE rec == files[work.id][line + 1]
<1>3. rec \in Records \cup {Garbage}
  <2>1. files[work.id] \in Seq(Records \cup {Garbage})
    BY <1>0, <1>2 DEF TypeOK
  <2>2. line + 1 \in 1..Len(files[work.id])
    BY <1>1, <1>2, <2>1, LenProperties
  <2>3. QED BY <2>1, <2>2, ElementOfSeq
<1>4. \/ work' = work
      \/ rec # Garbage /\ work' = ApplyContextMessage(work, rec, limit)
  BY DEF RebuildLine
<1> HIDE DEF rec
<1>5. GoodEntry(work') /\ work'.sig = limit
  <2>1. CASE work' = work
    BY <2>1, <1>2 DEF GoodEntry
  <2>2. CASE rec # Garbage /\ work' = ApplyContextMessage(work, rec, limit)
    BY <2>2, <1>2, <1>3, ApplyGood
  <2>3. QED BY <1>4, <2>1, <2>2
<1>6. TypeOK'
  BY <1>0, <1>1, <1>2, <1>5 DEF TypeOK, GoodEntry
<1>7. AllGood'
  BY <1>0, <1>1, <1>5 DEF AllGood, GoodEntry
<1>8. Holding'
  BY <1>0, <1>1, <1>5 DEF Holding, GoodEntry
<1>9. AppendFindsFreshState'
  BY <1>0, <1>1 DEF AppendFindsFreshState, StateIsCurrent
<1>10. QED BY <1>6, <1>7, <1>8, <1>9 DEF IInv

\* The holder of m.mu saves a current entry of its session and moves on.
LEMMA PutCurrentInv ==
  ASSUME IInv, NEW r \in Runs, NEW e, NEW label \in Labels,
         pc[r] \in Rebuilding \cup {"store"},
         GoodEntry(e), e.sig = limit,
         PutOk(ses[r], e) \/ PutFails(ses[r], e),
         Goto(r, label), label \notin Rebuilding,
         label = "store" => mu' = r,
         UNCHANGED <<ses, limit>>,
         work' = work \/ work' = NoEntry
  PROVE  /\ mem' \in [SessionKeys -> Entries \cup {NoEntry}]
         /\ disk' \in [SessionKeys -> Entries \cup {NoEntry}]
         /\ faults' \in Nat /\ restarts' \in Nat
         /\ AllGood' /\ Holding' /\ AppendFindsFreshState'
<1> DEFINE k == ses[r]
<1>0. TypeOK /\ AllGood /\ Holding /\ AppendFindsFreshState /\ k \in SessionKeys
  BY DEF IInv, TypeOK
<1>1. pc' = [pc EXCEPT ![r] = label] /\ pc \in [Runs -> Labels]
  BY <1>0 DEF Goto, TypeOK
<1>2. /\ mem' \in [SessionKeys -> Entries \cup {NoEntry}]
      /\ disk' \in [SessionKeys -> Entries \cup {NoEntry}]
      /\ mem'[k] = e
      /\ \A j \in SessionKeys : j # k => mem'[j] = mem[j]
      /\ \A j \in SessionKeys : mem'[j] # NoEntry => WindowOK(mem'[j])
      /\ \A j \in SessionKeys : disk'[j] # NoEntry => WindowOK(disk'[j])
      /\ faults' \in Nat /\ restarts' \in Nat
  BY <1>0, PutGood
<1>3. e \in Entries
  BY DEF GoodEntry
<1> HIDE DEF k
<1>4. \A x \in Runs : x # r => pc[x] \notin Rebuilding \cup {"store"}
  BY InsideLock
<1>5. AllGood'
  BY <1>0, <1>2 DEF AllGood
<1>6. Holding'
  <2>1. SUFFICES ASSUME NEW x \in Runs
                 PROVE  /\ pc'[x] \notin Rebuilding
                        /\ pc'[x] = "store" => mu' = x
                        /\ pc'[x] \in Touched => mem'[ses[x]] \in Entries
    BY DEF Holding
  <2>2. CASE x = r
    BY <1>1, <1>2, <1>3, <2>2 DEF k
  <2>3. CASE x # r
    <3>1. pc'[x] = pc[x] /\ ses[x] \in SessionKeys
      BY <1>0, <1>1, <2>3 DEF TypeOK
    <3>2. pc[x] \in Touched => mem[ses[x]] \in Entries
      BY <1>0 DEF Holding
    <3>3. CASE ses[x] = k
      BY <1>2, <1>3, <1>4, <2>3, <3>1, <3>3
    <3>4. CASE ses[x] # k
      BY <1>2, <1>4, <2>3, <3>1, <3>2, <3>4
    <3>5. QED BY <3>3, <3>4
  <2>4. QED BY <2>2, <2>3
<1>7. AppendFindsFreshState'
  <2>1. SUFFICES ASSUME NEW x \in Runs \ DirectRuns,
                        pc'[x] \in {"write", "store", "events"}
                 PROVE  mem'[ses[x]].sig = limit
    BY DEF AppendFindsFreshState, StateIsCurrent
  <2>2. CASE ses[x] = k
    BY <1>2, <2>2
  <2>3. CASE ses[x] # k
    <3>1. x # r /\ ses[x] \in SessionKeys
      BY <1>0, <2>3 DEF TypeOK, k
    <3>2. pc'[x] = pc[x]
      BY <1>1, <3>1
    <3>3. QED BY <1>0, <1>2, <2>1, <2>3, <3>1, <3>2 DEF AppendFindsFreshState, StateIsCurrent
  <2>4. QED BY <2>2, <2>3
<1>8. QED BY <1>2, <1>5, <1>6, <1>7

LEMMA RebuildDoneInv ==
  ASSUME IInv, NEW r \in Runs, RebuildDone(r)
  PROVE  IInv'
<1>0. TypeOK /\ AllGood /\ Holding /\ pc[r] \in Rebuilding
  BY DEF IInv, RebuildDone, Rebuilding
<1>1. GoodEntry(work) /\ work.sig = limit /\ mu = r
  BY <1>0, NoEntryAssumption DEF Holding, AllGood, GoodEntry
<1>2. /\ PutOk(ses[r], work) \/ PutFails(ses[r], work)
      /\ work' = NoEntry /\ line' = 0
      /\ UNCHANGED <<files, torn, log, ses, sid, out, limit, acked>>
  BY DEF RebuildDone, fileVars, runVars
<1>3. PICK label \in {"write", "store", "failed"} :
        Goto(r, label) /\ (label = "store" => mu' = mu) /\ mu' \in {mu, Nobody}
  BY DEF RebuildDone, Goto
<1>4. label \in Labels /\ label \notin Rebuilding /\ (label = "store" => mu' = r)
  BY <1>1, <1>3 DEF Labels, Rebuilding
<1>5. /\ mem' \in [SessionKeys -> Entries \cup {NoEntry}]
      /\ disk' \in [SessionKeys -> Entries \cup {NoEntry}]
      /\ faults' \in Nat /\ restarts' \in Nat
      /\ AllGood' /\ Holding' /\ AppendFindsFreshState'
  BY <1>0, <1>1, <1>2, <1>3, <1>4, PutCurrentInv
<1>6. TypeOK'
  BY <1>0, <1>2, <1>3, <1>4, <1>5 DEF TypeOK, Goto
<1>7. QED BY <1>5, <1>6 DEF IInv

LEMMA RebuildFailsInv ==
  ASSUME IInv, NEW r \in Runs, RebuildFails(r)
  PROVE  IInv'
<1>0. /\ TypeOK /\ AllGood /\ Holding /\ AppendFindsFreshState /\ pc[r] \in Rebuilding
      /\ pc \in [Runs -> Labels] /\ faults \in Nat
  BY DEF IInv, RebuildFails, Rebuilding, TypeOK
<1>1. /\ UNCHANGED <<disk, mem, files, torn, log, ses, sid, out, limit, line, restarts, acked>>
      /\ work' = NoEntry /\ mu' = Nobody /\ faults' = faults + 1
      /\ pc' = [pc EXCEPT ![r] = "failed"]
  BY DEF RebuildFails, storeVars, fileVars, runVars, Goto
<1>2. \A x \in Runs \ {r} : pc'[x] = pc[x] /\ pc[x] \notin Rebuilding \cup {"store"}
  BY <1>0, <1>1, InsideLock
<1>3. pc'[r] = "failed" /\ "failed" \in Labels
  BY <1>0, <1>1 DEF Labels
<1>4. TypeOK'
  BY <1>0, <1>1, <1>3 DEF TypeOK
<1>5. AllGood'
  BY <1>0, <1>1 DEF AllGood
<1>6. Holding'
  BY <1>0, <1>1, <1>2, <1>3 DEF Holding, Touched, Rebuilding
<1>7. AppendFindsFreshState'
  BY <1>0, <1>1, <1>2, <1>3 DEF AppendFindsFreshState, StateIsCurrent
<1> QED
  BY <1>4, <1>5, <1>6, <1>7 DEF IInv

LEMMA AppendStoreInv ==
  ASSUME IInv, NEW r \in Runs, AppendStore(r)
  PROVE  IInv'
<1>0. TypeOK /\ pc[r] = "store" /\ pc[r] \in Touched /\ out[r] \in Records
      /\ limit \in Limits
  BY DEF IInv, AppendStore, Touched, Labels, TypeOK
<1>1. UNCHANGED <<files, torn, log, ses, sid, out, limit>>
  BY DEF AppendStore, fileVars, runVars
<1>2. CASE StateIsCurrent(r) /\ mu' = Nobody /\ UNCHANGED <<work, line>>
           /\ LET updated == ApplyContextMessage(mem[ses[r]], out[r], limit) IN
              \/ /\ PutOk(ses[r], updated)
                 /\ acked' = acked \cup {out[r]}
                 /\ Goto(r, AfterAppend(out[r]))
              \/ /\ PutFails(ses[r], updated)
                 /\ Goto(r, "failed")
                 /\ UNCHANGED acked
  <2> DEFINE e == ApplyContextMessage(mem[ses[r]], out[r], limit)
  <2>1. GoodEntry(e) /\ e.sig = limit
    BY <1>0, <1>2, TouchedGood, ApplyGood DEF StateIsCurrent, GoodEntry
  <2>2. PICK label \in {"done", "events", "failed"} : Goto(r, label)
    BY <1>2 DEF AfterAppend
  <2>3. PutOk(ses[r], e) \/ PutFails(ses[r], e)
    BY <1>2
  <2>4. acked' \subseteq Records
    BY <1>0, <1>2 DEF TypeOK
  <2> HIDE DEF e
  <2>5. label \in Labels /\ label \notin Rebuilding \cup {"store"}
    BY DEF Labels, Rebuilding
  <2>6. /\ mem' \in [SessionKeys -> Entries \cup {NoEntry}]
        /\ disk' \in [SessionKeys -> Entries \cup {NoEntry}]
        /\ faults' \in Nat /\ restarts' \in Nat
        /\ AllGood' /\ Holding' /\ AppendFindsFreshState'
    BY <1>0, <1>1, <1>2, <2>1, <2>2, <2>3, <2>5, PutCurrentInv
  <2>7. TypeOK'
    BY <1>0, <1>1, <1>2, <2>2, <2>4, <2>5, <2>6 DEF TypeOK, Goto
  <2>8. QED BY <2>6, <2>7 DEF IInv
<1>3. CASE StartRebuild(r) /\ Goto(r, "rebuildInAppend")
           /\ UNCHANGED <<disk, mem, faults, restarts, acked>>
  <2>1. \A x \in Runs \ {r} : pc[x] \notin Rebuilding \cup {"store"}
    BY <1>0, InsideLock
  <2>2. AllGood' /\ Holding' /\ AppendFindsFreshState'
    BY <1>0, <1>1, <1>3, <2>1, EnterRebuildInv DEF Rebuilding
  <2>3. work' \in Entries /\ mu' \in Runs /\ line' \in Nat
    BY <1>0, <1>3, StartRebuildGood DEF GoodEntry
  <2>4. TypeOK'
    BY <1>0, <1>1, <1>3, <2>3 DEF TypeOK, Goto, Labels
  <2>5. QED BY <2>2, <2>4 DEF IInv
<1>4. QED BY <1>2, <1>3 DEF AppendStore, storeVars, bounds

LEMMA SendEventInv ==
  ASSUME IInv, NEW r \in Runs, SendEvent(r)
  PROVE  IInv'
<1>0. /\ TypeOK /\ AppendFindsFreshState /\ pc[r] = "events" /\ pc[r] \in Touched
      /\ Goto(r, "write")
      /\ UNCHANGED <<disk, mem, files, torn, log, limit, mu, ses, sid, work, line,
                     faults, restarts, acked>>
  BY DEF IInv, SendEvent, Touched, Labels, storeVars, fileVars, bounds
<1>1. AllGood' /\ Holding' /\ AppendFindsFreshState'
  <2>1. "write" \in Labels /\ "write" \notin Rebuilding \cup {"store"}
    BY DEF Labels, Rebuilding
  <2>2. r \in DirectRuns \/ mem[ses[r]].sig = limit
    BY <1>0 DEF AppendFindsFreshState, StateIsCurrent
  <2>3. QED BY <1>0, <2>1, <2>2, MoveInv
<1>2. out' \in [Runs -> Records]
  <2>1. AgentRecord(r, "message_chunk") \in Records /\ AgentRecord(r, "message") \in Records
    BY DEF AgentRecord, Records, Roles, Types, Ids
  <2>2. QED BY <1>0, <2>1 DEF SendEvent, TypeOK
<1>3. TypeOK'
  BY <1>0, <1>2 DEF TypeOK, Goto, Labels
<1>4. QED BY <1>1, <1>3 DEF IInv

LEMMA RunErrsInv ==
  ASSUME IInv, NEW r \in Runs, RunErrs(r)
  PROVE  IInv'
<1>0. /\ TypeOK /\ pc[r] \in Touched /\ Goto(r, "failed")
      /\ UNCHANGED <<disk, mem, files, torn, log, limit, mu, ses, sid, out, work, line,
                     faults, restarts, acked>>
  BY DEF IInv, RunErrs, Touched, Labels, storeVars, fileVars, runVars, bounds
<1>1. AllGood' /\ Holding' /\ AppendFindsFreshState'
  BY <1>0, MoveInv DEF Labels, Rebuilding
<1>2. TypeOK'
  BY <1>0 DEF TypeOK, Goto, Labels
<1>3. QED BY <1>1, <1>2 DEF IInv

\* What an append does to the transcript keeps it a sequence of lines.
LEMMA WriteTypes ==
  ASSUME TypeOK, NEW r \in Runs, WriteLine(r) \/ WriteFails(r)
  PROVE  /\ files' \in [Ids -> Seq(Records \cup {Garbage})]
         /\ log' \in [Ids -> Seq(Records)]
         /\ torn' \subseteq Ids
<1> DEFINE L == Records \cup {Garbage}
           f == files[sid[r]]
<1>1. sid[r] \in Ids /\ out[r] \in Records /\ f \in Seq(L) /\ log[sid[r]] \in Seq(Records)
      /\ files \in [Ids -> Seq(L)] /\ log \in [Ids -> Seq(Records)] /\ torn \subseteq Ids
  BY DEF TypeOK
<1>2. Front(f) \in Seq(L)
  <2>1. Len(f) \in Nat /\ \A i \in 1..Len(f) : f[i] \in L
    BY <1>1, LenProperties, ElementOfSeq
  <2>2. \A i \in 1..(Len(f) - 1) : f[i] \in L
    BY <2>1
  <2>3. SubSeq(f, 1, Len(f) - 1) \in Seq(L)
    BY <2>1, <2>2, SubSeqProperties
  <2>4. QED BY <2>3 DEF Front
<1>3. /\ Append(Front(f), Garbage) \in Seq(L)
      /\ Append(f, Garbage) \in Seq(L)
      /\ Append(f, out[r]) \in Seq(L)
      /\ Append(log[sid[r]], out[r]) \in Seq(Records)
  BY <1>1, <1>2, AppendProperties
<1>4. \E g \in Seq(L) : files' = [files EXCEPT ![sid[r]] = g] \/ files' = files
  BY <1>3 DEF WriteLine, WriteFails, fileVars
<1>5. log' = [log EXCEPT ![sid[r]] = Append(log[sid[r]], out[r])] \/ log' = log
  BY <1>1 DEF WriteLine, WriteFails, fileVars
<1>6. torn' \subseteq Ids
  BY <1>1 DEF WriteLine, WriteFails, fileVars
<1>7. files' \in [Ids -> Seq(L)]
  BY <1>1, <1>4
<1>8. log' \in [Ids -> Seq(Records)]
  BY <1>1, <1>3, <1>5
<1>9. QED BY <1>6, <1>7, <1>8

LEMMA AppendWriteInv ==
  ASSUME IInv, NEW r \in Runs, AppendWrite(r)
  PROVE  IInv'
<1>0. /\ TypeOK /\ AllGood /\ Holding /\ AppendFindsFreshState
      /\ pc[r] = "write" /\ pc[r] \in Touched /\ mu = Nobody
      /\ UNCHANGED <<disk, mem, ses, sid, out, limit, work, line>>
  BY DEF IInv, AppendWrite, Touched, Labels, storeVars, runVars
<1>1. WriteLine(r) \/ WriteFails(r)
  BY DEF AppendWrite
<1>2. /\ files' \in [Ids -> Seq(Records \cup {Garbage})]
      /\ log' \in [Ids -> Seq(Records)]
      /\ torn' \subseteq Ids
  BY <1>0, <1>1, WriteTypes
<1>3. faults' \in Nat /\ restarts' \in Nat /\ acked' \subseteq Records
  BY <1>0, <1>1 DEF WriteLine, WriteFails, bounds, TypeOK
<1>4. \/ mu' = r /\ Goto(r, "store")
      \/ mu' = mu /\ \E label \in {"events", "done", "failed"} : Goto(r, label)
  BY <1>1 DEF WriteLine, WriteFails, AfterAppend
<1>5. r \in DirectRuns \/ mem[ses[r]].sig = limit
  BY <1>0 DEF AppendFindsFreshState, StateIsCurrent
<1>6. CASE mu' = r /\ Goto(r, "store")
  <2>1. pc' = [pc EXCEPT ![r] = "store"] /\ pc \in [Runs -> Labels] /\ "store" \in Labels
    BY <1>0, <1>6 DEF Goto, TypeOK, Labels
  <2>2. AllGood'
    BY <1>0 DEF AllGood
  <2>3. Holding'
    <3>1. SUFFICES ASSUME NEW x \in Runs
                   PROVE  /\ pc'[x] \notin Rebuilding
                          /\ pc'[x] = "store" => mu' = x
                          /\ pc'[x] \in Touched => mem[ses[x]] \in Entries
      BY <1>0 DEF Holding
    <3>2. pc[x] \notin Rebuilding \cup {"store"}
      BY <1>0, OutsideLock
    <3>3. CASE x = r
      BY <1>0, <1>6, <2>1, <3>3 DEF Holding, Rebuilding
    <3>4. CASE x # r
      BY <1>0, <2>1, <3>2, <3>4 DEF Holding
    <3>5. QED BY <3>3, <3>4
  <2>4. AppendFindsFreshState'
    BY <1>0, <1>5, <2>1 DEF AppendFindsFreshState, StateIsCurrent
  <2>5. TypeOK'
    BY <1>0, <1>2, <1>3, <1>6, <2>1 DEF TypeOK
  <2>6. QED BY <2>2, <2>3, <2>4, <2>5 DEF IInv
<1>7. ASSUME mu' = mu, NEW label \in {"events", "done", "failed"}, Goto(r, label)
      PROVE  IInv'
  <2>1. label \in Labels /\ label \notin Rebuilding \cup {"store"}
    BY DEF Labels, Rebuilding
  <2>2. AllGood' /\ Holding' /\ AppendFindsFreshState'
    BY <1>0, <1>5, <1>7, <2>1, MoveInv
  <2>3. TypeOK'
    BY <1>0, <1>2, <1>3, <1>7, <2>1 DEF TypeOK, Goto
  <2>4. QED BY <2>2, <2>3 DEF IInv
<1>8. QED BY <1>4, <1>6, <1>7

\* A crash: the map is the file again, and no run is inside the manager.
LEMMA RestartInv ==
  ASSUME IInv, Restart
  PROVE  IInv'
<1>0. /\ TypeOK /\ AllGood
      /\ mem' = disk /\ disk' = disk /\ mu' = Nobody /\ work' = NoEntry /\ line' = 0
      /\ limit' \in Limits /\ restarts' \in Nat
      /\ UNCHANGED <<files, torn, log, ses, sid, out, faults, acked>>
  BY DEF IInv, Restart, TypeOK, fileVars, runVars
<1>1. \A r \in Runs : pc'[r] \in Stopped \cup {"idle"}
  BY DEF Restart, Stopped
<1>2. pc' \in [Runs -> Labels]
  BY <1>0 DEF Restart, TypeOK, Labels, Stopped
<1>3. TypeOK'
  BY <1>0, <1>2 DEF TypeOK
<1>4. AllGood'
  BY <1>0 DEF AllGood
<1>5. Holding' /\ AppendFindsFreshState'
  BY <1>1 DEF Holding, AppendFindsFreshState, Rebuilding, Touched, Stopped, Labels
<1>6. QED BY <1>3, <1>4, <1>5 DEF IInv

LEMMA NextInv == IInv /\ [Next]_vars => IInv'
<1>1. SUFFICES ASSUME IInv, [Next]_vars PROVE IInv'
  OBVIOUS
<1>2. ASSUME NEW r \in Runs, Step(r) PROVE IInv'
  BY <1>1, <1>2, TouchInv, ModelContextInv, RebuildLineInv, RebuildDoneInv,
     RebuildFailsInv, SendEventInv, RunErrsInv, AppendWriteInv, AppendStoreInv DEF Step
<1>3. CASE Restart
  BY <1>1, <1>3, RestartInv
<1>4. CASE UNCHANGED vars
  BY <1>1, <1>4 DEF vars, IInv, TypeOK, AllGood, Holding, AppendFindsFreshState, StateIsCurrent
<1>5. QED BY <1>1, <1>2, <1>3, <1>4 DEF Next, AllStopped

\* The invariant of the manager, from which the theorems below follow.
LEMMA SpecInv == Spec => []IInv
<1>1. QED BY InitInv, NextInv, PTL DEF Spec

(***************************************************************************)
(* Type correctness: the store, the transcripts and the runs stay what     *)
(* FileStore and Manager (store.go, manager.go) declare them to be.        *)
(***************************************************************************)
THEOREM TypeCorrect == Spec => []TypeOK
<1>1. IInv => TypeOK
  BY DEF IInv
<1>2. QED BY <1>1, SpecInv, PTL

(***************************************************************************)
(* Window and count together are the messages consumed (manager.go:410-462)*)
(* for every entry in memory, on disk or being rebuilt, whatever crashes,  *)
(* failing writes and budget changes came before.                          *)
(***************************************************************************)
THEOREM RollingContext == Spec => []ContextIsTail
<1>1. IInv => ContextIsTail
  BY DEF IInv, AllGood, ContextIsTail, LiveEntries
<1>2. QED BY <1>1, SpecInv, PTL

(***************************************************************************)
(* The order Touch, ModelContext, Append of handleInbound (server.go:215-   *)
(* 239) makes the rebuild inside an append (manager.go:212) unreachable.   *)
(***************************************************************************)
THEOREM GatewayNeverRebuildsInAppend == Spec => []AppendFindsFreshState
<1>1. IInv => AppendFindsFreshState
  BY DEF IInv
<1>2. QED BY <1>1, SpecInv, PTL

-----------------------------------------------------------------------------
(* Who owns a transcript. *)

\* An id, once in the map or the file, stays the id of its session.
Names ==
  \A k \in SessionKeys : disk[k] # NoEntry => mem[k] # NoEntry /\ mem[k].id = disk[k].id

\* A touched run writes under an id that its session has in the file.
Owned ==
  /\ Names
  /\ \A r \in Runs : pc[r] \in Rebuilding => work.id = mem[ses[r]].id
  /\ \A r \in Runs : pc[r] \in Touched => disk[ses[r]] # NoEntry /\ disk[ses[r]].id = sid[r]
  /\ NoOrphanTranscript

Persists(map, next) ==
  \A k \in SessionKeys : map[k] # NoEntry => next[k] # NoEntry /\ next[k].id = map[k].id

\* Saving an entry under the id it has, successfully or not, renames nothing.
LEMMA PutPersists ==
  ASSUME TypeOK, Names, NEW k \in SessionKeys, NEW e \in Entries,
         mem[k] # NoEntry => e.id = mem[k].id,
         PutOk(k, e) \/ PutFails(k, e)
  PROVE  /\ Names' /\ Persists(mem, mem') /\ Persists(disk, disk')
         /\ mem'[k] = e /\ (disk' = mem' \/ disk' = disk)
<1>1. /\ mem' = [mem EXCEPT ![k] = e]
      /\ disk' = mem' \/ disk' = disk
  BY DEF PutOk, PutFails
<1>2. mem'[k] = e /\ \A j \in SessionKeys : j # k => mem'[j] = mem[j]
  BY <1>1 DEF TypeOK
<1>3. Persists(mem, mem')
  BY <1>2, NoEntryAssumption DEF Persists
<1>4. Names' /\ Persists(disk, disk')
  <2>1. CASE disk' = mem'
    BY <1>3, <2>1 DEF Names, Persists
  <2>2. CASE disk' = disk
    BY <1>3, <2>2 DEF Names, Persists
  <2> QED
    BY <1>1, <2>1, <2>2
<1> QED
  BY <1>1, <1>2, <1>3, <1>4

\* A step of one run that renames nothing keeps the owners.
LEMMA OwnedStep ==
  ASSUME Owned, Names', Persists(mem, mem'), Persists(disk, disk'), UNCHANGED <<files, ses>>,
         NEW r \in Runs,
         \A x \in Runs \ {r} : pc'[x] = pc[x] /\ sid'[x] = sid[x] /\ pc[x] \notin Rebuilding,
         pc'[r] \in Rebuilding => work'.id = mem'[ses[r]].id,
         pc'[r] \in Touched => disk'[ses[r]] # NoEntry /\ disk'[ses[r]].id = sid'[r],
         ses \in [Runs -> SessionKeys]
  PROVE  Owned'
<1>1. NoOrphanTranscript'
  BY DEF Owned, NoOrphanTranscript, Persists
<1>2. \A x \in Runs : pc'[x] \in Rebuilding => work'.id = mem'[ses[x]].id
  OBVIOUS
<1>3. \A x \in Runs : pc'[x] \in Touched => disk'[ses[x]] # NoEntry /\ disk'[ses[x]].id = sid'[x]
  <2> SUFFICES ASSUME NEW x \in Runs \ {r}, pc[x] \in Touched
               PROVE  disk'[ses[x]] # NoEntry /\ disk'[ses[x]].id = sid[x]
    OBVIOUS
  <2> QED
    BY DEF Owned, Persists
<1> QED
  BY <1>1, <1>2, <1>3 DEF Owned

LEMMA SameIds ==
  ASSUME NEW e \in Entries, NEW rec, NEW n
  PROVE  ApplyContextMessage(e, rec, n).id = e.id /\ ClearContext(e, n).id = e.id
BY DEF ApplyContextMessage, ClearContext, Entries

LEMMA InitOwned == Init => Owned
<1> SUFFICES ASSUME Init PROVE Owned
  OBVIOUS
<1>1. \A k \in LegacyKeys : disk[k] # NoEntry /\ disk[k].id = k /\ k \in SessionKeys
  <2> SUFFICES ASSUME NEW k \in LegacyKeys
               PROVE  disk[k] # NoEntry /\ disk[k].id = k /\ k \in SessionKeys
    OBVIOUS
  <2>1. k \in SessionKeys /\ disk[k] = NewEntry(k, NoSig)
    BY SessionsAssumption DEF Init
  <2>2. NewEntry(k, NoSig) \in Entries /\ NewEntry(k, NoSig).id = k
    BY NewEntryGood DEF GoodEntry, NewEntry, Ids
  <2> QED
    BY <2>1, <2>2, NoEntryAssumption
<1>2. NoOrphanTranscript
  BY <1>1 DEF Init, NoOrphanTranscript
<1> QED
  BY <1>2 DEF Init, Owned, Names, Rebuilding, Touched

LEMMA RestartOwned == IInv /\ Owned /\ Restart => Owned'
<1> SUFFICES ASSUME IInv, Owned, Restart PROVE Owned'
  OBVIOUS
<1>1. /\ mem' = disk /\ UNCHANGED <<disk, files>>
      /\ \A r \in Runs : pc'[r] \notin Touched /\ pc'[r] \notin Rebuilding
  BY DEF Restart, fileVars, Touched, Rebuilding, Stopped
<1> QED
  BY <1>1 DEF Owned, Names, NoOrphanTranscript

LEMMA StepOwned ==
  ASSUME IInv, Owned, NEW r \in Runs, Step(r)
  PROVE  Owned'
<1>0. TypeOK /\ Names /\ ses \in [Runs -> SessionKeys] /\ pc \in [Runs -> Labels]
      /\ sid \in [Runs -> Ids]
  BY DEF IInv, TypeOK, Owned
<1>1. Persists(mem, mem) /\ Persists(disk, disk)
  BY DEF Persists
<1>2. CASE Touch(r)
  <2>0. mu = Nobody /\ UNCHANGED <<files, ses>>
        /\ \A x \in Runs \ {r} : pc'[x] = pc[x] /\ sid'[x] = sid[x]
    BY <1>0, <1>2 DEF Touch, Goto, fileVars
  <2>1. TouchedEntry(r) \in Entries
        /\ (mem[ses[r]] # NoEntry => TouchedEntry(r).id = mem[ses[r]].id)
    BY <1>0, NewEntryGood DEF TouchedEntry, TypeOK, GoodEntry, Ids
  <2>2. /\ Names' /\ Persists(mem, mem') /\ Persists(disk, disk')
        /\ mem'[ses[r]] = TouchedEntry(r)
    BY <1>0, <1>2, <2>1, PutPersists DEF Touch
  <2>3. pc'[r] \notin Rebuilding
    BY <1>0, <1>2 DEF Touch, Goto, Rebuilding
  <2>4. pc'[r] \in Touched => disk'[ses[r]] # NoEntry /\ disk'[ses[r]].id = sid'[r]
    <3>1. CASE PutOk(ses[r], TouchedEntry(r)) /\ sid' = [sid EXCEPT ![r] = TouchedEntry(r).id]
      BY <1>0, <2>1, <2>2, <3>1, NoEntryAssumption DEF PutOk
    <3>2. CASE Goto(r, "failed")
      BY <1>0, <3>2 DEF Goto, Touched
    <3> QED
      BY <1>2, <3>1, <3>2 DEF Touch
  <2>5. \A x \in Runs : pc[x] \notin Rebuilding
    BY <2>0, OutsideLock
  <2> QED
    BY <1>0, <2>0, <2>2, <2>3, <2>4, <2>5, OwnedStep
<1>3. CASE ModelContext(r)
  <2>1. /\ mu = Nobody /\ pc[r] = "context" /\ UNCHANGED <<disk, mem, files, ses, sid>>
        /\ \A x \in Runs \ {r} : pc'[x] = pc[x]
        /\ pc'[r] = "write" \/ (pc'[r] = "rebuild" /\ work' = ClearContext(mem[ses[r]], limit))
    BY <1>0, <1>3 DEF ModelContext, StartRebuild, Goto, storeVars, fileVars, runVars
  <2>2. pc[r] \in Touched /\ mem[ses[r]] \in Entries
    BY <2>1, TouchedGood DEF Touched, Labels, GoodEntry
  <2>3. pc'[r] \in Rebuilding => work'.id = mem'[ses[r]].id
    BY <2>1, <2>2, SameIds DEF Rebuilding
  <2>4. disk'[ses[r]] # NoEntry /\ disk'[ses[r]].id = sid'[r]
    BY <2>1, <2>2 DEF Owned
  <2>5. \A x \in Runs : pc[x] \notin Rebuilding
    BY <2>1, OutsideLock
  <2> QED
    BY <1>0, <1>1, <2>1, <2>3, <2>4, <2>5, OwnedStep DEF Names
<1>4. CASE RebuildLine(r)
  <2>1. /\ pc[r] \in Rebuilding /\ UNCHANGED <<disk, mem, files, ses, sid, pc>>
        /\ \/ work' = work
           \/ work' = ApplyContextMessage(work, files[work.id][line + 1], limit)
    BY <1>4 DEF RebuildLine, Rebuilding, storeVars, fileVars, runVars
  <2>2. work \in Entries /\ pc[r] \in Touched
    BY <2>1 DEF IInv, Holding, Rebuilding, Touched, Labels
  <2>3. work'.id = mem'[ses[r]].id
    BY <2>1, <2>2, SameIds DEF Owned
  <2>4. disk'[ses[r]] # NoEntry /\ disk'[ses[r]].id = sid'[r]
    BY <2>1, <2>2 DEF Owned
  <2>5. \A x \in Runs \ {r} : pc[x] \notin Rebuilding
    BY <2>1, InsideLock
  <2> QED
    BY <1>0, <1>1, <2>1, <2>3, <2>4, <2>5, OwnedStep DEF Names
<1>5. CASE RebuildDone(r)
  <2>1. /\ pc[r] \in Rebuilding /\ UNCHANGED <<files, ses, sid>>
        /\ \A x \in Runs \ {r} : pc'[x] = pc[x]
        /\ pc'[r] \in {"write", "store", "failed"}
        /\ PutOk(ses[r], work) \/ PutFails(ses[r], work)
    BY <1>0, <1>5 DEF RebuildDone, Rebuilding, Goto, fileVars, runVars
  <2>2. work \in Entries /\ pc[r] \in Touched /\ work.id = mem[ses[r]].id
    BY <2>1 DEF IInv, Holding, Rebuilding, Touched, Labels, Owned
  <2>3. Names' /\ Persists(mem, mem') /\ Persists(disk, disk')
    BY <1>0, <2>1, <2>2, PutPersists
  <2>4. disk'[ses[r]] # NoEntry /\ disk'[ses[r]].id = sid'[r]
    BY <1>0, <2>1, <2>2, <2>3 DEF Owned, Persists
  <2>5. \A x \in Runs \ {r} : pc[x] \notin Rebuilding
    BY <2>1, InsideLock
  <2>6. pc'[r] \notin Rebuilding
    BY <2>1 DEF Rebuilding
  <2> QED
    BY <1>0, <2>1, <2>3, <2>4, <2>5, <2>6, OwnedStep
<1>6. CASE SendEvent(r) \/ RunErrs(r)
  <2>1. /\ pc[r] = "events" /\ UNCHANGED <<disk, mem, files, ses, sid, work>>
        /\ \A x \in Runs : pc'[x] = pc[x] \/ (x = r /\ pc'[x] \in {"write", "failed"})
    BY <1>0, <1>6 DEF SendEvent, RunErrs, Goto, storeVars, fileVars, runVars
  <2> QED
    BY <2>1 DEF Owned, Names, NoOrphanTranscript, Rebuilding, Touched, Labels
<1>7. CASE AppendWrite(r)
  <2>1. /\ pc[r] = "write" /\ UNCHANGED <<disk, mem, ses, sid, work>>
        /\ \A x \in Runs : pc'[x] = pc[x] \/ (x = r /\ pc'[x] \in {"store", "events", "done", "failed"})
        /\ \A i \in Ids : i # sid[r] => files'[i] = files[i]
    BY <1>0, <1>7 DEF AppendWrite, WriteLine, WriteFails, AfterAppend, Goto, storeVars, fileVars,
                      runVars, TypeOK
  <2>2. disk[ses[r]] # NoEntry /\ disk[ses[r]].id = sid[r] /\ ses[r] \in SessionKeys
    BY <1>0, <2>1 DEF Owned, Touched, Labels
  <2>3. NoOrphanTranscript'
    BY <2>1, <2>2 DEF Owned, NoOrphanTranscript
  <2> QED
    BY <2>1, <2>3 DEF Owned, Names, Rebuilding, Touched, Labels
<1>8. CASE AppendStore(r)
  <2>1. /\ pc[r] = "store" /\ UNCHANGED <<files, ses, sid>>
        /\ \A x \in Runs \ {r} : pc'[x] = pc[x]
    BY <1>0, <1>8 DEF AppendStore, Goto, fileVars, runVars
  <2>2. pc[r] \in Touched /\ mem[ses[r]] \in Entries /\ ses[r] \in SessionKeys
    BY <2>1, TouchedGood DEF Touched, Labels, GoodEntry
  <2>3. \A x \in Runs \ {r} : pc[x] \notin Rebuilding
    BY <2>1, InsideLock
  <2>4. disk[ses[r]] # NoEntry /\ disk[ses[r]].id = sid[r]
    BY <2>2 DEF Owned
  <2> DEFINE updated == ApplyContextMessage(mem[ses[r]], out[r], limit)
  <2>5. CASE StateIsCurrent(r) /\ (PutOk(ses[r], updated) \/ PutFails(ses[r], updated))
             /\ pc'[r] \in {"events", "done", "failed"}
    <3>1. updated \in Entries /\ updated.id = mem[ses[r]].id
      <4>1. /\ GoodEntry(mem[ses[r]]) /\ mem[ses[r]].sig = limit /\ out[r] \in Records
            /\ limit \in Limits
        BY <2>2, <2>5, TouchedGood DEF StateIsCurrent, IInv, TypeOK
      <4> QED
        BY <4>1, <2>2, ApplyGood, SameIds DEF GoodEntry
    <3> HIDE DEF updated
    <3>2. Names' /\ Persists(mem, mem') /\ Persists(disk, disk')
      BY <1>0, <2>2, <2>5, <3>1, PutPersists
    <3>3. pc'[r] \notin Rebuilding /\ disk'[ses[r]] # NoEntry /\ disk'[ses[r]].id = sid'[r]
      BY <2>1, <2>2, <2>4, <2>5, <3>2 DEF Persists, Rebuilding
    <3> QED
      BY <1>0, <2>1, <2>3, <3>2, <3>3, OwnedStep
  <2>6. CASE work' = ClearContext(mem[ses[r]], limit) /\ UNCHANGED <<disk, mem>>
    <3>1. work'.id = mem'[ses[r]].id /\ disk'[ses[r]] # NoEntry /\ disk'[ses[r]].id = sid'[r]
      BY <2>1, <2>2, <2>4, <2>6, SameIds
    <3> QED
      BY <1>0, <1>1, <2>1, <2>3, <2>6, <3>1, OwnedStep DEF Names
  <2> QED
    <3>1. \/ StateIsCurrent(r) /\ (PutOk(ses[r], updated) \/ PutFails(ses[r], updated))
             /\ pc'[r] \in {"events", "done", "failed"}
          \/ work' = ClearContext(mem[ses[r]], limit) /\ UNCHANGED <<disk, mem>>
      BY <1>0, <1>8 DEF AppendStore, StartRebuild, AfterAppend, Goto, storeVars
    <3> QED
      BY <2>5, <2>6, <3>1
<1>9. CASE RebuildFails(r)
  <2>1. /\ pc[r] \in Rebuilding /\ UNCHANGED <<disk, mem, files, ses, sid>>
        /\ \A x \in Runs : pc'[x] = IF x = r THEN "failed" ELSE pc[x]
    BY <1>0, <1>9 DEF RebuildFails, Rebuilding, Goto, storeVars, fileVars, runVars
  <2>2. \A x \in Runs \ {r} : pc[x] \notin Rebuilding
    BY <2>1, InsideLock
  <2> QED
    BY <2>1, <2>2 DEF Owned, Names, NoOrphanTranscript, Rebuilding, Touched
<1> QED
  BY <1>2, <1>3, <1>4, <1>5, <1>6, <1>7, <1>8, <1>9 DEF Step

LEMMA OwnedInv == Spec => []Owned
<1>1. IInv /\ Owned /\ [Next]_vars => Owned'
  <2> SUFFICES ASSUME IInv, Owned, [Next]_vars PROVE Owned'
    OBVIOUS
  <2>1. CASE UNCHANGED vars
    BY <2>1 DEF vars, Owned, Names, NoOrphanTranscript
  <2> QED
    BY <2>1, StepOwned, RestartOwned DEF Next, AllStopped
<1> QED
  BY <1>1, InitOwned, SpecInv, PTL DEF Spec

(***************************************************************************)
(* Touch saves the SessionID before anything is written under it, and no   *)
(* later Put gives a session another one: every transcript has its entry   *)
(* in sessions.json.                                                       *)
(***************************************************************************)
THEOREM EveryTranscriptHasAnEntry == Spec => []NoOrphanTranscript
<1>1. Owned => NoOrphanTranscript
  BY DEF Owned
<1> QED
  BY <1>1, OwnedInv, PTL

-----------------------------------------------------------------------------
(* Transcripts as sequences. *)

Lines == Records \cup {Garbage}

LEMMA GarbageIsNoRecord == Garbage \notin Records
BY SessionsAssumption DEF Garbage, Records, Ids

\* What one more element, or one less, does to the set of the elements.
LEMMA AppendSet ==
  ASSUME NEW S, NEW s \in Seq(S), NEW x \in S
  PROVE  ToSet(Append(s, x)) = ToSet(s) \cup {x}
<1>1. /\ Append(s, x) \in Seq(S) /\ Len(Append(s, x)) = Len(s) + 1 /\ Len(s) \in Nat
      /\ \A i \in 1..Len(s) : Append(s, x)[i] = s[i]
      /\ Append(s, x)[Len(s) + 1] = x
  BY AppendProperties, LenProperties
<1>2. DOMAIN s = 1..Len(s) /\ DOMAIN Append(s, x) = 1..(Len(s) + 1)
  BY <1>1, LenProperties
<1>3. 1..(Len(s) + 1) = (1..Len(s)) \cup {Len(s) + 1}
  BY <1>1
<1> QED
  BY <1>1, <1>2, <1>3 DEF ToSet

LEMMA FrontSet ==
  ASSUME NEW S, NEW s \in Seq(S), s # <<>>
  PROVE  /\ Front(s) \in Seq(S) /\ Len(Front(s)) = Len(s) - 1 /\ Len(s) \in Nat \ {0}
         /\ \A i \in 1..(Len(s) - 1) : Front(s)[i] = s[i]
         /\ ToSet(Front(s)) \subseteq ToSet(s)
         /\ \A x \in ToSet(s) : x # Last(s) => x \in ToSet(Front(s))
<1>1. Len(s) \in Nat \ {0} /\ \A i \in 1..Len(s) : s[i] \in S
  BY LenProperties, EmptySeq, ElementOfSeq
<1>2. /\ Front(s) \in Seq(S) /\ Len(Front(s)) = Len(s) - 1
      /\ \A i \in 1..(Len(s) - 1) : Front(s)[i] = s[i]
  <2> DEFINE n == Len(s) - 1
  <2>1. n \in Nat /\ 1 \in Int /\ n \in Int /\ \A i \in 1..n : s[i] \in S
    BY <1>1
  <2> HIDE DEF n
  <2>2. /\ SubSeq(s, 1, n) \in Seq(S)
        /\ Len(SubSeq(s, 1, n)) = IF 1 <= n THEN n - 1 + 1 ELSE 0
        /\ \A i \in 1..(n - 1 + 1) : SubSeq(s, 1, n)[i] = s[1 + i - 1]
    BY <2>1, SubSeqProperties
  <2>3. Front(s) = SubSeq(s, 1, n)
    BY DEF Front, n
  <2>4. n - 1 + 1 = n /\ (~(1 <= n) => n = 0) /\ \A i \in 1..n : 1 + i - 1 = i
    BY <2>1
  <2>5. Front(s) \in Seq(S) /\ Len(Front(s)) = n /\ \A i \in 1..n : Front(s)[i] = s[i]
    BY <2>2, <2>3, <2>4
  <2> QED
    BY <2>5 DEF n
<1>3. DOMAIN s = 1..Len(s) /\ DOMAIN Front(s) = 1..(Len(s) - 1)
  BY <1>1, <1>2, LenProperties
<1>4. 1..Len(s) = (1..(Len(s) - 1)) \cup {Len(s)}
  BY <1>1
<1> QED
  BY <1>1, <1>2, <1>3, <1>4 DEF ToSet, Last

\* The elements of a sequence, by their places.
LEMMA SetOf ==
  ASSUME NEW S, NEW s \in Seq(S)
  PROVE  /\ ToSet(s) \subseteq S /\ DOMAIN s = 1..Len(s) /\ Len(s) \in Nat
         /\ \A x : x \in ToSet(s) <=> \E i \in 1..Len(s) : s[i] = x
<1>1. DOMAIN s = 1..Len(s) /\ Len(s) \in Nat /\ \A i \in 1..Len(s) : s[i] \in S
  BY LenProperties, ElementOfSeq
<1> QED
  BY <1>1 DEF ToSet

-----------------------------------------------------------------------------
(* A record is written once. *)

RecordsOf(r) ==
  {UserRecord(r), AgentRecord(r, "message_chunk"), AgentRecord(r, "message")}

\* What handleInbound may append after a record, and what a run may still write.
Later(rec) ==
  IF rec.role = "user"
  THEN {AgentRecord(rec.by, "message_chunk"), AgentRecord(rec.by, "message")}
  ELSE IF rec.type = "message_chunk" THEN {AgentRecord(rec.by, "message")} ELSE {}

Storing == {"store", "rebuildInAppend"}
Before == {"idle", "context", "rebuild", "write"}

Ahead(r) ==
  (IF pc[r] \in Before THEN {out[r]} ELSE {}) \cup
  (IF pc[r] \in Stopped THEN {} ELSE Later(out[r]))

\* In the transcript, not yet in the store: its append still holds m.mu.
Pending == {out[r] : r \in {x \in Runs : pc[x] \in Storing}}
Settled == acked \cup Pending

Fresh ==
  /\ \A r \in Runs :
       /\ out[r] \in RecordsOf(r)
       /\ pc[r] = "idle" => out[r] = UserRecord(r)
       /\ pc[r] = "events" => out[r] # AgentRecord(r, "message")
       /\ \A id \in Ids : \A rec \in Ahead(r) : rec \notin ToSet(log[id])
  /\ \A id \in Ids : \A rec \in ToSet(log[id]) :
       rec.by \in Runs => rec \in RecordsOf(rec.by) /\ sid[rec.by] = id
  /\ \A rec \in Settled : rec.by \in Runs /\ rec \in ToSet(log[sid[rec.by]])

LEMMA RecordsOfRun ==
  ASSUME NEW r \in Runs
  PROVE  /\ RecordsOf(r) \subseteq Records
         /\ \A rec \in RecordsOf(r) :
              rec.by = r /\ rec \notin Later(rec) /\ Later(rec) \subseteq RecordsOf(r)
         /\ {UserRecord(r)} \cup Later(UserRecord(r)) = RecordsOf(r)
         /\ AgentRecord(r, "message") \in Later(UserRecord(r))
         /\ AgentRecord(r, "message_chunk") \in Later(UserRecord(r))
         /\ \A rec \in RecordsOf(r) : rec # AgentRecord(r, "message") =>
              AgentRecord(r, "message") \in Later(rec)
         /\ Later(AgentRecord(r, "message_chunk")) \subseteq Later(UserRecord(r))
         /\ Later(AgentRecord(r, "message")) = {}
         /\ AfterAppend(AgentRecord(r, "message")) = "done"
<1>1. /\ UserRecord(r) = [by |-> r, role |-> "user", type |-> "message",
                          blank |-> r \in BlankRuns]
      /\ AgentRecord(r, "message") =
           [by |-> r, role |-> "assistant", type |-> "message", blank |-> FALSE]
      /\ AgentRecord(r, "message_chunk") =
           [by |-> r, role |-> "assistant", type |-> "message_chunk", blank |-> FALSE]
  BY DEF UserRecord, AgentRecord
<1>2. RecordsOf(r) \subseteq Records
  <2>1. UserRecord(r) \in Records
    BY DEF UserRecord, Records, Roles, Types, Ids
  <2>2. AgentRecord(r, "message") \in Records /\ AgentRecord(r, "message_chunk") \in Records
    BY DEF AgentRecord, Records, Roles, Types, Ids
  <2> QED
    BY <2>1, <2>2 DEF RecordsOf
<1>3. /\ Later(UserRecord(r)) = {AgentRecord(r, "message_chunk"), AgentRecord(r, "message")}
      /\ Later(AgentRecord(r, "message_chunk")) = {AgentRecord(r, "message")}
      /\ Later(AgentRecord(r, "message")) = {}
  BY <1>1 DEF Later
<1>4. /\ UserRecord(r) # AgentRecord(r, "message_chunk")
      /\ UserRecord(r) # AgentRecord(r, "message")
      /\ AgentRecord(r, "message_chunk") # AgentRecord(r, "message")
      /\ UserRecord(r).by = r /\ AgentRecord(r, "message").by = r
      /\ AgentRecord(r, "message_chunk").by = r
      /\ AfterAppend(AgentRecord(r, "message")) = "done"
  BY <1>1 DEF AfterAppend
<1> HIDE DEF UserRecord, AgentRecord
<1> QED
  BY <1>2, <1>3, <1>4 DEF RecordsOf

-----------------------------------------------------------------------------
(* The steps of one run, as far as its transcript is concerned. *)

\* A line reaches the file, alone or behind the unterminated one it swallows...
Landed(r) ==
  /\ files'[sid[r]] = IF sid[r] \in torn THEN Append(Front(files[sid[r]]), Garbage)
                                         ELSE Append(files[sid[r]], out[r])
  /\ log'[sid[r]] = Append(log[sid[r]], out[r])
  /\ torn' = torn \ {sid[r]}
  /\ faults' = faults
  /\ \/ IsContextMessage(out[r]) /\ mu' = r /\ pc'[r] = "store" /\ acked' = acked
     \/ /\ ~IsContextMessage(out[r]) /\ mu' = mu
        /\ pc'[r] = AfterAppend(out[r]) /\ acked' = acked \cup {out[r]}

\* ...or the write fails: with nothing, a part, or all but the newline written.
Broke(r) ==
  /\ faults' = faults + 1
  /\ pc'[r] = "failed" /\ mu' = mu /\ acked' = acked
  /\ \/ UNCHANGED <<files, log, torn>>
     \/ /\ files'[sid[r]] = IF sid[r] \in torn THEN Append(Front(files[sid[r]]), Garbage)
                                               ELSE Append(files[sid[r]], Garbage)
        /\ log' = log /\ torn' = torn \cup {sid[r]}
     \/ /\ sid[r] \notin torn
        /\ files'[sid[r]] = Append(files[sid[r]], out[r])
        /\ log'[sid[r]] = Append(log[sid[r]], out[r])
        /\ torn' = torn \cup {sid[r]}

LEMMA WriteShape ==
  ASSUME TypeOK, NEW r \in Runs, AppendWrite(r)
  PROVE  /\ Landed(r) \/ Broke(r)
         /\ pc[r] = "write" /\ mu = Nobody
         /\ UNCHANGED <<disk, mem, ses, sid, out, limit, work, line, restarts>>
         /\ \A x \in Runs \ {r} : pc'[x] = pc[x]
         /\ \A id \in Ids \ {sid[r]} : files'[id] = files[id] /\ log'[id] = log[id]
<1>1. /\ DOMAIN files = Ids /\ DOMAIN log = Ids /\ DOMAIN pc = Runs /\ sid[r] \in Ids
  BY DEF TypeOK
<1>2. CASE WriteLine(r)
  <2>1. Landed(r)
    BY <1>1, <1>2 DEF WriteLine, Landed, Goto, bounds
  <2>2. /\ \A x \in Runs \ {r} : pc'[x] = pc[x]
        /\ \A id \in Ids \ {sid[r]} : files'[id] = files[id] /\ log'[id] = log[id]
        /\ restarts' = restarts
    BY <1>1, <1>2 DEF WriteLine, Goto, bounds
  <2> QED
    BY <2>1, <2>2 DEF AppendWrite, storeVars, runVars
<1>3. CASE WriteFails(r)
  <2>1. Broke(r)
    BY <1>1, <1>3 DEF WriteFails, Broke, Goto, fileVars
  <2>2. /\ \A x \in Runs \ {r} : pc'[x] = pc[x]
        /\ \A id \in Ids \ {sid[r]} : files'[id] = files[id] /\ log'[id] = log[id]
        /\ restarts' = restarts
    BY <1>1, <1>3 DEF WriteFails, Goto, fileVars
  <2> QED
    BY <2>1, <2>2 DEF AppendWrite, storeVars, runVars
<1> QED
  BY <1>2, <1>3 DEF AppendWrite

\* How a run moves in the other steps: its place, its record and the answer.
Moves(r) ==
  \/ pc[r] = "idle" /\ pc'[r] \in {"context", "write", "failed"} /\ out' = out /\ acked' = acked
  \/ /\ sid' = sid
     /\ \/ pc[r] = "context" /\ pc'[r] \in {"rebuild", "write"} /\ out' = out /\ acked' = acked
        \/ pc[r] \in Rebuilding /\ pc'[r] = pc[r] /\ out' = out /\ acked' = acked
        \/ pc[r] = "rebuild" /\ pc'[r] \in {"write", "failed"} /\ out' = out /\ acked' = acked
        \/ /\ pc[r] = "rebuildInAppend" /\ pc'[r] \in {"store", "failed"}
           /\ out' = out /\ acked' = acked
        \/ /\ pc[r] = "store" /\ pc'[r] \in {"rebuildInAppend", "failed"}
           /\ out' = out /\ acked' = acked
        \/ /\ pc[r] = "store" /\ pc'[r] = AfterAppend(out[r])
           /\ out' = out /\ acked' = acked \cup {out[r]}
        \/ pc[r] = "events" /\ pc'[r] = "failed" /\ out' = out /\ acked' = acked
        \/ /\ pc[r] = "events" /\ pc'[r] = "write" /\ acked' = acked
           /\ \/ out'[r] = AgentRecord(r, "message")
              \/ out[r] = UserRecord(r) /\ out'[r] = AgentRecord(r, "message_chunk")

LEMMA StepShape ==
  ASSUME TypeOK, NEW r \in Runs, Step(r), ~AppendWrite(r)
  PROVE  /\ UNCHANGED <<files, log, torn, ses, limit, restarts>>
         /\ \A x \in Runs \ {r} : pc'[x] = pc[x] /\ sid'[x] = sid[x] /\ out'[x] = out[x]
         /\ Moves(r)
<1>1. DOMAIN pc = Runs /\ DOMAIN sid = Runs /\ DOMAIN out = Runs
  BY DEF TypeOK
<1>2. CASE Touch(r)
  <2>1. /\ UNCHANGED <<files, log, torn, ses, limit, restarts, out, acked>>
        /\ pc'[r] \in {"context", "write", "failed"} /\ pc[r] = "idle"
    BY <1>1, <1>2 DEF Touch, Goto, fileVars, PutOk, PutFails, bounds
  <2>2. \A x \in Runs \ {r} : pc'[x] = pc[x] /\ sid'[x] = sid[x]
    BY <1>1, <1>2 DEF Touch, Goto
  <2> QED
    BY <2>1, <2>2 DEF Moves
<1>3. CASE ModelContext(r)
  BY <1>1, <1>3 DEF ModelContext, Moves, Goto, fileVars, runVars, bounds
<1>4. CASE RebuildLine(r)
  BY <1>4 DEF RebuildLine, Moves, Rebuilding, fileVars, runVars, bounds
<1>5. CASE RebuildDone(r)
  <2>1. /\ UNCHANGED <<files, log, torn, ses, limit, restarts, out, acked, sid>>
        /\ \/ pc[r] = "rebuild" /\ pc'[r] \in {"write", "failed"}
           \/ pc[r] = "rebuildInAppend" /\ pc'[r] \in {"store", "failed"}
    BY <1>1, <1>5 DEF RebuildDone, Goto, fileVars, runVars, PutOk, PutFails, bounds
  <2>2. \A x \in Runs \ {r} : pc'[x] = pc[x]
    BY <1>1, <1>5 DEF RebuildDone, Goto
  <2> QED
    BY <2>1, <2>2 DEF Moves
<1>6. CASE SendEvent(r)
  BY <1>1, <1>6 DEF SendEvent, Moves, Goto, fileVars, storeVars, bounds
<1>7. CASE RunErrs(r)
  BY <1>1, <1>7 DEF RunErrs, Moves, Goto, fileVars, runVars, bounds
<1>8. CASE AppendStore(r)
  <2>1. UNCHANGED <<files, log, torn, ses, limit, restarts, out, sid>> /\ pc[r] = "store"
    BY <1>8 DEF AppendStore, fileVars, runVars, PutOk, PutFails, bounds
  <2>2. \/ pc'[r] \in {"rebuildInAppend", "failed"} /\ acked' = acked
        \/ pc'[r] = AfterAppend(out[r]) /\ acked' = acked \cup {out[r]}
    BY <1>1, <1>8 DEF AppendStore, Goto
  <2>3. \A x \in Runs \ {r} : pc'[x] = pc[x]
    BY <1>1, <1>8 DEF AppendStore, Goto
  <2> QED
    BY <2>1, <2>2, <2>3 DEF Moves
<1>9. CASE RebuildFails(r)
  BY <1>1, <1>9 DEF RebuildFails, Moves, Goto, fileVars, runVars
<1> QED
  BY <1>2, <1>3, <1>4, <1>5, <1>6, <1>7, <1>8, <1>9 DEF Step

-----------------------------------------------------------------------------
(* The rows of a legacy session are its own. *)
LEMMA LegacyLines ==
  ASSUME Init, NEW id \in Ids
  PROVE  /\ files[id] \in Seq(Records) /\ log[id] = files[id]
         /\ \A rec \in ToSet(log[id]) : rec.by \notin Runs
<1>1. CASE id \in LegacyKeys
  <2>1. files[id] = LegacyRows(id) /\ log[id] = files[id]
    BY <1>1 DEF Init
  <2>2. LegacyRows(id) \in Seq(Records) /\ DOMAIN LegacyRows(id) = 1..3
    BY DEF LegacyRows, Records, Roles, Types
  <2>3. \A i \in 1..3 : LegacyRows(id)[i].by = id
    BY DEF LegacyRows
  <2>4. \A rec \in ToSet(LegacyRows(id)) : rec.by = id
    BY <2>2, <2>3 DEF ToSet
  <2> QED
    BY <1>1, <2>1, <2>2, <2>4, SessionsAssumption
<1>2. CASE id \notin LegacyKeys
  <2>1. files[id] = <<>> /\ log[id] = files[id]
    BY <1>2 DEF Init
  <2>2. <<>> \in Seq(Records) /\ ToSet(<<>>) = {}
    BY EmptySeq DEF ToSet
  <2> QED
    BY <2>1, <2>2
<1> QED
  BY <1>1, <1>2

LEMMA InitFresh == Init => Fresh
<1> SUFFICES ASSUME Init PROVE Fresh
  OBVIOUS
<1>1. \A r \in Runs : pc[r] = "idle" /\ out[r] = UserRecord(r)
  BY DEF Init
<1>2. ASSUME NEW r \in Runs, NEW id \in Ids, NEW rec \in Ahead(r)
      PROVE  rec \notin ToSet(log[id])
  <2>1. rec.by = r
    BY <1>1, RecordsOfRun DEF Ahead, Before, Stopped, RecordsOf
  <2> QED
    BY <2>1, LegacyLines
<1>3. Settled = {}
  BY <1>1 DEF Settled, Pending, Storing, Init
<1>4. \A r \in Runs : out[r] \in RecordsOf(r)
  BY <1>1 DEF RecordsOf
<1> QED
  BY <1>1, <1>2, <1>3, <1>4, LegacyLines DEF Fresh

\* Outside of a write: what a run may still write, and what is settled, only shrinks.
LEMMA AheadShrinks ==
  ASSUME Fresh, NEW r \in Runs, Moves(r)
  PROVE  /\ out'[r] \in RecordsOf(r)
         /\ pc'[r] # "idle"
         /\ pc'[r] = "events" => out'[r] # AgentRecord(r, "message")
         /\ Ahead(r)' \subseteq Ahead(r)
<1>1. out[r] \in RecordsOf(r) /\ (pc[r] = "events" => out[r] # AgentRecord(r, "message"))
  BY DEF Fresh
<1>2. CASE pc[r] = "events" /\ pc'[r] = "write"
           /\ (\/ out'[r] = AgentRecord(r, "message")
               \/ out[r] = UserRecord(r) /\ out'[r] = AgentRecord(r, "message_chunk"))
  <2>1. out'[r] \in RecordsOf(r) /\ out'[r] \in Later(out[r])
        /\ Later(out'[r]) \subseteq Later(out[r])
    BY <1>1, <1>2, RecordsOfRun DEF RecordsOf
  <2> QED
    BY <1>2, <2>1 DEF Ahead, Before, Stopped
<1>3. CASE out' = out /\ ~(pc[r] = "events" /\ pc'[r] = "write")
  <2>1. /\ pc'[r] # "idle" /\ (pc[r] \in Stopped => pc'[r] \in Stopped)
        /\ (pc'[r] \in Before => pc[r] \in Before)
        /\ (pc'[r] = "events" => AfterAppend(out[r]) = "events")
    BY <1>3 DEF Moves, Before, Stopped, Rebuilding, AfterAppend
  <2>2. Ahead(r)' \subseteq Ahead(r)
    BY <1>3, <2>1 DEF Ahead
  <2>3. pc'[r] = "events" => out'[r] # AgentRecord(r, "message")
    BY <1>3, <2>1, RecordsOfRun
  <2> QED
    BY <1>1, <1>3, <2>1, <2>2, <2>3
<1> QED
  BY <1>2, <1>3 DEF Moves

\* A run that has not begun has nothing in any transcript.
LEMMA IdleIsUnknown ==
  ASSUME TypeOK, Fresh, NEW r \in Runs, pc[r] = "idle"
  PROVE  /\ \A rec \in Settled : rec.by # r
         /\ \A id \in Ids : \A rec \in ToSet(log[id]) : rec.by # r
<1>1. Ahead(r) = RecordsOf(r)
  BY RecordsOfRun DEF Fresh, Ahead, Before, Stopped
<1>2. \A id \in Ids : \A rec \in ToSet(log[id]) : rec.by # r
  BY <1>1 DEF Fresh
<1> QED
  BY <1>2 DEF Fresh, TypeOK

LEMMA SettledShrinks ==
  ASSUME NEW r \in Runs, Moves(r),
         \A x \in Runs \ {r} : pc'[x] = pc[x] /\ out'[x] = out[x]
  PROVE  Settled' \subseteq Settled
<1>1. pc'[r] \in Storing => pc[r] \in Storing /\ out'[r] = out[r]
  BY DEF Moves, Storing, Rebuilding, AfterAppend
<1>2. Pending' \subseteq Pending
  BY <1>1 DEF Pending
<1>3. acked' \subseteq acked \cup Pending
  BY DEF Moves, Pending, Storing
<1> QED
  BY <1>2, <1>3 DEF Settled

LEMMA MoveFresh ==
  ASSUME TypeOK, Fresh, NEW r \in Runs, Step(r), ~AppendWrite(r)
  PROVE  Fresh'
<1>1. /\ log' = log /\ Moves(r)
      /\ \A x \in Runs \ {r} : pc'[x] = pc[x] /\ sid'[x] = sid[x] /\ out'[x] = out[x]
  BY StepShape
<1>2. Settled' \subseteq Settled
  BY <1>1, SettledShrinks
<1>3. sid'[r] = sid[r] \/ pc[r] = "idle"
  BY <1>1 DEF Moves
<1>4. /\ out'[r] \in RecordsOf(r) /\ pc'[r] # "idle"
      /\ pc'[r] = "events" => out'[r] # AgentRecord(r, "message")
      /\ Ahead(r)' \subseteq Ahead(r)
  BY <1>1, AheadShrinks
<1>5. \A x \in Runs \ {r} : Ahead(x)' = Ahead(x)
  BY <1>1 DEF Ahead
<1>6. \A x \in Runs :
        /\ out'[x] \in RecordsOf(x)
        /\ pc'[x] = "idle" => out'[x] = UserRecord(x)
        /\ pc'[x] = "events" => out'[x] # AgentRecord(x, "message")
        /\ \A id \in Ids : \A rec \in Ahead(x)' : rec \notin ToSet(log'[id])
  BY <1>1, <1>4, <1>5 DEF Fresh
<1>7. \A rec \in Settled' : rec.by \in Runs /\ rec \in ToSet(log'[sid'[rec.by]])
  <2> SUFFICES ASSUME NEW rec \in Settled'
               PROVE  rec.by \in Runs /\ rec \in ToSet(log[sid'[rec.by]])
    BY <1>1
  <2>1. rec \in Settled /\ rec.by \in Runs /\ rec \in ToSet(log[sid[rec.by]])
    BY <1>2 DEF Fresh
  <2>2. sid'[rec.by] = sid[rec.by]
    BY <1>1, <1>3, <2>1, IdleIsUnknown
  <2> QED
    BY <2>1, <2>2
<1>8. \A id \in Ids : \A rec \in ToSet(log'[id]) :
        rec.by \in Runs => rec \in RecordsOf(rec.by) /\ sid'[rec.by] = id
  <2> SUFFICES ASSUME NEW id \in Ids, NEW rec \in ToSet(log[id]), rec.by \in Runs
               PROVE  rec \in RecordsOf(rec.by) /\ sid'[rec.by] = id
    BY <1>1
  <2>1. sid'[rec.by] = sid[rec.by]
    BY <1>1, <1>3, IdleIsUnknown
  <2> QED
    BY <2>1 DEF Fresh
<1> QED
  BY <1>1, <1>6, <1>7, <1>8 DEF Fresh

LEMMA WriteFresh ==
  ASSUME TypeOK, Fresh, NEW r \in Runs, AppendWrite(r)
  PROVE  Fresh'
<1> DEFINE i == sid[r]
<1>1. /\ Landed(r) \/ Broke(r)
      /\ pc[r] = "write" /\ UNCHANGED <<sid, out>>
      /\ \A x \in Runs \ {r} : pc'[x] = pc[x]
      /\ \A id \in Ids \ {i} : log'[id] = log[id]
  BY WriteShape
<1>2. i \in Ids /\ log[i] \in Seq(Records) /\ out[r] \in Records
  BY DEF TypeOK
<1>3. \/ log' = log
      \/ log'[i] = Append(log[i], out[r])
  BY <1>1 DEF Landed, Broke
<1>a. ToSet(Append(log[i], out[r])) = ToSet(log[i]) \cup {out[r]}
  BY <1>2, AppendSet
<1>4. \A id \in Ids : ToSet(log[id]) \subseteq ToSet(log'[id])
                      /\ ToSet(log'[id]) \subseteq ToSet(log[id]) \cup {out[r]}
  BY <1>1, <1>3, <1>a
<1>5. out[r] \in RecordsOf(r) /\ out[r].by = r /\ out[r] \notin Later(out[r])
      /\ Later(out[r]) \subseteq RecordsOf(r)
  BY RecordsOfRun DEF Fresh
<1>6. pc'[r] \in {"store", "events", "done", "failed"}
      /\ (pc'[r] = "events" => out[r] # AgentRecord(r, "message"))
  BY <1>1, RecordsOfRun DEF Landed, Broke, AfterAppend
<1>7. Ahead(r)' \subseteq Later(out[r]) /\ Later(out[r]) \subseteq Ahead(r)
  BY <1>1, <1>6 DEF Ahead, Before, Stopped
<1>8. \A x \in Runs \ {r} : Ahead(x)' = Ahead(x) /\ out[r] \notin Ahead(x)
  <2> SUFFICES ASSUME NEW x \in Runs \ {r} PROVE Ahead(x)' = Ahead(x) /\ out[r] \notin Ahead(x)
    OBVIOUS
  <2>1. Ahead(x) \subseteq RecordsOf(x)
    BY RecordsOfRun DEF Ahead, Fresh
  <2>2. \A rec \in Ahead(x) : rec.by = x
    BY <2>1, RecordsOfRun
  <2>3. Ahead(x)' = Ahead(x)
    BY <1>1 DEF Ahead
  <2> QED
    BY <1>5, <2>2, <2>3
<1>9. \A x \in Runs :
        /\ out'[x] \in RecordsOf(x)
        /\ pc'[x] = "idle" => out'[x] = UserRecord(x)
        /\ pc'[x] = "events" => out'[x] # AgentRecord(x, "message")
        /\ \A id \in Ids : \A rec \in Ahead(x)' : rec \notin ToSet(log'[id])
  <2>1. \A id \in Ids : \A rec \in Ahead(r)' : rec \notin ToSet(log'[id])
    BY <1>4, <1>5, <1>7 DEF Fresh
  <2>2. \A x \in Runs \ {r} : \A id \in Ids : \A rec \in Ahead(x)' : rec \notin ToSet(log'[id])
    BY <1>4, <1>8 DEF Fresh
  <2> QED
    BY <1>1, <1>6, <2>1, <2>2 DEF Fresh
<1>10. \A id \in Ids : \A rec \in ToSet(log'[id]) :
         rec.by \in Runs => rec \in RecordsOf(rec.by) /\ sid'[rec.by] = id
  <2> SUFFICES ASSUME NEW id \in Ids, NEW rec \in ToSet(log'[id]), rec.by \in Runs
               PROVE  rec \in RecordsOf(rec.by) /\ sid[rec.by] = id
    BY <1>1
  <2>1. CASE rec \in ToSet(log[id])
    BY <2>1 DEF Fresh
  <2>2. CASE rec = out[r] /\ id = i
    BY <1>5, <2>2
  <2> QED
    BY <1>1, <1>4, <2>1, <2>2
<1>11. \A rec \in Settled' : rec.by \in Runs /\ rec \in ToSet(log'[sid'[rec.by]])
  <2> SUFFICES ASSUME NEW rec \in Settled'
               PROVE  rec.by \in Runs /\ rec \in ToSet(log'[sid[rec.by]])
    BY <1>1
  <2>1. rec \in Settled \/ (rec = out[r] /\ Landed(r))
    BY <1>1 DEF Settled, Pending, Landed, Broke, Storing
  <2>2. CASE rec \in Settled
    BY <1>4, <2>2 DEF Fresh, TypeOK
  <2>3. CASE rec = out[r] /\ Landed(r)
    BY <1>5, <1>a, <2>3 DEF Landed
  <2> QED
    BY <2>1, <2>2, <2>3
<1> QED
  BY <1>9, <1>10, <1>11 DEF Fresh

LEMMA RestartFresh == Fresh /\ Restart => Fresh'
<1> SUFFICES ASSUME Fresh, Restart PROVE Fresh'
  OBVIOUS
<1>1. /\ UNCHANGED <<log, sid, out, acked>>
      /\ \A r \in Runs : pc'[r] = pc[r] \/ pc'[r] = "failed"
      /\ \A r \in Runs : pc'[r] \in Stopped \cup {"idle"}
  BY DEF Restart, fileVars, runVars, Stopped
<1>2. \A r \in Runs : Ahead(r)' \subseteq Ahead(r)
  BY <1>1 DEF Ahead, Before, Stopped
<1>3. Pending' = {}
  BY <1>1 DEF Pending, Storing, Stopped
<1>4. Settled' \subseteq Settled
  BY <1>1, <1>3 DEF Settled
<1> QED
  BY <1>1, <1>2, <1>4 DEF Fresh

LEMMA FreshInv == Spec => []Fresh
<1>1. IInv /\ Fresh /\ [Next]_vars => Fresh'
  <2> SUFFICES ASSUME IInv, Fresh, [Next]_vars PROVE Fresh'
    OBVIOUS
  <2>1. CASE UNCHANGED vars
    BY <2>1 DEF vars, Fresh, Settled, Pending, Ahead
  <2> QED
    BY <2>1, MoveFresh, WriteFresh, RestartFresh DEF Next, AllStopped, IInv
<1> QED
  BY <1>1, InitFresh, SpecInv, PTL DEF Spec

-----------------------------------------------------------------------------
(* What the operations do to an entry, and a Put to the store. *)

LEMMA EntryShape ==
  ASSUME NEW e \in Entries, NEW rec, NEW n
  PROVE  /\ ApplyContextMessage(e, rec, n).folded = Append(e.folded, rec)
         /\ ApplyContextMessage(e, rec, n).id = e.id
         /\ ApplyContextMessage(e, rec, n).sig = e.sig
         /\ ClearContext(e, n).folded = <<>> /\ ClearContext(e, n).id = e.id
         /\ e.folded \in Seq(Records) /\ e.id \in Ids
BY DEF ApplyContextMessage, ClearContext, Entries

LEMMA PutShape ==
  ASSUME TypeOK, NEW k \in SessionKeys, NEW e, PutOk(k, e) \/ PutFails(k, e)
  PROVE  /\ mem'[k] = e /\ \A j \in SessionKeys \ {k} : mem'[j] = mem[j]
         /\ \/ disk' = mem' /\ faults' = faults
            \/ disk' = disk /\ faults' = faults + 1
BY DEF PutOk, PutFails, TypeOK, bounds

-----------------------------------------------------------------------------
(* A rebuild gathers the readable messages of the lines it has read. *)

LEMMA ReadableType ==
  ASSUME NEW lines, NEW n \in Nat
  PROVE  /\ IsFiniteSet({i \in 1..n : IsReadableMessage(lines[i])})
         /\ ReadableUpTo(lines, n) \in Nat
<1>1. IsFiniteSet(1..n)
  BY FS_Interval
<1>2. {i \in 1..n : IsReadableMessage(lines[i])} \in SUBSET (1..n)
  OBVIOUS
<1>3. IsFiniteSet({i \in 1..n : IsReadableMessage(lines[i])})
  BY <1>1, <1>2, FS_Subset
<1> QED
  BY <1>3, FS_CardinalityType DEF ReadableUpTo

\* The count moves with every readable message, and with nothing else.
LEMMA ReadableNext ==
  ASSUME NEW lines, NEW n \in Nat
  PROVE  /\ ReadableUpTo(lines, 0) = 0
         /\ ReadableUpTo(lines, n + 1) = IF IsReadableMessage(lines[n + 1])
                                         THEN ReadableUpTo(lines, n) + 1
                                         ELSE ReadableUpTo(lines, n)
<1> DEFINE Up(m) == {i \in 1..m : IsReadableMessage(lines[i])}
<1>1. Up(0) = {}
  OBVIOUS
<1>2. IsFiniteSet(Up(n)) /\ n + 1 \notin Up(n)
  BY ReadableType
<1>3. Up(n + 1) = IF IsReadableMessage(lines[n + 1]) THEN Up(n) \cup {n + 1} ELSE Up(n)
  <2>1. 1..(n + 1) = (1..n) \cup {n + 1}
    OBVIOUS
  <2> QED
    BY <2>1
<1> HIDE DEF Up
<1>4. Cardinality(Up(n) \cup {n + 1}) = Cardinality(Up(n)) + 1
  BY <1>2, FS_AddElement
<1>5. Cardinality(Up(0)) = 0
  BY <1>1, FS_EmptySet
<1>6. \A m : ReadableUpTo(lines, m) = Cardinality(Up(m))
  BY DEF ReadableUpTo, Up
<1> QED
  BY <1>3, <1>4, <1>5, <1>6

\* A readable message is counted at its own place.
LEMMA ReadableRank ==
  ASSUME NEW lines, NEW n \in Nat, NEW j \in 1..n, IsReadableMessage(lines[j])
  PROVE  ReadableUpTo(lines, j) \in 1..ReadableUpTo(lines, n)
<1> DEFINE Up(m) == {i \in 1..m : IsReadableMessage(lines[i])}
<1>1. /\ IsFiniteSet(Up(n)) /\ IsFiniteSet(Up(j)) /\ j \in Nat
      /\ Cardinality(Up(n)) \in Nat /\ Cardinality(Up(j)) \in Nat
  BY ReadableType DEF ReadableUpTo
<1>2. Up(j) \in SUBSET Up(n) /\ j \in Up(j)
  OBVIOUS
<1> HIDE DEF Up
<1>3. Cardinality(Up(j)) <= Cardinality(Up(n)) /\ Cardinality(Up(j)) # 0
  BY <1>1, <1>2, FS_Subset, FS_EmptySet
<1>4. \A m : ReadableUpTo(lines, m) = Cardinality(Up(m))
  BY DEF ReadableUpTo, Up
<1> QED
  BY <1>1, <1>3, <1>4

LEMMA GathersNone ==
  ASSUME NEW lines
  PROVE  Gathers(<<>>, lines, 0)
BY ReadableNext DEF Gathers

LEMMA GathersNext ==
  ASSUME NEW s \in Seq(Records), NEW lines, NEW n \in Nat, Gathers(s, lines, n)
  PROVE  IF IsReadableMessage(lines[n + 1])
         THEN lines[n + 1] \in Records => Gathers(Append(s, lines[n + 1]), lines, n + 1)
         ELSE Gathers(s, lines, n + 1)
<1>1. Len(s) = ReadableUpTo(lines, n) /\ Len(s) \in Nat
  BY LenProperties DEF Gathers
<1>2. \A j \in 1..(n + 1) : j = n + 1 \/ j \in 1..n
  OBVIOUS
<1>3. CASE ~IsReadableMessage(lines[n + 1])
  BY <1>1, <1>2, <1>3, ReadableNext DEF Gathers
<1>4. CASE IsReadableMessage(lines[n + 1]) /\ lines[n + 1] \in Records
  <2> DEFINE t == Append(s, lines[n + 1])
  <2>1. /\ Len(t) = Len(s) + 1 /\ t[Len(s) + 1] = lines[n + 1]
        /\ \A i \in 1..Len(s) : t[i] = s[i]
    BY <1>1, <1>4, AppendProperties
  <2> HIDE DEF t
  <2>2. ReadableUpTo(lines, n + 1) = Len(s) + 1
    BY <1>1, <1>4, ReadableNext
  <2>3. ASSUME NEW j \in 1..n, IsReadableMessage(lines[j])
        PROVE  t[ReadableUpTo(lines, j)] = lines[j]
    BY <1>1, <2>1, <2>3, ReadableRank DEF Gathers
  <2>4. Gathers(t, lines, n + 1)
    BY <1>2, <2>1, <2>2, <2>3 DEF Gathers
  <2> QED
    BY <1>4, <2>4 DEF t
<1> QED
  BY <1>3, <1>4

\* What was gathered contains every readable message.
LEMMA GathersAll ==
  ASSUME NEW s \in Seq(Records), NEW lines \in Seq(Lines), NEW n \in Nat, Gathers(s, lines, n),
         NEW j \in 1..n, IsReadableMessage(lines[j])
  PROVE  lines[j] \in ToSet(s)
<1>1. ReadableUpTo(lines, j) \in 1..Len(s)
  BY ReadableRank DEF Gathers
<1> QED
  BY <1>1, SetOf DEF Gathers

RebuiltSoFar ==
  \A r \in Runs : pc[r] \in Rebuilding =>
    /\ line <= Len(files[work.id])
    /\ Gathers(work.folded, files[work.id], line)
    /\ \A q \in 1..Len(work.folded) : \E p \in 1..line : work.folded[q] = files[work.id][p]

LEMMA StepRebuilt ==
  ASSUME IInv, RebuiltSoFar, NEW r \in Runs, Step(r)
  PROVE  RebuiltSoFar'
<1>0. TypeOK
  BY DEF IInv
<1>a. \A x \in Runs \ {r} : pc'[x] = pc[x]
  BY <1>0, StepShape, WriteShape
<1>1. ASSUME ModelContext(r) \/ AppendStore(r), pc'[r] \in Rebuilding
      PROVE  RebuiltSoFar'
  <2>1. work' = ClearContext(mem[ses[r]], limit) /\ line' = 0 /\ files' = files
    BY <1>0, <1>1 DEF ModelContext, AppendStore, StartRebuild, Goto, Rebuilding, fileVars, TypeOK,
                      AfterAppend
  <2>2. mem[ses[r]] \in Entries
    BY <1>1, TouchedGood DEF ModelContext, AppendStore, Touched, Labels, GoodEntry
  <2>3. work'.folded = <<>> /\ work'.id \in Ids /\ Len(<<>>) = 0
    BY <2>1, <2>2, EntryShape
  <2>4. 0 <= Len(files[work'.id])
    BY <1>0, <2>3, LenProperties DEF TypeOK
  <2>5. Gathers(work'.folded, files'[work'.id], line')
    BY <2>1, <2>3, GathersNone
  <2> QED
    BY <2>1, <2>3, <2>4, <2>5 DEF RebuiltSoFar
<1>2. CASE RebuildLine(r)
  <2> DEFINE f == files[work.id]
             rec == f[line + 1]
  <2>1. /\ pc[r] \in Rebuilding /\ line < Len(f) /\ line' = line + 1
        /\ UNCHANGED <<files, pc>>
        /\ work' = IF IsReadableMessage(rec) THEN ApplyContextMessage(work, rec, limit) ELSE work
    BY <1>2 DEF RebuildLine, Rebuilding, fileVars, IsReadableMessage
  <2>2. work \in Entries /\ work.id \in Ids /\ work.folded \in Seq(Records) /\ line \in Nat
    BY <1>0, <2>1, EntryShape DEF IInv, Holding, TypeOK
  <2>3. f \in Seq(Lines) /\ Len(f) \in Nat /\ line + 1 \in 1..Len(f)
    BY <1>0, <2>1, <2>2, LenProperties DEF TypeOK, Lines
  <2>4. rec \in Lines /\ (IsReadableMessage(rec) => rec \in Records)
    BY <2>3, ElementOfSeq DEF Lines, IsReadableMessage
  <2>5. /\ Gathers(work.folded, f, line)
        /\ \A q \in 1..Len(work.folded) : \E p \in 1..line : work.folded[q] = f[p]
    BY <2>1 DEF RebuiltSoFar
  <2>6. work'.id = work.id
        /\ work'.folded = IF IsReadableMessage(rec) THEN Append(work.folded, rec)
                                                    ELSE work.folded
    <3>1. /\ ApplyContextMessage(work, rec, limit).id = work.id
          /\ ApplyContextMessage(work, rec, limit).folded = Append(work.folded, rec)
      BY <2>2, EntryShape
    <3> QED
      BY <2>1, <3>1
  <2>7. Gathers(work'.folded, f, line + 1)
    BY <2>2, <2>4, <2>5, <2>6, GathersNext
  <2> HIDE DEF f
  <2>8. \A q \in 1..Len(work'.folded) : \E p \in 1..(line + 1) : work'.folded[q] = f[p]
    <3>1. CASE IsReadableMessage(rec)
      <4> DEFINE t == Append(work.folded, rec)
      <4>1. /\ Len(t) = Len(work.folded) + 1 /\ Len(work.folded) \in Nat
            /\ t[Len(work.folded) + 1] = rec
            /\ \A q \in 1..Len(work.folded) : t[q] = work.folded[q]
        BY <2>2, <2>4, <3>1, AppendProperties, LenProperties
      <4> HIDE DEF t
      <4>2. \A q \in 1..Len(t) : q = Len(t) \/ q \in 1..Len(work.folded)
        BY <4>1
      <4>3. \A q \in 1..Len(t) : \E p \in 1..(line + 1) : t[q] = f[p]
        BY <2>2, <2>5, <4>1, <4>2
      <4> QED
        BY <2>6, <3>1, <4>3 DEF t
    <3>2. CASE ~IsReadableMessage(rec)
      BY <2>2, <2>5, <2>6, <3>2
    <3> QED
      BY <3>1, <3>2
  <2>9. \A x \in Runs : pc'[x] \in Rebuilding =>
          /\ line' <= Len(f) /\ Gathers(work'.folded, f, line')
          /\ \A q \in 1..Len(work'.folded) : \E p \in 1..line' : work'.folded[q] = f[p]
    BY <2>1, <2>3, <2>7, <2>8
  <2> QED
    BY <2>1, <2>6, <2>9 DEF RebuiltSoFar, f
<1>3. CASE pc'[r] \notin Rebuilding
  <2>1. CASE \E x \in Runs \ {r} : pc[x] \in Rebuilding
    <3>1. PICK x \in Runs \ {r} : pc[x] \in Rebuilding
      BY <2>1
    <3>2. mu = x /\ pc[r] \notin Rebuilding \cup {"store"}
      BY <3>1, InsideLock
    <3>3. UNCHANGED <<files, work, line>>
      <4>1. mu # Nobody
        BY <3>2, SessionsAssumption
      <4> QED
        BY <3>2, <4>1 DEF Step, Touch, ModelContext, RebuildLine, RebuildDone, RebuildFails,
      SendEvent, RunErrs,
                          AppendWrite, AppendStore, Rebuilding, fileVars
    <3> QED
      BY <1>3, <1>a, <3>3 DEF RebuiltSoFar
  <2>2. CASE \A x \in Runs \ {r} : pc[x] \notin Rebuilding
    BY <1>3, <1>a, <2>2 DEF RebuiltSoFar
  <2> QED
    BY <2>1, <2>2
<1>4. pc'[r] \in Rebuilding => ModelContext(r) \/ AppendStore(r) \/ RebuildLine(r)
  BY <1>0 DEF Step, Touch, RebuildDone, RebuildFails,
      SendEvent, RunErrs, AppendWrite, WriteLine, WriteFails,
              Goto, Rebuilding, TypeOK, AfterAppend
<1> QED
  BY <1>1, <1>2, <1>3, <1>4

LEMMA RebuiltInv == Spec => []RebuiltSoFar
<1>1. Init => RebuiltSoFar
  BY DEF Init, RebuiltSoFar, Rebuilding
<1>2. IInv /\ RebuiltSoFar /\ [Next]_vars => RebuiltSoFar'
  <2> SUFFICES ASSUME IInv, RebuiltSoFar, [Next]_vars PROVE RebuiltSoFar'
    OBVIOUS
  <2>1. CASE Restart
    BY <2>1 DEF Restart, RebuiltSoFar, Rebuilding, Stopped
  <2>2. CASE UNCHANGED vars
    BY <2>2 DEF vars, RebuiltSoFar
  <2> QED
    BY <2>1, <2>2, StepRebuilt DEF Next, AllStopped
<1> QED
  BY <1>1, <1>2, SpecInv, PTL DEF Spec

(***************************************************************************)
(* rebuildContextStateLocked (manager.go:410-442) takes in every readable  *)
(* message of the transcript, once and in order, whatever was lost before. *)
(***************************************************************************)
THEOREM RebuildGathersAll == Spec => RebuildReadsAll
<1>1. ASSUME IInv, Owned, RebuiltSoFar, [Next]_vars PROVE [RebuildStep]_vars
  <2> SUFFICES ASSUME Next, NEW k \in SessionKeys, restarts' = restarts, mem[k] # NoEntry,
                      mem'[k].sig # mem[k].sig
               PROVE  Gathers(mem'[k].folded, files[mem[k].id], Len(files[mem[k].id]))
    BY <1>1 DEF RebuildStep, vars
  <2>0. TypeOK /\ restarts \in Nat /\ mem' # mem
    BY <1>1 DEF IInv, TypeOK
  <2>1. PICK r \in Runs : Step(r)
    BY <2>0 DEF Next, Restart, AllStopped, vars
  <2>2. ses[r] \in SessionKeys
    BY <2>0 DEF TypeOK
  <2>3. CASE Touch(r)
    <3>1. PutOk(ses[r], TouchedEntry(r)) \/ PutFails(ses[r], TouchedEntry(r))
      BY <2>3 DEF Touch
    <3>2. /\ mem'[ses[r]] = TouchedEntry(r)
          /\ \A j \in SessionKeys \ {ses[r]} : mem'[j] = mem[j]
      BY <2>0, <2>2, <3>1, PutShape
    <3> QED
      BY <3>2 DEF TouchedEntry
  <2>4. CASE RebuildDone(r)
    <3>1. /\ PutOk(ses[r], work) \/ PutFails(ses[r], work)
          /\ pc[r] \in Rebuilding /\ line = Len(files[work.id])
      BY <2>4 DEF RebuildDone, Rebuilding
    <3>2. /\ mem'[ses[r]] = work /\ \A j \in SessionKeys \ {ses[r]} : mem'[j] = mem[j]
      BY <2>0, <2>2, <3>1, PutShape
    <3>3. k = ses[r] /\ work.id = mem[k].id
      BY <1>1, <3>1, <3>2 DEF Owned
    <3> QED
      BY <1>1, <3>1, <3>2, <3>3 DEF RebuiltSoFar
  <2>5. CASE AppendStore(r)
    <3> DEFINE e == ApplyContextMessage(mem[ses[r]], out[r], limit)
    <3>1. PutOk(ses[r], e) \/ PutFails(ses[r], e)
      BY <2>0, <2>5 DEF AppendStore, storeVars
    <3>2. mem[ses[r]] \in Entries
      BY <1>1, <2>5, TouchedGood DEF AppendStore, Touched, Labels, GoodEntry
    <3>3. e.sig = mem[ses[r]].sig
      BY <3>2, EntryShape
    <3> HIDE DEF e
    <3>4. /\ mem'[ses[r]] = e /\ \A j \in SessionKeys \ {ses[r]} : mem'[j] = mem[j]
      BY <2>0, <2>2, <3>1, PutShape
    <3> QED
      BY <3>3, <3>4
  <2> QED
    BY <2>0, <2>1, <2>3, <2>4, <2>5
       DEF Step, ModelContext, RebuildLine, RebuildFails,
      SendEvent, RunErrs, AppendWrite, storeVars
<1> QED
  BY <1>1, SpecInv, OwnedInv, RebuiltInv, PTL DEF Spec, RebuildReadsAll

-----------------------------------------------------------------------------
(* The order of the transcript. *)

\* The readable elements of s are elements of l, in the same order.
Follows(s, l) ==
  \A i, j \in 1..Len(s) :
    i <= j /\ s[i] # Garbage /\ s[j] # Garbage =>
      \E a, b \in 1..Len(l) : l[a] = s[i] /\ l[b] = s[j] /\ (i < j => a < b)

LEMMA FollowsNothing == ASSUME NEW l PROVE Follows(<<>>, l)
BY EmptySeq DEF Follows

LEMMA FollowsUse ==
  ASSUME NEW s, NEW l, Follows(s, l), NEW i \in 1..Len(s), NEW j \in 1..Len(s),
         i <= j, s[i] # Garbage, s[j] # Garbage
  PROVE  \E a, b \in 1..Len(l) : l[a] = s[i] /\ l[b] = s[j] /\ (i < j => a < b)
BY DEF Follows

LEMMA FollowsLonger ==
  ASSUME NEW s \in Seq(Lines), NEW l \in Seq(Records), NEW x \in Records, Follows(s, l)
  PROVE  Follows(s, Append(l, x))
<1>1. /\ Len(Append(l, x)) = Len(l) + 1 /\ Len(l) \in Nat
      /\ \A i \in 1..Len(l) : Append(l, x)[i] = l[i]
  BY AppendProperties, LenProperties
<1>2. ASSUME NEW i \in 1..Len(s), NEW j \in 1..Len(s), i <= j, s[i] # Garbage, s[j] # Garbage
      PROVE  \E a, b \in 1..Len(Append(l, x)) :
               Append(l, x)[a] = s[i] /\ Append(l, x)[b] = s[j] /\ (i < j => a < b)
  <2>1. PICK a \in 1..Len(l), b \in 1..Len(l) : l[a] = s[i] /\ l[b] = s[j] /\ (i < j => a < b)
    BY <1>2, FollowsUse
  <2>2. a \in 1..Len(Append(l, x)) /\ b \in 1..Len(Append(l, x))
    BY <1>1
  <2> QED
    BY <1>1, <2>1, <2>2
<1> QED
  BY <1>2 DEF Follows

\* A record that is not in s yet may follow it, once it is the last of l.
LEMMA FollowsNext ==
  ASSUME NEW s \in Seq(Lines), NEW l \in Seq(Records), NEW x \in Records, Follows(s, l)
  PROVE  Follows(Append(s, x), Append(l, x))
<1> DEFINE t == Append(s, x)
           m == Append(l, x)
<1>1. /\ Len(t) = Len(s) + 1 /\ Len(s) \in Nat /\ t[Len(s) + 1] = x
      /\ \A i \in 1..Len(s) : t[i] = s[i]
  BY AppendProperties, LenProperties DEF Lines
<1>2. /\ Len(m) = Len(l) + 1 /\ Len(l) \in Nat /\ m[Len(l) + 1] = x
      /\ \A i \in 1..Len(l) : m[i] = l[i]
  BY AppendProperties, LenProperties
<1> HIDE DEF t, m
<1>3. ASSUME NEW i \in 1..Len(t), NEW j \in 1..Len(t), i <= j, t[i] # Garbage, t[j] # Garbage
      PROVE  \E a, b \in 1..Len(m) : m[a] = t[i] /\ m[b] = t[j] /\ (i < j => a < b)
  <2>1. CASE j \in 1..Len(s)
    <3>1. i \in 1..Len(s)
      BY <1>1, <1>3, <2>1
    <3>2. PICK a \in 1..Len(l), b \in 1..Len(l) :
            l[a] = s[i] /\ l[b] = s[j] /\ (i < j => a < b)
      BY <1>1, <1>3, <2>1, <3>1 DEF Follows
    <3> QED
      BY <1>1, <1>2, <2>1, <3>1, <3>2
  <2>2. CASE j = Len(s) + 1 /\ i \in 1..Len(s)
    <3>1. PICK a \in 1..Len(l) : l[a] = s[i]
      BY <1>1, <1>3, <2>2 DEF Follows
    <3> QED
      BY <1>1, <1>2, <2>2, <3>1
  <2>3. CASE j = Len(s) + 1 /\ i = Len(s) + 1
    BY <1>1, <1>2, <2>3
  <2> QED
    BY <1>1, <1>3, <2>1, <2>2, <2>3
<1> QED
  BY <1>3 DEF Follows, t, m

LEMMA FollowsGarbage ==
  ASSUME NEW s \in Seq(Lines), NEW l \in Seq(Records), Follows(s, l)
  PROVE  Follows(Append(s, Garbage), l)
<1>1. /\ Len(Append(s, Garbage)) = Len(s) + 1 /\ Len(s) \in Nat
      /\ Append(s, Garbage)[Len(s) + 1] = Garbage
      /\ \A i \in 1..Len(s) : Append(s, Garbage)[i] = s[i]
  BY AppendProperties, LenProperties DEF Lines
<1> QED
  BY <1>1 DEF Follows

LEMMA FollowsFront ==
  ASSUME NEW s \in Seq(Lines), s # <<>>, NEW l \in Seq(Records), Follows(s, l)
  PROVE  Follows(Front(s), l)
<1>1. /\ Len(Front(s)) = Len(s) - 1 /\ Len(s) \in Nat \ {0}
      /\ \A i \in 1..(Len(s) - 1) : Front(s)[i] = s[i]
  BY FrontSet
<1>2. \A i \in 1..Len(Front(s)) : i \in 1..Len(s) /\ Front(s)[i] = s[i]
  BY <1>1
<1>3. ASSUME NEW i \in 1..Len(Front(s)), NEW j \in 1..Len(Front(s)), i <= j,
             Front(s)[i] # Garbage, Front(s)[j] # Garbage
      PROVE  \E a, b \in 1..Len(l) : l[a] = Front(s)[i] /\ l[b] = Front(s)[j] /\ (i < j => a < b)
  <2>1. /\ i \in 1..Len(s) /\ Front(s)[i] = s[i]
        /\ j \in 1..Len(s) /\ Front(s)[j] = s[j]
    BY <1>2
  <2>2. \E a, b \in 1..Len(l) : l[a] = s[i] /\ l[b] = s[j] /\ (i < j => a < b)
    BY <1>3, <2>1, FollowsUse
  <2> QED
    BY <2>1, <2>2
<1> QED
  BY <1>3 DEF Follows

\* A line follows what was taken from the lines before it.
LEMMA FollowsLine ==
  ASSUME NEW f \in Seq(Lines), NEW s \in Seq(Records), NEW l \in Seq(Records),
         Follows(f, l), Follows(s, l), NEW n \in Nat, n + 1 \in 1..Len(f), f[n + 1] \in Records,
         \A q \in 1..Len(s) : \E p \in 1..n : s[q] = f[p]
  PROVE  Follows(Append(s, f[n + 1]), l)
<1> DEFINE x == f[n + 1]
           t == Append(s, x)
<1>1. /\ Len(t) = Len(s) + 1 /\ Len(s) \in Nat /\ t[Len(s) + 1] = x
      /\ \A i \in 1..Len(s) : t[i] = s[i] /\ s[i] # Garbage
      /\ x # Garbage
  BY AppendProperties, LenProperties, ElementOfSeq, GarbageIsNoRecord
<1>2. \A p \in 1..(n + 1) : p \in 1..Len(f)
  BY LenProperties
<1> HIDE DEF t
<1>3. ASSUME NEW i \in 1..Len(t), NEW j \in 1..Len(t), i <= j, t[i] # Garbage, t[j] # Garbage
      PROVE  \E a, b \in 1..Len(l) : l[a] = t[i] /\ l[b] = t[j] /\ (i < j => a < b)
  <2>1. CASE j \in 1..Len(s)
    <3>1. i \in 1..Len(s)
      BY <1>1, <1>3, <2>1
    <3>2. \E a, b \in 1..Len(l) : l[a] = s[i] /\ l[b] = s[j] /\ (i < j => a < b)
      BY <1>1, <1>3, <2>1, <3>1, FollowsUse
    <3> QED
      BY <1>1, <2>1, <3>1, <3>2
  <2>2. CASE j = Len(s) + 1 /\ i \in 1..Len(s)
    <3>1. PICK p \in 1..n : s[i] = f[p]
      BY <2>2
    <3>2. p \in 1..Len(f) /\ p < n + 1 /\ f[p] # Garbage
      BY <1>1, <1>2, <2>2, <3>1
    <3>3. PICK a \in 1..Len(l), b \in 1..Len(l) : l[a] = f[p] /\ l[b] = x /\ a < b
      <4>1. p <= n + 1 /\ f[n + 1] # Garbage
        BY <1>1, <3>2 DEF x
      <4>2. \E a, b \in 1..Len(l) : l[a] = f[p] /\ l[b] = f[n + 1] /\ (p < n + 1 => a < b)
        BY <3>2, <4>1, FollowsUse
      <4> QED
        BY <3>2, <4>2 DEF x
    <3> QED
      BY <1>1, <2>2, <3>1, <3>3
  <2>3. CASE j = Len(s) + 1 /\ i = Len(s) + 1
    <3>1. PICK a \in 1..Len(l) : l[a] = x
      BY <1>1 DEF Follows
    <3> QED
      BY <1>1, <2>3, <3>1
  <2> QED
    BY <1>1, <1>3, <2>1, <2>2, <2>3
<1> QED
  BY <1>3 DEF Follows, t

-----------------------------------------------------------------------------
(* The files follow the log; only an unterminated line can be lost. *)
Filed ==
  /\ \A id \in Ids : Follows(files[id], log[id])
  /\ \A id \in torn : files[id] # <<>>

LEMMA InitFiled == Init => Filed
<1> SUFFICES ASSUME Init PROVE Filed
  OBVIOUS
<1>1. ASSUME NEW id \in Ids PROVE Follows(files[id], log[id])
  BY LegacyLines, LenProperties DEF Follows
<1> QED
  BY <1>1 DEF Init, Filed

LEMMA WriteFiled ==
  ASSUME TypeOK, Filed, NEW r \in Runs, AppendWrite(r)
  PROVE  Filed'
<1> DEFINE i == sid[r]
           f == files[i]
           l == log[i]
           x == out[r]
<1>1. /\ Landed(r) \/ Broke(r)
      /\ \A id \in Ids \ {i} : files'[id] = files[id] /\ log'[id] = log[id]
  BY WriteShape
<1>2. /\ i \in Ids /\ f \in Seq(Lines) /\ l \in Seq(Records) /\ x \in Records /\ x \in Lines
      /\ Garbage \in Lines /\ torn \subseteq Ids
  BY DEF TypeOK, Lines
<1>3. Follows(f, l) /\ (i \in torn => f # <<>>)
  BY <1>2 DEF Filed
<1>4. /\ Append(f, x) # <<>> /\ Append(f, Garbage) # <<>>
      /\ i \in torn => Append(Front(f), Garbage) # <<>>
  BY <1>2, <1>3, AppendProperties, FrontSet
<1>5. /\ Follows(Append(f, x), Append(l, x)) /\ Follows(Append(f, Garbage), l)
      /\ i \in torn => /\ Follows(Append(Front(f), Garbage), l)
                       /\ Follows(Append(Front(f), Garbage), Append(l, x))
  <2>1. Follows(Append(f, x), Append(l, x)) /\ Follows(Append(f, Garbage), l)
    BY <1>2, <1>3, FollowsNext, FollowsGarbage
  <2>2. ASSUME i \in torn
        PROVE  /\ Follows(Append(Front(f), Garbage), l)
               /\ Follows(Append(Front(f), Garbage), Append(l, x))
    <3>1. Front(f) \in Seq(Lines) /\ Follows(Front(f), l)
      BY <1>2, <1>3, <2>2, FrontSet, FollowsFront
    <3>2. Append(Front(f), Garbage) \in Seq(Lines) /\ Follows(Append(Front(f), Garbage), l)
      BY <1>2, <3>1, FollowsGarbage, AppendProperties
    <3> QED
      BY <1>2, <3>2, FollowsLonger
  <2> QED
    BY <2>1, <2>2
<1> HIDE DEF f, l, x
<1>6. Follows(files'[i], log'[i]) /\ (i \in torn' => files'[i] # <<>>)
  BY <1>1, <1>3, <1>4, <1>5 DEF Landed, Broke, f, l, x
<1>7. torn' \subseteq torn \cup {i}
  BY <1>1 DEF Landed, Broke
<1> QED
  BY <1>1, <1>2, <1>6, <1>7 DEF Filed

LEMMA FiledInv == Spec => []Filed
<1>1. IInv /\ Filed /\ [Next]_vars => Filed'
  <2> SUFFICES ASSUME IInv, Filed, [Next]_vars PROVE Filed'
    OBVIOUS
  <2>1. TypeOK
    BY DEF IInv
  <2>2. CASE UNCHANGED vars \/ Restart
    BY <2>2 DEF vars, Restart, fileVars, Filed
  <2>3. ASSUME NEW r \in Runs, Step(r) PROVE Filed'
    <3>1. CASE AppendWrite(r)
      BY <2>1, <3>1, WriteFiled
    <3>2. CASE ~AppendWrite(r)
      <4>1. UNCHANGED <<files, log, torn>>
        BY <2>1, <2>3, <3>2, StepShape
      <4> QED
        BY <4>1 DEF Filed
    <3> QED
      BY <3>1, <3>2
  <2> QED
    BY <2>2, <2>3 DEF Next, AllStopped
<1> QED
  BY <1>1, InitFiled, SpecInv, PTL DEF Spec

InOrder(e) == Follows(e.folded, log[e.id])

(***************************************************************************)
(* Without direct runs: every entry follows its transcript, and a message  *)
(* that is written but not yet folded comes after all that is folded.      *)
(***************************************************************************)
Ordered ==
  /\ \A k \in SessionKeys : mem[k] # NoEntry => InOrder(mem[k])
  /\ \A k \in SessionKeys : disk[k] # NoEntry => InOrder(disk[k])
  /\ work # NoEntry => InOrder(work)
  /\ \A r \in Runs :
       /\ pc[r] # "rebuildInAppend"
       /\ pc[r] = "store" => Follows(Append(mem[ses[r]].folded, out[r]), log[sid[r]])

\* A log that does not change, or that only grows, keeps an entry in order.
LEMMA StaysInOrder ==
  ASSUME TypeOK, NEW e \in Entries, InOrder(e),
         \A id \in Ids : log'[id] = log[id] \/ \E x \in Records : log'[id] = Append(log[id], x)
  PROVE  Follows(e.folded, log'[e.id])
<1>1. e.folded \in Seq(Lines) /\ e.id \in Ids /\ log[e.id] \in Seq(Records)
  <2>1. e.folded \in Seq(Records) /\ e.id \in Ids
    BY EntryShape
  <2>2. e.folded \in Seq(Lines)
    BY <2>1, SeqMonotonic DEF Lines
  <2> QED
    BY <2>1, <2>2 DEF TypeOK
<1>2. CASE log'[e.id] = log[e.id]
  BY <1>2 DEF InOrder
<1>3. ASSUME NEW x \in Records, log'[e.id] = Append(log[e.id], x)
      PROVE  Follows(e.folded, log'[e.id])
  BY <1>1, <1>3, FollowsLonger DEF InOrder
<1> QED
  BY <1>1, <1>2, <1>3

\* Saving an entry that follows its transcript, successfully or not.
LEMMA PutOrdered ==
  ASSUME TypeOK, Ordered, NEW k \in SessionKeys, NEW e, PutOk(k, e) \/ PutFails(k, e),
         InOrder(e), log' = log, work' = work \/ work' = NoEntry,
         \A r \in Runs : pc'[r] \notin {"rebuildInAppend", "store"}
  PROVE  Ordered'
<1>1. /\ mem'[k] = e /\ \A j \in SessionKeys \ {k} : mem'[j] = mem[j]
      /\ disk' = mem' \/ disk' = disk
  BY PutShape
<1>2. \A j \in SessionKeys : mem'[j] # NoEntry => InOrder(mem'[j])
  BY <1>1 DEF Ordered
<1>3. \A j \in SessionKeys : disk'[j] # NoEntry => InOrder(disk'[j])
  BY <1>1, <1>2 DEF Ordered
<1>4. work' # NoEntry => InOrder(work')
  BY DEF Ordered
<1> QED
  BY <1>2, <1>3, <1>4 DEF Ordered, InOrder

LEMMA StepOrdered ==
  ASSUME DirectRuns = {}, IInv, Owned, RebuiltSoFar, Filed, Ordered, NEW r \in Runs, Step(r)
  PROVE  Ordered'
<1>0. /\ TypeOK /\ ses[r] \in SessionKeys /\ sid[r] \in Ids /\ out[r] \in Records
      /\ pc \in [Runs -> Labels]
  BY DEF IInv, TypeOK
<1>1. CASE Touch(r)
  <2> DEFINE e == TouchedEntry(r)
  <2>1. /\ PutOk(ses[r], e) \/ PutFails(ses[r], e)
        /\ mu = Nobody /\ log' = log /\ work' = work
        /\ pc'[r] \in {"context", "write", "failed"} /\ \A x \in Runs \ {r} : pc'[x] = pc[x]
    BY <1>0, <1>1 DEF Touch, fileVars, Goto
  <2>2. InOrder(e)
    <3>1. CASE mem[ses[r]] = NoEntry
      BY <3>1, FollowsNothing DEF TouchedEntry, NewEntry, InOrder
    <3>2. CASE mem[ses[r]] # NoEntry
      BY <1>0, <3>2 DEF TouchedEntry, Ordered
    <3> QED
      BY <3>1, <3>2
  <2>3. \A x \in Runs : pc'[x] \notin {"rebuildInAppend", "store"}
    BY <2>1, OutsideLock DEF Rebuilding
  <2> QED
    BY <1>0, <2>1, <2>2, <2>3, PutOrdered
<1>2. CASE ModelContext(r)
  <2>1. /\ UNCHANGED <<mem, disk, log, ses, sid, out>> /\ pc[r] = "context"
        /\ \A x \in Runs : pc'[x] = pc[x] \/ pc'[x] \in {"write", "rebuild"}
        /\ work' = work \/ work' = ClearContext(mem[ses[r]], limit)
    BY <1>0, <1>2 DEF ModelContext, StartRebuild, storeVars, fileVars, runVars, Goto
  <2>2. mem[ses[r]] \in Entries
    BY <2>1, TouchedGood DEF Touched, Labels, GoodEntry
  <2>3. Follows(ClearContext(mem[ses[r]], limit).folded, log[ClearContext(mem[ses[r]], limit).id])
    BY <2>2, EntryShape, FollowsNothing
  <2>4. work' # NoEntry => Follows(work'.folded, log[work'.id])
    BY <2>1, <2>3 DEF Ordered, InOrder
  <2> QED
    BY <2>1, <2>4 DEF Ordered, InOrder
<1>3. CASE RebuildLine(r)
  <2> DEFINE f == files[work.id]
             rec == f[line + 1]
  <2>1. /\ UNCHANGED <<mem, disk, log, ses, sid, out, pc>> /\ pc[r] \in Rebuilding
        /\ line < Len(f)
        /\ \/ work' = work
           \/ rec # Garbage /\ work' = ApplyContextMessage(work, rec, limit)
    BY <1>3 DEF RebuildLine, storeVars, fileVars, runVars, Rebuilding
  <2>2. /\ work \in Entries /\ work.folded \in Seq(Records) /\ work.id \in Ids /\ line \in Nat
        /\ work # NoEntry
    BY <1>0, <2>1, EntryShape, NoEntryAssumption DEF IInv, Holding, TypeOK
  <2>3. f \in Seq(Lines) /\ log[work.id] \in Seq(Records) /\ line + 1 \in 1..Len(f)
        /\ rec \in Lines
    <3>1. f \in Seq(Lines) /\ log[work.id] \in Seq(Records)
      BY <1>0, <2>2 DEF TypeOK, Lines
    <3>2. line + 1 \in 1..Len(f)
      BY <2>1, <2>2, <3>1, LenProperties
    <3> QED
      BY <3>1, <3>2, ElementOfSeq
  <2>4. \A q \in 1..Len(work.folded) : \E p \in 1..line : work.folded[q] = f[p]
    BY <2>1 DEF RebuiltSoFar
  <2>5. Follows(f, log[work.id]) /\ Follows(work.folded, log[work.id])
    BY <2>2 DEF Filed, Ordered, InOrder
  <2>6. rec # Garbage => Follows(Append(work.folded, rec), log[work.id])
    BY <2>2, <2>3, <2>4, <2>5, FollowsLine DEF Lines
  <2>7. /\ ApplyContextMessage(work, rec, limit).id = work.id
        /\ ApplyContextMessage(work, rec, limit).folded = Append(work.folded, rec)
    BY <2>2, EntryShape
  <2> HIDE DEF rec, f
  <2>8. Follows(work'.folded, log[work'.id])
    BY <2>1, <2>5, <2>6, <2>7
  <2> QED
    BY <2>1, <2>8 DEF Ordered, InOrder
<1>4. CASE RebuildDone(r)
  <2>1. /\ PutOk(ses[r], work) \/ PutFails(ses[r], work)
        /\ pc[r] \in Rebuilding /\ log' = log /\ work' = NoEntry
        /\ pc[r] # "rebuildInAppend" => pc'[r] \in {"write", "failed"}
        /\ \A x \in Runs \ {r} : pc'[x] = pc[x]
    BY <1>0, <1>4 DEF RebuildDone, fileVars, Goto, Rebuilding
  <2>2. work # NoEntry /\ pc[r] # "rebuildInAppend"
    BY <2>1, NoEntryAssumption DEF IInv, Holding, Ordered
  <2>3. \A x \in Runs : pc'[x] \notin {"rebuildInAppend", "store"}
    BY <2>1, <2>2, InsideLock DEF Rebuilding
  <2>4. InOrder(work)
    BY <2>2 DEF Ordered
  <2> QED
    BY <1>0, <2>1, <2>3, <2>4, PutOrdered
<1>5. CASE SendEvent(r) \/ RunErrs(r)
  <2>1. /\ UNCHANGED <<mem, disk, log, ses, sid, work>> /\ pc[r] = "events"
        /\ \A x \in Runs \ {r} : pc'[x] = pc[x] /\ out'[x] = out[x]
        /\ pc'[r] \in {"write", "failed"}
    BY <1>0, <1>5
       DEF SendEvent, RunErrs, storeVars, fileVars, runVars, Goto, TypeOK
  <2> QED
    BY <2>1 DEF Ordered, InOrder
<1>6. CASE AppendWrite(r)
  <2>1. /\ Landed(r) \/ Broke(r)
        /\ pc[r] = "write" /\ mu = Nobody
        /\ UNCHANGED <<disk, mem, ses, sid, out, work>>
        /\ \A x \in Runs \ {r} : pc'[x] = pc[x]
        /\ \A id \in Ids \ {sid[r]} : log'[id] = log[id]
    BY <1>0, <1>6, WriteShape
  <2>2. \A id \in Ids : log'[id] = log[id] \/ \E x \in Records : log'[id] = Append(log[id], x)
    BY <1>0, <2>1 DEF Landed, Broke
  <2>3. /\ \A k \in SessionKeys : mem[k] # NoEntry => Follows(mem[k].folded, log'[mem[k].id])
        /\ \A k \in SessionKeys : disk[k] # NoEntry => Follows(disk[k].folded, log'[disk[k].id])
        /\ work # NoEntry => Follows(work.folded, log'[work.id])
    BY <1>0, <2>2, StaysInOrder DEF Ordered, TypeOK
  <2>4. mem[ses[r]] \in Entries /\ mem[ses[r]].id = sid[r]
    BY <1>0, <2>1, TouchedGood DEF Touched, Labels, GoodEntry, Owned, Names
  <2>5. ASSUME Landed(r) PROVE Follows(Append(mem[ses[r]].folded, out[r]), log'[sid[r]])
    <3>1. mem[ses[r]].folded \in Seq(Records) /\ log[sid[r]] \in Seq(Records)
      BY <1>0, <2>4, EntryShape DEF TypeOK
    <3>2. mem[ses[r]].folded \in Seq(Lines)
      BY <3>1, SeqMonotonic DEF Lines
    <3>3. Follows(mem[ses[r]].folded, log[sid[r]])
      BY <1>0, <2>4, NoEntryAssumption DEF Ordered, InOrder
    <3>4. Follows(Append(mem[ses[r]].folded, out[r]), Append(log[sid[r]], out[r]))
      BY <1>0, <3>1, <3>2, <3>3, FollowsNext
    <3> QED
      BY <2>5, <3>4 DEF Landed
  <2>6. pc'[r] # "rebuildInAppend" /\ (pc'[r] = "store" => Landed(r))
    BY <2>1 DEF Landed, Broke, AfterAppend
  <2>7. \A x \in Runs \ {r} : pc'[x] \notin {"rebuildInAppend", "store"}
    BY <2>1, OutsideLock DEF Rebuilding
  <2> QED
    BY <2>1, <2>3, <2>5, <2>6, <2>7 DEF Ordered, InOrder
<1>7. CASE AppendStore(r)
  <2> DEFINE e == ApplyContextMessage(mem[ses[r]], out[r], limit)
  <2>1. pc[r] = "store" /\ log' = log /\ StateIsCurrent(r)
    BY <1>7 DEF AppendStore, fileVars, IInv, AppendFindsFreshState
  <2>2. /\ PutOk(ses[r], e) \/ PutFails(ses[r], e)
        /\ work' = work /\ pc'[r] \in {"events", "done", "failed"}
        /\ \A x \in Runs \ {r} : pc'[x] = pc[x]
    BY <1>0, <1>7, <2>1 DEF AppendStore, StartRebuild, AfterAppend, Goto
  <2>3. mem[ses[r]] \in Entries /\ mem[ses[r]].id = sid[r]
    BY <1>0, <2>1, TouchedGood DEF Touched, Labels, GoodEntry, Owned, Names
  <2>4. InOrder(e)
    <3>1. e.folded = Append(mem[ses[r]].folded, out[r]) /\ e.id = sid[r]
      BY <2>3, EntryShape
    <3> QED
      BY <2>1, <3>1 DEF Ordered, InOrder
  <2> HIDE DEF e
  <2>5. \A x \in Runs : pc'[x] \notin {"rebuildInAppend", "store"}
    BY <2>1, <2>2, InsideLock DEF Rebuilding
  <2> QED
    BY <1>0, <2>1, <2>2, <2>4, <2>5, PutOrdered
<1>8. CASE RebuildFails(r)
  <2>1. /\ UNCHANGED <<mem, disk, log, ses, sid, out>> /\ work' = NoEntry
        /\ \A x \in Runs : pc'[x] = IF x = r THEN "failed" ELSE pc[x]
    BY <1>0, <1>8 DEF RebuildFails, storeVars, fileVars, runVars, Goto
  <2> QED
    BY <2>1 DEF Ordered, InOrder
<1> QED
  BY <1>1, <1>2, <1>3, <1>4, <1>5, <1>6, <1>7, <1>8 DEF Step

LEMMA InitOrdered == Init => Ordered
<1> SUFFICES ASSUME Init PROVE Ordered
  OBVIOUS
<1>1. \A k \in SessionKeys : disk[k] # NoEntry => disk[k].folded = <<>>
  BY DEF Init, NewEntry
<1> QED
  BY <1>1, FollowsNothing DEF Init, Ordered, InOrder

\* What follows the log consists of its elements, one before the other.
LEMMA OrderedContext ==
  ASSUME TypeOK, NEW e \in Entries, InOrder(e)
  PROVE  /\ ToSet(e.folded) \subseteq ToSet(log[e.id])
         /\ \A i, j \in 1..Len(e.folded) :
              i < j => Precedes(e.id, e.folded[i], e.folded[j])
<1>1. e.folded \in Seq(Records)
  BY EntryShape
<1>2. \A i \in 1..Len(e.folded) : e.folded[i] # Garbage /\ i \in Nat
  BY <1>1, ElementOfSeq, GarbageIsNoRecord
<1>3. ASSUME NEW i \in 1..Len(e.folded), NEW j \in 1..Len(e.folded), i < j
      PROVE  Precedes(e.id, e.folded[i], e.folded[j])
  <2>1. i <= j /\ e.folded[i] # Garbage /\ e.folded[j] # Garbage
    BY <1>2, <1>3
  <2> DEFINE s == e.folded
             l == log[e.id]
  <2>2. Follows(s, l)
    BY DEF InOrder
  <2> HIDE DEF s, l
  <2>3. \E a, b \in 1..Len(l) : l[a] = s[i] /\ l[b] = s[j] /\ (i < j => a < b)
    <3>1. i \in 1..Len(s) /\ j \in 1..Len(s) /\ i <= j /\ s[i] # Garbage /\ s[j] # Garbage
      BY <2>1 DEF s
    <3> QED
      BY <2>2, <3>1, FollowsUse
  <2> QED
    BY <1>3, <2>3 DEF Precedes, s, l
<1>4. ASSUME NEW i \in 1..Len(e.folded)
      PROVE  \E a \in 1..Len(log[e.id]) : log[e.id][a] = e.folded[i]
  BY <1>2, FollowsUse DEF InOrder
<1>5. log[e.id] \in Seq(Records)
  BY EntryShape DEF TypeOK
<1>6. ToSet(e.folded) \subseteq ToSet(log[e.id])
  BY <1>1, <1>4, <1>5, SetOf
<1> QED
  BY <1>3, <1>6

(***************************************************************************)
(* When every run is a call of handleInbound, which asks for the context   *)
(* before it appends (server.go:215-239), a context holds messages of its  *)
(* transcript only, each before the next, whatever crashes, failing writes *)
(* and rebuilds have happened.                                             *)
(***************************************************************************)
THEOREM GatewayKeepsOrder ==
  ASSUME DirectRuns = {}
  PROVE  Spec => []ContextInTranscriptOrder
<1>1. IInv /\ Owned /\ RebuiltSoFar /\ Filed /\ Ordered /\ [Next]_vars => Ordered'
  <2> SUFFICES ASSUME IInv, Owned, RebuiltSoFar, Filed, Ordered, [Next]_vars PROVE Ordered'
    OBVIOUS
  <2>1. CASE Restart
    <3>1. /\ UNCHANGED <<disk, log>> /\ mem' = disk /\ work' = NoEntry
          /\ \A r \in Runs : pc'[r] \in Stopped \cup {"idle"}
      BY <2>1 DEF Restart, fileVars, Stopped
    <3>2. \A r \in Runs : pc'[r] \notin {"rebuildInAppend", "store"}
      BY <3>1 DEF Stopped
    <3> QED
      BY <3>1, <3>2 DEF Ordered, InOrder
  <2>2. CASE UNCHANGED vars
    BY <2>2 DEF vars, Ordered, InOrder
  <2> QED
    BY <2>1, <2>2, StepOrdered DEF Next, AllStopped
<1>2. IInv /\ Ordered => ContextInTranscriptOrder
  <2> SUFFICES ASSUME IInv, Ordered, NEW e \in LiveEntries
               PROVE  /\ ToSet(e.folded) \subseteq ToSet(log[e.id])
                      /\ \A i, j \in 1..Len(e.folded) :
                           i < j => Precedes(e.id, e.folded[i], e.folded[j])
    BY DEF ContextInTranscriptOrder
  <2>1. TypeOK /\ e \in Entries
    BY DEF IInv, TypeOK, LiveEntries
  <2>2. InOrder(e)
    BY DEF LiveEntries, Ordered
  <2> QED
    BY <2>1, <2>2, OrderedContext
<1> QED
  BY <1>1, <1>2, InitOrdered, SpecInv, OwnedInv, RebuiltInv, FiledInv, PTL DEF Spec

-----------------------------------------------------------------------------
(* What the store is given. *)

LEMMA Saves ==
  ASSUME IInv, Owned, NEW r \in Runs, Step(r),
         ~UNCHANGED <<mem, disk>> \/ (AppendStore(r) /\ StateIsCurrent(r))
  PROVE  \E e \in Entries :
           /\ PutOk(ses[r], e) \/ PutFails(ses[r], e)
           /\ mem[ses[r]] # NoEntry => e.id = mem[ses[r]].id
           /\ \/ Touch(r) /\ e = TouchedEntry(r)
              \/ RebuildDone(r) /\ e = work
              \/ /\ AppendStore(r) /\ StateIsCurrent(r)
                 /\ e = ApplyContextMessage(mem[ses[r]], out[r], limit)
                 /\ \/ PutOk(ses[r], e) /\ acked' = acked \cup {out[r]}
                    \/ PutFails(ses[r], e) /\ acked' = acked
<1>0. TypeOK /\ ses[r] \in SessionKeys
  BY DEF IInv, TypeOK
<1>1. CASE Touch(r)
  <2>1. TouchedEntry(r) \in Entries
        /\ (mem[ses[r]] # NoEntry => TouchedEntry(r).id = mem[ses[r]].id)
    BY <1>0, NewEntryGood DEF TouchedEntry, TypeOK, GoodEntry, Ids
  <2>2. PutOk(ses[r], TouchedEntry(r)) \/ PutFails(ses[r], TouchedEntry(r))
    BY <1>1 DEF Touch
  <2> QED
    BY <1>1, <2>1, <2>2
<1>2. CASE RebuildDone(r)
  <2>1. pc[r] \in Rebuilding /\ (PutOk(ses[r], work) \/ PutFails(ses[r], work))
    BY <1>2 DEF RebuildDone, Rebuilding
  <2>2. work \in Entries /\ work.id = mem[ses[r]].id
    BY <2>1 DEF IInv, Holding, Owned
  <2> QED
    BY <1>2, <2>1, <2>2
<1>3. CASE AppendStore(r)
  <2> DEFINE e == ApplyContextMessage(mem[ses[r]], out[r], limit)
  <2>1. pc[r] = "store" /\ StateIsCurrent(r)
        /\ \/ PutOk(ses[r], e) /\ acked' = acked \cup {out[r]}
           \/ PutFails(ses[r], e) /\ acked' = acked
    BY <1>3 DEF AppendStore, StartRebuild, storeVars
  <2>2. GoodEntry(mem[ses[r]]) /\ mem[ses[r]].sig = limit
    BY <2>1, TouchedGood DEF Touched, Labels, StateIsCurrent
  <2>3. e \in Entries /\ e.id = mem[ses[r]].id
    BY <1>0, <2>2, ApplyGood, EntryShape DEF GoodEntry, TypeOK
  <2> HIDE DEF e
  <2>4. e \in Entries /\ e.id = mem[ses[r]].id /\ StateIsCurrent(r) /\ AppendStore(r)
        /\ \/ PutOk(ses[r], e) /\ acked' = acked \cup {out[r]}
           \/ PutFails(ses[r], e) /\ acked' = acked
    BY <1>3, <2>1, <2>3
  <2> QED
    BY <2>4 DEF e
<1> QED
  BY <1>1, <1>2, <1>3 DEF Step, ModelContext, RebuildLine, RebuildFails,
      SendEvent, RunErrs, AppendWrite,
                          storeVars

\* No step takes a SessionID away from its session, in memory or on disk.
LEMMA StepPersists ==
  ASSUME IInv, Owned, NEW r \in Runs, Step(r)
  PROVE  Persists(mem, mem') /\ Persists(disk, disk')
<1>0. TypeOK /\ ses[r] \in SessionKeys /\ Names
  BY DEF IInv, TypeOK, Owned
<1>1. CASE UNCHANGED <<mem, disk>>
  BY <1>1 DEF Persists
<1>2. CASE ~UNCHANGED <<mem, disk>>
  <2>1. PICK e \in Entries : /\ PutOk(ses[r], e) \/ PutFails(ses[r], e)
                             /\ mem[ses[r]] # NoEntry => e.id = mem[ses[r]].id
    BY <1>2, Saves
  <2> QED
    BY <1>0, <2>1, PutPersists
<1> QED
  BY <1>1, <1>2

-----------------------------------------------------------------------------
(* What was acknowledged. *)

\* Its session has an entry with its SessionID, and the context holds it.
Kept ==
  /\ \A rec \in acked : disk[ses[rec.by]] # NoEntry /\ disk[ses[rec.by]].id = sid[rec.by]
  /\ AckedIsRemembered

\* A settled record that the transcript lost stays lost; its run keeps its SessionID.
LEMMA LostStaysLost ==
  ASSUME IInv, Fresh, Filed, NEW r \in Runs, Step(r), NEW rec \in Settled
  PROVE  /\ rec.by \in Runs /\ sid'[rec.by] = sid[rec.by]
         /\ Readable(rec)' => Readable(rec)
<1>0. TypeOK
  BY DEF IInv
<1>1. rec.by \in Runs /\ rec \in ToSet(log[sid[rec.by]]) /\ sid[rec.by] \in Ids
  BY <1>0 DEF Fresh, TypeOK
<1>2. CASE ~AppendWrite(r)
  <2>1. UNCHANGED files /\ \A x \in Runs \ {r} : sid'[x] = sid[x]
    BY <1>0, <1>2, StepShape
  <2>2. sid'[r] = sid[r] \/ pc[r] = "idle"
    BY <1>0, <1>2, StepShape DEF Moves
  <2>3. sid'[rec.by] = sid[rec.by]
    BY <1>0, <1>1, <2>1, <2>2, IdleIsUnknown
  <2> QED
    BY <1>1, <2>1, <2>3 DEF Readable
<1>3. CASE AppendWrite(r)
  <2> DEFINE i == sid[r]
             f == files[i]
  <2>1. /\ Landed(r) \/ Broke(r)
        /\ pc[r] = "write" /\ sid' = sid
        /\ \A id \in Ids \ {i} : files'[id] = files[id]
    BY <1>0, <1>3, WriteShape
  <2>2. i \in Ids /\ f \in Seq(Lines) /\ out[r] \in Lines /\ Garbage \in Lines
        /\ (i \in torn => f # <<>>)
    BY <1>0 DEF TypeOK, Lines, Filed
  <2>3. out[r] \in Ahead(r)
    BY <2>1 DEF Ahead, Before
  <2>4. rec # out[r] /\ rec # Garbage
    <3>1. log[sid[rec.by]] \in Seq(Records)
      BY <1>0, <1>1 DEF TypeOK
    <3> QED
      BY <1>1, <2>3, <3>1, SetOf, GarbageIsNoRecord DEF Fresh
  <2>5. /\ ToSet(Append(f, out[r])) = ToSet(f) \cup {out[r]}
        /\ ToSet(Append(f, Garbage)) = ToSet(f) \cup {Garbage}
        /\ i \in torn => ToSet(Append(Front(f), Garbage)) \subseteq ToSet(f) \cup {Garbage}
    <3>1. i \in torn => Front(f) \in Seq(Lines) /\ ToSet(Front(f)) \subseteq ToSet(f)
      BY <2>2, FrontSet
    <3> QED
      BY <2>2, <3>1, AppendSet
  <2>6. rec \in ToSet(files'[i]) => rec \in ToSet(f)
    <3>1. \/ files'[i] = f
          \/ files'[i] \in {Append(f, out[r]), Append(f, Garbage)}
          \/ i \in torn /\ files'[i] = Append(Front(f), Garbage)
      BY <2>1 DEF Landed, Broke
    <3> HIDE DEF f
    <3> QED
      BY <2>4, <2>5, <3>1
  <2> QED
    BY <1>1, <2>1, <2>6 DEF Readable
<1> QED
  BY <1>2, <1>3

\* A Put of an entry that holds the message, if it is a Put to its session.
LEMMA PutRemembers ==
  ASSUME TypeOK, NEW k \in SessionKeys, NEW e \in Entries, PutOk(k, e) \/ PutFails(k, e),
         NEW rec, NEW j \in SessionKeys,
         Remembered(rec, mem[j]), Remembered(rec, disk[j]),
         j = k => rec \in ToSet(e.folded)
  PROVE  Remembered(rec, mem'[j]) /\ Remembered(rec, disk'[j])
<1>1. /\ mem'[k] = e /\ \A x \in SessionKeys \ {k} : mem'[x] = mem[x]
      /\ disk' = mem' \/ disk' = disk
  BY PutShape
<1>2. Remembered(rec, mem'[j])
  BY <1>1, NoEntryAssumption DEF Remembered
<1> QED
  BY <1>1, <1>2

LEMMA StepKept ==
  ASSUME IInv, Owned, Fresh, Filed, RebuiltSoFar, Kept, NEW r \in Runs, Step(r)
  PROVE  Kept'
<1>0. /\ TypeOK /\ Names /\ ses \in [Runs -> SessionKeys] /\ ses' = ses
      /\ sid \in [Runs -> Ids] /\ out[r] \in Records
  BY StepShape, WriteShape DEF IInv, TypeOK, Owned
<1>1. ASSUME NEW rec \in acked
      PROVE  /\ rec.by \in Runs /\ ses[rec.by] \in SessionKeys
             /\ disk'[ses[rec.by]] # NoEntry /\ disk'[ses[rec.by]].id = sid'[rec.by]
             /\ Readable(rec)' => Readable(rec)
  <2>1. rec.by \in Runs /\ sid'[rec.by] = sid[rec.by] /\ (Readable(rec)' => Readable(rec))
    BY LostStaysLost DEF Settled
  <2>2. Persists(disk, disk')
    BY StepPersists
  <2> QED
    BY <1>0, <2>1, <2>2 DEF Kept, Persists
<1>2. ASSUME NEW rec \in acked, IsContextMessage(rec), Readable(rec)'
      PROVE  Remembered(rec, mem'[ses[rec.by]]) /\ Remembered(rec, disk'[ses[rec.by]])
  <2> DEFINE j == ses[rec.by]
  <2>1. /\ j \in SessionKeys /\ Readable(rec)
        /\ Remembered(rec, mem[j]) /\ Remembered(rec, disk[j])
    BY <1>1, <1>2 DEF Kept, AckedIsRemembered
  <2>2. CASE UNCHANGED <<mem, disk>>
    BY <2>1, <2>2
  <2>3. CASE ~UNCHANGED <<mem, disk>>
    <3>1. PICK e \in Entries :
            /\ PutOk(ses[r], e) \/ PutFails(ses[r], e)
            /\ \/ Touch(r) /\ e = TouchedEntry(r)
               \/ RebuildDone(r) /\ e = work
               \/ AppendStore(r) /\ e = ApplyContextMessage(mem[ses[r]], out[r], limit)
      BY <2>3, Saves
    <3>2. ASSUME j = ses[r] PROVE rec \in ToSet(e.folded)
      <4>1. CASE Touch(r) /\ e = TouchedEntry(r)
        BY <2>1, <3>2, <4>1 DEF TouchedEntry, Remembered
      <4>2. CASE RebuildDone(r) /\ e = work
        <5> DEFINE f == files[work.id]
        <5>1. pc[r] \in Rebuilding /\ line = Len(f)
          BY <4>2 DEF RebuildDone, Rebuilding
        <5>2. work.id = sid[rec.by]
          BY <1>0, <2>1, <3>2, <5>1 DEF Owned, Names, Kept
        <5>3. work \in Entries /\ work.folded \in Seq(Records) /\ f \in Seq(Lines) /\ line \in Nat
          BY <1>0, <5>1, EntryShape DEF IInv, Holding, TypeOK, Lines
        <5>4. Gathers(work.folded, f, line)
          BY <5>1 DEF RebuiltSoFar
        <5>5. PICK p \in 1..line : f[p] = rec
          BY <2>1, <5>1, <5>2, <5>3, SetOf DEF Readable
        <5>6. IsReadableMessage(f[p])
          <6>1. rec \in Records
            BY <1>0 DEF TypeOK
          <6> QED
            BY <1>2, <5>5, <6>1, GarbageIsNoRecord DEF IsReadableMessage
        <5> HIDE DEF f
        <5>7. f[p] \in ToSet(work.folded)
          BY <5>3, <5>4, <5>6, GathersAll
        <5> QED
          BY <4>2, <5>5, <5>7
      <4>3. CASE AppendStore(r) /\ e = ApplyContextMessage(mem[ses[r]], out[r], limit)
        <5>1. mem[ses[r]] \in Entries
          BY <4>3, TouchedGood DEF AppendStore, Touched, Labels, GoodEntry
        <5>2. e.folded = Append(mem[ses[r]].folded, out[r]) /\ mem[ses[r]].folded \in Seq(Records)
          BY <4>3, <5>1, EntryShape
        <5>3. ToSet(e.folded) = ToSet(mem[ses[r]].folded) \cup {out[r]}
          BY <1>0, <5>2, AppendSet
        <5> QED
          BY <2>1, <3>2, <5>3 DEF Remembered
      <4> QED
        BY <3>1, <4>1, <4>2, <4>3
    <3> HIDE DEF j
    <3>3. ses[r] \in SessionKeys
      BY <1>0
    <3>4. Remembered(rec, mem'[j]) /\ Remembered(rec, disk'[j])
      BY <1>0, <2>1, <3>1, <3>2, <3>3, PutRemembers
    <3> QED
      BY <3>4 DEF j
  <2> QED
    BY <2>2, <2>3
<1>3. CASE acked' = acked
  BY <1>0, <1>1, <1>2, <1>3 DEF Kept, AckedIsRemembered
<1>4. ASSUME acked' = acked \cup {out[r]}, pc[r] \in Touched, sid'[r] = sid[r], out[r].by = r,
             IsContextMessage(out[r]) =>
               Remembered(out[r], mem'[ses[r]]) /\ Remembered(out[r], disk'[ses[r]])
      PROVE  Kept'
  <2>1. disk'[ses[r]] # NoEntry /\ disk'[ses[r]].id = sid'[r]
    <3>1. Persists(disk, disk')
      BY StepPersists
    <3> QED
      BY <1>0, <1>4, <3>1 DEF Owned, Persists
  <2>2. \A rec \in acked' : disk'[ses[rec.by]] # NoEntry /\ disk'[ses[rec.by]].id = sid'[rec.by]
    BY <1>1, <1>4, <2>1
  <2>3. AckedIsRemembered'
    BY <1>0, <1>2, <1>4 DEF AckedIsRemembered
  <2> QED
    BY <1>0, <2>2, <2>3 DEF Kept
<1>5. out[r].by = r
  BY RecordsOfRun DEF Fresh
<1>6. CASE AppendWrite(r)
  <2>1. /\ Landed(r) \/ Broke(r)
        /\ pc[r] = "write" /\ sid' = sid
    BY <1>0, <1>6, WriteShape
  <2>2. acked' = acked \/ (acked' = acked \cup {out[r]} /\ ~IsContextMessage(out[r]))
    BY <2>1 DEF Landed, Broke
  <2> QED
    BY <1>3, <1>4, <1>5, <2>1, <2>2 DEF Touched, Labels
<1>7. CASE AppendStore(r)
  <2>1. pc[r] = "store" /\ sid' = sid
    BY <1>7 DEF AppendStore, runVars
  <2>2. CASE acked' = acked \cup {out[r]} /\ StateIsCurrent(r) /\ acked' # acked
    <3>1. PICK e \in Entries :
            /\ PutOk(ses[r], e) \/ PutFails(ses[r], e)
            /\ \/ Touch(r) /\ e = TouchedEntry(r)
               \/ RebuildDone(r) /\ e = work
               \/ /\ e = ApplyContextMessage(mem[ses[r]], out[r], limit)
                  /\ \/ PutOk(ses[r], e) /\ acked' = acked \cup {out[r]}
                     \/ PutFails(ses[r], e) /\ acked' = acked
      BY <1>7, <2>2, Saves
    <3>2. e = ApplyContextMessage(mem[ses[r]], out[r], limit) /\ PutOk(ses[r], e)
      BY <2>1, <2>2, <3>1 DEF Touch, RebuildDone
    <3>3. mem[ses[r]] \in Entries
      BY <2>1, TouchedGood DEF Touched, Labels, GoodEntry
    <3>4. e.folded = Append(mem[ses[r]].folded, out[r]) /\ mem[ses[r]].folded \in Seq(Records)
      BY <3>2, <3>3, EntryShape
    <3>5. out[r] \in ToSet(e.folded)
      BY <1>0, <3>4, AppendSet
    <3>6. mem'[ses[r]] = e /\ disk' = mem'
      BY <1>0, <3>2, PutShape DEF PutOk
    <3> QED
      BY <1>4, <1>5, <2>1, <2>2, <3>5, <3>6, NoEntryAssumption DEF Remembered, Touched, Labels
  <2>3. acked' = acked \/ (acked' = acked \cup {out[r]} /\ StateIsCurrent(r))
    BY <1>7 DEF AppendStore
  <2> QED
    BY <1>3, <2>2, <2>3
<1>8. acked' = acked \/ AppendWrite(r) \/ AppendStore(r)
  BY DEF Step, Touch, ModelContext, RebuildLine, RebuildDone, RebuildFails,
      SendEvent, RunErrs
<1> QED
  BY <1>3, <1>6, <1>7, <1>8

LEMMA KeptInv == Spec => []Kept
<1>1. Init => Kept
  BY DEF Init, Kept, AckedIsRemembered
<1>2. IInv /\ Owned /\ Fresh /\ Filed /\ RebuiltSoFar /\ Kept /\ [Next]_vars => Kept'
  <2> SUFFICES ASSUME IInv, Owned, Fresh, Filed, RebuiltSoFar, Kept, [Next]_vars PROVE Kept'
    OBVIOUS
  <2>1. CASE Restart
    BY <2>1 DEF Restart, fileVars, runVars, Kept, AckedIsRemembered, Readable, Remembered
  <2>2. CASE UNCHANGED vars
    BY <2>2 DEF vars, Kept, AckedIsRemembered, Readable, Remembered
  <2> QED
    BY <2>1, <2>2, StepKept DEF Next, AllStopped
<1> QED
  BY <1>1, <1>2, SpecInv, OwnedInv, FreshInv, FiledInv, RebuiltInv, PTL DEF Spec

(***************************************************************************)
(* AppendWithOptions (manager.go:156-223) returns nil only when a message  *)
(* is in the map and in the file, and nothing that comes later, crash or   *)
(* rebuild, takes it out of the context as long as the transcript has it.  *)
(***************************************************************************)
THEOREM AckedStaysInContext == Spec => []AckedIsRemembered
<1>1. Kept => AckedIsRemembered
  BY DEF Kept
<1> QED
  BY <1>1, KeptInv, PTL

-----------------------------------------------------------------------------
(* What the transcripts lose. *)

Lost == {rec \in Settled : ~Readable(rec)}

(***************************************************************************)
(* An unterminated line costs the record that comes next, and is itself no *)
(* record anyone was told about: each loss has a failing write of its own. *)
(***************************************************************************)
Losses ==
  /\ \A id \in torn : Last(files[id]) \notin Settled
  /\ IsFiniteSet(Lost) /\ IsFiniteSet(torn)
  /\ Cardinality(Lost) + Cardinality(torn) <= faults

LEMMA FaultsGrow ==
  ASSUME IInv, NEW r \in Runs, Step(r)
  PROVE  faults \in Nat /\ faults' \in Nat /\ faults <= faults'
<1>1. faults \in Nat
  BY DEF IInv, TypeOK
<1>2. faults' = faults \/ faults' = faults + 1
  BY DEF Step, Touch, ModelContext, RebuildLine, RebuildDone, RebuildFails,
      SendEvent, RunErrs, AppendWrite,
         AppendStore, WriteLine, WriteFails, PutOk, PutFails, bounds
<1> QED
  BY <1>1, <1>2

\* Bounds on finite sets that shrink, or that grow by one element.
LEMMA FewerElements ==
  ASSUME NEW S, NEW T, IsFiniteSet(S), T \subseteq S
  PROVE  /\ IsFiniteSet(T) /\ Cardinality(T) \in Nat /\ Cardinality(S) \in Nat
         /\ Cardinality(T) <= Cardinality(S)
BY FS_Subset, FS_CardinalityType

LEMMA OneMoreElement ==
  ASSUME NEW S, NEW x, NEW T, IsFiniteSet(S), T \subseteq S \cup {x}
  PROVE  /\ IsFiniteSet(T) /\ Cardinality(T) \in Nat /\ Cardinality(S) \in Nat
         /\ Cardinality(T) <= Cardinality(S) + 1
<1>1. /\ IsFiniteSet(S \cup {x}) /\ Cardinality(S) \in Nat
      /\ Cardinality(S \cup {x}) <= Cardinality(S) + 1
  <2>1. /\ IsFiniteSet(S \cup {x})
        /\ Cardinality(S \cup {x}) = IF x \in S THEN Cardinality(S) ELSE Cardinality(S) + 1
    BY FS_AddElement
  <2>2. Cardinality(S) \in Nat
    BY FS_CardinalityType
  <2> QED
    BY <2>1, <2>2
<1>2. /\ IsFiniteSet(T) /\ Cardinality(T) \in Nat /\ Cardinality(S \cup {x}) \in Nat
      /\ Cardinality(T) <= Cardinality(S \cup {x})
  BY <1>1, FewerElements
<1> QED
  BY <1>1, <1>2

\* Settled records are records, and one that is about to be written is not settled.
LEMMA SettledRecords ==
  ASSUME TypeOK, Fresh
  PROVE  /\ Settled \subseteq Records
         /\ \A rec \in Settled : rec.by \in Runs /\ sid[rec.by] \in Ids
         /\ \A r \in Runs : pc[r] = "write" =>
              out[r] \notin Settled /\ \A id \in Ids : out[r] \notin ToSet(log[id])
<1>1. \A rec \in Settled : rec.by \in Runs /\ sid[rec.by] \in Ids
                           /\ rec \in ToSet(log[sid[rec.by]])
  BY DEF Fresh, TypeOK
<1>2. \A r \in Runs : pc[r] = "write" => out[r] \in Ahead(r)
  BY DEF Ahead, Before
<1>3. Settled \subseteq Records
  BY DEF Settled, Pending, TypeOK
<1> QED
  BY <1>1, <1>2, <1>3 DEF Fresh

\* A write may lose the record it writes, behind an unterminated line, and no other.
LEMMA WriteLosses ==
  ASSUME IInv, Fresh, Filed, Losses, NEW r \in Runs, AppendWrite(r)
  PROVE  Losses'
<1> DEFINE i == sid[r]
           f == files[i]
           x == out[r]
<1>0. TypeOK
  BY DEF IInv
<1>1. /\ Landed(r) \/ Broke(r)
      /\ pc[r] = "write" /\ UNCHANGED <<sid, out>>
      /\ \A y \in Runs \ {r} : pc'[y] = pc[y]
      /\ \A id \in Ids \ {i} : files'[id] = files[id]
  BY <1>0, WriteShape
<1>2. /\ i \in Ids /\ f \in Seq(Lines) /\ x \in Records /\ x \in Lines /\ Garbage \in Lines
      /\ (i \in torn => f # <<>>) /\ x.by = r /\ torn \subseteq Ids
  BY <1>0, RecordsOfRun DEF TypeOK, Lines, Filed, Fresh
<1>3. /\ Settled \subseteq Records /\ x \notin Settled /\ Garbage \notin Records
      /\ \A rec \in Settled : rec.by \in Runs /\ sid[rec.by] \in Ids
      /\ \A id \in Ids : x \notin ToSet(log[id])
  BY <1>0, <1>1, SettledRecords, GarbageIsNoRecord
<1>4. /\ ToSet(Append(f, x)) = ToSet(f) \cup {x}
      /\ ToSet(Append(f, Garbage)) = ToSet(f) \cup {Garbage}
      /\ Last(Append(f, x)) = x /\ Last(Append(f, Garbage)) = Garbage
  <2>1. \A y \in Lines : Len(Append(f, y)) = Len(f) + 1 /\ Append(f, y)[Len(f) + 1] = y
    BY <1>2, AppendProperties
  <2> QED
    BY <1>2, <2>1, AppendSet DEF Last
<1>5. ASSUME i \in torn
      PROVE  /\ \A rec \in ToSet(f) : rec # Last(f) => rec \in ToSet(Append(Front(f), Garbage))
             /\ Last(Append(Front(f), Garbage)) = Garbage
  <2>1. Front(f) \in Seq(Lines) /\ \A rec \in ToSet(f) : rec # Last(f) => rec \in ToSet(Front(f))
    BY <1>2, <1>5, FrontSet
  <2> DEFINE g == Front(f)
  <2>2. /\ ToSet(Append(g, Garbage)) = ToSet(g) \cup {Garbage}
        /\ Len(Append(g, Garbage)) = Len(g) + 1 /\ Append(g, Garbage)[Len(g) + 1] = Garbage
    BY <1>2, <2>1, AppendProperties, AppendSet
  <2> QED
    BY <2>1, <2>2 DEF Last
<1>6. i \in torn => Last(f) \notin Settled
  BY DEF Losses
<1> HIDE DEF f
<1>7. \A rec \in Settled : Readable(rec) => Readable(rec)'
  <2> SUFFICES ASSUME NEW rec \in Settled, rec \in ToSet(files[sid[rec.by]])
               PROVE  rec \in ToSet(files'[sid[rec.by]])
    BY <1>1 DEF Readable
  <2>1. CASE sid[rec.by] # i
    BY <1>1, <1>3, <2>1
  <2>2. CASE sid[rec.by] = i
    BY <1>1, <1>4, <1>5, <1>6, <2>2 DEF Landed, Broke, f
  <2> QED
    BY <2>1, <2>2
<1>8. Settled' \subseteq Settled \cup {x} /\ (Broke(r) => Settled' \subseteq Settled)
  BY <1>1 DEF Settled, Pending, Landed, Broke, Storing
<1>9. \A id \in torn \ {i} : Last(files'[id]) \notin Settled'
  <2> SUFFICES ASSUME NEW id \in torn \ {i} PROVE Last(files[id]) \notin Settled'
    BY <1>1, <1>2
  <2>1. files[id] \in Seq(Lines) /\ files[id] # <<>> /\ id \in Ids
    BY <1>0 DEF TypeOK, Lines, Filed
  <2>2. Last(files[id]) \in ToSet(files[id])
    BY <2>1, SetOf, LenProperties, EmptySeq DEF Last
  <2>3. Last(files[id]) # x
    <3> SUFFICES ASSUME Last(files[id]) = x PROVE FALSE
      OBVIOUS
    <3>1. PICK p \in 1..Len(files[id]) : files[id][p] = x
      BY <2>1, <2>2, SetOf
    <3>2. \E a \in 1..Len(log[id]) : log[id][a] = x
      <4>1. Follows(files[id], log[id]) /\ x # Garbage /\ p <= p
        BY <1>2, <1>3, <2>1 DEF Filed
      <4> QED
        BY <3>1, <4>1, FollowsUse
    <3>3. log[id] \in Seq(Records)
      BY <1>0, <2>1 DEF TypeOK
    <3> QED
      BY <1>3, <2>1, <3>2, <3>3, SetOf
  <2> QED
    BY <1>8, <2>3 DEF Losses
<1>10. \A id \in torn' : Last(files'[id]) \notin Settled'
  <2>1. i \in torn' => Last(files'[i]) \notin Settled'
    BY <1>1, <1>3, <1>4, <1>5, <1>6, <1>8 DEF Landed, Broke, f
  <2>2. torn' \subseteq torn \cup {i}
    BY <1>1 DEF Landed, Broke
  <2> QED
    BY <1>9, <2>1, <2>2
<1>11. /\ IsFiniteSet(Lost) /\ IsFiniteSet(torn) /\ Cardinality(Lost) \in Nat
       /\ Cardinality(torn) \in Nat /\ faults \in Nat
       /\ Cardinality(Lost) + Cardinality(torn) <= faults
  BY <1>0, FS_CardinalityType DEF Losses, TypeOK
<1>12. CASE Broke(r)
  <2>1. Lost' \subseteq Lost /\ torn' \subseteq torn \cup {i}
    BY <1>7, <1>8, <1>12 DEF Lost, Broke
  <2>2. faults' = faults + 1
    BY <1>12 DEF Broke
  <2>3. /\ IsFiniteSet(Lost') /\ Cardinality(Lost') \in Nat
        /\ Cardinality(Lost') <= Cardinality(Lost)
    BY <1>11, <2>1, FewerElements
  <2>4. /\ IsFiniteSet(torn') /\ Cardinality(torn') \in Nat
        /\ Cardinality(torn') <= Cardinality(torn) + 1
    BY <1>11, <2>1, OneMoreElement
  <2>5. Cardinality(Lost') + Cardinality(torn') <= faults'
    BY <1>11, <2>2, <2>3, <2>4
  <2> QED
    BY <1>10, <2>3, <2>4, <2>5 DEF Losses
<1>13. CASE Landed(r) /\ i \notin torn
  <2>1. x \in ToSet(files'[i]) /\ torn' = torn /\ faults' = faults
    BY <1>4, <1>13 DEF Landed, f
  <2>2. x \in ToSet(files'[sid'[x.by]])
    BY <1>1, <1>2, <2>1
  <2>3. Lost' \subseteq Lost
    BY <1>7, <1>8, <2>2 DEF Lost, Readable
  <2>4. /\ IsFiniteSet(Lost') /\ Cardinality(Lost') \in Nat
        /\ Cardinality(Lost') <= Cardinality(Lost)
    BY <1>11, <2>3, FewerElements
  <2>5. Cardinality(Lost') + Cardinality(torn') <= faults'
    BY <1>11, <2>1, <2>4
  <2> QED
    BY <1>10, <1>11, <2>1, <2>4, <2>5 DEF Losses
<1>14. CASE Landed(r) /\ i \in torn
  <2>1. Lost' \subseteq Lost \cup {x} /\ torn' = torn \ {i} /\ faults' = faults
    BY <1>7, <1>8, <1>14 DEF Lost, Landed
  <2>2. /\ IsFiniteSet(Lost') /\ Cardinality(Lost') \in Nat
        /\ Cardinality(Lost') <= Cardinality(Lost) + 1
    BY <1>11, <2>1, OneMoreElement
  <2>3. IsFiniteSet(torn') /\ Cardinality(torn') = Cardinality(torn) - 1
    BY <1>11, <1>14, <2>1, FS_RemoveElement
  <2>4. Cardinality(Lost') + Cardinality(torn') <= faults'
    BY <1>11, <2>1, <2>2, <2>3
  <2> QED
    BY <1>10, <2>2, <2>3, <2>4 DEF Losses
<1> QED
  BY <1>1, <1>12, <1>13, <1>14

LEMMA MoveLosses ==
  ASSUME TypeOK, Losses, UNCHANGED <<files, torn>>, Settled' \subseteq Settled,
         \A rec \in Settled : sid'[rec.by] = sid[rec.by],
         faults' \in Nat, faults <= faults'
  PROVE  Losses'
<1>1. Lost' \subseteq Lost
  BY DEF Lost, Readable
<1>2. IsFiniteSet(Lost) /\ faults \in Nat /\ Cardinality(torn) \in Nat
  BY FS_CardinalityType DEF Losses, TypeOK
<1>3. /\ IsFiniteSet(Lost') /\ Cardinality(Lost') \in Nat
      /\ Cardinality(Lost) \in Nat /\ Cardinality(Lost') <= Cardinality(Lost)
  BY <1>1, <1>2, FewerElements
<1>4. Cardinality(Lost') + Cardinality(torn') <= faults'
  BY <1>2, <1>3 DEF Losses
<1> QED
  BY <1>3, <1>4 DEF Losses

LEMMA LossesInv == Spec => []Losses
<1>1. Init => Losses
  <2> SUFFICES ASSUME Init PROVE Losses
    OBVIOUS
  <2>1. Settled = {} /\ torn = {} /\ faults = 0
    BY DEF Init, Settled, Pending, Storing
  <2>2. Lost = {}
    BY <2>1 DEF Lost
  <2> QED
    BY <2>1, <2>2, FS_EmptySet DEF Losses
<1>2. IInv /\ Fresh /\ Filed /\ Losses /\ [Next]_vars => Losses'
  <2> SUFFICES ASSUME IInv, Fresh, Filed, Losses, [Next]_vars PROVE Losses'
    OBVIOUS
  <2>0. TypeOK
    BY DEF IInv
  <2>1. CASE Restart
    <3>1. /\ UNCHANGED <<files, torn, sid, out, acked, faults>> /\ faults \in Nat
          /\ \A r \in Runs : pc'[r] \notin Storing
      BY <2>0, <2>1 DEF Restart, fileVars, runVars, Stopped, Storing, TypeOK
    <3>2. Settled' \subseteq Settled
      BY <3>1 DEF Settled, Pending
    <3> QED
      BY <2>0, <3>1, <3>2, MoveLosses
  <2>2. CASE UNCHANGED vars
    BY <2>2 DEF vars, Losses, Lost, Settled, Pending, Readable
  <2>3. ASSUME NEW r \in Runs, Step(r), ~AppendWrite(r) PROVE Losses'
    <3>1. /\ UNCHANGED <<files, torn>> /\ Moves(r)
          /\ \A x \in Runs \ {r} : pc'[x] = pc[x] /\ out'[x] = out[x]
      BY <2>0, <2>3, StepShape
    <3>2. Settled' \subseteq Settled
      BY <3>1, SettledShrinks
    <3>3. \A rec \in Settled : sid'[rec.by] = sid[rec.by]
      BY <2>3, LostStaysLost
    <3> QED
      BY <2>0, <2>3, <3>1, <3>2, <3>3, FaultsGrow, MoveLosses
  <2> QED
    BY <2>1, <2>2, <2>3, WriteLosses DEF Next, AllStopped, Step
<1> QED
  BY <1>1, <1>2, SpecInv, FreshInv, FiledInv, PTL DEF Spec

(***************************************************************************)
(* A failing write (manager.go:204-206) leaves at most one line without    *)
(* its newline, and that line destroys at most the record appended after   *)
(* it: acknowledged records lost <= failing writes.                        *)
(***************************************************************************)
THEOREM LossesAreBounded == Spec => []TornLineCostsOne
<1>1. TypeOK /\ Losses => TornLineCostsOne
  <2> SUFFICES ASSUME TypeOK, Losses PROVE TornLineCostsOne
    OBVIOUS
  <2> DEFINE L == {rec \in acked : ~Readable(rec)}
  <2>1. L \subseteq Lost /\ IsFiniteSet(Lost) /\ IsFiniteSet(torn) /\ faults \in Nat
        /\ Cardinality(Lost) + Cardinality(torn) <= faults
    BY DEF Lost, Settled, Losses, TypeOK
  <2> HIDE DEF L
  <2>2. Cardinality(L) \in Nat /\ Cardinality(Lost) \in Nat /\ Cardinality(L) <= Cardinality(Lost)
    BY <2>1, FewerElements
  <2>3. Cardinality(torn) \in Nat
    BY <2>1, FS_CardinalityType
  <2>4. Cardinality(L) <= faults
    BY <2>1, <2>2, <2>3
  <2> QED
    BY <2>4 DEF TornLineCostsOne, L
<1> QED
  BY <1>1, TypeCorrect, LossesInv, PTL

-----------------------------------------------------------------------------
(* What the contexts lag behind. *)

\* A SessionID names one session, and a run that has not begun names none.
UniqueIds ==
  \A k \in SessionKeys : mem[k] # NoEntry =>
    /\ mem[k].id \in Runs => ses[mem[k].id] = k /\ pc[mem[k].id] # "idle"
    /\ mem[k].id \in LegacyKeys => mem[k].id = k

LEMMA SameSession ==
  ASSUME TypeOK, UniqueIds, NEW j \in SessionKeys, NEW k \in SessionKeys,
         mem[j] # NoEntry, mem[k] # NoEntry, mem[j].id = mem[k].id
  PROVE  j = k
<1>1. mem[k] \in Entries
  BY DEF TypeOK
<1>2. mem[k].id \in Ids
  BY <1>1, EntryShape
<1> QED
  BY <1>2 DEF UniqueIds, Ids

LEMMA StepUnique ==
  ASSUME IInv, Owned, UniqueIds, NEW r \in Runs, Step(r)
  PROVE  UniqueIds'
<1>0. TypeOK /\ ses[r] \in SessionKeys /\ ses' = ses
  BY StepShape, WriteShape DEF IInv, TypeOK
<1>1. pc'[r] # "idle" /\ \A x \in Runs : pc'[x] = "idle" => pc[x] = "idle"
  <2>1. CASE AppendWrite(r)
    <3>1. pc'[r] # "idle"
      BY <1>0, <2>1, WriteShape DEF Landed, Broke, AfterAppend
    <3> QED
      BY <1>0, <2>1, <3>1, WriteShape
  <2>2. CASE ~AppendWrite(r)
    <3>1. Moves(r) /\ \A x \in Runs \ {r} : pc'[x] = pc[x]
      BY <1>0, <2>2, StepShape
    <3>2. pc'[r] # "idle"
      BY <3>1 DEF Moves, AfterAppend, Rebuilding
    <3> QED
      BY <3>1, <3>2
  <2> QED
    BY <2>1, <2>2
<1>2. CASE UNCHANGED <<mem, disk>>
  BY <1>0, <1>1, <1>2 DEF UniqueIds
<1>3. CASE ~UNCHANGED <<mem, disk>>
  <2>1. PICK e \in Entries :
          /\ PutOk(ses[r], e) \/ PutFails(ses[r], e)
          /\ mem[ses[r]] # NoEntry => e.id = mem[ses[r]].id
          /\ mem[ses[r]] = NoEntry => e.id = r
    <3>1. mem[ses[r]] = NoEntry => ~RebuildDone(r) /\ ~AppendStore(r)
      BY NoEntryAssumption, TouchedGood
         DEF RebuildDone, AppendStore, Touched, Labels, GoodEntry
    <3> QED
      BY <1>3, <3>1, Saves DEF TouchedEntry, NewEntry
  <2>2. mem'[ses[r]] = e /\ \A j \in SessionKeys \ {ses[r]} : mem'[j] = mem[j]
    BY <1>0, <2>1, PutShape
  <2>3. r \notin LegacyKeys
    BY SessionsAssumption
  <2> QED
    BY <1>0, <1>1, <2>1, <2>2, <2>3 DEF UniqueIds
<1> QED
  BY <1>2, <1>3

LEMMA UniqueInv == Spec => []UniqueIds
<1>1. Init => UniqueIds
  <2> SUFFICES ASSUME Init, NEW k \in SessionKeys, mem[k] # NoEntry
               PROVE  /\ mem[k].id \in Runs => ses[mem[k].id] = k /\ pc[mem[k].id] # "idle"
                      /\ mem[k].id \in LegacyKeys => mem[k].id = k
    BY DEF UniqueIds
  <2>1. mem[k].id = k
    BY DEF Init, NewEntry
  <2> QED
    BY <2>1, SessionsAssumption
<1>2. IInv /\ Owned /\ UniqueIds /\ [Next]_vars => UniqueIds'
  <2> SUFFICES ASSUME IInv, Owned, UniqueIds, [Next]_vars PROVE UniqueIds'
    OBVIOUS
  <2>1. CASE Restart
    <3>1. /\ mem' = disk /\ ses' = ses
          /\ \A x \in Runs : pc'[x] = "idle" <=> pc[x] = "idle"
      BY <2>1 DEF Restart, runVars, Stopped
    <3> QED
      BY <3>1 DEF UniqueIds, Owned, Names
  <2>2. CASE UNCHANGED vars
    BY <2>2 DEF vars, UniqueIds
  <2> QED
    BY <2>1, <2>2, StepUnique DEF Next, AllStopped
<1> QED
  BY <1>1, <1>2, SpecInv, OwnedInv, PTL DEF Spec

\* A message of the transcript that an entry with a context state does not hold.
MissedBy(e, rec) ==
  /\ e # NoEntry /\ e.sig # NoSig
  /\ rec \in ToSet(files[e.id]) /\ IsReadableMessage(rec) /\ rec \notin ToSet(e.folded)

Missed(rec) ==
  \E k \in SessionKeys : MissedBy(mem[k], rec) \/ MissedBy(disk[k], rec)

(***************************************************************************)
(* What memory or disk lacks, beyond the message whose append is under way,*)
(* was lost to a failing write or to a crash, one for each.                *)
(***************************************************************************)
Behind == {rec \in Records : Missed(rec) /\ rec \notin Pending}

LagInv == IsFiniteSet(Behind) /\ Cardinality(Behind) <= faults + restarts

\* At most one append is under way.
LEMMA OnePending ==
  ASSUME IInv
  PROVE  /\ mu = Nobody => Pending = {}
         /\ \A r \in Runs : Pending \subseteq {out[r]} \/ pc[r] \notin Storing
         /\ \E x : Pending \subseteq {x}
<1>1. \A r \in Runs : pc[r] \in Storing => mu = r
  BY DEF IInv, Holding, Storing, Rebuilding
<1> QED
  BY <1>1, SessionsAssumption DEF Pending

LEMMA AtMost ==
  /\ \A a, b \in Nat : a + b \in Nat
  /\ \A a, b, c, d \in Nat : a <= b /\ b <= c /\ c <= d => a <= d
  /\ \A a, b, c, d \in Nat : a <= b + 1 /\ b <= c /\ c + 1 <= d => a <= d
OBVIOUS

\* A step that leaves no more behind, or one more message for one more fault.
LEMMA LagKept ==
  ASSUME TypeOK, LagInv, faults' \in Nat, restarts' \in Nat,
         \/ Behind' \subseteq Behind /\ faults + restarts <= faults' + restarts'
         \/ /\ \E x : Behind' \subseteq Behind \cup {x}
            /\ faults + restarts + 1 <= faults' + restarts'
  PROVE  LagInv'
<1>0. /\ faults + restarts \in Nat /\ faults' + restarts' \in Nat
      /\ Cardinality(Behind) \in Nat /\ Cardinality(Behind) <= faults + restarts
  <2>1. faults \in Nat /\ restarts \in Nat
    BY DEF TypeOK
  <2>2. Cardinality(Behind) \in Nat /\ Cardinality(Behind) <= faults + restarts
    BY FS_CardinalityType DEF LagInv
  <2>3. faults + restarts \in Nat
    BY <2>1
  <2>4. faults' + restarts' \in Nat
    BY AtMost, Zenon
  <2> QED
    BY <2>2, <2>3, <2>4, Zenon
<1>1. CASE Behind' \subseteq Behind /\ faults + restarts <= faults' + restarts'
  <2>1. /\ IsFiniteSet(Behind') /\ Cardinality(Behind') \in Nat
        /\ Cardinality(Behind') <= Cardinality(Behind)
    BY <1>1, FewerElements DEF LagInv
  <2>2. Cardinality(Behind') <= faults' + restarts'
    BY <1>0, <1>1, <2>1, AtMost, Zenon
  <2> QED
    BY <2>1, <2>2 DEF LagInv
<1>2. CASE /\ \E x : Behind' \subseteq Behind \cup {x}
           /\ faults + restarts + 1 <= faults' + restarts'
  <2>0. PICK x : Behind' \subseteq Behind \cup {x}
    BY <1>2
  <2>1. /\ IsFiniteSet(Behind') /\ Cardinality(Behind') \in Nat
        /\ Cardinality(Behind') <= Cardinality(Behind) + 1
    BY <2>0, OneMoreElement DEF LagInv
  <2>2. Cardinality(Behind') <= faults' + restarts'
    BY <1>0, <1>2, <2>1, AtMost, Zenon
  <2> QED
    BY <2>1, <2>2 DEF LagInv
<1> QED
  BY <1>1, <1>2

\* What a Put leaves missed: what was, unless the new entry lacks something new.
LEMMA PutMissed ==
  ASSUME TypeOK, NEW k \in SessionKeys, NEW e \in Entries, PutOk(k, e) \/ PutFails(k, e),
         files' = files, NEW rec, MissedBy(e, rec) => Missed(rec)
  PROVE  Missed(rec)' => Missed(rec)
<1>1. /\ mem'[k] = e /\ \A j \in SessionKeys \ {k} : mem'[j] = mem[j]
      /\ disk' = mem' \/ disk' = disk
  BY PutShape
<1>2. \A j \in SessionKeys : MissedBy(mem[j], rec)' => MissedBy(mem'[j], rec)
  BY DEF MissedBy
<1>3. \A j \in SessionKeys : MissedBy(disk[j], rec)' => MissedBy(disk'[j], rec)
  BY DEF MissedBy
<1> QED
  BY <1>1, <1>2, <1>3 DEF Missed

\* Which appends are under way after a step of a run.
LEMMA PendingMoves ==
  ASSUME TypeOK, NEW r \in Runs, Step(r), ~AppendWrite(r)
  PROVE  /\ Pending \subseteq Pending' \cup {out[r]}
         /\ (pc[r] \in Storing => pc'[r] \in Storing) => Pending \subseteq Pending'
<1>1. /\ Moves(r)
      /\ \A x \in Runs \ {r} : pc'[x] = pc[x] /\ out'[x] = out[x]
  BY StepShape
<1>2. pc[r] \in Storing => out'[r] = out[r]
  BY <1>1 DEF Moves, Storing, Rebuilding
<1>3. \A x \in Runs \ {r} : pc[x] \in Storing => out[x] \in Pending'
  BY <1>1 DEF Pending
<1>4. pc[r] \in Storing /\ pc'[r] \in Storing => out[r] \in Pending'
  BY <1>2 DEF Pending
<1> QED
  BY <1>3, <1>4 DEF Pending

\* A step that saves an entry which lacks nothing new.
LEMMA SaveLag ==
  ASSUME IInv, LagInv, NEW r \in Runs, Step(r), ~AppendWrite(r),
         NEW e \in Entries, PutOk(ses[r], e) \/ PutFails(ses[r], e),
         \A rec \in Records : MissedBy(e, rec) => Missed(rec),
         \/ pc[r] \in Storing => pc'[r] \in Storing
         \/ PutFails(ses[r], e)
         \/ out' = out /\ ~Missed(out[r])'
  PROVE  LagInv'
<1>0. /\ TypeOK /\ ses[r] \in SessionKeys /\ files' = files /\ restarts' = restarts
      /\ restarts \in Nat /\ faults \in Nat /\ faults' \in Nat /\ faults <= faults'
  BY StepShape, FaultsGrow DEF IInv, TypeOK
<1>1. \A rec \in Records : Missed(rec)' => Missed(rec)
  BY <1>0, PutMissed
<1>2. Pending \subseteq Pending' \cup {out[r]}
      /\ ((pc[r] \in Storing => pc'[r] \in Storing) => Pending \subseteq Pending')
  BY <1>0, PendingMoves
<1>3. CASE (pc[r] \in Storing => pc'[r] \in Storing) \/ (out' = out /\ ~Missed(out[r])')
  <2>1. Behind' \subseteq Behind
    BY <1>1, <1>2, <1>3 DEF Behind
  <2>2. faults + restarts <= faults' + restarts'
    BY <1>0
  <2> QED
    BY <1>0, <2>1, <2>2, LagKept
<1>4. CASE PutFails(ses[r], e)
  <2>1. Behind' \subseteq Behind \cup {out[r]}
    BY <1>1, <1>2 DEF Behind
  <2>2. faults' = faults + 1
    BY <1>4 DEF PutFails
  <2>3. faults + restarts + 1 <= faults' + restarts'
    BY <1>0, <2>2
  <2> QED
    BY <1>0, <2>1, <2>3, LagKept
<1> QED
  BY <1>3, <1>4

\* A new SessionID has an empty transcript: its entry lacks nothing.
LEMMA TouchLag ==
  ASSUME IInv, Owned, UniqueIds, LagInv, NEW r \in Runs, Touch(r)
  PROVE  LagInv'
<1> DEFINE e == TouchedEntry(r)
<1>0. TypeOK /\ ses[r] \in SessionKeys /\ limit \in Limits /\ pc[r] = "idle"
  BY DEF IInv, TypeOK, Touch
<1>1. e \in Entries /\ (PutOk(ses[r], e) \/ PutFails(ses[r], e))
  BY <1>0, NewEntryGood DEF TouchedEntry, TypeOK, GoodEntry, Ids, Touch
<1>2. ASSUME NEW rec \in Records, MissedBy(e, rec) PROVE Missed(rec)
  <2>1. CASE mem[ses[r]] # NoEntry
    BY <1>0, <1>2, <2>1 DEF Missed, TouchedEntry
  <2>2. CASE mem[ses[r]] = NoEntry
    <3>1. e.id = r /\ r \in Ids
      BY <2>2 DEF TouchedEntry, NewEntry, Ids
    <3>2. files[r] = <<>>
      <4>1. SUFFICES ASSUME files[r] # <<>> PROVE FALSE
        OBVIOUS
      <4>2. PICK k \in SessionKeys : disk[k] # NoEntry /\ disk[k].id = r
        BY <3>1, <4>1 DEF Owned, NoOrphanTranscript
      <4>3. mem[k] # NoEntry /\ mem[k].id = r
        BY <4>2 DEF Owned, Names
      <4> QED
        BY <1>0, <4>3 DEF UniqueIds
    <3>3. rec \in ToSet(<<>>)
      BY <1>2, <3>1, <3>2 DEF MissedBy
    <3> QED
      BY <3>3 DEF ToSet
  <2> QED
    BY <2>1, <2>2
<1>3. pc[r] \notin Storing /\ Step(r) /\ ~AppendWrite(r)
  BY <1>0 DEF Storing, Step, AppendWrite
<1> HIDE DEF e
<1> QED
  BY <1>1, <1>2, <1>3, SaveLag

\* A finished rebuild holds every readable message of its transcript.
LEMMA RebuildLag ==
  ASSUME IInv, Owned, RebuiltSoFar, LagInv, NEW r \in Runs, RebuildDone(r)
  PROVE  LagInv'
<1>0. TypeOK /\ pc[r] \in Rebuilding /\ line = Len(files[work.id]) /\ Step(r) /\ ~AppendWrite(r)
  BY DEF IInv, RebuildDone, Rebuilding, Step, AppendWrite
<1>1. /\ work \in Entries /\ work.id \in Ids /\ work.folded \in Seq(Records)
      /\ PutOk(ses[r], work) \/ PutFails(ses[r], work)
  BY <1>0, EntryShape DEF IInv, Holding, RebuildDone
<1>2. files[work.id] \in Seq(Lines) /\ Gathers(work.folded, files[work.id], line) /\ line \in Nat
  BY <1>0, <1>1 DEF TypeOK, Lines, RebuiltSoFar
<1>3. ASSUME NEW rec \in Records, MissedBy(work, rec) PROVE FALSE
  <2>1. PICK j \in 1..line : files[work.id][j] = rec
    BY <1>0, <1>2, <1>3, SetOf DEF MissedBy
  <2>2. IsReadableMessage(files[work.id][j]) /\ rec \notin ToSet(work.folded)
    BY <1>3, <2>1 DEF MissedBy
  <2> QED
    BY <1>1, <1>2, <2>1, <2>2, GathersAll
<1>4. (pc[r] \in Storing => pc'[r] \in Storing) \/ PutFails(ses[r], work)
  <2>1. CASE Goto(r, IF pc[r] = "rebuild" THEN "write" ELSE "store")
    BY <1>0, <2>1 DEF Goto, TypeOK, Storing, Rebuilding
  <2> QED
    BY <2>1 DEF RebuildDone
<1> QED
  BY <1>0, <1>1, <1>3, <1>4, SaveLag

\* Once the message is folded and saved, nobody lacks it.
LEMMA FoldLag ==
  ASSUME IInv, Owned, Fresh, Filed, UniqueIds, LagInv, NEW r \in Runs,
         AppendStore(r), StateIsCurrent(r)
  PROVE  LagInv'
<1> DEFINE k == ses[r]
<1>0. /\ TypeOK /\ k \in SessionKeys /\ out[r] \in Records /\ pc[r] = "store" /\ pc[r] \in Touched
      /\ Step(r) /\ ~AppendWrite(r)
  BY DEF IInv, TypeOK, AppendStore, Step, AppendWrite, Touched, Labels
<1>1. PICK e \in Entries :
        /\ PutOk(k, e) \/ PutFails(k, e)
        /\ e = ApplyContextMessage(mem[k], out[r], limit)
  BY <1>0, Saves DEF Touch, RebuildDone
<1>2. /\ mem[k] \in Entries /\ mem[k] # NoEntry /\ mem[k].id = sid[r]
      /\ mem[k].folded \in Seq(Records)
  <2>1. mem[k] \in Entries
    BY <1>0, TouchedGood DEF GoodEntry
  <2> QED
    BY <1>0, <2>1, EntryShape, NoEntryAssumption DEF Owned, Names
<1>3. e.id = mem[k].id /\ e.sig = mem[k].sig /\ e.folded = Append(mem[k].folded, out[r])
  BY <1>1, <1>2, EntryShape
<1>4. ToSet(e.folded) = ToSet(mem[k].folded) \cup {out[r]}
  BY <1>0, <1>2, <1>3, AppendSet
<1>5. \A rec \in Records : MissedBy(e, rec) => Missed(rec)
  BY <1>0, <1>2, <1>3, <1>4 DEF MissedBy, Missed
<1> HIDE DEF k
<1>6. out' = out /\ k = ses[r]
  BY <1>0, StepShape DEF AppendStore, runVars, k
<1> HIDE DEF k
<1>7. ASSUME PutOk(k, e), Missed(out[r])' PROVE FALSE
  <2>1. /\ mem'[k] = e /\ \A j \in SessionKeys \ {k} : mem'[j] = mem[j]
        /\ disk' = mem' /\ files' = files
    BY <1>0, <1>7, StepShape DEF PutOk, TypeOK
  <2>2. PICK j \in SessionKeys : MissedBy(mem'[j], out[r])
    BY <1>6, <1>7, <2>1 DEF Missed, MissedBy
  <2>3. CASE j = k
    BY <1>4, <2>1, <2>2, <2>3 DEF MissedBy
  <2>4. CASE j # k
    <3>1. /\ mem[j] # NoEntry /\ out[r] \in ToSet(files[mem[j].id]) /\ out[r] # Garbage
      BY <2>1, <2>2, <2>4 DEF MissedBy, IsReadableMessage
    <3>2. mem[j] \in Entries /\ mem[j].id \in Ids
      BY <1>0, <3>1, EntryShape DEF TypeOK
    <3>3. /\ files[mem[j].id] \in Seq(Lines) /\ log[mem[j].id] \in Seq(Records)
          /\ Follows(files[mem[j].id], log[mem[j].id])
      BY <1>0, <3>2 DEF TypeOK, Lines, Filed
    <3>4. PICK p \in 1..Len(files[mem[j].id]) : files[mem[j].id][p] = out[r]
      BY <3>1, <3>3, SetOf
    <3>5. out[r] \in ToSet(log[mem[j].id])
      <4>1. \E a, b \in 1..Len(log[mem[j].id]) : log[mem[j].id][a] = out[r]
        BY <3>1, <3>3, <3>4, FollowsUse
      <4> QED
        BY <3>3, <4>1, SetOf
    <3>6. sid[r] = mem[j].id
      <4>1. out[r].by = r
        BY RecordsOfRun DEF Fresh
      <4> QED
        BY <3>2, <3>5, <4>1 DEF Fresh
    <3> QED
      BY <1>0, <1>2, <2>4, <3>1, <3>6, SameSession
  <2> QED
    BY <2>3, <2>4
<1> QED
  BY <1>0, <1>1, <1>5, <1>6, <1>7, SaveLag

\* A line that reaches the transcript is pending until it is folded.
LEMMA WriteLag ==
  ASSUME IInv, Filed, LagInv, NEW r \in Runs, AppendWrite(r)
  PROVE  LagInv'
<1> DEFINE i == sid[r]
           f == files[i]
<1>0. TypeOK
  BY DEF IInv
<1>1. /\ Landed(r) \/ Broke(r)
      /\ mu = Nobody /\ restarts' = restarts /\ UNCHANGED <<mem, disk, out>>
      /\ \A id \in Ids \ {i} : files'[id] = files[id]
  BY <1>0, WriteShape
<1>2. /\ i \in Ids /\ f \in Seq(Lines) /\ out[r] \in Lines /\ Garbage \in Lines
      /\ (i \in torn => f # <<>>)
      /\ faults \in Nat /\ restarts \in Nat
  BY <1>0 DEF TypeOK, Lines, Filed
<1>3. ToSet(files'[i]) \subseteq ToSet(f) \cup {out[r], Garbage}
  <2>1. /\ ToSet(Append(f, out[r])) = ToSet(f) \cup {out[r]}
        /\ ToSet(Append(f, Garbage)) = ToSet(f) \cup {Garbage}
        /\ i \in torn => ToSet(Append(Front(f), Garbage)) \subseteq ToSet(f) \cup {Garbage}
    <3>1. i \in torn => Front(f) \in Seq(Lines) /\ ToSet(Front(f)) \subseteq ToSet(f)
      BY <1>2, FrontSet
    <3> QED
      BY <1>2, <3>1, AppendSet
  <2> QED
    BY <1>1, <2>1 DEF Landed, Broke
<1>4. ASSUME NEW rec \in Records, rec # out[r], NEW e \in Entries \cup {NoEntry},
             e # NoEntry, e.sig # NoSig, IsReadableMessage(rec), rec \notin ToSet(e.folded),
             rec \in ToSet(files'[e.id])
      PROVE  MissedBy(e, rec)
  <2>1. e.id \in Ids /\ rec # Garbage
    BY <1>4, EntryShape DEF IsReadableMessage
  <2> QED
    BY <1>1, <1>3, <1>4, <2>1 DEF MissedBy
<1> HIDE DEF i, f
<1>5. \A rec \in Records : rec # out[r] /\ Missed(rec)' => Missed(rec)
  <2> SUFFICES ASSUME NEW rec \in Records, rec # out[r],
                      NEW k \in SessionKeys, NEW e, e = mem[k] \/ e = disk[k],
                      e # NoEntry, e.sig # NoSig, IsReadableMessage(rec),
                      rec \notin ToSet(e.folded), rec \in ToSet(files'[e.id])
               PROVE  Missed(rec)
    BY <1>1 DEF Missed, MissedBy
  <2>1. e \in Entries \cup {NoEntry}
    BY <1>0 DEF TypeOK
  <2>2. MissedBy(e, rec)
    BY <1>4, <2>1
  <2> QED
    BY <2>2 DEF Missed
<1>6. Pending = {}
  BY <1>1, OnePending
<1>7. CASE Landed(r)
  <2>1. IsReadableMessage(out[r]) => out[r] \in Pending'
    BY <1>1, <1>7 DEF Landed, IsReadableMessage, Pending, Storing
  <2>2. Missed(out[r])' => IsReadableMessage(out[r])
    BY <1>1 DEF Missed, MissedBy
  <2>3. Behind' \subseteq Behind
    BY <1>1, <1>5, <1>6, <2>1, <2>2 DEF Behind
  <2>4. faults' \in Nat /\ restarts' \in Nat /\ faults + restarts <= faults' + restarts'
    BY <1>1, <1>2, <1>7 DEF Landed
  <2> QED
    BY <1>0, <2>3, <2>4, LagKept
<1>8. CASE Broke(r)
  <2>1. Behind' \subseteq Behind \cup {out[r]}
    BY <1>1, <1>5, <1>6 DEF Behind
  <2>2. faults' = faults + 1
    BY <1>8 DEF Broke
  <2>3. faults' \in Nat /\ restarts' \in Nat /\ faults + restarts + 1 <= faults' + restarts'
    BY <1>1, <1>2, <2>2
  <2> QED
    BY <1>0, <2>1, <2>3, LagKept
<1> QED
  BY <1>1, <1>7, <1>8

\* The other steps leave the entries and the transcripts alone.
LEMMA QuietLag ==
  ASSUME IInv, LagInv, NEW r \in Runs, Step(r), ~Touch(r), ~RebuildDone(r), ~RebuildFails(r),
         ~AppendWrite(r), ~(AppendStore(r) /\ StateIsCurrent(r))
  PROVE  LagInv'
<1>0. TypeOK
  BY DEF IInv
<1>1. UNCHANGED <<mem, disk, faults>>
      /\ (pc[r] \in Storing => pc'[r] \in Storing)
  BY <1>0 DEF Step, ModelContext, RebuildLine, RebuildFails,
      SendEvent, RunErrs, AppendStore, StartRebuild,
              storeVars, bounds, Goto, TypeOK, Storing
<1>2. UNCHANGED <<files, restarts>> /\ Pending \subseteq Pending'
  BY <1>0, <1>1, StepShape, PendingMoves
<1>3. \A rec : Missed(rec)' <=> Missed(rec)
  BY <1>1, <1>2 DEF Missed, MissedBy
<1>4. Behind' \subseteq Behind
  BY <1>2, <1>3 DEF Behind
<1>5. faults \in Nat /\ restarts \in Nat
  BY <1>0 DEF TypeOK
<1> QED
  BY <1>0, <1>1, <1>2, <1>4, <1>5, LagKept

\* A rebuild that cannot read gives up the append it was made for.
LEMMA RebuildFailsLag ==
  ASSUME IInv, LagInv, NEW r \in Runs, RebuildFails(r)
  PROVE  LagInv'
<1>0. TypeOK /\ Step(r) /\ ~AppendWrite(r) /\ faults \in Nat /\ restarts \in Nat
  BY DEF IInv, TypeOK, Step, RebuildFails, AppendWrite
<1>1. UNCHANGED <<mem, disk, files, restarts>> /\ faults' = faults + 1
  BY DEF RebuildFails, storeVars, fileVars
<1>2. Pending \subseteq Pending' \cup {out[r]}
  BY <1>0, PendingMoves
<1>3. \A rec : Missed(rec)' <=> Missed(rec)
  BY <1>1 DEF Missed, MissedBy
<1>4. Behind' \subseteq Behind \cup {out[r]}
  BY <1>2, <1>3 DEF Behind
<1>5. faults' \in Nat /\ restarts' \in Nat /\ faults + restarts + 1 <= faults' + restarts'
  BY <1>0, <1>1
<1> QED
  BY <1>0, <1>4, <1>5, LagKept

\* A crash forgets one append at most; the map becomes what the file holds.
LEMMA RestartLag == IInv /\ LagInv /\ Restart => LagInv'
<1> SUFFICES ASSUME IInv, LagInv, Restart PROVE LagInv'
  OBVIOUS
<1>1. /\ TypeOK /\ mem' = disk /\ UNCHANGED <<disk, files, faults>> /\ restarts' = restarts + 1
      /\ faults \in Nat /\ restarts \in Nat
  BY DEF Restart, fileVars, IInv, TypeOK
<1>2. \A rec : Missed(rec)' => Missed(rec)
  BY <1>1 DEF Missed, MissedBy
<1>3. PICK x : Pending \subseteq {x}
  BY OnePending
<1>4. Behind' \subseteq Behind \cup {x}
  BY <1>2, <1>3 DEF Behind
<1>5. faults' \in Nat /\ restarts' \in Nat /\ faults + restarts + 1 <= faults' + restarts'
  BY <1>1
<1> QED
  BY <1>1, <1>4, <1>5, LagKept

LEMMA LagSpecInv == Spec => []LagInv
<1>1. Init => LagInv
  <2> SUFFICES ASSUME Init PROVE LagInv
    OBVIOUS
  <2>1. /\ TypeOK /\ faults = 0 /\ restarts = 0
        /\ \A k \in SessionKeys : disk[k] = mem[k] /\ (mem[k] # NoEntry => mem[k].sig = NoSig)
    BY InitInv DEF Init, IInv, NewEntry
  <2>2. Behind = {}
    BY <2>1 DEF Behind, Missed, MissedBy
  <2> QED
    BY <2>1, <2>2, FS_EmptySet DEF LagInv
<1>2. ASSUME IInv, Owned, Fresh, Filed, RebuiltSoFar, UniqueIds, LagInv, [Next]_vars
      PROVE  LagInv'
  <2>1. CASE UNCHANGED vars
    BY <1>2, <2>1 DEF vars, LagInv, Behind, Missed, MissedBy, Pending
  <2>2. ASSUME NEW r \in Runs, Step(r) PROVE LagInv'
    BY <1>2, <2>2, TouchLag, RebuildLag, RebuildFailsLag, WriteLag, FoldLag,
       QuietLag
  <2> QED
    BY <1>2, <2>1, <2>2, RestartLag DEF Next, AllStopped
<1> QED
  BY <1>1, <1>2, SpecInv, OwnedInv, FreshInv, FiledInv, RebuiltInv, UniqueInv, PTL DEF Spec

(***************************************************************************)
(* Between operations no context lags behind its transcript by more than   *)
(* one message per failing write or crash: AppendWithOptions               *)
(* (manager.go:156-223) folds what it wrote before it releases m.mu.       *)
(***************************************************************************)
THEOREM ContextLagsByFaults == Spec => []ContextLag
<1>1. ASSUME IInv, LagInv PROVE ContextLag
  <2> SUFFICES ASSUME mu = Nobody
               PROVE  Cardinality(UNION {Unfolded(k) : k \in {s \in SessionKeys :
                         mem[s] # NoEntry /\ mem[s].sig = limit}}) <= faults + restarts
    BY DEF ContextLag
  <2> DEFINE U == UNION {Unfolded(k) : k \in {s \in SessionKeys :
                           mem[s] # NoEntry /\ mem[s].sig = limit}}
  <2>1. Pending = {}
    BY <1>1, OnePending
  <2>2. limit # NoSig /\ TypeOK
    BY <1>1, SessionsAssumption DEF IInv, TypeOK, NoSig
  <2>3. ASSUME NEW k \in SessionKeys, mem[k] # NoEntry, mem[k].sig = limit,
               NEW rec \in Unfolded(k)
        PROVE  rec \in Behind
    <3>1. mem[k].id \in Ids
      BY <2>2, <2>3, EntryShape DEF TypeOK
    <3>2. files[mem[k].id] \in Seq(Lines)
      BY <2>2, <3>1 DEF TypeOK, Lines
    <3>3. rec \in ToSet(files[mem[k].id]) /\ rec # Garbage /\ IsContextMessage(rec)
          /\ rec \notin ToSet(mem[k].folded)
      BY DEF Unfolded
    <3>4. rec \in Records
      BY <3>2, <3>3, SetOf DEF Lines
    <3> QED
      BY <2>1, <2>2, <2>3, <3>3, <3>4 DEF Behind, Missed, MissedBy, IsReadableMessage
  <2>4. U \subseteq Behind
    BY <2>3
  <2> HIDE DEF U
  <2>5. /\ Cardinality(U) \in Nat /\ Cardinality(Behind) \in Nat
        /\ Cardinality(U) <= Cardinality(Behind)
    BY <1>1, <2>4, FewerElements DEF LagInv
  <2>6. faults + restarts \in Nat /\ Cardinality(Behind) <= faults + restarts
    BY <1>1, <2>2 DEF LagInv, TypeOK
  <2>7. Cardinality(U) <= faults + restarts
    BY <2>5, <2>6
  <2> QED
    BY <2>7 DEF U
<1> QED
  BY <1>1, SpecInv, LagSpecInv, PTL

-----------------------------------------------------------------------------
(* The rolling notes. *)

\* Notes "s" of n messages of "l" with a head of h lines: none, the marker, a cut line too.
NotesWith(s, n, l, h) ==
  /\ h <= Len(s) /\ Len(s) - h <= n
  /\ h = 0 => Len(s) = n
  /\ h > 0 => s[1] = TrimMarker
  /\ h = 2 => s[2] = CutLine
  /\ \A j \in (h + 1)..Len(s) : s[j] = l[n - Len(s) + j]

NotesFor(s, n, l) == \E h \in 0..2 : NotesWith(s, n, l, h)

NotesOK(e) == NotesFor(e.summary, e.summarized, e.folded)

LEMMA MarkedCut == <<TrimMarker>> \o <<CutLine>> = <<TrimMarker, CutLine>>
<1> DEFINE a == <<TrimMarker>>
           b == <<CutLine>>
           t == a \o b
           u == <<TrimMarker, CutLine>>
<1>1. /\ a \in Seq(Notes) /\ Len(a) = 1 /\ a[1] = TrimMarker
      /\ b \in Seq(Notes) /\ Len(b) = 1 /\ b[1] = CutLine
      /\ u \in Seq(Notes) /\ Len(u) = 2 /\ u[1] = TrimMarker /\ u[2] = CutLine
  BY DEF Notes
<1> HIDE DEF a, b, u
<1>2. /\ t \in Seq(Notes) /\ Len(t) = Len(a) + Len(b)
      /\ \A i \in 1..(Len(a) + Len(b)) : t[i] = IF i <= Len(a) THEN a[i] ELSE b[i - Len(a)]
  BY <1>1, ConcatProperties
<1> HIDE DEF t
<1>3. Len(t) = 2 /\ \A i \in 1..2 : t[i] = u[i]
  BY <1>1, <1>2
<1>4. t = u
  BY <1>1, <1>2, <1>3, SeqEqual
<1> QED
  BY <1>4 DEF t, a, b, u

\* Notes are about the first n messages only.
LEMMA NotesOfMore ==
  ASSUME NEW s, Len(s) \in Nat, NEW n \in Nat, NEW l, NEW m, NEW h \in 0..2,
         \A i \in 1..n : m[i] = l[i], NotesWith(s, n, l, h)
  PROVE  NotesWith(s, n, m, h)
<1>1. ASSUME NEW j \in (h + 1)..Len(s)
      PROVE  s[j] = m[n - Len(s) + j]
  <2>1. n - Len(s) + j \in 1..n
    BY DEF NotesWith
  <2> QED
    BY <2>1 DEF NotesWith
<1> QED
  BY <1>1 DEF NotesWith

\* One more message is one more line.
LEMMA NotesOneMore ==
  ASSUME NEW s \in Seq(Notes), NEW n \in Nat, NEW m, NEW h \in 0..2, NotesWith(s, n, m, h),
         NEW msg \in Records, m[n + 1] = msg
  PROVE  NotesWith(Append(s, msg), n + 1, m, h)
<1> DEFINE t == Append(s, msg)
<1>1. /\ Len(s) \in Nat /\ Len(t) = Len(s) + 1
      /\ t[Len(s) + 1] = msg /\ \A i \in 1..Len(s) : t[i] = s[i]
  BY AppendProperties, LenProperties DEF Notes
<1> HIDE DEF t
<1>2. ASSUME NEW j \in (h + 1)..Len(t)
      PROVE  t[j] = m[(n + 1) - Len(t) + j]
  <2>1. CASE j = Len(t)
    <3>1. (n + 1) - Len(t) + j = n + 1 /\ j = Len(s) + 1
      BY <1>1, <2>1
    <3> QED
      BY <1>1, <3>1
  <2>2. CASE j # Len(t)
    <3>1. /\ j \in (h + 1)..Len(s) /\ j \in 1..Len(s)
          /\ (n + 1) - Len(t) + j = n - Len(s) + j
      BY <1>1, <2>2
    <3> QED
      BY <1>1, <3>1 DEF NotesWith
  <2> QED
    BY <2>1, <2>2
<1>3. h <= Len(t) /\ Len(t) - h <= n + 1 /\ (h = 0 => Len(t) = n + 1)
  BY <1>1 DEF NotesWith
<1>4. (h > 0 => t[1] = s[1]) /\ (h = 2 => t[2] = s[2])
  <2>1. (h > 0 => 1 \in 1..Len(s)) /\ (h = 2 => 2 \in 1..Len(s))
    BY <1>1 DEF NotesWith
  <2> QED
    BY <1>1, <2>1
<1> QED
  BY <1>2, <1>3, <1>4 DEF NotesWith, t

\* Dropping the oldest line, or more, for a marker in front leaves notes.
LEMMA NotesTrimmed ==
  ASSUME NEW lines \in Seq(Notes), NEW p \in Nat, NEW m, NEW h \in 0..2,
         NotesWith(lines, p, m, h), NEW n \in Nat, n < Len(lines)
  PROVE  NotesFor(<<TrimMarker>> \o Newer(lines, n), p, m)
<1> DEFINE L == Len(lines)
           rest == Newer(lines, n)
           t == <<TrimMarker>> \o rest
<1>1. L \in Nat /\ n \in 0..Len(lines) /\ n < L
  BY LenProperties
<1>2. /\ rest \in Seq(Notes) /\ Len(rest) = n
      /\ \A j \in 1..n : rest[j] = lines[L - n + j]
  BY <1>1, NewerLines
<1>3. <<TrimMarker>> \in Seq(Notes) /\ Len(<<TrimMarker>>) = 1 /\ <<TrimMarker>>[1] = TrimMarker
  BY DEF Notes
<1> HIDE DEF rest
<1>4. /\ Len(t) = Len(<<TrimMarker>>) + Len(rest)
      /\ \A i \in 1..(Len(<<TrimMarker>>) + Len(rest)) :
           t[i] = IF i <= Len(<<TrimMarker>>) THEN <<TrimMarker>>[i]
                                              ELSE rest[i - Len(<<TrimMarker>>)]
  BY <1>2, <1>3, ConcatProperties
<1> HIDE DEF t
<1>5. Len(t) = n + 1 /\ t[1] = TrimMarker /\ \A i \in 2..(n + 1) : t[i] = rest[i - 1]
  BY <1>1, <1>2, <1>3, <1>4
<1>6. ASSUME NEW i \in 2..(n + 1) PROVE t[i] = lines[L - n + i - 1]
  <2>1. i - 1 \in 1..n /\ L - n + (i - 1) = L - n + i - 1
    BY <1>1
  <2> QED
    BY <1>2, <1>5, <2>1
<1>7. /\ h <= L /\ L - h <= p /\ (h = 0 => L = p)
      /\ \A j \in (h + 1)..L : lines[j] = m[p - L + j]
      /\ h = 2 => lines[2] = CutLine
  BY DEF NotesWith
<1> HIDE DEF L
<1>8. CASE h = 2 /\ L - n = 1
  <2>1. n >= 1 /\ 2 \in 2..(n + 1) /\ L - n + 2 - 1 = 2 /\ L = n + 1
    BY <1>1, <1>7, <1>8
  <2>2. t[2] = CutLine
    BY <1>6, <1>7, <1>8, <2>1
  <2>3. ASSUME NEW j \in 3..Len(t) PROVE t[j] = m[p - Len(t) + j]
    <3>1. /\ j \in 2..(n + 1) /\ L - n + j - 1 = j /\ j \in (h + 1)..L
          /\ p - Len(t) + j = p - L + j
      BY <1>1, <1>5, <1>8, <2>1
    <3> QED
      BY <1>6, <1>7, <3>1
  <2>4. 2 <= Len(t) /\ Len(t) - 2 <= p
    BY <1>1, <1>5, <1>7, <1>8, <2>1
  <2>5. NotesWith(t, p, m, 2)
    BY <1>5, <2>2, <2>3, <2>4 DEF NotesWith
  <2> QED
    BY <2>5 DEF NotesFor, t, rest
<1>9. CASE ~(h = 2 /\ L - n = 1)
  <2>1. L - n >= h \/ (h = 2 /\ L - n = 1)
    BY <1>1
  <2>2. L - n >= h /\ n <= p
    <3>1. h = 0 => n <= p
      BY <1>1, <1>7
    <3>2. h > 0 => n <= p
      BY <1>1, <1>7, <1>9, <2>1
    <3> QED
      BY <1>9, <2>1, <3>1, <3>2
  <2>3. ASSUME NEW j \in 2..Len(t) PROVE t[j] = m[p - Len(t) + j]
    <3>1. /\ j \in 2..(n + 1) /\ L - n + j - 1 \in (h + 1)..L
          /\ p - L + (L - n + j - 1) = p - Len(t) + j
      BY <1>1, <1>5, <2>2
    <3>2. t[j] = lines[L - n + j - 1] /\ lines[L - n + j - 1] = m[p - L + (L - n + j - 1)]
      BY <1>6, <1>7, <3>1
    <3> QED
      BY <3>1, <3>2
  <2>4. 1 <= Len(t) /\ Len(t) - 1 <= p
    BY <1>1, <1>5, <2>2
  <2>5. NotesWith(t, p, m, 1)
    BY <1>5, <2>3, <2>4 DEF NotesWith
  <2> QED
    BY <2>5 DEF NotesFor, t, rest
<1> QED
  BY <1>8, <1>9

\* Promoting the oldest message of a full window adds its line to the notes.
LEMMA NotesNext ==
  ASSUME NEW e \in Entries, WindowOK(e), NotesOK(e), NEW rec \in Records, NEW n \in Limits,
         e.sig = n
  PROVE  NotesOK(ApplyContextMessage(e, rec, n))
<1> DEFINE f == ApplyContextMessage(e, rec, n)
           F == Append(e.folded, rec)
           k == e.summarized
           head == Head(e.recent)
           lines == Append(e.summary, head)
           S == AppendSummary(e.summary, head, SummaryChars[n])
<1>0. /\ e.recent \in Seq(Records) /\ k \in Nat /\ e.summary \in Seq(Notes)
      /\ e.folded \in Seq(Records) /\ n \in Nat \ {0} /\ Len(e.summary) \in Nat
  BY SessionsAssumption, LenProperties DEF Entries, Notes
<1>1. /\ Len(F) = Len(e.folded) + 1 /\ Len(e.folded) \in Nat
      /\ \A i \in 1..Len(e.folded) : F[i] = e.folded[i]
  BY <1>0, AppendProperties, LenProperties
<1>2. Len(e.recent) \in Nat /\ k + Len(e.recent) = Len(e.folded)
  BY <1>0, LenProperties DEF WindowOK
<1>3. \A i \in 1..k : F[i] = e.folded[i]
  <2>1. \A i \in 1..k : i \in 1..Len(e.folded)
    BY <1>0, <1>1, <1>2
  <2> QED
    BY <1>1, <2>1
<1>4. PICK h \in 0..2 : NotesWith(e.summary, k, e.folded, h)
  BY DEF NotesOK, NotesFor
<1>5. NotesWith(e.summary, k, F, h)
  <2> HIDE DEF k, F
  <2> QED
    BY <1>0, <1>3, <1>4, NotesOfMore
<1>6. CASE Len(e.recent) < n
  <2>1. f.summary = e.summary /\ f.summarized = k /\ f.folded = F
    BY <1>6 DEF ApplyContextMessage, Entries
  <2> HIDE DEF f, F, k
  <2>2. NotesFor(e.summary, k, F)
    BY <1>5 DEF NotesFor
  <2> QED
    BY <2>1, <2>2 DEF NotesOK, f
<1>7. CASE ~(Len(e.recent) < n)
  <2>1. f.summary = S /\ f.summarized = k + 1 /\ f.folded = F
    BY <1>7 DEF ApplyContextMessage, Entries
  <2>2. 1 \in 1..Len(e.recent) /\ k + 1 \in 1..Len(e.folded)
    BY <1>0, <1>1, <1>2, <1>7
  <2>3. head \in Records /\ head = F[k + 1]
    <3>1. head = e.recent[1] /\ e.recent[1] \in Records /\ e.recent[1] = e.folded[k + 1]
      BY <1>0, <2>2, ElementOfSeq DEF WindowOK
    <3> QED
      BY <1>1, <2>2, <3>1
  <2>4. /\ lines \in Seq(Notes) /\ Len(lines) = Len(e.summary) + 1 /\ k + 1 \in Nat
    BY <1>0, <2>3, AppendProperties DEF Notes
  <2>5. \/ S = lines
        \/ \E i \in 0..Len(e.summary) : S = <<TrimMarker>> \o Newer(lines, i)
        \/ S = <<TrimMarker>> \o <<CutLine>>
    BY <1>0, <2>3, AppendSummaryLines
  <2> HIDE DEF f, F, k, head, S
  <2>6. NotesWith(lines, k + 1, F, h)
    BY <1>0, <1>5, <2>3, NotesOneMore DEF k
  <2> HIDE DEF lines
  <2>7. NotesFor(S, k + 1, F)
    <3>1. CASE S = lines
      BY <2>6, <3>1 DEF NotesFor
    <3>2. ASSUME NEW i \in 0..Len(e.summary), S = <<TrimMarker>> \o Newer(lines, i)
          PROVE  NotesFor(S, k + 1, F)
      <4>1. i \in Nat /\ i < Len(lines)
        BY <1>0, <2>4
      <4> QED
        BY <2>4, <2>6, <3>2, <4>1, NotesTrimmed
    <3>3. CASE S = <<TrimMarker>> \o <<CutLine>>
      <4>1. S = <<TrimMarker, CutLine>>
        BY <3>3, MarkedCut
      <4>2. Len(S) = 2 /\ S[1] = TrimMarker /\ S[2] = CutLine
        BY <4>1
      <4>3. 2 \in 0..2 /\ 2 <= Len(S) /\ Len(S) - 2 <= k + 1
            /\ \A j \in (2 + 1)..Len(S) : FALSE
        BY <2>4, <4>2
      <4>4. NotesWith(S, k + 1, F, 2)
        BY <4>2, <4>3 DEF NotesWith
      <4> QED
        BY <4>3, <4>4 DEF NotesFor
    <3> QED
      BY <2>5, <3>1, <3>2, <3>3
  <2> QED
    BY <2>1, <2>7 DEF NotesOK, f
<1> QED
  BY <1>6, <1>7

\* The notes of every entry the program holds.
Noted ==
  /\ \A k \in SessionKeys : mem[k] # NoEntry => NotesOK(mem[k])
  /\ \A k \in SessionKeys : disk[k] # NoEntry => NotesOK(disk[k])
  /\ work # NoEntry => NotesOK(work)

LEMMA NoNotes ==
  ASSUME NEW l
  PROVE  NotesFor(<<>>, 0, l)
<1>1. Len(<<>>) = 0 /\ 0 \in 0..2
  BY EmptySeq
<1>2. NotesWith(<<>>, 0, l, 0)
  BY <1>1 DEF NotesWith
<1> QED
  BY <1>1, <1>2 DEF NotesFor

LEMMA NewNotes ==
  ASSUME NEW id, NEW n
  PROVE  NotesOK(NewEntry(id, n))
<1>1. NewEntry(id, n).summarized = 0 /\ NewEntry(id, n).summary = <<>>
  BY DEF NewEntry
<1> QED
  BY <1>1, NoNotes DEF NotesOK

LEMMA ClearedNotes ==
  ASSUME NEW e \in Entries, NEW n
  PROVE  NotesOK(ClearContext(e, n))
<1>1. ClearContext(e, n).summarized = 0 /\ ClearContext(e, n).summary = <<>>
  BY DEF ClearContext, Entries
<1> QED
  BY <1>1, NoNotes DEF NotesOK

LEMMA StepNoted ==
  ASSUME IInv, Owned, Noted, NEW r \in Runs, Step(r)
  PROVE  Noted'
<1>0. TypeOK /\ ses[r] \in SessionKeys /\ limit \in Limits /\ out[r] \in Records
  BY DEF IInv, TypeOK
<1>1. /\ \A k \in SessionKeys : mem'[k] # NoEntry => NotesOK(mem'[k])
      /\ \A k \in SessionKeys : disk'[k] # NoEntry => NotesOK(disk'[k])
  <2>1. CASE UNCHANGED <<mem, disk>>
    BY <2>1 DEF Noted
  <2>2. CASE ~UNCHANGED <<mem, disk>>
    <3>1. PICK e \in Entries :
            /\ PutOk(ses[r], e) \/ PutFails(ses[r], e)
            /\ \/ Touch(r) /\ e = TouchedEntry(r)
               \/ RebuildDone(r) /\ e = work
               \/ /\ AppendStore(r) /\ StateIsCurrent(r)
                  /\ e = ApplyContextMessage(mem[ses[r]], out[r], limit)
      BY <2>2, Saves
    <3>2. NotesOK(e)
      <4>1. CASE Touch(r) /\ e = TouchedEntry(r)
        BY <1>0, <4>1, NewNotes DEF Noted, TouchedEntry
      <4>2. CASE RebuildDone(r) /\ e = work
        BY <3>1, <4>2, NoEntryAssumption DEF Noted
      <4>3. CASE /\ AppendStore(r) /\ StateIsCurrent(r)
                 /\ e = ApplyContextMessage(mem[ses[r]], out[r], limit)
        <5>1. pc[r] \in Touched /\ mem[ses[r]].sig = limit
          BY <4>3 DEF AppendStore, StateIsCurrent, Touched, Labels
        <5>2. mem[ses[r]] \in Entries /\ WindowOK(mem[ses[r]])
          BY <5>1, TouchedGood DEF GoodEntry
        <5>3. NotesOK(mem[ses[r]])
          BY <1>0, <5>2, NoEntryAssumption DEF Noted
        <5> QED
          BY <1>0, <4>3, <5>1, <5>2, <5>3, NotesNext
      <4> QED
        BY <3>1, <4>1, <4>2, <4>3
    <3>3. /\ mem'[ses[r]] = e /\ \A j \in SessionKeys \ {ses[r]} : mem'[j] = mem[j]
          /\ disk' = mem' \/ disk' = disk
      BY <1>0, <3>1, PutShape
    <3>4. \A k \in SessionKeys : mem'[k] # NoEntry => NotesOK(mem'[k])
      BY <3>2, <3>3 DEF Noted
    <3> QED
      BY <3>3, <3>4 DEF Noted
  <2> QED
    BY <2>1, <2>2
<1>2. work' # NoEntry => NotesOK(work')
  <2>1. CASE work' = work \/ work' = NoEntry
    BY <2>1 DEF Noted
  <2>2. CASE ModelContext(r) \/ AppendStore(r)
    <3>1. work' = work \/ work' = ClearContext(mem[ses[r]], limit)
      BY <2>2 DEF ModelContext, AppendStore, StartRebuild
    <3>2. mem[ses[r]] \in Entries
      BY <2>2, TouchedGood DEF ModelContext, AppendStore, Touched, Labels, GoodEntry
    <3> QED
      BY <2>1, <3>1, <3>2, ClearedNotes
  <2>3. CASE RebuildLine(r)
    <3> DEFINE f == files[work.id]
               rec == f[line + 1]
    <3>1. /\ pc[r] \in Rebuilding /\ line < Len(f)
          /\ work' = IF rec # Garbage /\ IsContextMessage(rec)
                     THEN ApplyContextMessage(work, rec, limit) ELSE work
      BY <2>3 DEF RebuildLine, Rebuilding
    <3>2. /\ work \in Entries /\ work.sig = limit /\ work.id \in Ids /\ work # NoEntry
          /\ line \in Nat
      BY <1>0, <3>1, EntryShape, NoEntryAssumption DEF IInv, Holding, TypeOK
    <3>3. WindowOK(work) /\ NotesOK(work)
      BY <3>2 DEF IInv, AllGood, Noted
    <3>4. f \in Seq(Lines) /\ Len(f) \in Nat /\ line + 1 \in 1..Len(f)
      BY <1>0, <3>1, <3>2, LenProperties DEF TypeOK, Lines
    <3>5. rec \in Lines
      BY <3>4, ElementOfSeq
    <3> HIDE DEF rec
    <3>6. rec # Garbage => NotesOK(ApplyContextMessage(work, rec, limit))
      BY <1>0, <3>2, <3>3, <3>5, NotesNext DEF Lines
    <3> QED
      BY <3>1, <3>3, <3>6
  <2> QED
    BY <2>1, <2>2, <2>3 DEF Step, Touch, RebuildDone, RebuildFails,
      SendEvent, RunErrs, AppendWrite
<1> QED
  BY <1>1, <1>2 DEF Noted

LEMMA NotedInv == Spec => []Noted
<1>1. Init => Noted
  BY NewNotes DEF Init, Noted
<1>2. IInv /\ Owned /\ Noted /\ [Next]_vars => Noted'
  <2> SUFFICES ASSUME IInv, Owned, Noted, [Next]_vars PROVE Noted'
    OBVIOUS
  <2>1. CASE Restart
    BY <2>1 DEF Restart, Noted
  <2>2. CASE UNCHANGED vars
    BY <2>2 DEF vars, Noted
  <2> QED
    BY <2>1, <2>2, StepNoted DEF Next, AllStopped
<1> QED
  BY <1>1, <1>2, SpecInv, OwnedInv, PTL DEF Spec

\* Line by line, the notes are the end of what was promoted.
LEMMA NotesAreEnd ==
  ASSUME NEW s \in Seq(Notes), NEW n \in Nat, NEW l \in Seq(Records), n <= Len(l),
         NEW h \in 0..2, NotesWith(s, n, l, h)
  PROVE  \E head \in Heads, kept \in 0..n :
           /\ s = head \o Newer(SubSeq(l, 1, n), kept)
           /\ head = <<>> => kept = n
<1> DEFINE head == IF h = 0 THEN <<>> ELSE IF h = 1 THEN <<TrimMarker>> ELSE <<TrimMarker, CutLine>>
           kept == Len(s) - h
           promoted == SubSeq(l, 1, n)
           rest == Newer(promoted, kept)
           t == head \o rest
<1>1. /\ Len(s) \in Nat /\ Len(l) \in Nat /\ kept \in 0..n /\ Len(s) = kept + h
      /\ h = 0 => kept = n
  BY LenProperties DEF NotesWith
<1>2. /\ head \in Heads /\ head \in Seq(Notes) /\ Len(head) = h
      /\ h > 0 => head[1] = TrimMarker /\ head # <<>>
      /\ h = 2 => head[2] = CutLine
  <2>1. <<>> \in Seq(Notes) /\ Len(<<>>) = 0
    BY EmptySeq
  <2>2. <<TrimMarker>> \in Seq(Notes) /\ Len(<<TrimMarker>>) = 1 /\ <<TrimMarker>>[1] = TrimMarker
        /\ <<TrimMarker>> # <<>>
    BY <2>1 DEF Notes
  <2>3. /\ <<TrimMarker, CutLine>> \in Seq(Notes) /\ Len(<<TrimMarker, CutLine>>) = 2
        /\ <<TrimMarker, CutLine>>[1] = TrimMarker /\ <<TrimMarker, CutLine>>[2] = CutLine
        /\ <<TrimMarker, CutLine>> # <<>>
    BY <2>1 DEF Notes
  <2>4. h = 0 \/ h = 1 \/ h = 2
    OBVIOUS
  <2> QED
    BY <2>1, <2>2, <2>3, <2>4 DEF Heads
<1>3. /\ promoted \in Seq(Records) /\ Len(promoted) = n
      /\ \A i \in 1..n : promoted[i] = l[i]
  <2>1. 1 \in Int /\ n \in Int /\ \A i \in 1..n : l[i] \in Records
    <3>1. \A m \in Nat : n <= m => \A i \in 1..n : i \in 1..m
      OBVIOUS
    <3>2. \A i \in 1..n : i \in 1..Len(l)
      BY <1>1, <3>1
    <3> QED
      BY <3>2, ElementOfSeq
  <2>2. /\ promoted \in Seq(Records) /\ Len(promoted) = IF 1 <= n THEN n - 1 + 1 ELSE 0
        /\ \A i \in 1..(n - 1 + 1) : promoted[i] = l[1 + i - 1]
    BY <2>1, SubSeqProperties
  <2>3. (IF 1 <= n THEN n - 1 + 1 ELSE 0) = n /\ n - 1 + 1 = n /\ \A i \in 1..n : 1 + i - 1 = i
    OBVIOUS
  <2> QED
    BY <2>2, <2>3
<1> HIDE DEF promoted
<1>4. /\ rest \in Seq(Records) /\ Len(rest) = kept
      /\ \A j \in 1..kept : rest[j] = promoted[n - kept + j]
  BY <1>1, <1>3, NewerLines
<1>5. rest \in Seq(Notes)
  BY <1>4, SeqMonotonic DEF Notes
<1> HIDE DEF head, kept, rest
<1>6. /\ t \in Seq(Notes) /\ Len(t) = Len(head) + Len(rest)
      /\ \A i \in 1..(Len(head) + Len(rest)) :
           t[i] = IF i <= Len(head) THEN head[i] ELSE rest[i - Len(head)]
  BY <1>2, <1>5, ConcatProperties
<1> HIDE DEF t
<1>7. ASSUME NEW j \in 1..Len(s) PROVE s[j] = t[j]
  <2>1. j \in 1..(Len(head) + Len(rest))
    BY <1>1, <1>2, <1>4
  <2>2. CASE j <= h
    <3>1. t[j] = head[j] /\ (j = 1 \/ (j = 2 /\ h = 2)) /\ h > 0
      BY <1>2, <1>6, <2>1, <2>2
    <3> QED
      BY <1>2, <3>1 DEF NotesWith
  <2>3. CASE ~(j <= h)
    <3>1. /\ j - h \in 1..kept /\ n - kept + (j - h) = n - Len(s) + j
          /\ n - Len(s) + j \in 1..n /\ j \in (h + 1)..Len(s)
      BY <1>1, <2>3
    <3>2. t[j] = rest[j - h]
      BY <1>2, <1>6, <2>1, <2>3
    <3>3. rest[j - h] = l[n - Len(s) + j]
      BY <1>3, <1>4, <3>1
    <3> QED
      BY <3>1, <3>2, <3>3 DEF NotesWith
  <2> QED
    BY <2>2, <2>3
<1>8. s = t
  <2>1. Len(t) = Len(s)
    BY <1>1, <1>2, <1>4, <1>6
  <2> QED
    BY <1>6, <1>7, <2>1, SeqEqual
<1>9. s = head \o Newer(SubSeq(l, 1, n), kept) /\ (head = <<>> => kept = n)
  <2>1. head = <<>> => h = 0
    BY <1>2
  <2> QED
    BY <1>1, <1>8, <2>1 DEF t, rest, promoted
<1> QED
  BY <1>1, <1>2, <1>9

(***************************************************************************)
(* The rolling notes of every entry, in memory, on disk or being rebuilt,  *)
(* are the newest promoted messages in order, behind the trim marker once  *)
(* older ones are gone, whatever the caps and the widths of the notes are  *)
(* (appendConversationSummary, manager.go:464-496).                        *)
(***************************************************************************)
THEOREM NotesKeepTheTail == Spec => [](\A entry \in LiveEntries : NotesAreTail(entry))
<1>1. ASSUME IInv, Noted PROVE \A entry \in LiveEntries : NotesAreTail(entry)
  <2> SUFFICES ASSUME NEW e \in LiveEntries PROVE NotesAreTail(e)
    OBVIOUS
  <2>1. e \in Entries /\ WindowOK(e) /\ NotesOK(e)
    BY <1>1 DEF IInv, TypeOK, AllGood, Noted, LiveEntries
  <2>2. /\ e.summary \in Seq(Notes) /\ e.summarized \in Nat /\ e.folded \in Seq(Records)
        /\ e.recent \in Seq(Records)
    BY <2>1 DEF Entries, Notes
  <2>3. Len(e.recent) \in Nat /\ Len(e.folded) \in Nat
        /\ e.summarized + Len(e.recent) = Len(e.folded)
    BY <2>1, <2>2, LenProperties DEF WindowOK
  <2>4. e.summarized <= Len(e.folded)
    BY <2>2, <2>3
  <2>5. PICK h \in 0..2 : NotesWith(e.summary, e.summarized, e.folded, h)
    BY <2>1 DEF NotesOK, NotesFor
  <2> QED
    BY <2>2, <2>4, <2>5, NotesAreEnd DEF NotesAreTail
<1> QED
  BY <1>1, SpecInv, NotedInv, PTL
=============================================================================
