----------------------------- MODULE JournalProofs -----------------------------
(***************************************************************************)
(* Proofs about Journal and FinancialStatements, for every set of users,   *)
(* months, accounts and calls at work and every bound.  save writes a      *)
(* whole row back, so the invariant says in what an entity in memory may   *)
(* differ from its row.                                                    *)
(*                                                                         *)
(* The reports come last: first that they agree with one another over a    *)
(* journal E whose entries balance, for every chart of accounts and every  *)
(* period; then that the journal of JournalService is such a journal, if   *)
(* the lines that are posted are whole cents on one side.                  *)
(***************************************************************************)
EXTENDS MCJournal, Sums

\* Who signed an entry that was keyed by hand.
Signed(e) ==
    e.source = "manual" /\ e.status = "Posted" => e.approvedBy \notin {NULL, e.postedBy}

\* An entity in memory is the row as it is but for status, signature and marks.
SameEntry(e, i) ==
    /\ i \in DOMAIN entries
    /\ e \in Entry
    /\ e.month = entries[i].month
    /\ e.source = entries[i].source
    /\ e.sourceRef = entries[i].sourceRef
    /\ e.postedBy = entries[i].postedBy
    /\ e.lines = entries[i].lines

\* What a call holds: an entry to post; for a reversal also its original, which
\* was in the books when it was read; for an approval an entry of somebody else.
OriginalOK(c) ==
    /\ c.entry \in Entry
    /\ SameEntry(c.original, c.entry.sourceRef)
    /\ c.original.status = "Posted"
    /\ Signed(c.original)
CallOK(c) ==
    /\ c.step \in {"period", "insert"} =>
          /\ c.entry \in Entry
          /\ Signed(c.entry)
          /\ c.entry.source = "reversal" => c.entry.status = "Posted" /\ OriginalOK(c)
    /\ c.step = "link" =>
          /\ SameEntry(c.entry, c.id)
          /\ c.entry.source = "reversal" /\ c.entry.status = "Posted"
          /\ OriginalOK(c)
    /\ c.step = "mark" => OriginalOK(c)
    /\ c.step = "approve" =>
          /\ SameEntry(c.entry, c.id)
          /\ c.user \in Users
          /\ c.entry.postedBy # c.user
    /\ c.step \in {"count", "close"} => c.month \in Months
CallsOK == \A h \in Handlers : CallOK(handler[h])

JournalInv == TypeOK /\ MakerChecker /\ CallsOK
-------------------------------------------------------------------------------
(* Types.                                                                   *)

\* Rounding to the two decimals of a column gives a natural number.
LEMMA ToFixed2Type == ASSUME NEW x \in Nat PROVE ToFixed2(x) \in Nat
  <1>1. (x + 5) \div 10 \in Nat
    OBVIOUS
  <1>2. QED
    BY <1>1 DEF ToFixed2

\* The stored and the swapped lines of a list of lines are lists of lines.
LEMMA LinesType ==
    ASSUME NEW lines \in Lines
    PROVE  Stored(lines) \in Lines /\ Swapped(lines) \in Lines
  <1> DEFINE L == [account: STRING, debit: Nat, credit: Nat]
  <1>0. lines \in Seq(L)
    BY DEF Lines
  <1>1. ASSUME NEW n \in DOMAIN lines
        PROVE  /\ [account |-> lines[n].account, debit |-> ToFixed2(lines[n].debit),
                   credit |-> ToFixed2(lines[n].credit)] \in L
               /\ [account |-> lines[n].account, debit |-> lines[n].credit,
                   credit |-> lines[n].debit] \in L
    <2>1. lines[n] \in L
      <3> HIDE DEF L
      <3>1. QED
        BY <1>0
    <2>2. /\ lines[n].account \in STRING
          /\ lines[n].debit \in Nat /\ lines[n].credit \in Nat
      BY <2>1
    <2>3. ToFixed2(lines[n].debit) \in Nat /\ ToFixed2(lines[n].credit) \in Nat
      BY <2>2, ToFixed2Type
    <2>4. QED
      BY <2>2, <2>3
  <1>2. ASSUME NEW f, DOMAIN f = DOMAIN lines, f = [n \in DOMAIN f |-> f[n]],
               \A n \in DOMAIN lines : f[n] \in L
        PROVE  f \in Seq(L)
    <2>1. Len(lines) \in Nat /\ DOMAIN lines = 1 .. Len(lines)
      BY DEF Lines
    <2> HIDE DEF L
    <2>2. f \in [1 .. Len(lines) -> L]
      BY <1>2, <2>1
    <2>3. QED
      BY <2>1, <2>2
  <1>3. Stored(lines) \in Seq(L)
    BY <1>1, <1>2 DEF Stored
  <1>4. Swapped(lines) \in Seq(L)
    BY <1>1, <1>2 DEF Swapped
  <1>5. QED
    BY <1>3, <1>4 DEF Lines

\* What post makes of its arguments is an entry that nobody has signed.
LEMMA NewEntryType ==
    ASSUME NEW month \in Months, NEW lines \in Lines, NEW source \in Sources,
           NEW ref \in Nat, NEW user \in Users \cup {NULL}
    PROVE  /\ NewEntry(month, lines, source, ref, user) \in Entry
           /\ Signed(NewEntry(month, lines, source, ref, user))
           /\ NewEntry(month, lines, source, ref, user).source = source
           /\ NewEntry(month, lines, source, ref, user).sourceRef = ref
           /\ source = "reversal" => NewEntry(month, lines, source, ref, user).status = "Posted"
  BY DEF NewEntry, Entry, Signed

\* The entities that the saves write.
Approved(e, u) == [e EXCEPT !.status = "Posted", !.approvedBy = u]
LEMMA ApprovedType ==
    ASSUME NEW e \in Entry, NEW u \in Users
    PROVE  /\ Approved(e, u) \in Entry
           /\ Approved(e, u).month = e.month /\ Approved(e, u).source = e.source
           /\ Approved(e, u).sourceRef = e.sourceRef /\ Approved(e, u).postedBy = e.postedBy
           /\ Approved(e, u).lines = e.lines /\ Approved(e, u).status = "Posted"
           /\ Approved(e, u).approvedBy = u
  BY DEF Approved, Entry
LEMMA LinkedType ==
    ASSUME NEW e \in Entry, NEW s, s = [e EXCEPT !.reversalOf = e.sourceRef]
    PROVE  /\ s \in Entry
           /\ s.month = e.month /\ s.source = e.source
           /\ s.sourceRef = e.sourceRef /\ s.postedBy = e.postedBy
           /\ s.lines = e.lines /\ s.status = e.status
           /\ s.approvedBy = e.approvedBy
  BY DEF Entry
LEMMA ReversedType ==
    ASSUME NEW e \in Entry, NEW s, s = [e EXCEPT !.reversalStatus = "Reversed"]
    PROVE  /\ s \in Entry
           /\ s.month = e.month /\ s.source = e.source
           /\ s.sourceRef = e.sourceRef /\ s.postedBy = e.postedBy
           /\ s.lines = e.lines /\ s.status = e.status
           /\ s.approvedBy = e.approvedBy
  BY DEF Entry
LEMMA StoredType ==
    ASSUME NEW e \in Entry, NEW s, s = [e EXCEPT !.lines = Stored(@)]
    PROVE  /\ s \in Entry
           /\ s.month = e.month /\ s.source = e.source
           /\ s.sourceRef = e.sourceRef /\ s.postedBy = e.postedBy
           /\ s.lines = Stored(e.lines) /\ s.status = e.status
           /\ s.approvedBy = e.approvedBy
  <1>1. Stored(e.lines) \in Lines
    BY LinesType DEF Entry
  <1>2. QED
    BY <1>1 DEF Entry
-------------------------------------------------------------------------------
(* What a step does to the entries.                                         *)

\* Goto changes the place of a call only, Done makes it idle, and neither
\* touches another call.
LEMMA OneCall ==
    ASSUME handler \in [Handlers -> HandlerState], NEW h \in Handlers
    PROVE  /\ \A step \in Steps : Goto(h, step) =>
                /\ handler' \in [Handlers -> HandlerState]
                /\ handler'[h] = [handler[h] EXCEPT !.step = step]
                /\ handler'[h].step = step
                /\ handler'[h].user = handler[h].user
                /\ handler'[h].entry = handler[h].entry
                /\ handler'[h].original = handler[h].original
                /\ handler'[h].month = handler[h].month
                /\ handler'[h].id = handler[h].id
                /\ \A g \in Handlers \ {h} : handler'[g] = handler[g]
           /\ Done(h) => /\ handler' \in [Handlers -> HandlerState]
                         /\ handler'[h] = Idle
                         /\ \A g \in Handlers \ {h} : handler'[g] = handler[g]
           /\ \A call \in HandlerState : Begin(h, call) =>
                /\ handler' \in [Handlers -> HandlerState]
                /\ handler'[h] = call
                /\ \A g \in Handlers \ {h} : handler'[g] = handler[g]
  <1>1. Idle \in HandlerState
    BY DEF Idle, HandlerState, Steps
  <1>2. handler[h] \in HandlerState
    OBVIOUS
  <1>3. ASSUME NEW step \in Steps, NEW c, c = [handler[h] EXCEPT !.step = step]
        PROVE  /\ c \in HandlerState
               /\ c.step = step
               /\ c.user = handler[h].user
               /\ c.entry = handler[h].entry
               /\ c.original = handler[h].original
               /\ c.month = handler[h].month
               /\ c.id = handler[h].id
    BY <1>2, <1>3 DEF HandlerState
  <1>4. ASSUME NEW step \in Steps, Goto(h, step)
        PROVE  /\ handler' = [handler EXCEPT ![h] = [handler[h] EXCEPT !.step = step]]
    BY <1>4 DEF Goto
  <1>5. ASSUME NEW c \in HandlerState, handler' = [handler EXCEPT ![h] = c]
        PROVE  /\ handler' \in [Handlers -> HandlerState]
               /\ handler'[h] = c
               /\ \A g \in Handlers \ {h} : handler'[g] = handler[g]
    BY <1>5
  <1>6. ASSUME NEW step \in Steps, Goto(h, step)
        PROVE  /\ handler' \in [Handlers -> HandlerState]
               /\ handler'[h] = [handler[h] EXCEPT !.step = step]
               /\ \A g \in Handlers \ {h} : handler'[g] = handler[g]
    <2>1. PICK c : c = [handler[h] EXCEPT !.step = step]
      OBVIOUS
    <2>2. c \in HandlerState
      BY <1>3, <2>1
    <2>3. handler' = [handler EXCEPT ![h] = c]
      BY <1>4, <1>6, <2>1
    <2>4. QED
      BY <1>5, <2>1, <2>2, <2>3
  <1>7. ASSUME Done(h)
        PROVE  /\ handler' \in [Handlers -> HandlerState]
               /\ handler'[h] = Idle
               /\ \A g \in Handlers \ {h} : handler'[g] = handler[g]
    BY <1>1, <1>5, <1>7 DEF Done
  <1>8. ASSUME NEW call \in HandlerState, Begin(h, call)
        PROVE  /\ handler' \in [Handlers -> HandlerState]
               /\ handler'[h] = call
               /\ \A g \in Handlers \ {h} : handler'[g] = handler[g]
    BY <1>5, <1>8 DEF Begin
  <1>9. QED
    BY <1>3, <1>6, <1>7, <1>8

\* A step leaves the entries, appends one or saves an entity of a row.
EntriesShape ==
    \/ UNCHANGED entries
    \/ \E e \in Entry : Signed(e) /\ entries' = Append(entries, e)
    \/ \E e \in Entry, i \in DOMAIN entries :
         /\ SameEntry(e, i) /\ e.status = "Posted" /\ Signed(e)
         /\ Save(i, e)

\* That is so of every step.
LEMMA EntriesShapeStep ==
    ASSUME JournalInv, [Next]_vars
    PROVE  EntriesShape
  <1> USE DEF JournalInv
  <1>1. ASSUME NEW h \in Handlers, InsertEntry(h)
        PROVE  EntriesShape
    <2>1. handler[h].entry \in Entry /\ Signed(handler[h].entry)
      BY <1>1 DEF CallsOK, CallOK, InsertEntry, At
    <2>2. PICK e : e = [handler[h].entry EXCEPT !.lines = Stored(@)]
      OBVIOUS
    <2>3. e \in Entry /\ Signed(e)
      BY <2>1, <2>2, StoredType DEF Signed
    <2>4. UNCHANGED entries \/ entries' = Append(entries, e)
      BY <1>1, <2>2 DEF InsertEntry
    <2>5. QED
      BY <2>3, <2>4 DEF EntriesShape
  <1>2. ASSUME NEW h \in Handlers, SaveApproved(h)
        PROVE  EntriesShape
    <2> DEFINE i == handler[h].id
               old == handler[h].entry
    <2>1. /\ SameEntry(old, i)
          /\ handler[h].user \in Users
          /\ old.postedBy # handler[h].user
      BY <1>2 DEF CallsOK, CallOK, SaveApproved, At
    <2>2. PICK e : e = [old EXCEPT !.status = "Posted", !.approvedBy = handler[h].user]
      OBVIOUS
    <2>3. /\ e \in Entry
          /\ e.month = old.month /\ e.source = old.source
          /\ e.sourceRef = old.sourceRef /\ e.postedBy = old.postedBy
          /\ e.lines = old.lines /\ e.status = "Posted"
          /\ e.approvedBy = handler[h].user
      <3>1. old \in Entry
        BY <2>1 DEF SameEntry
      <3>2. e = Approved(old, handler[h].user)
        BY <2>2 DEF Approved
      <3>3. QED
        BY <2>1, <3>1, <3>2, ApprovedType
    <2>4. SameEntry(e, i) /\ Signed(e)
      BY <2>1, <2>3, JournalAssumption DEF SameEntry, Signed, JournalAssumption
    <2>5. Save(i, e) /\ i \in DOMAIN entries
      BY <1>2, <2>1, <2>2 DEF SaveApproved, SameEntry
    <2>6. QED
      BY <2>3, <2>4, <2>5 DEF EntriesShape
  <1>3. ASSUME NEW h \in Handlers, LinkReversal(h)
        PROVE  EntriesShape
    <2> DEFINE i == handler[h].id
               old == handler[h].entry
    <2>1. /\ SameEntry(old, i)
          /\ old.source = "reversal" /\ old.status = "Posted"
      BY <1>3 DEF CallsOK, CallOK, LinkReversal, At
    <2>2. PICK e : e = [old EXCEPT !.reversalOf = old.sourceRef]
      OBVIOUS
    <2>3. /\ e \in Entry
          /\ e.month = old.month /\ e.source = old.source
          /\ e.sourceRef = old.sourceRef /\ e.postedBy = old.postedBy
          /\ e.lines = old.lines /\ e.status = old.status
      BY <2>1, <2>2, LinkedType DEF SameEntry
    <2>4. SameEntry(e, i) /\ Signed(e) /\ e.status = "Posted"
      BY <2>1, <2>3 DEF SameEntry, Signed
    <2>5. Save(i, e) /\ i \in DOMAIN entries
      BY <1>3, <2>1, <2>2 DEF LinkReversal, SameEntry
    <2>6. QED
      BY <2>3, <2>4, <2>5 DEF EntriesShape
  <1>4. ASSUME NEW h \in Handlers, MarkReversed(h)
        PROVE  EntriesShape
    <2> DEFINE i == handler[h].entry.sourceRef
               old == handler[h].original
    <2>1. /\ SameEntry(old, i)
          /\ old.status = "Posted" /\ Signed(old)
      BY <1>4 DEF CallsOK, CallOK, OriginalOK, MarkReversed, At
    <2>2. PICK e : e = [old EXCEPT !.reversalStatus = "Reversed"]
      OBVIOUS
    <2>3. /\ e \in Entry
          /\ e.month = old.month /\ e.source = old.source
          /\ e.sourceRef = old.sourceRef /\ e.postedBy = old.postedBy
          /\ e.lines = old.lines /\ e.status = old.status
          /\ e.approvedBy = old.approvedBy
      BY <2>1, <2>2, ReversedType DEF SameEntry
    <2>4. SameEntry(e, i) /\ Signed(e) /\ e.status = "Posted"
      BY <2>1, <2>3 DEF SameEntry, Signed
    <2>5. Save(i, e) /\ i \in DOMAIN entries
      BY <1>4, <2>1, <2>2 DEF MarkReversed, SameEntry
    <2>6. QED
      BY <2>3, <2>4, <2>5 DEF EntriesShape
  <1>5. CASE UNCHANGED entries
    BY <1>5 DEF EntriesShape
  <1>6. QED
    BY <1>1, <1>2, <1>3, <1>4, <1>5
    DEF Next, Crash, Call, Continue, CallPost, CallPostEvent, CallApprove, CallReverse,
        CallClose, CheckPost, CountPending, SavePeriod, RecordAudit, vars

\* Entries stay; what was posted and whether it is in the books stays.
EntriesKept ==
    \A i \in DOMAIN entries :
        /\ i \in DOMAIN entries'
        /\ entries'[i].month = entries[i].month
        /\ entries'[i].source = entries[i].source
        /\ entries'[i].sourceRef = entries[i].sourceRef
        /\ entries'[i].postedBy = entries[i].postedBy
        /\ entries'[i].lines = entries[i].lines
        /\ entries[i].status = "Posted" => entries'[i].status = "Posted"

\* What the shape of a step says of types, signatures and old entries.
LEMMA ShapeKeeps ==
    ASSUME entries \in Seq(Entry), MakerChecker, EntriesShape
    PROVE  /\ entries' \in Seq(Entry)
           /\ MakerChecker'
           /\ EntriesKept
  <1>1. MakerChecker <=> \A i \in DOMAIN entries : Signed(entries[i])
    BY DEF MakerChecker, Signed
  <1>2. MakerChecker' <=> \A i \in DOMAIN entries' : Signed(entries'[i])
    BY DEF MakerChecker, Signed
  <1>3. CASE UNCHANGED entries
    BY <1>1, <1>2, <1>3 DEF EntriesKept
  <1>4. ASSUME NEW e \in Entry, Signed(e), entries' = Append(entries, e)
        PROVE  /\ entries' \in Seq(Entry)
               /\ MakerChecker'
               /\ EntriesKept
    <2>1. /\ entries' \in Seq(Entry)
          /\ DOMAIN entries' = DOMAIN entries \cup {Len(entries) + 1}
          /\ entries'[Len(entries) + 1] = e
          /\ \A i \in DOMAIN entries : entries'[i] = entries[i]
      BY <1>4
    <2>2. QED
      BY <1>1, <1>2, <1>4, <2>1 DEF EntriesKept
  <1>5. ASSUME NEW e \in Entry, NEW i \in DOMAIN entries, SameEntry(e, i),
               e.status = "Posted", Signed(e), Save(i, e)
        PROVE  /\ entries' \in Seq(Entry)
               /\ MakerChecker'
               /\ EntriesKept
    <2>1. /\ entries' \in Seq(Entry)
          /\ DOMAIN entries' = DOMAIN entries
          /\ entries'[i] = e
          /\ \A j \in DOMAIN entries \ {i} : entries'[j] = entries[j]
      BY <1>5 DEF Save
    <2>2. EntriesKept
      BY <1>5, <2>1 DEF EntriesKept, SameEntry
    <2>3. QED
      BY <1>1, <1>2, <1>5, <2>1, <2>2
  <1>6. QED
    BY <1>3, <1>4, <1>5 DEF EntriesShape
-------------------------------------------------------------------------------
(* The calls.                                                               *)

\* What an entity says of its row, it says after the step.
LEMMA SameKept ==
    ASSUME EntriesKept, NEW e, NEW i, SameEntry(e, i)
    PROVE  /\ i \in DOMAIN entries'
           /\ e \in Entry
           /\ e.month = entries'[i].month
           /\ e.source = entries'[i].source
           /\ e.sourceRef = entries'[i].sourceRef
           /\ e.postedBy = entries'[i].postedBy
           /\ e.lines = entries'[i].lines
  BY DEF EntriesKept, SameEntry

\* A call that does not move keeps what it may assume.
LEMMA CallKept ==
    ASSUME EntriesKept, NEW c, CallOK(c)
    PROVE  CallOK(c)'
  <1>1. ASSUME NEW e, NEW i, SameEntry(e, i)
        PROVE  SameEntry(e, i)'
    BY <1>1, SameKept DEF SameEntry
  <1>2. OriginalOK(c) => OriginalOK(c)'
    BY <1>1 DEF OriginalOK
  <1>3. QED
    BY <1>1, <1>2 DEF CallOK

\* If the call that moves may assume what it holds, all may.
LEMMA OneCallOK ==
    ASSUME CallsOK, EntriesKept, NEW h \in Handlers,
           \A g \in Handlers \ {h} : handler'[g] = handler[g],
           NEW c, handler'[h] = c, CallOK(c)'
    PROVE  CallsOK'
  <1>1. ASSUME NEW g \in Handlers \ {h}, NEW d, d = handler[g]
        PROVE  CallOK(d)' /\ handler'[g] = d
    BY <1>1, CallKept DEF CallsOK
  <1>2. \A g \in Handlers \ {h} : CallOK(handler[g])'
    BY <1>1
  <1>3. QED
    BY <1>2 DEF CallsOK

\* A call that begins, goes on or ends may assume what it holds.
LEMMA CallsStep ==
    ASSUME JournalInv, EntriesKept, [Next]_vars
    PROVE  CallsOK' /\ handler' \in [Handlers -> HandlerState]
  <1> USE DEF JournalInv
  <1>1. /\ handler \in [Handlers -> HandlerState]
        /\ entries \in Seq(Entry)
        /\ \A h \in Handlers : CallOK(handler[h])
    BY DEF TypeOK, CallsOK
  <1>2. ASSUME NEW h \in Handlers, Done(h)
        PROVE  CallsOK' /\ handler' \in [Handlers -> HandlerState]
    <2>1. CallOK(Idle)'
      BY DEF CallOK, Idle
    <2>2. QED
      BY <1>1, <1>2, <2>1, OneCall, OneCallOK
  <1>3. ASSUME NEW h \in Handlers, NEW call \in HandlerState, Begin(h, call), CallOK(call)'
        PROVE  CallsOK' /\ handler' \in [Handlers -> HandlerState]
    BY <1>1, <1>3, OneCall, OneCallOK
  <1>4. ASSUME NEW h \in Handlers, NEW step \in Steps, Goto(h, step),
               \/ step = "audit"
               \/ step = "insert" /\ At(h, "period")
               \/ step = "mark" /\ At(h, "link")
               \/ step = "close" /\ At(h, "count")
        PROVE  CallsOK' /\ handler' \in [Handlers -> HandlerState]
    <2>1. PICK c : c = handler'[h]
      OBVIOUS
    <2>2. PICK old : old = handler[h]
      OBVIOUS
    <2>3. /\ c.step = step
          /\ c.user = old.user /\ c.entry = old.entry /\ c.original = old.original
          /\ c.month = old.month /\ c.id = old.id
          /\ handler' \in [Handlers -> HandlerState]
          /\ \A g \in Handlers \ {h} : handler'[g] = handler[g]
      BY <1>1, <1>4, <2>1, <2>2, OneCall
    <2>4. CallOK(old) /\ CallOK(old)'
      BY <1>1, <2>2, CallKept
    <2>5. OriginalOK(old)' => OriginalOK(c)'
      BY <2>3 DEF OriginalOK
    <2>6. CallOK(c)'
      BY <1>4, <2>2, <2>3, <2>4, <2>5 DEF CallOK, At
    <2>7. QED
      BY <2>1, <2>3, <2>6, OneCallOK
  <1>5. ASSUME NEW h \in Handlers, NEW lines \in Inputs, NEW u \in Users, NEW m \in Months,
               NEW source \in {"manual", "historical"}, CallPost(h, u, m, lines, source)
        PROVE  CallsOK' /\ handler' \in [Handlers -> HandlerState]
    <2>1. PICK e : e = NewEntry(m, lines, source, 0, u)
      OBVIOUS
    <2>2. e \in Entry /\ Signed(e) /\ e.source # "reversal"
      BY <2>1, NewEntryType, JournalAssumption DEF JournalAssumption, Sources
    <2>3. PICK c : c = [Idle EXCEPT !.step = "period", !.user = u, !.entry = e]
      OBVIOUS
    <2>4. c \in HandlerState /\ c.step = "period" /\ c.entry = e
      BY <2>2, <2>3 DEF Idle, HandlerState, Steps
    <2>5. CallOK(c)'
      BY <2>2, <2>4 DEF CallOK
    <2>6. Begin(h, c)
      BY <1>5, <2>1, <2>3 DEF CallPost
    <2>7. QED
      BY <1>3, <2>4, <2>5, <2>6
  <1>6. ASSUME NEW h \in Handlers, NEW lines \in Inputs, CallPostEvent(h, lines)
        PROVE  CallsOK' /\ handler' \in [Handlers -> HandlerState]
    <2>1. PICK e : e = NewEntry(Today, lines, "event", 0, NULL)
      OBVIOUS
    <2>2. e \in Entry /\ Signed(e) /\ e.source # "reversal"
      BY <2>1, NewEntryType, JournalAssumption DEF JournalAssumption, Sources
    <2>3. PICK c : c = [Idle EXCEPT !.step = "period", !.entry = e]
      OBVIOUS
    <2>4. c \in HandlerState /\ c.step = "period" /\ c.entry = e
      BY <2>2, <2>3 DEF Idle, HandlerState, Steps
    <2>5. CallOK(c)'
      BY <2>2, <2>4 DEF CallOK
    <2>6. Begin(h, c)
      BY <1>6, <2>1, <2>3 DEF CallPostEvent
    <2>7. QED
      BY <1>3, <2>4, <2>5, <2>6
  <1>7. ASSUME NEW h \in Handlers, NEW u \in Users, NEW i \in DOMAIN entries,
               CallApprove(h, u, i)
        PROVE  CallsOK' /\ handler' \in [Handlers -> HandlerState]
    <2>1. PICK e : e = entries[i]
      OBVIOUS
    <2>2. e \in Entry /\ SameEntry(e, i) /\ i \in Nat /\ e.postedBy # u
      <3>1. e \in Entry /\ i \in Nat
        BY <1>1, <2>1
      <3>2. e.postedBy # u
        BY <1>7, <2>1 DEF CallApprove
      <3>3. QED
        BY <2>1, <3>1, <3>2 DEF SameEntry
    <2>3. PICK c : c = [Idle EXCEPT !.step = "approve", !.user = u, !.id = i, !.entry = e]
      OBVIOUS
    <2>4. c \in HandlerState /\ c.step = "approve" /\ c.entry = e /\ c.user = u /\ c.id = i
      BY <2>2, <2>3 DEF Idle, HandlerState, Steps
    <2>5. CallOK(c)
      BY <2>2, <2>4 DEF CallOK
    <2>6. Begin(h, c) /\ CallOK(c)'
      BY <1>7, <2>1, <2>3, <2>5, CallKept DEF CallApprove
    <2>7. QED
      BY <1>3, <2>4, <2>6
  <1>8. ASSUME NEW h \in Handlers, NEW u \in Users, NEW i \in DOMAIN entries,
               CallReverse(h, u, i)
        PROVE  CallsOK' /\ handler' \in [Handlers -> HandlerState]
    <2>1. PICK o : o = entries[i]
      OBVIOUS
    <2>2. /\ o \in Entry /\ SameEntry(o, i) /\ i \in Nat
          /\ o.status = "Posted" /\ Signed(o)
      <3>1. o \in Entry /\ i \in Nat
        BY <1>1, <2>1
      <3>2. o.status = "Posted"
        BY <1>8, <2>1 DEF CallReverse
      <3>3. Signed(o)
        BY <2>1 DEF MakerChecker, Signed
      <3>4. QED
        BY <2>1, <3>1, <3>2, <3>3 DEF SameEntry
    <2>3. PICK e : e = NewEntry(Today, Swapped(o.lines), "reversal", i, u)
      OBVIOUS
    <2>4. Swapped(o.lines) \in Lines
      BY <2>2, LinesType DEF Entry
    <2>5. /\ e \in Entry /\ Signed(e)
          /\ e.source = "reversal" /\ e.sourceRef = i /\ e.status = "Posted"
      BY <2>2, <2>3, <2>4, NewEntryType, JournalAssumption DEF JournalAssumption, Sources
    <2>6. PICK c : c = [Idle EXCEPT !.step = "period", !.user = u, !.original = o, !.entry = e]
      OBVIOUS
    <2>7. c \in HandlerState /\ c.step = "period" /\ c.entry = e /\ c.original = o
      BY <2>2, <2>5, <2>6 DEF Idle, HandlerState, Steps
    <2>8. CallOK(c)
      BY <2>2, <2>5, <2>7 DEF CallOK, OriginalOK
    <2>9. Begin(h, c) /\ CallOK(c)'
      BY <1>8, <2>1, <2>3, <2>6, <2>8, CallKept DEF CallReverse
    <2>10. QED
      BY <1>3, <2>7, <2>9
  <1>9. ASSUME NEW h \in Handlers, NEW u \in Users, NEW m \in Months, CallClose(h, u, m)
        PROVE  CallsOK' /\ handler' \in [Handlers -> HandlerState]
    <2>1. PICK c : c = [Idle EXCEPT !.step = "count", !.user = u, !.month = m]
      OBVIOUS
    <2>2. c \in HandlerState /\ c.step = "count" /\ c.month = m
      BY <2>1 DEF Idle, HandlerState, Steps
    <2>3. Begin(h, c) /\ CallOK(c)'
      BY <1>9, <2>1, <2>2 DEF CallOK, CallClose
    <2>4. QED
      BY <1>3, <2>2, <2>3
  <1>10. ASSUME NEW h \in Handlers, InsertEntry(h)
         PROVE  CallsOK' /\ handler' \in [Handlers -> HandlerState]
    <2>1. CASE Done(h)
      BY <1>2, <2>1
    <2>2. CASE ~Done(h)
      <3>1. PICK old : old = handler[h]
        OBVIOUS
      <3>2. /\ old.entry \in Entry /\ Signed(old.entry) /\ old \in HandlerState
            /\ old.entry.source = "reversal" => old.entry.status = "Posted" /\ OriginalOK(old)
        BY <1>1, <1>10, <3>1 DEF CallOK, InsertEntry, At
      <3>3. PICK e : e = [old.entry EXCEPT !.lines = Stored(@)]
        OBVIOUS
      <3>4. /\ e \in Entry
            /\ e.source = old.entry.source /\ e.sourceRef = old.entry.sourceRef
            /\ e.status = old.entry.status
        BY <3>2, <3>3, StoredType
      <3>5. PICK n : n = Len(entries) + 1
        OBVIOUS
      <3>6. /\ e.source = "reversal"
            /\ entries' = Append(entries, e)
            /\ handler' = [handler EXCEPT ![h].step = "link", ![h].entry = e, ![h].id = n]
        BY <1>10, <2>2, <3>1, <3>3, <3>5 DEF InsertEntry
      <3>7. PICK c : c = [old EXCEPT !.step = "link", !.entry = e, !.id = n]
        OBVIOUS
      <3>8. n \in Nat /\ n \in DOMAIN entries' /\ entries'[n] = e
        BY <1>1, <3>4, <3>5, <3>6
      <3>9. /\ c \in HandlerState
            /\ c.step = "link" /\ c.entry = e /\ c.id = n /\ c.original = old.original
        BY <3>2, <3>4, <3>7, <3>8 DEF HandlerState, Steps
      <3>10. handler' = [handler EXCEPT ![h] = c]
        BY <3>1, <3>6, <3>7
      <3>11. /\ handler' \in [Handlers -> HandlerState]
             /\ handler'[h] = c
             /\ \A g \in Handlers \ {h} : handler'[g] = handler[g]
        BY <1>1, <3>9, <3>10
      <3>12. OriginalOK(c)'
        <4>1. OriginalOK(c)
          BY <3>2, <3>4, <3>6, <3>9 DEF OriginalOK
        <4>2. QED
          BY <4>1, SameKept DEF OriginalOK, SameEntry
      <3>13. SameEntry(e, n)'
        BY <3>4, <3>8 DEF SameEntry
      <3>14. CallOK(c)'
        BY <3>2, <3>4, <3>6, <3>9, <3>12, <3>13 DEF CallOK
      <3>15. QED
        BY <3>11, <3>14, OneCallOK
    <2>3. QED
      BY <2>1, <2>2
  <1>11. ASSUME NEW h \in Handlers, CheckPost(h) \/ CountPending(h) \/ SavePeriod(h)
         PROVE  CallsOK' /\ handler' \in [Handlers -> HandlerState]
    BY <1>2, <1>4, <1>11 DEF CheckPost, CountPending, SavePeriod, Steps
  <1>12. ASSUME NEW h \in Handlers, SaveApproved(h) \/ LinkReversal(h)
         PROVE  CallsOK' /\ handler' \in [Handlers -> HandlerState]
    BY <1>4, <1>12 DEF SaveApproved, LinkReversal, Steps
  <1>13. ASSUME NEW h \in Handlers, MarkReversed(h) \/ RecordAudit(h)
         PROVE  CallsOK' /\ handler' \in [Handlers -> HandlerState]
    BY <1>2, <1>13 DEF MarkReversed, RecordAudit
  <1>14. CASE Crash
    <2>1. handler' = [h \in Handlers |-> Idle]
      BY <1>14 DEF Crash
    <2>2. Idle \in HandlerState /\ CallOK(Idle)'
      BY DEF Idle, HandlerState, Steps, CallOK
    <2>3. QED
      BY <2>1, <2>2 DEF CallsOK
  <1>15. CASE UNCHANGED vars
    <2>1. handler' = handler
      BY <1>15 DEF vars
    <2>2. ASSUME NEW h \in Handlers, NEW c, c = handler[h]
          PROVE  CallOK(c)'
      BY <1>1, <2>2, CallKept
    <2>3. \A h \in Handlers : CallOK(handler[h])'
      BY <2>1, <2>2
    <2>4. QED
      BY <1>1, <2>1, <2>3 DEF CallsOK
  <1>16. QED
    BY <1>5, <1>6, <1>7, <1>8, <1>9, <1>10, <1>11, <1>12, <1>13, <1>14, <1>15
    DEF Next, Call, Continue
-------------------------------------------------------------------------------
(* The invariant.                                                           *)

\* The rows of the other tables keep their types; closePeriod and the audit
\* rows of approve and closePeriod name what the call holds.
LEMMA TablesStep ==
    ASSUME JournalInv, [Next]_vars
    PROVE  closed' \subseteq Months /\ crashes' \in Nat
           /\ audit' \subseteq ({"journal.posted", "journal.approved"} \X Nat)
                               \cup ({"period.closed"} \X Months)
  <1> DEFINE Rows == ({"journal.posted", "journal.approved"} \X Nat)
                     \cup ({"period.closed"} \X Months)
  <1>1. closed \subseteq Months /\ audit \subseteq Rows /\ crashes \in Nat
    BY DEF JournalInv, TypeOK
  <1>2. ASSUME NEW h \in Handlers
        PROVE  handler[h] \in HandlerState /\ CallOK(handler[h])
    BY DEF JournalInv, TypeOK, CallsOK
  <1>3. ASSUME NEW h \in Handlers, InsertEntry(h)
        PROVE  audit' \subseteq Rows
    <2>1. Len(entries) + 1 \in Nat
      BY DEF JournalInv, TypeOK
    <2>2. audit' = audit \/ audit' = audit \cup {<<"journal.posted", Len(entries) + 1>>}
      BY <1>3 DEF InsertEntry
    <2>3. QED
      BY <1>1, <2>1, <2>2
  <1>4. ASSUME NEW h \in Handlers, SavePeriod(h)
        PROVE  closed' \subseteq Months
    <2>1. handler[h].month \in Months
      BY <1>2, <1>4 DEF CallOK, SavePeriod, At
    <2>2. QED
      BY <1>1, <1>4, <2>1 DEF SavePeriod
  <1>5. ASSUME NEW h \in Handlers, RecordAudit(h)
        PROVE  audit' \subseteq Rows
    <2>1. handler[h].month \in Months \cup {NULL} /\ handler[h].id \in Nat
      BY <1>2 DEF HandlerState
    <2>2. \/ audit' = audit
          \/ audit' = audit \cup {<<"journal.approved", handler[h].id>>}
          \/ /\ handler[h].month # NULL
             /\ audit' = audit \cup {<<"period.closed", handler[h].month>>}
      BY <1>5 DEF RecordAudit
    <2>3. QED
      BY <1>1, <2>1, <2>2
  <1>6. \/ UNCHANGED audit
        \/ \E h \in Handlers : InsertEntry(h) \/ RecordAudit(h)
    BY DEF Next, Crash, Call, Continue, CallPost, CallPostEvent, CallApprove, CallReverse,
           CallClose, CheckPost, SaveApproved, LinkReversal, MarkReversed, CountPending,
           SavePeriod, vars
  <1>7. UNCHANGED closed \/ \E h \in Handlers : SavePeriod(h)
    BY DEF Next, Crash, Call, Continue, CallPost, CallPostEvent, CallApprove, CallReverse,
           CallClose, CheckPost, InsertEntry, SaveApproved, LinkReversal, MarkReversed,
           CountPending, RecordAudit, vars
  <1>8. UNCHANGED crashes \/ crashes' = crashes + 1
    BY DEF Next, Crash, Call, Continue, CallPost, CallPostEvent, CallApprove, CallReverse,
           CallClose, CheckPost, InsertEntry, SaveApproved, LinkReversal, MarkReversed,
           CountPending, SavePeriod, RecordAudit, vars
  <1>9. QED
    BY <1>1, <1>3, <1>4, <1>5, <1>6, <1>7, <1>8

\* The journal starts empty, with every call idle.
LEMMA JournalInvInit == Init => JournalInv
  <1>1. Idle \in HandlerState /\ CallOK(Idle)
    BY DEF Idle, HandlerState, Steps, CallOK
  <1>2. Init => TypeOK
    BY <1>1 DEF Init, TypeOK
  <1>3. Init => MakerChecker /\ CallsOK
    BY <1>1 DEF Init, MakerChecker, CallsOK
  <1>4. QED
    BY <1>2, <1>3 DEF JournalInv

\* Every step keeps the invariant, and keeps what was posted.
LEMMA JournalInvStep ==
    ASSUME JournalInv, [Next]_vars
    PROVE  JournalInv' /\ EntriesKept
  <1>1. entries' \in Seq(Entry) /\ MakerChecker' /\ EntriesKept
    BY EntriesShapeStep, ShapeKeeps DEF JournalInv, TypeOK
  <1>2. CallsOK' /\ handler' \in [Handlers -> HandlerState]
    BY <1>1, CallsStep
  <1>3. TypeOK'
    BY <1>1, <1>2, TablesStep DEF TypeOK
  <1>4. QED
    BY <1>1, <1>2, <1>3 DEF JournalInv

\* The invariant holds of every behaviour of the journal.
THEOREM JournalInvariant == Spec => []JournalInv
  <1>1. JournalInv /\ [Next]_vars => JournalInv'
    BY JournalInvStep
  <1>2. QED
    BY JournalInvInit, <1>1, PTL DEF Spec

\* post, approve, reverse and closePeriod keep the types of the tables.
THEOREM JournalTypeCorrect == Spec => []TypeOK
  <1>1. JournalInv => TypeOK
    BY DEF JournalInv
  <1>2. QED
    BY <1>1, JournalInvariant, PTL

\* Maker-checker: however calls overlap and write stale entities back, an entry
\* keyed by hand is in the books only with the signature of somebody else.
THEOREM MakerCheckerHolds == Spec => []MakerChecker
  <1>1. JournalInv => MakerChecker
    BY DEF JournalInv
  <1>2. QED
    BY <1>1, JournalInvariant, PTL

\* No save of a stale entity takes an entry out of the books or changes its
\* month, source, author or lines.
THEOREM PostedStaysHolds == Spec => PostedStays
  <1>1. ASSUME JournalInv, [Next]_vars
        PROVE  [\A i \in DOMAIN entries :
                  /\ entries[i].status = "Posted" => entries'[i].status = "Posted"
                  /\ \A field \in {"month", "source", "postedBy", "lines"} :
                       entries'[i][field] = entries[i][field]]_vars
    <2>1. EntriesKept
      BY <1>1, JournalInvStep
    <2>2. ASSUME NEW i \in DOMAIN entries, NEW field \in {"month", "source", "postedBy", "lines"}
          PROVE  entries'[i][field] = entries[i][field]
      <3>1. CASE field = "month"
        BY <2>1, <3>1 DEF EntriesKept
      <3>2. CASE field = "source"
        BY <2>1, <3>2 DEF EntriesKept
      <3>3. CASE field = "postedBy"
        BY <2>1, <3>3 DEF EntriesKept
      <3>4. CASE field = "lines"
        BY <2>1, <3>4 DEF EntriesKept
      <3>5. QED
        BY <2>2, <3>1, <3>2, <3>3, <3>4
    <2>3. QED
      BY <2>1, <2>2 DEF EntriesKept
  <1>2. JournalInv /\ [Next]_vars
          => [\A i \in DOMAIN entries :
                /\ entries[i].status = "Posted" => entries'[i].status = "Posted"
                /\ \A field \in {"month", "source", "postedBy", "lines"} :
                     entries'[i][field] = entries[i][field]]_vars
    BY <1>1
  <1>3. QED
    BY <1>2, JournalInvariant, PTL DEF Spec, PostedStays
-------------------------------------------------------------------------------
(* Calls that come one after the other.                                     *)

Busy == {h \in Handlers : handler[h].step # "idle"}
OneBusy == \A g, h \in Busy : g = h

\* Every entry is offset by one other; what is offset carries the mark or is
\* about to get it from the call that offset it.
OffsetOnce ==
    \A j, k \in DOMAIN entries :
        /\ entries[j].source = "reversal" /\ entries[k].source = "reversal"
        /\ entries[j].sourceRef = entries[k].sourceRef
        => j = k
Marking(i) ==
    \E h \in Handlers : /\ handler[h].step \in {"link", "mark"}
                        /\ handler[h].entry.sourceRef = i
OffsetsMarked ==
    \A j \in DOMAIN entries :
        entries[j].source = "reversal" =>
          /\ entries[j].sourceRef \in DOMAIN entries
          /\ \/ entries[entries[j].sourceRef].reversalStatus = "Reversed"
             \/ Marking(entries[j].sourceRef)

\* What a call has read is still so: the month is open, the original not offset,
\* the row unchanged, and no pending entry in the month about to be closed.
Current(c) ==
    /\ c.step = "insert" => c.entry.month \notin closed
    /\ c.step \in {"period", "insert"} /\ c.entry.source = "reversal" =>
          \A j \in DOMAIN entries :
              entries[j].source = "reversal" => entries[j].sourceRef # c.entry.sourceRef
    /\ c.step \in {"link", "approve"} => c.entry = entries[c.id]
    /\ c.step = "close" =>
          \A i \in DOMAIN entries :
              entries[i].month = c.month => entries[i].status # "Pending Approval"

OrderFacts ==
    /\ OffsetOnce
    /\ OffsetsMarked
    /\ ClosedMonthsSettled
    /\ \A h \in Handlers : Current(handler[h])
OrderInv == IsFiniteSet(Busy) /\ (alone => OneBusy /\ OrderFacts)

\* A finite set of cardinality one at most has no two elements.
LEMMA AtMostOne ==
    ASSUME NEW S, IsFiniteSet(S), Cardinality(S) <= 1, NEW a \in S, NEW b \in S
    PROVE  a = b
  <1>1. SUFFICES ASSUME a # b PROVE FALSE
    OBVIOUS
  <1>2. PICK T : T = {b}
    OBVIOUS
  <1>3. IsFiniteSet(T) /\ Cardinality(T) = 1 /\ a \notin T
    BY <1>1, <1>2, FS_Singleton
  <1>4. Cardinality(T \cup {a}) = Cardinality(T) + 1
    BY <1>3, FS_AddElement
  <1>5. T \cup {a} \in SUBSET S
    BY <1>2
  <1>6. Cardinality(T \cup {a}) <= Cardinality(S)
    BY <1>5, FS_Subset
  <1>7. QED
    BY <1>3, <1>4, <1>6, FS_CardinalityType

\* A call moves alone.
LEMMA OthersStay ==
    ASSUME handler \in [Handlers -> HandlerState], NEW h \in Handlers, Call(h) \/ Continue(h)
    PROVE  /\ DOMAIN handler' = Handlers
           /\ \A g \in Handlers \ {h} : handler'[g] = handler[g]
  <1> DEFINE Moves == /\ DOMAIN handler' = Handlers
                      /\ \A g \in Handlers \ {h} : handler'[g] = handler[g]
  <1>1. ASSUME NEW c, Begin(h, c)
        PROVE  Moves
    BY <1>1 DEF Begin
  <1>2. ASSUME NEW step, Goto(h, step)
        PROVE  Moves
    BY <1>2 DEF Goto
  <1>3. Done(h) => Moves
    BY DEF Done
  <1>4. InsertEntry(h) => Moves
    BY <1>3 DEF InsertEntry
  <1>5. Call(h) => Moves
    <2> HIDE DEF Moves
    <2>1. QED
      BY <1>1 DEF Call, CallPost, CallPostEvent, CallApprove, CallReverse, CallClose
  <1>6. Continue(h) => Moves
    <2> HIDE DEF Moves
    <2>1. QED
      BY <1>2, <1>3, <1>4 DEF Continue, CheckPost, SaveApproved, LinkReversal, MarkReversed,
         CountPending, SavePeriod, RecordAudit
  <1>7. QED
    BY <1>5, <1>6

\* Only finitely many calls are ever at work.
LEMMA BusyFinite ==
    ASSUME JournalInv, IsFiniteSet(Busy), [Next]_vars
    PROVE  IsFiniteSet(Busy)'
  <1>1. handler \in [Handlers -> HandlerState]
    BY DEF JournalInv, TypeOK
  <1>2. CASE Crash
    <2>1. Busy' = {}
      BY <1>2 DEF Crash, Busy, Idle
    <2>2. QED
      BY <2>1, FS_EmptySet
  <1>3. ASSUME NEW h \in Handlers, Call(h) \/ Continue(h)
        PROVE  IsFiniteSet(Busy)'
    <2>1. Busy' \subseteq Busy \cup {h}
      BY <1>1, <1>3, OthersStay DEF Busy
    <2>2. IsFiniteSet(Busy \cup {h})
      BY FS_AddElement
    <2>3. QED
      BY <2>1, <2>2, FS_Subset
  <1>4. CASE UNCHANGED vars
    BY <1>4 DEF vars, Busy
  <1>5. QED
    BY <1>2, <1>3, <1>4 DEF Next

\* While calls come one after the other, the call that moves is the only one.
LEMMA OthersIdle ==
    ASSUME JournalInv, IsFiniteSet(Busy), OneBusy, Cardinality(Busy') <= 1,
           NEW h \in Handlers, Call(h) \/ Continue(h)
    PROVE  /\ OneBusy'
           /\ \A g \in Handlers \ {h} : handler'[g] = handler[g] /\ handler[g].step = "idle"
  <1>1. handler \in [Handlers -> HandlerState]
    BY DEF JournalInv, TypeOK
  <1>2. /\ DOMAIN handler' = Handlers
        /\ \A g \in Handlers \ {h} : handler'[g] = handler[g]
    BY <1>1, OthersStay
  <1>3. IsFiniteSet(Busy)'
    BY BusyFinite DEF Next
  <1>4. OneBusy'
    BY <1>3, AtMostOne DEF OneBusy
  <1>5. CASE Continue(h)
    <2>1. h \in Busy
      BY <1>5 DEF Busy, Continue, CheckPost, InsertEntry, SaveApproved, LinkReversal,
         MarkReversed, CountPending, SavePeriod, RecordAudit, At
    <2>2. QED
      BY <1>2, <1>4, <2>1 DEF OneBusy, Busy
  <1>6. CASE Call(h)
    <2>1. handler'[h].step # "idle"
      <3>1. ASSUME NEW c, Begin(h, c)
            PROVE  handler'[h] = c
        BY <1>1, <3>1 DEF Begin
      <3>2. QED
        BY <1>6, <3>1 DEF Call, CallPost, CallPostEvent, CallApprove, CallReverse, CallClose,
           Idle
    <2>2. h \in Busy'
      BY <2>1 DEF Busy
    <2>3. QED
      BY <1>2, <1>4, <2>2 DEF OneBusy, Busy
  <1>7. QED
    BY <1>4, <1>5, <1>6
\* Facts about the only call at work are facts about all.
Owed(c, i) == c.step \in {"link", "mark"} /\ c.entry.sourceRef = i
MarkedOr(c) ==
    \A j \in DOMAIN entries :
        entries[j].source = "reversal" =>
          /\ entries[j].sourceRef \in DOMAIN entries
          /\ \/ entries[entries[j].sourceRef].reversalStatus = "Reversed"
             \/ Owed(c, entries[j].sourceRef)
LEMMA OneCaller ==
    ASSUME OrderFacts, NEW h \in Handlers,
           \A g \in Handlers \ {h} : handler'[g] = handler[g] /\ handler[g].step = "idle",
           NEW old, old = handler[h], NEW c, c = handler'[h]
    PROVE  /\ Current(old) /\ MarkedOr(old)
           /\ MarkedOr(c)' => OffsetsMarked'
           /\ Current(c)' => \A g \in Handlers : Current(handler[g])'
  <1>1. Current(old) /\ MarkedOr(old)
    BY DEF OrderFacts, OffsetsMarked, Marking, MarkedOr, Owed
  <1>2. MarkedOr(c)' => OffsetsMarked'
    BY DEF OffsetsMarked, Marking, MarkedOr, Owed
  <1>3. ASSUME NEW d, d.step = "idle"
        PROVE  Current(d)'
    BY <1>3 DEF Current
  <1>4. ASSUME NEW g \in Handlers, Current(c)'
        PROVE  Current(handler[g])'
    BY <1>3, <1>4 DEF Current
  <1>5. QED
    BY <1>1, <1>2, <1>4

\* A step of the only call that leaves entries and periods alone.
LEMMA ReadStep ==
    ASSUME OrderFacts, NEW h \in Handlers,
           \A g \in Handlers \ {h} : handler'[g] = handler[g] /\ handler[g].step = "idle",
           UNCHANGED <<entries, closed>>,
           NEW old, old = handler[h], old.step \notin {"link", "mark"},
           NEW c, c = handler'[h], Current(c)
    PROVE  OrderFacts'
  <1>1. OffsetOnce' /\ ClosedMonthsSettled'
    BY DEF OrderFacts, OffsetOnce, ClosedMonthsSettled
  <1>2. MarkedOr(c)'
    BY OneCaller DEF MarkedOr, Owed
  <1>3. Current(c)'
    BY DEF Current
  <1>4. QED
    BY <1>1, <1>2, <1>3, OneCaller DEF OrderFacts
\* A call that begins has just read what it holds; an entry that carries no mark
\* has not been offset.
LEMMA CallInOrder ==
    ASSUME JournalInv, OrderFacts, NEW h \in Handlers, Call(h),
           \A g \in Handlers \ {h} : handler'[g] = handler[g] /\ handler[g].step = "idle"
    PROVE  OrderFacts'
  <1>1. PICK old : old = handler[h]
    OBVIOUS
  <1>2. PICK c : c = handler'[h]
    OBVIOUS
  <1>3. UNCHANGED <<entries, closed>>
    BY DEF Call, CallPost, CallPostEvent, CallApprove, CallReverse, CallClose
  <1>4. ASSUME NEW call, Begin(h, call)
        PROVE  old.step = "idle" /\ c = call
    BY <1>1, <1>2, <1>4 DEF Begin, At, JournalInv, TypeOK
  <1>5. old.step = "idle"
    BY <1>4 DEF Call, CallPost, CallPostEvent, CallApprove, CallReverse, CallClose
  <1>6. MarkedOr(old)
    BY <1>1, <1>2, OneCaller
  <1>7. ASSUME NEW lines, NEW u, NEW m, NEW source \in {"manual", "historical"},
               CallPost(h, u, m, lines, source)
        PROVE  Current(c)
    <2>1. PICK e : e = NewEntry(m, lines, source, 0, u)
      OBVIOUS
    <2>2. e.source # "reversal"
      BY <2>1 DEF NewEntry
    <2>3. c = [Idle EXCEPT !.step = "period", !.user = u, !.entry = e]
      BY <1>4, <1>7, <2>1 DEF CallPost
    <2>4. c.step = "period" /\ c.entry = e
      BY <2>3 DEF Idle
    <2>5. QED
      BY <2>2, <2>4 DEF Current
  <1>8. ASSUME NEW lines, CallPostEvent(h, lines)
        PROVE  Current(c)
    <2>1. PICK e : e = NewEntry(Today, lines, "event", 0, NULL)
      OBVIOUS
    <2>2. e.source # "reversal"
      BY <2>1 DEF NewEntry
    <2>3. c = [Idle EXCEPT !.step = "period", !.entry = e]
      BY <1>4, <1>8, <2>1 DEF CallPostEvent
    <2>4. c.step = "period" /\ c.entry = e
      BY <2>3 DEF Idle
    <2>5. QED
      BY <2>2, <2>4 DEF Current
  <1>9. ASSUME NEW u, NEW i \in DOMAIN entries, CallApprove(h, u, i)
        PROVE  Current(c)
    <2>1. c = [Idle EXCEPT !.step = "approve", !.user = u, !.id = i, !.entry = entries[i]]
      BY <1>4, <1>9 DEF CallApprove
    <2>2. c.step = "approve" /\ c.id = i /\ c.entry = entries[i]
      BY <2>1 DEF Idle
    <2>3. QED
      BY <2>2 DEF Current
  <1>10. ASSUME NEW u, NEW i \in DOMAIN entries, CallReverse(h, u, i)
         PROVE  Current(c)
    <2>1. PICK e : e = NewEntry(Today, Swapped(entries[i].lines), "reversal", i, u)
      OBVIOUS
    <2>2. e.sourceRef = i
      BY <2>1 DEF NewEntry
    <2>3. c = [Idle EXCEPT !.step = "period", !.user = u, !.original = entries[i], !.entry = e]
      BY <1>4, <1>10, <2>1 DEF CallReverse
    <2>4. c.step = "period" /\ c.entry = e
      BY <2>3 DEF Idle
    <2>5. ASSUME NEW j \in DOMAIN entries, entries[j].source = "reversal"
          PROVE  entries[j].sourceRef # i
      BY <1>5, <1>6, <1>10, <2>5 DEF CallReverse, MarkedOr, Owed
    <2>6. QED
      BY <2>2, <2>4, <2>5 DEF Current
  <1>11. ASSUME NEW u, NEW m, CallClose(h, u, m)
         PROVE  Current(c)
    <2>1. c = [Idle EXCEPT !.step = "count", !.user = u, !.month = m]
      BY <1>4, <1>11 DEF CallClose
    <2>2. c.step = "count"
      BY <2>1 DEF Idle
    <2>3. QED
      BY <2>2 DEF Current
  <1>12. Current(c)
    BY <1>7, <1>8, <1>9, <1>10, <1>11 DEF Call
  <1>13. QED
    BY <1>1, <1>2, <1>3, <1>5, <1>12, ReadStep

\* What post inserts is dated in an open month, and offsets what nothing offset.
LEMMA InsertInOrder ==
    ASSUME JournalInv, OrderFacts, NEW h \in Handlers, InsertEntry(h),
           \A g \in Handlers \ {h} : handler'[g] = handler[g] /\ handler[g].step = "idle"
    PROVE  OrderFacts' /\ ~AddsToClosedMonth
  <1>1. PICK old : old = handler[h]
    OBVIOUS
  <1>2. PICK c : c = handler'[h]
    OBVIOUS
  <1>3. /\ old.step = "insert" /\ CallOK(old)
        /\ handler \in [Handlers -> HandlerState] /\ entries \in Seq(Entry)
        /\ UNCHANGED closed
    BY <1>1 DEF InsertEntry, At, JournalInv, TypeOK, CallsOK
  <1>4. Current(old) /\ MarkedOr(old)
    BY <1>1, <1>2, OneCaller
  <1>5. CASE UNCHANGED entries
    <2>1. c = Idle
      <3>1. Done(h)
        BY <1>3, <1>5 DEF InsertEntry
      <3>2. QED
        BY <1>2, <1>3, <3>1 DEF Done
    <2>2. Current(c)
      BY <2>1 DEF Current, Idle
    <2>3. OrderFacts'
      BY <1>1, <1>2, <1>3, <1>5, <2>2, ReadStep
    <2>4. QED
      BY <1>5, <2>3 DEF AddsToClosedMonth
  <1>6. CASE ~UNCHANGED entries
    <2>1. PICK e : e = [old.entry EXCEPT !.lines = Stored(@)]
      OBVIOUS
    <2>2. /\ e \in Entry /\ e.month = old.entry.month /\ e.source = old.entry.source
          /\ e.sourceRef = old.entry.sourceRef
      BY <1>3, <2>1, StoredType DEF CallOK
    <2>3. PICK n : n = Len(entries) + 1
      OBVIOUS
    <2>4. /\ entries' = Append(entries, e)
          /\ IF e.source = "reversal"
             THEN handler' = [handler EXCEPT ![h].step = "link", ![h].entry = e, ![h].id = n]
             ELSE Done(h)
      BY <1>1, <1>6, <2>1, <2>3 DEF InsertEntry
    <2>5. /\ DOMAIN entries' = DOMAIN entries \cup {n}
          /\ n \notin DOMAIN entries
          /\ entries'[n] = e
          /\ \A j \in DOMAIN entries : entries'[j] = entries[j]
      BY <1>3, <2>2, <2>3, <2>4
    <2>6. IF e.source = "reversal"
          THEN c.step = "link" /\ c.entry = e /\ c.id = n
          ELSE c.step = "idle"
      <3>1. CASE e.source = "reversal"
        <4>1. c = [old EXCEPT !.step = "link", !.entry = e, !.id = n]
          BY <1>1, <1>2, <1>3, <2>4, <3>1
        <4>2. old \in HandlerState
          BY <1>1, <1>3
        <4>3. QED
          BY <3>1, <4>1, <4>2 DEF HandlerState
      <3>2. CASE e.source # "reversal"
        BY <1>2, <1>3, <2>4, <3>2 DEF Done, Idle
      <3>3. QED
        BY <3>1, <3>2
    <2>7. OffsetOnce'
      <3>1. \A j \in DOMAIN entries :
              e.source = "reversal" /\ entries[j].source = "reversal"
                => entries[j].sourceRef # e.sourceRef
        BY <1>3, <1>4, <2>2 DEF Current
      <3>2. QED
        BY <2>5, <3>1 DEF OffsetOnce, OrderFacts
    <2>8. ~AddsToClosedMonth /\ ClosedMonthsSettled'
      <3>1. e.month \notin closed
        BY <1>3, <1>4, <2>2 DEF Current
      <3>2. QED
        BY <1>3, <2>5, <3>1 DEF AddsToClosedMonth, ClosedMonthsSettled, OrderFacts
    <2>9. MarkedOr(c)'
      <3>1. e.source = "reversal" => e.sourceRef \in DOMAIN entries
        BY <1>3, <2>2 DEF CallOK, OriginalOK, SameEntry
      <3>2. QED
        BY <1>3, <1>4, <2>5, <2>6, <3>1 DEF MarkedOr, Owed
    <2>10. Current(c)'
      BY <2>5, <2>6 DEF Current
    <2>11. OrderFacts'
      BY <1>1, <1>2, <2>7, <2>8, <2>9, <2>10, OneCaller DEF OrderFacts
    <2>12. QED
      BY <2>8, <2>11
  <1>7. QED
    BY <1>5, <1>6
\* A row that is written back as it was read, but for signature and marks, stays
\* settled, offset at most once, and marked if it was.
LEMMA SaveInOrder ==
    ASSUME JournalInv, OrderFacts, NEW e \in Entry, NEW i \in DOMAIN entries,
           SameEntry(e, i), e.status = "Posted", Save(i, e), UNCHANGED closed,
           e.reversalStatus \in {entries[i].reversalStatus, "Reversed"}
    PROVE  /\ OffsetOnce' /\ ClosedMonthsSettled'
           /\ DOMAIN entries' = DOMAIN entries
           /\ entries'[i] = e
           /\ \A j \in DOMAIN entries :
                /\ entries'[j].source = entries[j].source
                /\ entries'[j].sourceRef = entries[j].sourceRef
                /\ \/ entries'[j].reversalStatus = entries[j].reversalStatus
                   \/ entries'[j].reversalStatus = "Reversed"
  <1>1. entries \in Seq(Entry)
    BY DEF JournalInv, TypeOK
  <1>2. /\ DOMAIN entries' = DOMAIN entries
        /\ entries'[i] = e
        /\ \A j \in DOMAIN entries \ {i} : entries'[j] = entries[j]
    BY <1>1 DEF Save
  <1>3. \A j \in DOMAIN entries :
          /\ entries'[j].source = entries[j].source
          /\ entries'[j].sourceRef = entries[j].sourceRef
          /\ entries'[j].month = entries[j].month
          /\ entries'[j].status = entries[j].status \/ entries'[j].status = "Posted"
          /\ \/ entries'[j].reversalStatus = entries[j].reversalStatus
             \/ entries'[j].reversalStatus = "Reversed"
    BY <1>2 DEF SameEntry
  <1>4. OffsetOnce'
    BY <1>2, <1>3 DEF OffsetOnce, OrderFacts
  <1>5. ClosedMonthsSettled'
    BY <1>2, <1>3 DEF ClosedMonthsSettled, OrderFacts
  <1>6. QED
    BY <1>2, <1>3, <1>4, <1>5

\* The saves of approve and reverse by the only call at work.
LEMMA SavesInOrder ==
    ASSUME JournalInv, OrderFacts, NEW h \in Handlers,
           SaveApproved(h) \/ LinkReversal(h) \/ MarkReversed(h),
           \A g \in Handlers \ {h} : handler'[g] = handler[g] /\ handler[g].step = "idle"
    PROVE  OrderFacts'
  <1>1. PICK old : old = handler[h]
    OBVIOUS
  <1>2. PICK c : c = handler'[h]
    OBVIOUS
  <1>3. /\ CallOK(old) /\ old \in HandlerState
        /\ handler \in [Handlers -> HandlerState]
    BY <1>1 DEF JournalInv, TypeOK, CallsOK
  <1>4. Current(old) /\ MarkedOr(old)
    BY <1>1, <1>2, OneCaller
  <1>5. CASE SaveApproved(h)
    <2>1. old.step = "approve" /\ SameEntry(old.entry, old.id) /\ old.user \in Users
      BY <1>1, <1>3, <1>5 DEF SaveApproved, At, CallOK
    <2>2. old.entry = entries[old.id]
      BY <1>4, <2>1 DEF Current
    <2>3. PICK e : e = [old.entry EXCEPT !.status = "Posted", !.approvedBy = old.user]
      OBVIOUS
    <2>4. /\ e \in Entry /\ SameEntry(e, old.id) /\ e.status = "Posted"
      <3>1. old.entry \in Entry
        BY <2>1 DEF SameEntry
      <3>2. /\ e \in Entry /\ e.status = "Posted"
            /\ e.month = old.entry.month /\ e.source = old.entry.source
            /\ e.sourceRef = old.entry.sourceRef /\ e.postedBy = old.entry.postedBy
            /\ e.lines = old.entry.lines
        <4>1. e = Approved(old.entry, old.user)
          BY <2>3 DEF Approved
        <4>2. QED
          BY <2>1, <3>1, <4>1, ApprovedType
      <3>3. QED
        BY <2>1, <3>2 DEF SameEntry
    <2>5. e.reversalStatus = entries[old.id].reversalStatus
      BY <2>1, <2>2, <2>3 DEF SameEntry, Entry
    <2>6. Save(old.id, e) /\ UNCHANGED closed
      BY <1>1, <1>5, <2>3 DEF SaveApproved
    <2>7. c.step = "audit"
      BY <1>2, <1>3, <1>5, OneCall DEF SaveApproved, Steps
    <2>8. /\ OffsetOnce' /\ ClosedMonthsSettled'
          /\ DOMAIN entries' = DOMAIN entries
          /\ \A j \in DOMAIN entries :
                /\ entries'[j].source = entries[j].source
                /\ entries'[j].sourceRef = entries[j].sourceRef
                /\ \/ entries'[j].reversalStatus = entries[j].reversalStatus
                   \/ entries'[j].reversalStatus = "Reversed"
      BY <2>1, <2>4, <2>5, <2>6, SaveInOrder DEF SameEntry
    <2>9. MarkedOr(c)'
      BY <1>4, <2>1, <2>8 DEF MarkedOr, Owed
    <2>10. Current(c)'
      BY <2>7 DEF Current
    <2>11. QED
      BY <1>1, <1>2, <2>8, <2>9, <2>10, OneCaller DEF OrderFacts
  <1>6. CASE LinkReversal(h)
    <2>1. old.step = "link" /\ SameEntry(old.entry, old.id) /\ old.entry.status = "Posted"
      BY <1>1, <1>3, <1>6 DEF LinkReversal, At, CallOK
    <2>2. old.entry = entries[old.id]
      BY <1>4, <2>1 DEF Current
    <2>3. PICK e : e = [old.entry EXCEPT !.reversalOf = old.entry.sourceRef]
      OBVIOUS
    <2>4. /\ e \in Entry /\ SameEntry(e, old.id) /\ e.status = "Posted"
      BY <2>1, <2>3, LinkedType DEF SameEntry
    <2>5. e.reversalStatus = entries[old.id].reversalStatus
      BY <2>1, <2>2, <2>3 DEF SameEntry, Entry
    <2>6. Save(old.id, e) /\ UNCHANGED closed
      BY <1>1, <1>6, <2>3 DEF LinkReversal
    <2>7. c.step = "mark" /\ c.entry = old.entry
      BY <1>1, <1>2, <1>3, <1>6, OneCall DEF LinkReversal, Steps
    <2>8. /\ OffsetOnce' /\ ClosedMonthsSettled'
          /\ DOMAIN entries' = DOMAIN entries
          /\ \A j \in DOMAIN entries :
                /\ entries'[j].source = entries[j].source
                /\ entries'[j].sourceRef = entries[j].sourceRef
                /\ \/ entries'[j].reversalStatus = entries[j].reversalStatus
                   \/ entries'[j].reversalStatus = "Reversed"
      BY <2>1, <2>4, <2>5, <2>6, SaveInOrder DEF SameEntry
    <2>9. MarkedOr(c)'
      BY <1>4, <2>7, <2>8 DEF MarkedOr, Owed
    <2>10. Current(c)'
      BY <2>7 DEF Current
    <2>11. QED
      BY <1>1, <1>2, <2>8, <2>9, <2>10, OneCaller DEF OrderFacts
  <1>7. CASE MarkReversed(h)
    <2> DEFINE i == old.entry.sourceRef
    <2>1. old.step = "mark" /\ SameEntry(old.original, i) /\ old.original.status = "Posted"
      BY <1>1, <1>3, <1>7 DEF MarkReversed, At, CallOK, OriginalOK
    <2>2. PICK e : e = [old.original EXCEPT !.reversalStatus = "Reversed"]
      OBVIOUS
    <2>3. /\ e \in Entry /\ SameEntry(e, i) /\ e.status = "Posted"
      BY <2>1, <2>2, ReversedType DEF SameEntry
    <2>4. e.reversalStatus = "Reversed"
      BY <2>1, <2>2 DEF SameEntry, Entry
    <2>5. Save(i, e) /\ UNCHANGED closed
      BY <1>1, <1>7, <2>2 DEF MarkReversed
    <2>6. c.step = "idle"
      BY <1>2, <1>3, <1>7, OneCall DEF MarkReversed, Idle
    <2>7. /\ OffsetOnce' /\ ClosedMonthsSettled'
          /\ DOMAIN entries' = DOMAIN entries
          /\ entries'[i] = e
          /\ \A j \in DOMAIN entries :
                /\ entries'[j].source = entries[j].source
                /\ entries'[j].sourceRef = entries[j].sourceRef
                /\ \/ entries'[j].reversalStatus = entries[j].reversalStatus
                   \/ entries'[j].reversalStatus = "Reversed"
      BY <2>1, <2>3, <2>4, <2>5, SaveInOrder DEF SameEntry
    <2>8. MarkedOr(c)'
      BY <1>4, <2>4, <2>7 DEF MarkedOr, Owed
    <2>9. Current(c)'
      BY <2>6 DEF Current
    <2>10. QED
      BY <1>1, <1>2, <2>7, <2>8, <2>9, OneCaller DEF OrderFacts
  <1>8. QED
    BY <1>5, <1>6, <1>7

\* The other steps of the only call at work: the checks, the period and the audit.
LEMMA ChecksInOrder ==
    ASSUME JournalInv, OrderFacts, NEW h \in Handlers,
           CheckPost(h) \/ CountPending(h) \/ SavePeriod(h) \/ RecordAudit(h),
           \A g \in Handlers \ {h} : handler'[g] = handler[g] /\ handler[g].step = "idle"
    PROVE  OrderFacts'
  <1>1. PICK old : old = handler[h]
    OBVIOUS
  <1>2. PICK c : c = handler'[h]
    OBVIOUS
  <1>3. /\ CallOK(old) /\ old \in HandlerState
        /\ handler \in [Handlers -> HandlerState]
    BY <1>1 DEF JournalInv, TypeOK, CallsOK
  <1>4. Current(old) /\ MarkedOr(old)
    BY <1>1, <1>2, OneCaller
  <1>5. ASSUME Done(h)
        PROVE  c.step = "idle" /\ Current(c)
    <2>1. c.step = "idle"
      BY <1>2, <1>3, <1>5, OneCall DEF Idle
    <2>2. QED
      BY <2>1 DEF Current
  <1>6. CASE CheckPost(h)
    <2>1. old.step = "period" /\ UNCHANGED <<entries, closed>>
      BY <1>1, <1>6 DEF CheckPost, At
    <2>2. CASE Goto(h, "insert") /\ old.entry.month \notin closed
      <3>1. c.step = "insert" /\ c.entry = old.entry
        BY <1>1, <1>2, <1>3, <2>2, OneCall DEF Steps
      <3>2. Current(c)
        BY <1>4, <2>1, <2>2, <3>1 DEF Current
      <3>3. QED
        BY <1>1, <1>2, <2>1, <3>2, ReadStep
    <2>3. CASE Done(h)
      BY <1>1, <1>2, <1>5, <2>1, <2>3, ReadStep
    <2>4. QED
      BY <1>1, <1>6, <2>2, <2>3 DEF CheckPost
  <1>7. CASE CountPending(h)
    <2>1. old.step = "count" /\ UNCHANGED <<entries, closed>>
      BY <1>1, <1>7 DEF CountPending, At
    <2>2. CASE /\ Goto(h, "close")
               /\ \A i \in DOMAIN entries :
                    entries[i].month = old.month => entries[i].status # "Pending Approval"
      <3>1. c.step = "close" /\ c.month = old.month
        BY <1>1, <1>2, <1>3, <2>2, OneCall DEF Steps
      <3>2. Current(c)
        BY <2>2, <3>1 DEF Current
      <3>3. QED
        BY <1>1, <1>2, <2>1, <3>2, ReadStep
    <2>3. CASE Done(h)
      BY <1>1, <1>2, <1>5, <2>1, <2>3, ReadStep
    <2>4. QED
      BY <1>1, <1>7, <2>2, <2>3 DEF CountPending
  <1>8. CASE RecordAudit(h)
    <2>1. old.step = "audit" /\ UNCHANGED <<entries, closed>> /\ Done(h)
      BY <1>1, <1>8 DEF RecordAudit, At
    <2>2. QED
      BY <1>1, <1>2, <1>5, <2>1, ReadStep
  <1>9. CASE SavePeriod(h)
    <2>1. old.step = "close" /\ UNCHANGED entries /\ closed' \subseteq closed \cup {old.month}
      BY <1>1, <1>9 DEF SavePeriod, At
    <2>2. c.step \in {"idle", "audit"}
      BY <1>2, <1>3, <1>5, <1>9, OneCall DEF SavePeriod, Steps
    <2>3. OffsetOnce' /\ MarkedOr(c)' /\ Current(c)'
      BY <1>4, <2>1, <2>2 DEF OrderFacts, OffsetOnce, MarkedOr, Owed, Current
    <2>4. ASSUME NEW i \in DOMAIN entries
          PROVE  entries[i].status \in {"Posted", "Pending Approval"}
      <3>1. entries \in Seq(Entry)
        BY DEF JournalInv, TypeOK
      <3>2. entries[i] \in Entry
        BY <3>1
      <3>3. QED
        BY <3>2 DEF Entry
    <2>5. ClosedMonthsSettled'
      BY <1>4, <2>1, <2>4 DEF OrderFacts, ClosedMonthsSettled, Current
    <2>6. QED
      BY <1>1, <1>2, <2>3, <2>5, OneCaller DEF OrderFacts
  <1>10. QED
    BY <1>6, <1>7, <1>8, <1>9
\* A step keeps the calls in order, and while they are in order none adds an
\* entry to a closed month.
LEMMA OrderStep ==
    ASSUME JournalInv, OrderInv, [MCNext]_<<vars, alone>>
    PROVE  OrderInv' /\ (alone' => [~AddsToClosedMonth]_vars)
  <1>1. [Next]_vars
    BY DEF MCNext, vars
  <1>2. IsFiniteSet(Busy)'
    BY <1>1, BusyFinite DEF OrderInv
  <1>3. CASE UNCHANGED <<vars, alone>>
    <2>1. OrderInv'
      <3>1. UNCHANGED <<entries, closed, handler, alone>>
        BY <1>3 DEF vars
      <3>2. /\ UNCHANGED Busy
            /\ UNCHANGED OneBusy
        BY <3>1 DEF Busy, OneBusy
      <3>3. /\ UNCHANGED OffsetOnce
            /\ UNCHANGED OffsetsMarked
            /\ UNCHANGED ClosedMonthsSettled
        BY <3>1 DEF OffsetOnce, OffsetsMarked, Marking, ClosedMonthsSettled
      <3>4. UNCHANGED (\A h \in Handlers : Current(handler[h]))
        BY <3>1 DEF Current
      <3>5. QED
        BY <3>1, <3>2, <3>3, <3>4 DEF OrderInv, OrderFacts
    <2>2. QED
      BY <1>3, <2>1 DEF vars
  <1>4. CASE MCNext /\ ~alone'
    BY <1>2, <1>4 DEF OrderInv
  <1>5. CASE MCNext /\ alone'
    <2>1. /\ Next
          /\ alone /\ OneBusy /\ OrderFacts /\ IsFiniteSet(Busy)
          /\ crashes' = crashes \/ \A h \in Handlers : At(h, "idle")
          /\ Cardinality(Busy') <= 1
      BY <1>5 DEF MCNext, OrderInv, Busy
    <2>2. CASE Crash
      <3>1. \A h \in Handlers : handler[h].step = "idle"
        BY <2>1, <2>2 DEF Crash, At, JournalInv, TypeOK
      <3>2. /\ UNCHANGED <<entries, closed>>
            /\ \A h \in Handlers : handler'[h] = Idle
        BY <2>2 DEF Crash
      <3>3. OneBusy'
        BY <3>2 DEF OneBusy, Busy, Idle
      <3>4. OffsetOnce' /\ ClosedMonthsSettled'
        BY <2>1, <3>2 DEF OrderFacts, OffsetOnce, ClosedMonthsSettled
      <3>5. OffsetsMarked'
        BY <2>1, <3>1, <3>2 DEF OrderFacts, OffsetsMarked, Marking
      <3>6. \A h \in Handlers : Current(handler[h])'
        <4>1. ASSUME NEW d, d.step = "idle"
              PROVE  Current(d)'
          BY <4>1 DEF Current
        <4>2. QED
          BY <3>2, <4>1 DEF Idle
      <3>7. ~AddsToClosedMonth
        BY <3>2 DEF AddsToClosedMonth
      <3>8. QED
        BY <1>2, <3>3, <3>4, <3>5, <3>6, <3>7 DEF OrderInv, OrderFacts
    <2>3. ASSUME NEW h \in Handlers, Call(h) \/ Continue(h)
          PROVE  OrderInv' /\ ~AddsToClosedMonth
      <3>1. /\ OneBusy'
            /\ \A g \in Handlers \ {h} : handler'[g] = handler[g] /\ handler[g].step = "idle"
        BY <2>1, <2>3, OthersIdle
      <3>2. CASE InsertEntry(h)
        BY <1>2, <2>1, <3>1, <3>2, InsertInOrder DEF OrderInv
      <3>3. CASE Call(h)
        <4>1. UNCHANGED entries
          BY <3>3 DEF Call, CallPost, CallPostEvent, CallApprove, CallReverse, CallClose
        <4>2. QED
          BY <1>2, <2>1, <3>1, <3>3, <4>1, CallInOrder DEF OrderInv, AddsToClosedMonth
      <3>4. CASE SaveApproved(h) \/ LinkReversal(h) \/ MarkReversed(h)
        <4>1. DOMAIN entries' = DOMAIN entries
          BY <3>4 DEF SaveApproved, LinkReversal, MarkReversed, Save
        <4>2. QED
          BY <1>2, <2>1, <3>1, <3>4, <4>1, SavesInOrder DEF OrderInv, AddsToClosedMonth
      <3>5. CASE CheckPost(h) \/ CountPending(h) \/ SavePeriod(h) \/ RecordAudit(h)
        <4>1. UNCHANGED entries
          BY <3>5 DEF CheckPost, CountPending, SavePeriod, RecordAudit
        <4>2. QED
          BY <1>2, <2>1, <3>1, <3>5, <4>1, ChecksInOrder DEF OrderInv, AddsToClosedMonth
      <3>6. QED
        BY <2>3, <3>2, <3>3, <3>4, <3>5 DEF Continue
    <2>4. QED
      BY <2>1, <2>2, <2>3 DEF Next
  <1>6. QED
    BY <1>3, <1>4, <1>5

\* Of what has been offset once only, the set of offsetting entries has one element.
LEMMA OffsetsCounted == OffsetOnce => ReversedOnce
  <1>1. SUFFICES ASSUME OffsetOnce, NEW i \in DOMAIN entries
                 PROVE  Cardinality(Offsets(i)) <= 1
    BY DEF ReversedOnce
  <1>2. CASE Offsets(i) = {}
    BY <1>2, FS_EmptySet
  <1>3. ASSUME NEW j \in Offsets(i)
        PROVE  Cardinality(Offsets(i)) <= 1
    <2>1. Offsets(i) = {j}
      BY <1>1, <1>3 DEF Offsets, OffsetOnce
    <2>2. Cardinality(Offsets(i)) = 1
      BY Zenon, <2>1, FS_Singleton
    <2>3. QED
      BY <2>2
  <1>4. QED
    BY <1>2, <1>3

\* Both invariants hold of every behaviour with history.
THEOREM OrderInvariant == MCSpec => [](JournalInv /\ OrderInv)
  <1>1. MCInit => JournalInv /\ OrderInv
    <2>1. SUFFICES ASSUME MCInit
                   PROVE  OrderInv
      BY JournalInvInit DEF MCInit
    <2>2. /\ entries = << >> /\ DOMAIN entries = {} /\ closed = {}
          /\ \A h \in Handlers : handler[h] = Idle
      BY <2>1 DEF MCInit, Init
    <2>3. Busy = {}
      BY <2>2 DEF Busy, Idle
    <2>4. OneBusy /\ IsFiniteSet(Busy)
      BY <2>3, FS_EmptySet DEF OneBusy
    <2>5. \A h \in Handlers : Current(handler[h])
      BY <2>2 DEF Current, Idle
    <2>6. OffsetOnce /\ OffsetsMarked /\ ClosedMonthsSettled
      BY <2>2 DEF OffsetOnce, OffsetsMarked, ClosedMonthsSettled
    <2>7. QED
      BY <2>4, <2>5, <2>6 DEF OrderInv, OrderFacts
  <1>2. ASSUME JournalInv, [MCNext]_<<vars, alone>>
        PROVE  JournalInv'
    <2>1. [Next]_vars
      BY <1>2 DEF MCNext, vars
    <2>2. QED
      BY <1>2, <2>1, JournalInvStep
  <1>3. (JournalInv /\ OrderInv) /\ [MCNext]_<<vars, alone>> => (JournalInv /\ OrderInv)'
    BY <1>2, OrderStep
  <1>4. QED
    BY <1>1, <1>3, PTL DEF MCSpec

\* Of calls that come one after the other, only the first reversal of an entry
\* offsets it, and no closed month holds a pending entry.
THEOREM InOrderAloneHolds == MCSpec => []InOrderAlone
  <1>1. OrderInv => InOrderAlone
    BY OffsetsCounted
    DEF OrderInv, OrderFacts, InOrderAlone, ReversedOnceAlone, SettledAlone
  <1>2. QED
    BY <1>1, OrderInvariant, PTL

\* Of calls that come one after the other, none lands in a closed month, reversals
\* and event postings included.
THEOREM FrozenAloneHolds == MCSpec => FrozenAlone
  <1>1. (JournalInv /\ OrderInv) /\ [MCNext]_<<vars, alone>>
          => [alone' => ~AddsToClosedMonth]_vars
    BY OrderStep
  <1>2. QED
    BY <1>1, OrderInvariant, PTL DEF MCSpec, FrozenAlone
-------------------------------------------------------------------------------
(* The reports.                                                             *)

\* Lines that can be reported: on known accounts, every line on one side, and
\* the two sides equal.
Settled(ls) ==
    /\ IsFiniteSet(DOMAIN ls)
    /\ \A n \in DOMAIN ls :
         /\ ls[n].account \in Accounts
         /\ ls[n].debit \in Nat /\ ls[n].credit \in Nat
         /\ ls[n].debit = 0 \/ ls[n].credit = 0
    /\ Difference(ls) = 0
Books(E) == IsFiniteSet(DOMAIN E) /\ \A i \in DOMAIN E : Settled(E[i].lines)

\* The lines of a period, and what each adds to the debit side.
InReport(E, period) ==
    {i \in DOMAIN E : E[i].status = "Posted" /\ E[i].month \in period}
LinesIn(E, i) == {<<i, n>> : n \in DOMAIN E[i].lines}
AllLines(E, period) == UNION {LinesIn(E, i) : i \in InReport(E, period)}
Net(E, period) ==
    [l \in AllLines(E, period) |-> LineAt(E, l).debit - LineAt(E, l).credit]
-------------------------------------------------------------------------------
\* The values of a function on a finite set are finitely many.
LEMMA ImageFinite ==
    ASSUME NEW D, IsFiniteSet(D), NEW f, NEW R, R = {f[x] : x \in D}
    PROVE  IsFiniteSet(R)
  <1> DEFINE g == [x \in D |-> f[x]]
  <1>1. g \in Surjection(D, R)
    BY DEF Surjection
  <1>2. QED
    BY <1>1, FS_Surjection

\* A report looks at finitely many lines; each is a line of a posted entry, on
\* an account of the chart and on one side; an account has those that name it.
LEMMA ReportLines ==
    ASSUME NEW E, Books(E), NEW period
    PROVE  /\ IsFiniteSet(AllLines(E, period))
           /\ \A l \in AllLines(E, period) :
                /\ LineAt(E, l).account \in Accounts
                /\ LineAt(E, l).debit \in Nat /\ LineAt(E, l).credit \in Nat
                /\ LineAt(E, l).debit = 0 \/ LineAt(E, l).credit = 0
           /\ \A code : LinesOf(E, period, code) =
                          {l \in AllLines(E, period) : LineAt(E, l).account = code}
  <1>1. ASSUME NEW i \in InReport(E, period)
        PROVE  IsFiniteSet(LinesIn(E, i))
    <2>1. PICK D : D = DOMAIN E[i].lines
      OBVIOUS
    <2>2. PICK f : f = [n \in D |-> <<i, n>>]
      OBVIOUS
    <2>3. IsFiniteSet(D)
      BY <2>1 DEF Books, Settled, InReport
    <2>4. LinesIn(E, i) = {f[n] : n \in D}
      BY <2>1, <2>2 DEF LinesIn
    <2>5. QED
      BY <2>3, <2>4, ImageFinite
  <1>2. IsFiniteSet({LinesIn(E, i) : i \in InReport(E, period)})
    <2>1. PICK D : D = InReport(E, period)
      OBVIOUS
    <2>2. PICK f : f = [i \in D |-> LinesIn(E, i)]
      OBVIOUS
    <2>3. IsFiniteSet(D)
      BY <2>1, FS_Subset DEF Books, InReport
    <2>4. PICK R : R = {LinesIn(E, i) : i \in D}
      OBVIOUS
    <2>5. R = {f[i] : i \in D}
      BY <2>2, <2>4
    <2>6. IsFiniteSet(R)
      BY <2>3, <2>5, ImageFinite
    <2>7. QED
      BY <2>1, <2>4, <2>6
  <1>3. IsFiniteSet(AllLines(E, period))
    BY <1>1, <1>2, FS_UNION DEF AllLines
  <1>4. ASSUME NEW l \in AllLines(E, period)
        PROVE  /\ LineAt(E, l).account \in Accounts
               /\ LineAt(E, l).debit \in Nat /\ LineAt(E, l).credit \in Nat
               /\ LineAt(E, l).debit = 0 \/ LineAt(E, l).credit = 0
    <2>1. PICK i \in InReport(E, period) : l \in LinesIn(E, i)
      BY DEF AllLines
    <2>2. PICK n \in DOMAIN E[i].lines : l = <<i, n>>
      BY <2>1 DEF LinesIn
    <2>3. LineAt(E, l) = E[i].lines[n] /\ Settled(E[i].lines)
      BY <2>2 DEF LineAt, Books, InReport
    <2>4. QED
      BY <2>3 DEF Settled
  <1>5. ASSUME NEW code
        PROVE  LinesOf(E, period, code) =
                 {l \in AllLines(E, period) : LineAt(E, l).account = code}
    BY DEF LinesOf, AllLines, LinesIn, InReport, LineAt
  <1>6. QED
    BY <1>3, <1>4, <1>5

\* What the lines of a period add to the debit side are integers.
LEMMA NetType ==
    ASSUME NEW E, Books(E), NEW period
    PROVE  IntegersOn(Net(E, period), AllLines(E, period))
  BY ReportLines DEF IntegersOn, Net

\* The sums of an entry's two sides, as sums over its own lines.
LEMMA EntryNets ==
    ASSUME NEW E, Books(E), NEW period, NEW i \in InReport(E, period)
    PROVE  /\ LinesIn(E, i) = {l \in AllLines(E, period) : l[1] = i}
           /\ SumFunctionOnSet(Net(E, period), LinesIn(E, i)) = 0
  <1>1. PICK D, ls : D = DOMAIN ls /\ ls = E[i].lines
    OBVIOUS
  <1>2. Settled(ls)
    BY <1>1 DEF Books, InReport
  <1>3. PICK d, c, f : /\ d = [n \in D |-> ls[n].debit]
                       /\ c = [n \in D |-> ls[n].credit]
                       /\ f = [n \in D |-> ls[n].debit - ls[n].credit]
    OBVIOUS
  <1>4. /\ IsFiniteSet(D) /\ IntegersOn(d, D) /\ IntegersOn(c, D)
        /\ \A n \in D : f[n] = d[n] - c[n] /\ f[n] \in Int
    BY <1>1, <1>2, <1>3 DEF Settled, IntegersOn
  <1>5. SumFunctionOnSet(d, D) - SumFunctionOnSet(c, D) = 0
    <2>1. TotalDebit(ls) = SumFunctionOnSet(d, D)
      BY <1>1, <1>3 DEF TotalDebit, SumFunction
    <2>2. TotalCredit(ls) = SumFunctionOnSet(c, D)
      BY <1>1, <1>3 DEF TotalCredit, SumFunction
    <2>3. QED
      BY <1>2, <2>1, <2>2 DEF Settled, Difference
  <1>6. SumFunctionOnSet(f, D) = 0
    BY <1>4, <1>5, SumOnMinus
  <1>7. PICK C, b, g : /\ C = LinesIn(E, i)
                       /\ b = [n \in D |-> <<i, n>>]
                       /\ g = Net(E, period)
    OBVIOUS
  <1>8. \A n \in D : <<i, n>> \in C /\ b[n] = <<i, n>> /\ g[b[n]] = f[n]
    <2> SUFFICES ASSUME NEW n \in D
                 PROVE  <<i, n>> \in C /\ b[n] = <<i, n>> /\ g[b[n]] = f[n]
      OBVIOUS
    <2>1. <<i, n>> \in C /\ b[n] = <<i, n>>
      BY <1>1, <1>3, <1>7 DEF LinesIn
    <2>2. <<i, n>> \in AllLines(E, period)
      BY <1>7, <2>1 DEF AllLines
    <2>3. g[<<i, n>>] = LineAt(E, <<i, n>>).debit - LineAt(E, <<i, n>>).credit
      BY <1>7, <2>2 DEF Net
    <2>4. QED
      BY <1>1, <1>3, <2>1, <2>3 DEF LineAt
  <1>9. /\ \A x \in D : b[x] \in C /\ f[x] = g[b[x]]
        /\ \A x, y \in D : b[x] = b[y] => x = y
        /\ \A l \in C : g[l] \in Int /\ \E x \in D : b[x] = l
    <2>1. \A l \in C : \E x \in D : b[x] = l
      BY <1>1, <1>7, <1>8 DEF LinesIn
    <2>2. ASSUME NEW x \in D, NEW y \in D, b[x] = b[y]
          PROVE  x = y
      <3>1. <<i, x>> = <<i, y>>
        BY <1>8, <2>2
      <3>2. QED
        BY <3>1
    <2>3. ASSUME NEW l \in C
          PROVE  g[l] \in Int
      <3>1. PICK x \in D : b[x] = l
        BY <2>1
      <3>2. f[x] \in Int
        BY <1>4
      <3>3. g[b[x]] = f[x]
        BY <1>8
      <3>4. QED
        BY <3>1, <3>2, <3>3
    <2>4. \A x \in D : b[x] \in C /\ f[x] = g[b[x]]
      BY <1>8
    <2>5. ASSUME NEW x \in D, NEW y \in D
          PROVE  b[x] = b[y] => x = y
      BY <2>2
    <2>6. QED
      BY <2>1, <2>3, <2>4, <2>5, Zenon
  <1>10. C = {l \in AllLines(E, period) : l[1] = i}
    BY <1>7 DEF LinesIn, AllLines
  <1>11. IsFiniteSet(C)
    BY <1>10, ReportLines, FS_Subset
  <1>12. SumFunctionOnSet(f, D) = SumFunctionOnSet(g, C)
    BY <1>4, <1>9, <1>11, SumOnImage
  <1>13. QED
    BY <1>6, <1>7, <1>10, <1>12

\* The lines of a period are balanced: every entry is.
LEMMA ReportBalances ==
    ASSUME NEW E, Books(E), NEW period
    PROVE  SumFunctionOnSet(Net(E, period), AllLines(E, period)) = 0
  <1>1. PICK S, I, g : /\ S = AllLines(E, period) /\ I = InReport(E, period)
                       /\ g = Net(E, period)
    OBVIOUS
  <1>2. PICK k, T : k = [l \in S |-> l[1]] /\ T = [i \in I |-> 0]
    OBVIOUS
  <1>3. IsFiniteSet(S) /\ IntegersOn(g, S) /\ IsFiniteSet(I)
    BY <1>1, ReportLines, NetType, FS_Subset DEF Books, InReport
  <1>4. \A l \in S : k[l] \in I
    BY <1>1, <1>2 DEF AllLines, LinesIn
  <1>5. \A i \in I : T[i] = SumFunctionOnSet(g, GroupOf(S, k, i))
    <2>1. ASSUME NEW i \in I
          PROVE  SumFunctionOnSet(g, GroupOf(S, k, i)) = 0
      <3>1. GroupOf(S, k, i) = LinesIn(E, i)
        BY <1>1, <1>2, EntryNets DEF GroupOf
      <3>2. QED
        BY <1>1, <3>1, EntryNets
    <2>2. QED
      BY <1>2, <2>1
  <1>6. SumFunctionOnSet(T, I) = SumFunctionOnSet(g, S)
    BY <1>3, <1>4, <1>5, SumByGroup
  <1>7. SumFunctionOnSet(T, I) = 0
    BY <1>2, <1>3, SumOnZero
  <1>8. QED
    BY <1>1, <1>6, <1>7
-------------------------------------------------------------------------------
(* Accounts.                                                                *)

\* The lines of an account, and their two sums, whose difference is the closing
\* balance of its ledger.
LEMMA AccountSums ==
    ASSUME NEW E, Books(E), NEW period, NEW S \in SUBSET AllLines(E, period)
    PROVE  /\ IsFiniteSet(S)
           /\ DebitOf(E, S) \in Int /\ CreditOf(E, S) \in Int
           /\ DebitOf(E, S) - CreditOf(E, S) = SumFunctionOnSet(Net(E, period), S)
           /\ SumFunctionOnSet(Net(E, period), S) \in Int
  <1>1. PICK d, c, g : /\ d = [l \in S |-> LineAt(E, l).debit]
                       /\ c = [l \in S |-> LineAt(E, l).credit]
                       /\ g = Net(E, period)
    OBVIOUS
  <1>2. IsFiniteSet(S)
    BY ReportLines, FS_Subset
  <1>3. IntegersOn(d, S) /\ IntegersOn(c, S) /\ IntegersOn(g, S)
    BY <1>1, ReportLines, NetType DEF IntegersOn
  <1>4. \A l \in S : g[l] = d[l] - c[l]
    BY <1>1 DEF Net
  <1>5. SumFunctionOnSet(g, S) = SumFunctionOnSet(d, S) - SumFunctionOnSet(c, S)
    BY <1>2, <1>3, <1>4, SumOnMinus
  <1>6. /\ DebitOf(E, S) = SumFunctionOnSet(d, S)
        /\ CreditOf(E, S) = SumFunctionOnSet(c, S)
    BY <1>1 DEF DebitOf, CreditOf, SumFunction
  <1>7. /\ SumFunctionOnSet(d, S) \in Int /\ SumFunctionOnSet(c, S) \in Int
        /\ SumFunctionOnSet(g, S) \in Int
    BY <1>2, <1>3, SumOnStep
  <1>8. QED
    BY <1>1, <1>2, <1>5, <1>6, <1>7

\* The closing balance of an account sums the same.
LEMMA ClosingIs ==
    ASSUME NEW E, Books(E), NEW period, NEW code
    PROVE  /\ LinesOf(E, period, code) \in SUBSET AllLines(E, period)
           /\ ClosingBalance(E, period, code) =
                SumFunctionOnSet(Net(E, period), LinesOf(E, period, code))
           /\ ClosingBalance(E, period, code) \in Int
  <1>1. PICK S : S = LinesOf(E, period, code)
    OBVIOUS
  <1>2. S \in SUBSET AllLines(E, period)
    BY <1>1, ReportLines
  <1>3. PICK f, g : /\ f = [l \in S |-> LineAt(E, l).debit - LineAt(E, l).credit]
                    /\ g = Net(E, period)
    OBVIOUS
  <1>4. ClosingBalance(E, period, code) = SumFunctionOnSet(f, S)
    BY <1>1, <1>3 DEF ClosingBalance, SumFunction
  <1>5. IsFiniteSet(S) /\ IntegersOn(g, S) /\ \A l \in S : f[l] = g[l]
    BY <1>2, <1>3, AccountSums, NetType DEF Net, IntegersOn
  <1>6. SumFunctionOnSet(f, S) = SumFunctionOnSet(g, S)
    BY <1>5, SumOnSame
  <1>7. SumFunctionOnSet(g, S) \in Int
    BY <1>5, SumOnStep
  <1>8. QED
    BY <1>1, <1>2, <1>3, <1>4, <1>6, <1>7

\* What a statement shows of an account is its closing balance, with the sign
\* of its type, and the budget report shows the same.
LEMMA AmountIs ==
    ASSUME NEW E, Books(E), NEW period, NEW code \in Accounts
    PROVE  /\ StatementAmounts(E, Chart, period)[code] =
                IF CreditNormal(Chart[code]) THEN -ClosingBalance(E, period, code)
                                             ELSE ClosingBalance(E, period, code)
           /\ StatementAmounts(E, Chart, period)[code] = BudgetActual(E, Chart, period, code)
  <1>1. PICK S, d, c, b : /\ S = LinesOf(E, period, code)
                          /\ d = DebitOf(E, S) /\ c = CreditOf(E, S)
                          /\ b = ClosingBalance(E, period, code)
    OBVIOUS
  <1>2. d \in Int /\ c \in Int /\ b \in Int /\ d - c = b
    BY <1>1, AccountSums, ClosingIs
  <1>3. code \in DOMAIN Chart
    BY ChartAssumption
  <1>4. BudgetActual(E, Chart, period, code) =
          IF CreditNormal(Chart[code]) THEN c - d ELSE d - c
    BY <1>1, <1>3 DEF BudgetActual, CreditNormal
  <1>5. CASE S # {}
    <2>1. /\ code \in DOMAIN TrialBalance(E, Chart, period)
          /\ TrialBalance(E, Chart, period)[code] = [debit |-> d, credit |-> c]
      BY <1>1, <1>3, <1>5 DEF TrialBalance
    <2>2. StatementAmounts(E, Chart, period)[code] =
            IF CreditNormal(Chart[code]) THEN c - d ELSE d - c
      BY <1>3, <2>1 DEF StatementAmounts
    <2>3. QED
      BY <1>1, <1>2, <1>4, <2>2
  <1>6. CASE S = {}
    <2>1. code \notin DOMAIN TrialBalance(E, Chart, period)
      BY <1>1, <1>6 DEF TrialBalance
    <2>2. StatementAmounts(E, Chart, period)[code] = 0
      BY <1>3, <2>1 DEF StatementAmounts
    <2>3. b = 0
      <3>1. b = SumFunctionOnSet(Net(E, period), {})
        BY <1>1, <1>6, ClosingIs
      <3>2. IsFiniteSet({}) /\ IntegersOn(Net(E, period), {})
        BY FS_EmptySet DEF IntegersOn
      <3>3. QED
        BY <3>1, <3>2, SumOnStep
    <2>4. c - d = 0 /\ d - c = 0 /\ -b = 0
      <3>1. d = c
        BY <1>2, <2>3
      <3>2. -b = 0 - b
        BY <1>2
      <3>3. 0 - b = 0
        BY <2>3
      <3>4. -b = 0
        BY <3>2, <3>3, Zenon
      <3>5. QED
        BY <1>2, <3>1, <3>4
    <2>5. BudgetActual(E, Chart, period, code) = 0
      BY <1>4, <2>4
    <2>6. (IF CreditNormal(Chart[code]) THEN -b ELSE b) = 0
      BY <2>3, <2>4
    <2>7. QED
      BY <1>1, <2>2, <2>5, <2>6
  <1>7. QED
    BY <1>5, <1>6
-------------------------------------------------------------------------------
(* The statements.                                                          *)

\* Over all accounts the closing balances sum to nothing.
LEMMA AccountsBalance ==
    ASSUME NEW E, Books(E), NEW period, NEW bal,
           bal = [c \in Accounts |-> ClosingBalance(E, period, c)]
    PROVE  IntegersOn(bal, Accounts) /\ SumFunctionOnSet(bal, Accounts) = 0
  <1>1. PICK S, f, k : /\ S = AllLines(E, period) /\ f = Net(E, period)
                       /\ k = [l \in S |-> LineAt(E, l).account]
    OBVIOUS
  <1>2. /\ IsFiniteSet(S) /\ IntegersOn(f, S) /\ IsFiniteSet(Accounts)
        /\ \A l \in S : k[l] \in Accounts
    BY <1>1, ReportLines, NetType, ChartAssumption
  <1>3. ASSUME NEW c \in Accounts
        PROVE  bal[c] = SumFunctionOnSet(f, GroupOf(S, k, c))
    <2>1. GroupOf(S, k, c) = LinesOf(E, period, c)
      BY <1>1, ReportLines DEF GroupOf
    <2>2. QED
      BY <1>1, <2>1, ClosingIs
  <1>4. SumFunctionOnSet(bal, Accounts) = SumFunctionOnSet(f, S)
    BY <1>2, <1>3, SumByGroup
  <1>5. IntegersOn(bal, Accounts)
    BY ClosingIs DEF IntegersOn
  <1>6. QED
    BY <1>1, <1>4, <1>5, ReportBalances

\* The types of accounts are finitely many; a sum over them.
LEMMA FiveTypes ==
    ASSUME NEW T, IntegersOn(T, AccountTypes)
    PROVE  /\ IsFiniteSet(AccountTypes)
           /\ SumFunctionOnSet(T, AccountTypes) =
                T["Asset"] + (T["Liability"] + (T["Equity"] + (T["Income"] + T["Expense"])))
  <1> DEFINE S1 == {"Expense"}
             S2 == {"Expense", "Income"}
             S3 == {"Expense", "Income", "Equity"}
             S4 == {"Expense", "Income", "Equity", "Liability"}
             Sum(s) == SumFunctionOnSet(T, s)
  <1>1. /\ AccountTypes \ {"Asset"} = S4
        /\ S4 \ {"Liability"} = S3
        /\ S3 \ {"Equity"} = S2
        /\ S2 \ {"Income"} = S1
    BY DEF AccountTypes
  <1>2. /\ IsFiniteSet(S1) /\ IsFiniteSet(S2) /\ IsFiniteSet(S3) /\ IsFiniteSet(S4)
        /\ IsFiniteSet(AccountTypes)
    <2>1. IsFiniteSet(S1)
      BY FS_Singleton
    <2>2. IsFiniteSet(S2)
      <3>1. S2 = S1 \cup {"Income"}
        OBVIOUS
      <3>2. QED
        BY <2>1, <3>1, FS_AddElement
    <2>3. IsFiniteSet(S3)
      <3>1. S3 = S2 \cup {"Equity"}
        OBVIOUS
      <3>2. QED
        BY <2>2, <3>1, FS_AddElement
    <2>4. IsFiniteSet(S4)
      <3>1. S4 = S3 \cup {"Liability"}
        OBVIOUS
      <3>2. QED
        BY <2>3, <3>1, FS_AddElement
    <2>5. IsFiniteSet(AccountTypes)
      <3>1. AccountTypes = S4 \cup {"Asset"}
        BY DEF AccountTypes
      <3>2. QED
        BY <2>4, <3>1, FS_AddElement
    <2>6. QED
      BY <2>1, <2>2, <2>3, <2>4, <2>5
  <1>3. /\ IntegersOn(T, S1) /\ IntegersOn(T, S2) /\ IntegersOn(T, S3) /\ IntegersOn(T, S4)
        /\ T["Expense"] \in Int
    BY DEF IntegersOn, AccountTypes
  <1>4. /\ "Asset" \in AccountTypes /\ "Liability" \in S4 /\ "Equity" \in S3
        /\ "Income" \in S2
    BY DEF AccountTypes
  <1>5. Sum(S1) = T["Expense"]
    BY <1>3, SumOnOne
  <1> HIDE DEF S1, S2, S3, S4
  <1>6. Sum(S2) = T["Income"] + Sum(S1)
    BY <1>1, <1>2, <1>3, <1>4, SumOnStep
  <1>7. Sum(S3) = T["Equity"] + Sum(S2)
    BY <1>1, <1>2, <1>3, <1>4, SumOnStep
  <1>8. Sum(S4) = T["Liability"] + Sum(S3)
    BY <1>1, <1>2, <1>3, <1>4, SumOnStep
  <1>9. Sum(AccountTypes) = T["Asset"] + Sum(S4)
    BY <1>1, <1>2, <1>4, SumOnStep
  <1>10. QED
    BY <1>2, <1>5, <1>6, <1>7, <1>8, <1>9

\* A section of the statement shows the closing balances of its accounts, with
\* the sign of its type.
LEMMA SectionIs ==
    ASSUME NEW E, Books(E), NEW period, NEW bal,
           bal = [c \in Accounts |-> ClosingBalance(E, period, c)],
           NEW type \in AccountTypes,
           NEW S, S = {c \in Accounts : Chart[c] = type}
    PROVE  /\ SumFunctionOnSet(bal, S) \in Int
           /\ SumFunctionOnSet(StatementAmounts(E, Chart, period), S) =
                IF CreditNormal(type) THEN -SumFunctionOnSet(bal, S)
                                      ELSE SumFunctionOnSet(bal, S)
  <1>1. PICK a : a = StatementAmounts(E, Chart, period)
    OBVIOUS
  <1>2. IsFiniteSet(S) /\ IntegersOn(bal, S)
    BY AccountsBalance, ChartAssumption, FS_Subset DEF IntegersOn
  <1>3. CASE CreditNormal(type)
    <2>1. \A c \in S : a[c] = -bal[c]
      BY <1>1, <1>3, AmountIs
    <2>2. SumFunctionOnSet(a, S) = -SumFunctionOnSet(bal, S)
      BY <1>2, <2>1, SumOnOpposite
    <2>3. QED
      BY <1>1, <1>2, <1>3, <2>2, SumOnStep
  <1>4. CASE ~CreditNormal(type)
    <2>1. \A c \in S : a[c] = bal[c]
      BY <1>1, <1>4, AmountIs
    <2>2. SumFunctionOnSet(a, S) = SumFunctionOnSet(bal, S)
      BY <1>2, <2>1, SumOnSame
    <2>3. QED
      BY <1>1, <1>2, <1>4, <2>2, SumOnStep
  <1>5. QED
    BY <1>3, <1>4

\* The balance sheet meets the income statement.
LEMMA StatementsMeetIn ==
    ASSUME NEW E, Books(E), NEW period
    PROVE  StatementsMeet(E, Chart, period)
  <1>1. PICK bal : bal = [c \in Accounts |-> ClosingBalance(E, period, c)]
    OBVIOUS
  <1>2. PICK T : T = [t \in AccountTypes |->
                        SumFunctionOnSet(bal, {c \in Accounts : Chart[c] = t})]
    OBVIOUS
  <1>3. IntegersOn(T, AccountTypes)
    BY <1>1, <1>2, SectionIs DEF IntegersOn
  <1>4. SumFunctionOnSet(T, AccountTypes) = 0
    <2>1. /\ IsFiniteSet(Accounts) /\ IntegersOn(bal, Accounts)
          /\ SumFunctionOnSet(bal, Accounts) = 0
      BY <1>1, AccountsBalance, ChartAssumption
    <2>2. \A c \in Accounts : Chart[c] \in AccountTypes
      BY ChartAssumption
    <2>3. IsFiniteSet(AccountTypes)
      BY <1>3, FiveTypes
    <2>4. ASSUME NEW t \in AccountTypes
          PROVE  T[t] = SumFunctionOnSet(bal, GroupOf(Accounts, Chart, t))
      BY <1>2 DEF GroupOf
    <2>5. SumFunctionOnSet(T, AccountTypes) = SumFunctionOnSet(bal, Accounts)
      BY <2>1, <2>2, <2>3, <2>4, SumByGroup
    <2>6. QED
      BY <2>1, <2>5
  <1> DEFINE Total(t) == SumFunctionOnSet(StatementAmounts(E, Chart, period),
                                          {c \in DOMAIN Chart : Chart[c] = t})
  <1>5. \A t \in AccountTypes : Total(t) = IF CreditNormal(t) THEN -T[t] ELSE T[t]
    BY <1>1, <1>2, SectionIs, ChartAssumption
  <1> HIDE DEF Total
  <1>6. /\ Total("Asset") = T["Asset"] /\ Total("Expense") = T["Expense"]
        /\ Total("Liability") = -T["Liability"] /\ Total("Equity") = -T["Equity"]
        /\ Total("Income") = -T["Income"]
    BY <1>5 DEF AccountTypes, CreditNormal
  <1>7. /\ T["Asset"] \in Int /\ T["Expense"] \in Int /\ T["Liability"] \in Int
        /\ T["Equity"] \in Int /\ T["Income"] \in Int
    BY <1>3 DEF IntegersOn, AccountTypes
  <1>8. T["Asset"] + (T["Liability"] + (T["Equity"] + (T["Income"] + T["Expense"]))) = 0
    BY <1>3, <1>4, FiveTypes
  <1>9. Total("Asset") - Total("Liability") =
          Total("Equity") + (Total("Income") - Total("Expense"))
    <2>1. PICK a, l, q, n, x : /\ a = T["Asset"] /\ l = T["Liability"] /\ q = T["Equity"]
                               /\ n = T["Income"] /\ x = T["Expense"]
      OBVIOUS
    <2>2. a \in Int /\ l \in Int /\ q \in Int /\ n \in Int /\ x \in Int
      BY <1>7, <2>1
    <2>3. a + (l + (q + (n + x))) = 0
      BY <1>8, <2>1, Zenon
    <2>4. a - (-l) = (-q) + ((-n) - x)
      BY <2>2, <2>3
    <2>5. QED
      BY <1>6, <2>1, <2>4, Zenon
  <1>10. FinancialStatement(E, Chart, period) =
           [netResult |-> Total("Income") - Total("Expense"),
            netAssets |-> Total("Asset") - Total("Liability"),
            equityTotal |-> Total("Equity")]
    BY Zenon DEF FinancialStatement, Total
  <1>11. QED
    BY <1>9, <1>10 DEF StatementsMeet
-------------------------------------------------------------------------------
(* The drill-downs and the cash flow.                                       *)

\* The transactions behind an account, each with the sign of its side, add up
\* to the account's figure.
DetailOf(E, l) ==
    [line |-> l,
     amount |-> IF LineAt(E, l).debit # 0 THEN LineAt(E, l).debit ELSE LineAt(E, l).credit,
     side |-> IF LineAt(E, l).debit > 0 THEN "debit" ELSE "credit"]
DetailSigned(E, period, code, sign) ==
    [d \in AccountDetail(E, period, code) |->
        IF d.side = "debit" THEN sign * d.amount ELSE -sign * d.amount]
LEMMA DetailIs ==
    ASSUME NEW E, Books(E), NEW period, NEW code, NEW sign \in {1, -1}
    PROVE  SumFunction(DetailSigned(E, period, code, sign)) =
             sign * ClosingBalance(E, period, code)
  <1>1. PICK L, D, net, g : /\ L = LinesOf(E, period, code)
                            /\ D = AccountDetail(E, period, code)
                            /\ net = Net(E, period)
                            /\ g = DetailSigned(E, period, code, sign)
    OBVIOUS
  <1>2. PICK b, f : /\ b = [l \in L |-> DetailOf(E, l)]
                    /\ f = [l \in L |-> sign * net[l]]
    OBVIOUS
  <1>3. /\ L \in SUBSET AllLines(E, period) /\ IsFiniteSet(L) /\ IntegersOn(net, L)
        /\ ClosingBalance(E, period, code) = SumFunctionOnSet(net, L)
        /\ SumFunctionOnSet(net, L) \in Int
    BY <1>1, ClosingIs, AccountSums, NetType DEF IntegersOn
  <1>4. D = {b[l] : l \in L}
    <2>1. D = {DetailOf(E, l) : l \in L}
      BY <1>1, Zenon DEF AccountDetail, DetailOf
    <2>2. QED
      BY <1>2, <2>1
  <1>5. IsFiniteSet(D)
    BY <1>3, <1>4, ImageFinite
  <1>6. ASSUME NEW l \in L
        PROVE  b[l] \in D /\ f[l] = g[b[l]] /\ g[b[l]] \in Int /\ b[l].line = l
    <2>1. PICK d, c : d = LineAt(E, l).debit /\ c = LineAt(E, l).credit
      OBVIOUS
    <2>2. d \in Nat /\ c \in Nat /\ (d = 0 \/ c = 0) /\ net[l] = d - c
      BY <1>1, <1>3, <2>1, ReportLines DEF Net
    <2>3. b[l] = [line |-> l, amount |-> IF d # 0 THEN d ELSE c,
                  side |-> IF d > 0 THEN "debit" ELSE "credit"]
      BY <1>2, <2>1 DEF DetailOf
    <2>4. b[l] \in D
      BY <1>4
    <2>5. /\ d > 0 => b[l].side = "debit" /\ b[l].amount = d
          /\ ~(d > 0) => b[l].side = "credit" /\ b[l].amount = c
      BY <2>2, <2>3
    <2>6. PICK e : e = b[l]
      OBVIOUS
    <2>7. g[e] = IF e.side = "debit" THEN sign * e.amount ELSE -sign * e.amount
      BY <1>1, <2>4, <2>6 DEF DetailSigned
    <2>8. f[l] = sign * (d - c)
      BY <1>2, <2>2
    <2>9. CASE d > 0
      <3>1. c = 0 /\ g[e] = sign * d
        BY <2>2, <2>5, <2>6, <2>7, <2>9
      <3>2. sign * (d - c) = sign * d
        BY <2>2, <3>1
      <3>3. sign * d \in Int
        BY <2>2
      <3>4. QED
        BY <2>3, <2>4, <2>6, <2>8, <3>1, <3>2, <3>3
    <2>10. CASE ~(d > 0)
      <3>1. d = 0 /\ g[e] = -sign * c
        BY <2>2, <2>5, <2>6, <2>7, <2>10
      <3>2. sign * (d - c) = -sign * c /\ -sign * c \in Int
        <4>1. CASE sign = 1
          BY <2>2, <3>1, <4>1
        <4>2. CASE sign = -1
          BY <2>2, <3>1, <4>2
        <4>3. QED
          BY <4>1, <4>2
      <3>3. QED
        BY <2>3, <2>4, <2>6, <2>8, <3>1, <3>2
    <2>11. QED
      BY <2>9, <2>10
  <1>7. SumFunctionOnSet(f, L) = SumFunctionOnSet(g, D)
    <2>1. \A x \in L : b[x] \in D /\ f[x] = g[b[x]]
      BY <1>6, Zenon
    <2>2. \A x, y \in L : b[x] = b[y] => x = y
      <3>1. \A x \in L : b[x].line = x
        BY <1>6, Zenon
      <3>2. QED
        BY <3>1, Zenon
    <2>3. ASSUME NEW d \in D
          PROVE  g[d] \in Int /\ \E x \in L : b[x] = d
      <3>1. PICK x \in L : b[x] = d
        BY <1>4
      <3>2. g[b[x]] \in Int
        BY <1>6, Zenon
      <3>3. QED
        BY <3>1, <3>2
    <2>4. /\ \A x \in L : b[x] \in D /\ f[x] = g[b[x]]
          /\ \A x, y \in L : b[x] = b[y] => x = y
          /\ \A d \in D : g[d] \in Int /\ \E x \in L : b[x] = d
      BY <2>1, <2>2, <2>3, Zenon
    <2>5. IsFiniteSet(L)
      BY <1>3
    <2>6. QED
      BY <1>5, <2>4, <2>5, SumOnImage
  <1>8. SumFunctionOnSet(f, L) = sign * SumFunctionOnSet(net, L)
    <2>1. CASE sign = 1
      <3>1. \A l \in L : f[l] = net[l]
        BY <1>2, <1>3, <2>1 DEF IntegersOn
      <3>2. SumFunctionOnSet(f, L) = SumFunctionOnSet(net, L)
        BY <1>3, <3>1, SumOnSame
      <3>3. QED
        BY <1>3, <2>1, <3>2
    <2>2. CASE sign = -1
      <3>1. \A l \in L : f[l] = -net[l]
        BY <1>2, <1>3, <2>2 DEF IntegersOn
      <3>2. SumFunctionOnSet(f, L) = -SumFunctionOnSet(net, L)
        BY <1>3, <3>1, SumOnOpposite
      <3>3. QED
        BY <1>3, <2>2, <3>2
    <2>3. QED
      BY <2>1, <2>2
  <1>9. SumFunction(g) = SumFunctionOnSet(g, D)
    BY <1>1 DEF SumFunction, DetailSigned
  <1>10. QED
    BY <1>1, <1>3, <1>7, <1>8, <1>9

\* Every drill-down, and the budget report, shows the figure of the statement.
LEMMA DrillDownsIn ==
    ASSUME NEW E, Books(E), NEW period
    PROVE  DrillDownsAddUp(E, Chart, period)
  <1>1. ASSUME NEW code \in DOMAIN Chart, NEW sign,
               sign = IF CreditNormal(Chart[code]) THEN -1 ELSE 1
        PROVE  /\ StatementAmounts(E, Chart, period)[code] =
                    BudgetActual(E, Chart, period, code)
               /\ StatementAmounts(E, Chart, period)[code] =
                    sign * ClosingBalance(E, period, code)
               /\ StatementAmounts(E, Chart, period)[code] =
                    SumFunction([d \in AccountDetail(E, period, code) |->
                                   IF d.side = "debit" THEN sign * d.amount
                                                       ELSE -sign * d.amount])
    <2>1. code \in Accounts
      BY ChartAssumption
    <2>2. PICK b : b = ClosingBalance(E, period, code)
      OBVIOUS
    <2>3. b \in Int
      BY <2>2, ClosingIs
    <2>4. sign * b = IF CreditNormal(Chart[code]) THEN -b ELSE b
      BY <1>1, <2>3
    <2>5. StatementAmounts(E, Chart, period)[code] = sign * b
      BY <2>1, <2>2, <2>4, AmountIs
    <2>6. StatementAmounts(E, Chart, period)[code] = BudgetActual(E, Chart, period, code)
      BY <2>1, AmountIs
    <2>7. sign \in {1, -1}
      BY <1>1
    <2>8. SumFunction([d \in AccountDetail(E, period, code) |->
                         IF d.side = "debit" THEN sign * d.amount
                                             ELSE -sign * d.amount]) = sign * b
      <3>1. SumFunction(DetailSigned(E, period, code, sign)) = sign * b
        BY <2>2, <2>7, DetailIs
      <3>2. QED
        BY <3>1, Zenon DEF DetailSigned
    <2>9. QED
      BY <2>2, <2>5, <2>6, <2>8
  <1>2. QED
    BY <1>1, Zenon DEF DrillDownsAddUp
\* The module each line of the cash account comes from, and what a row of the
\* cash flow statement adds: its own lines.
SourceOf(E, S) == [l \in S |-> E[l[1]].source]
FlowsOf(E, S) ==
    [source \in {E[l[1]].source : l \in S} |->
        DebitOf(E, GroupOf(S, SourceOf(E, S), source))
          - CreditOf(E, GroupOf(S, SourceOf(E, S), source))]
LEMMA CashFlowRows ==
    ASSUME NEW E, NEW period, NEW cash, NEW S, S = LinesOf(E, period, cash)
    PROVE  NetCashFlow(E, period, cash) = SumFunction(FlowsOf(E, S))
  <1>1. PICK C : C = {E[l[1]].source : l \in S}
    OBVIOUS
  <1>2. PICK own : own = [source \in C |-> {l \in S : E[l[1]].source = source}]
    OBVIOUS
  <1>3. \A source \in C : own[source] = GroupOf(S, SourceOf(E, S), source)
    BY <1>2 DEF GroupOf, SourceOf
  <1>4. PICK rows : rows = CashCategories(E, period, cash)
    OBVIOUS
  <1>5. rows = [source \in C |-> [inflow |-> DebitOf(E, own[source]),
                                  outflow |-> CreditOf(E, own[source])]]
    BY <1>1, <1>2, <1>4 DEF CashCategories
  <1>6. NetCashFlow(E, period, cash) =
          SumFunction([source \in DOMAIN rows |-> rows[source].inflow - rows[source].outflow])
    BY <1>4, Zenon DEF NetCashFlow
  <1>7. [source \in DOMAIN rows |-> rows[source].inflow - rows[source].outflow] =
          [source \in C |-> DebitOf(E, own[source]) - CreditOf(E, own[source])]
    BY <1>5
  <1>8. [source \in C |-> DebitOf(E, own[source]) - CreditOf(E, own[source])] = FlowsOf(E, S)
    BY <1>1, <1>3 DEF FlowsOf
  <1>9. QED
    BY <1>6, <1>7, <1>8

\* The cash flow explains the movement of the cash account.
LEMMA CashFlowIn ==
    ASSUME NEW E, Books(E), NEW period
    PROVE  CashFlowExplains(E, Chart, period, Cash)
  <1>1. PICK S, C, k, f, T : /\ S = LinesOf(E, period, Cash)
                             /\ C = {E[l[1]].source : l \in S}
                             /\ k = SourceOf(E, S)
                             /\ f = Net(E, period)
                             /\ T = FlowsOf(E, S)
    OBVIOUS
  <1>2. S \in SUBSET AllLines(E, period) /\ IsFiniteSet(S) /\ IntegersOn(f, S)
    BY <1>1, ClosingIs, AccountSums, NetType DEF IntegersOn
  <1>3. C = {k[l] : l \in S} /\ \A l \in S : k[l] \in C
    BY <1>1 DEF SourceOf
  <1>4. IsFiniteSet(C)
    BY <1>2, <1>3, ImageFinite
  <1>5. ASSUME NEW c \in C
        PROVE  T[c] = SumFunctionOnSet(f, GroupOf(S, k, c))
    <2>1. PICK O : O = GroupOf(S, k, c)
      OBVIOUS
    <2>2. O \in SUBSET AllLines(E, period)
      BY <1>2, <2>1 DEF GroupOf
    <2>3. T[c] = DebitOf(E, O) - CreditOf(E, O)
      BY <1>1, <2>1 DEF FlowsOf
    <2>4. QED
      BY <1>1, <2>1, <2>2, <2>3, AccountSums
  <1>6. SumFunctionOnSet(T, C) = SumFunctionOnSet(f, S)
    BY <1>2, <1>3, <1>4, <1>5, SumByGroup
  <1>7. SumFunction(T) = SumFunctionOnSet(T, C)
    BY <1>1 DEF SumFunction, FlowsOf
  <1>8. NetCashFlow(E, period, Cash) = ClosingBalance(E, period, Cash)
    BY <1>1, <1>6, <1>7, CashFlowRows, ClosingIs
  <1>9. StatementAmounts(E, Chart, period)[Cash] = ClosingBalance(E, period, Cash)
    <2>1. Cash \in Accounts /\ ~CreditNormal(Chart[Cash])
      BY ChartAssumption DEF CreditNormal
    <2>2. QED
      BY <2>1, AmountIs
  <1>10. QED
    BY <1>8, <1>9 DEF CashFlowExplains
-------------------------------------------------------------------------------
(* The journal.                                                             *)

\* Amounts of whole cents, each line on one side.  An event and the upload of
\* historical entries post one amount on two sides, in whole cents when it has no
\* more than two decimals.  The API accepts more: uneven cents are rounded after
\* the check, and of a line with both amounts the drill-down shows one.
Cents == {10 * n : n \in Nat}
Tidy(lines) ==
    \A n \in DOMAIN lines :
        /\ lines[n].debit \in Cents /\ lines[n].credit \in Cents
        /\ lines[n].debit = 0 \/ lines[n].credit = 0
TidyInputs == \A lines \in Inputs : Tidy(lines)

\* What is in the books or on its way there.
EntriesTidy ==
    \A i \in DOMAIN entries :
        /\ Tidy(entries[i].lines)
        /\ KnownAccounts(entries[i].lines)
        /\ Difference(entries[i].lines) = 0
CallTidy(c) ==
    /\ c.step \in {"period", "insert"} => Tidy(c.entry.lines)
    /\ c.step = "insert" => Difference(c.entry.lines) = 0
CallsTidy == \A h \in Handlers : CallTidy(handler[h])
LinesInv == EntriesTidy /\ CallsTidy

\* The lines of a list are lines.
LEMMA LineType ==
    ASSUME NEW lines \in Lines, NEW n \in DOMAIN lines
    PROVE  lines[n] \in [account: STRING, debit: Nat, credit: Nat]
  <1> DEFINE L == [account: STRING, debit: Nat, credit: Nat]
  <1>1. lines \in Seq(L)
    BY DEF Lines
  <1> HIDE DEF L
  <1>2. lines[n] \in L
    BY <1>1
  <1>3. QED
    BY <1>2 DEF L

\* Whole cents are stored as they are.
LEMMA TidyStored ==
    ASSUME NEW lines \in Lines, Tidy(lines)
    PROVE  Stored(lines) = lines
  <1>1. ASSUME NEW x \in Cents
        PROVE  ToFixed2(x) = x
    <2>1. PICK n \in Nat : x = 10 * n
      BY DEF Cents
    <2>2. (10 * n + 5) \div 10 = n
      OBVIOUS
    <2>3. QED
      BY <2>1, <2>2 DEF ToFixed2
  <1>2. PICK D : D = DOMAIN lines
    OBVIOUS
  <1>3. lines = [n \in D |-> lines[n]]
    BY <1>2 DEF Lines
  <1>4. ASSUME NEW n \in D
        PROVE  [account |-> lines[n].account, debit |-> ToFixed2(lines[n].debit),
                credit |-> ToFixed2(lines[n].credit)] = lines[n]
    <2>1. lines[n] \in [account: STRING, debit: Nat, credit: Nat]
      BY <1>2, LineType
    <2>2. ToFixed2(lines[n].debit) = lines[n].debit /\ ToFixed2(lines[n].credit) = lines[n].credit
      BY <1>1, <1>2 DEF Tidy
    <2>3. QED
      BY <2>1, <2>2
  <1>5. DOMAIN Stored(lines) = D /\ Stored(lines) = [n \in D |-> Stored(lines)[n]]
    BY <1>2 DEF Stored
  <1>6. ASSUME NEW n \in D
        PROVE  Stored(lines)[n] = lines[n]
    <2>1. n \in DOMAIN lines
      BY <1>2
    <2>2. Stored(lines)[n] = [account |-> lines[n].account,
                              debit |-> ToFixed2(lines[n].debit),
                              credit |-> ToFixed2(lines[n].credit)]
      BY <2>1, Zenon DEF Stored
    <2>3. QED
      BY <1>4, <2>2
  <1>7. QED
    BY <1>3, <1>5, <1>6
\* Debits and credits exchanged, as reverse posts them, are such lines again.
LEMMA TidySwapped ==
    ASSUME NEW lines \in Lines, Tidy(lines)
    PROVE  Tidy(Swapped(lines))
  <1>1. DOMAIN Swapped(lines) = DOMAIN lines
    BY DEF Swapped
  <1>2. ASSUME NEW n \in DOMAIN lines
        PROVE  /\ Swapped(lines)[n].debit = lines[n].credit
               /\ Swapped(lines)[n].credit = lines[n].debit
    BY <1>2 DEF Swapped
  <1>3. QED
    BY <1>1, <1>2 DEF Tidy

\* Lines are finitely many, and their amounts integers.
LEMMA LineAmounts ==
    ASSUME NEW lines \in Lines
    PROVE  /\ IsFiniteSet(DOMAIN lines)
           /\ \A n \in DOMAIN lines : lines[n].debit \in Nat /\ lines[n].credit \in Nat
  <1>1. DOMAIN lines = 1 .. Len(lines) /\ Len(lines) \in Nat
    BY DEF Lines
  <1>2. IsFiniteSet(1 .. Len(lines))
    BY <1>1, FS_Interval
  <1>3. ASSUME NEW n \in DOMAIN lines
        PROVE  lines[n].debit \in Nat /\ lines[n].credit \in Nat
    <2>1. lines[n] \in [account: STRING, debit: Nat, credit: Nat]
      BY LineType
    <2>2. QED
      BY <2>1
  <1>4. QED
    BY <1>1, <1>2, <1>3

\* A side in whole cents sums to whole cents.
LEMMA TotalIsTens ==
    ASSUME NEW S, IsFiniteSet(S), NEW f, \A n \in S : f[n] \in Cents
    PROVE  \E t \in Int : SumFunctionOnSet(f, S) = 10 * t
  <1> DEFINE Part(n) == CHOOSE m \in Nat : f[n] = 10 * m
  <1>1. PICK g : g = [n \in S |-> Part(n)]
    OBVIOUS
  <1>2. ASSUME NEW n \in S
        PROVE  g[n] \in Nat /\ f[n] = 10 * g[n]
    <2>1. \E m \in Nat : f[n] = 10 * m
      BY DEF Cents
    <2>2. Part(n) \in Nat /\ f[n] = 10 * Part(n)
      BY <2>1
    <2> HIDE DEF Part
    <2>3. g[n] = Part(n)
      BY <1>1
    <2>4. QED
      BY <2>2, <2>3
  <1> HIDE DEF Part
  <1>3. IntegersOn(g, S)
    BY <1>2 DEF IntegersOn
  <1>4. SumFunctionOnSet(f, S) = 10 * SumFunctionOnSet(g, S)
    BY <1>2, <1>3, SumOnTens
  <1>5. SumFunctionOnSet(g, S) \in Int
    BY <1>3, SumOnStep
  <1>6. QED
    BY <1>4, <1>5

\* The tolerance of the balance check lets no whole cent through.
LEMMA TidyBalances ==
    ASSUME NEW lines \in Lines, Tidy(lines), Balances(lines)
    PROVE  Difference(lines) = 0
  <1>1. PICK D, d, c : /\ D = DOMAIN lines
                       /\ d = [n \in D |-> lines[n].debit]
                       /\ c = [n \in D |-> lines[n].credit]
    OBVIOUS
  <1>2. IsFiniteSet(D) /\ \A n \in D : d[n] \in Cents /\ c[n] \in Cents
    BY <1>1, LineAmounts DEF Tidy
  <1>3. PICK s \in Int : SumFunctionOnSet(d, D) = 10 * s
    BY <1>2, TotalIsTens
  <1>4. PICK t \in Int : SumFunctionOnSet(c, D) = 10 * t
    BY <1>2, TotalIsTens
  <1>5. Difference(lines) = 10 * s - 10 * t
    BY <1>1, <1>3, <1>4 DEF Difference, TotalDebit, TotalCredit, SumFunction
  <1>6. PICK x : x = 10 * s - 10 * t
    OBVIOUS
  <1>7. x \in -1..1
    BY <1>5, <1>6 DEF Balances
  <1>8. x = 0
    BY <1>6, <1>7
  <1>9. QED
    BY <1>5, <1>6, <1>8

\* A journal of such entries can be reported.
LEMMA TidyBooks ==
    ASSUME entries \in Seq(Entry), EntriesTidy
    PROVE  Books(entries)
  <1>1. IsFiniteSet(DOMAIN entries)
    <2>1. DOMAIN entries = 1 .. Len(entries) /\ Len(entries) \in Nat
      OBVIOUS
    <2>2. QED
      BY <2>1, FS_Interval
  <1>2. ASSUME NEW i \in DOMAIN entries
        PROVE  Settled(entries[i].lines)
    <2>1. PICK lines : lines = entries[i].lines
      OBVIOUS
    <2>2. lines \in Lines
      <3>1. entries[i] \in Entry
        OBVIOUS
      <3>2. QED
        BY <2>1, <3>1 DEF Entry
    <2>3. Tidy(lines) /\ KnownAccounts(lines) /\ Difference(lines) = 0
      BY <2>1 DEF EntriesTidy
    <2>4. QED
      BY <2>1, <2>2, <2>3, LineAmounts DEF Settled, Tidy, KnownAccounts
  <1>3. QED
    BY <1>1, <1>2 DEF Books
\* A call that begins, goes on or ends holds such lines: post checks that they
\* balance before it inserts them.
LEMMA CallsTidyStep ==
    ASSUME JournalInv, LinesInv, TidyInputs, [Next]_vars
    PROVE  CallsTidy'
  <1>1. /\ handler \in [Handlers -> HandlerState]
        /\ \A h \in Handlers : CallOK(handler[h]) /\ CallTidy(handler[h])
    BY DEF JournalInv, TypeOK, CallsOK, LinesInv, CallsTidy
  <1>2. ASSUME NEW h \in Handlers, NEW c, handler'[h] = c, CallTidy(c),
               \A g \in Handlers \ {h} : handler'[g] = handler[g]
        PROVE  CallsTidy'
    <2>1. \A g \in Handlers : CallTidy(handler'[g])
      BY <1>1, <1>2
    <2>2. QED
      BY <2>1 DEF CallsTidy, CallTidy
  <1>3. ASSUME NEW c, c.step \notin {"period", "insert"}
        PROVE  CallTidy(c)
    BY <1>3 DEF CallTidy
  <1>4. ASSUME NEW h \in Handlers, Done(h)
        PROVE  CallsTidy'
    <2>1. CallTidy(Idle)
      BY <1>3 DEF Idle
    <2>2. QED
      BY <1>1, <1>2, <1>4, <2>1, OneCall
  <1>5. ASSUME NEW h \in Handlers, NEW step \in Steps \ {"period", "insert"}, Goto(h, step)
        PROVE  CallsTidy'
    <2>1. PICK c : c = handler'[h]
      OBVIOUS
    <2>2. c.step = step /\ \A g \in Handlers \ {h} : handler'[g] = handler[g]
      BY <1>1, <1>5, <2>1, OneCall
    <2>3. QED
      BY <1>2, <1>3, <2>1, <2>2
  <1>6. ASSUME NEW h \in Handlers, NEW lines, Tidy(lines), NEW e, e.lines = lines,
               NEW c \in HandlerState, c.step = "period", c.entry = e, Begin(h, c)
        PROVE  CallsTidy'
    <2>1. CallTidy(c)
      BY <1>6 DEF CallTidy
    <2>2. QED
      BY <1>1, <1>2, <1>6, <2>1, OneCall
  <1>7. ASSUME NEW h \in Handlers, NEW lines \in Inputs, NEW u \in Users, NEW m \in Months,
               NEW source \in {"manual", "historical"}, CallPost(h, u, m, lines, source)
        PROVE  CallsTidy'
    <2>1. PICK e : e = NewEntry(m, lines, source, 0, u)
      OBVIOUS
    <2>2. e \in Entry /\ e.lines = lines /\ Tidy(lines)
      <3>1. lines \in Lines /\ u \in Users \cup {NULL} /\ source \in Sources
        BY <1>7, JournalAssumption DEF JournalAssumption, Sources
      <3>2. e \in Entry
        BY <2>1, <3>1, NewEntryType, 0 \in Nat
      <3>3. e.lines = lines
        BY <2>1 DEF NewEntry
      <3>4. QED
        BY <1>7, <3>2, <3>3 DEF TidyInputs
    <2>3. PICK c : c = [Idle EXCEPT !.step = "period", !.user = u, !.entry = e]
      OBVIOUS
    <2>4. c \in HandlerState /\ c.step = "period" /\ c.entry = e
      BY <2>2, <2>3 DEF Idle, HandlerState, Steps
    <2>5. Begin(h, c)
      BY <1>7, <2>1, <2>3 DEF CallPost
    <2>6. QED
      BY <1>6, <2>2, <2>4, <2>5
  <1>8. ASSUME NEW h \in Handlers, NEW lines \in Inputs, CallPostEvent(h, lines)
        PROVE  CallsTidy'
    <2>1. PICK e : e = NewEntry(Today, lines, "event", 0, NULL)
      OBVIOUS
    <2>2. e \in Entry /\ e.lines = lines /\ Tidy(lines)
      BY <2>1, NewEntryType, JournalAssumption
      DEF JournalAssumption, Sources, NewEntry, TidyInputs
    <2>3. PICK c : c = [Idle EXCEPT !.step = "period", !.entry = e]
      OBVIOUS
    <2>4. c \in HandlerState /\ c.step = "period" /\ c.entry = e
      BY <2>2, <2>3 DEF Idle, HandlerState, Steps
    <2>5. Begin(h, c)
      BY <1>8, <2>1, <2>3 DEF CallPostEvent
    <2>6. QED
      BY <1>6, <2>2, <2>4, <2>5
  <1>9. ASSUME NEW h \in Handlers, NEW u \in Users, NEW i \in DOMAIN entries,
               CallReverse(h, u, i)
        PROVE  CallsTidy'
    <2>1. PICK o : o = entries[i]
      OBVIOUS
    <2>2. o \in Entry /\ i \in Nat /\ o.lines \in Lines
      <3>1. o \in Entry /\ i \in Nat
        BY <2>1 DEF JournalInv, TypeOK
      <3>2. QED
        BY <3>1 DEF Entry
    <2>3. Tidy(Swapped(o.lines)) /\ Swapped(o.lines) \in Lines
      BY <2>1, <2>2, TidySwapped, LinesType DEF LinesInv, EntriesTidy
    <2>4. PICK e : e = NewEntry(Today, Swapped(o.lines), "reversal", i, u)
      OBVIOUS
    <2>5. e \in Entry /\ e.lines = Swapped(o.lines)
      BY <2>2, <2>3, <2>4, NewEntryType, JournalAssumption
      DEF JournalAssumption, Sources, NewEntry
    <2>6. PICK c : c = [Idle EXCEPT !.step = "period", !.user = u, !.original = o, !.entry = e]
      OBVIOUS
    <2>7. c \in HandlerState /\ c.step = "period" /\ c.entry = e
      BY <2>2, <2>5, <2>6 DEF Idle, HandlerState, Steps
    <2>8. Begin(h, c)
      BY <1>9, <2>1, <2>4, <2>6 DEF CallReverse
    <2>9. QED
      BY <1>6, <2>3, <2>5, <2>7, <2>8
  <1>10. ASSUME NEW h \in Handlers, NEW c, Begin(h, c), c.step \notin {"period", "insert"}
         PROVE  CallsTidy'
    <2>1. handler'[h] = c /\ \A g \in Handlers \ {h} : handler'[g] = handler[g]
      BY <1>1, <1>10 DEF Begin
    <2>2. QED
      BY <1>2, <1>3, <1>10, <2>1
  <1>11. ASSUME NEW h \in Handlers, CheckPost(h)
         PROVE  CallsTidy'
    <2>1. PICK old : old = handler[h]
      OBVIOUS
    <2>2. CASE Done(h)
      BY <1>4, <2>2
    <2>3. CASE Goto(h, "insert") /\ Balances(old.entry.lines)
      <3>1. old.step = "period" /\ old.entry \in Entry /\ Tidy(old.entry.lines)
        BY <1>1, <1>11, <2>1 DEF CheckPost, At, CallOK, CallTidy
      <3>2. Difference(old.entry.lines) = 0
        BY <2>3, <3>1, TidyBalances DEF Entry
      <3>3. PICK c : c = handler'[h]
        OBVIOUS
      <3>4. /\ c.step = "insert" /\ c.entry = old.entry
            /\ \A g \in Handlers \ {h} : handler'[g] = handler[g]
        BY <1>1, <2>1, <2>3, <3>3, OneCall DEF Steps
      <3>5. CallTidy(c)
        BY <3>1, <3>2, <3>4 DEF CallTidy
      <3>6. QED
        BY <1>2, <3>3, <3>4, <3>5
    <2>4. QED
      BY <1>11, <2>1, <2>2, <2>3 DEF CheckPost
  <1>12. ASSUME NEW h \in Handlers, InsertEntry(h)
         PROVE  CallsTidy'
    <2>1. CASE Done(h)
      BY <1>4, <2>1
    <2>2. CASE ~Done(h)
      <3>1. PICK e, n : /\ e = [handler[h].entry EXCEPT !.lines = Stored(@)]
                        /\ n = Len(entries) + 1
        OBVIOUS
      <3>2. PICK c : c = [handler[h] EXCEPT !.step = "link", !.entry = e, !.id = n]
        OBVIOUS
      <3>3. handler[h] \in HandlerState
        BY <1>1
      <3>4. c.step = "link"
        BY <3>2, <3>3 DEF HandlerState
      <3>5. handler' = [handler EXCEPT ![h].step = "link", ![h].entry = e, ![h].id = n]
        BY <1>12, <2>2, <3>1 DEF InsertEntry
      <3>6. handler'[h] = c /\ \A g \in Handlers \ {h} : handler'[g] = handler[g]
        BY <1>1, <3>2, <3>5
      <3>7. QED
        BY <1>2, <1>3, <3>4, <3>6
    <2>3. QED
      BY <2>1, <2>2
  <1>13. ASSUME NEW h \in Handlers,
                \/ SaveApproved(h) \/ LinkReversal(h) \/ MarkReversed(h)
                \/ CountPending(h) \/ SavePeriod(h) \/ RecordAudit(h)
         PROVE  CallsTidy'
    BY <1>4, <1>5, <1>13
    DEF SaveApproved, LinkReversal, MarkReversed, CountPending, SavePeriod, RecordAudit, Steps
  <1>14. ASSUME NEW h \in Handlers, NEW u \in Users, NEW i \in DOMAIN entries,
                CallApprove(h, u, i)
         PROVE  CallsTidy'
    <2>1. PICK c : c = [Idle EXCEPT !.step = "approve", !.user = u, !.id = i,
                                    !.entry = entries[i]]
      OBVIOUS
    <2>2. c.step = "approve" /\ Begin(h, c)
      BY <1>14, <2>1 DEF Idle, CallApprove
    <2>3. QED
      BY <1>10, <2>2
  <1>15. ASSUME NEW h \in Handlers, NEW u \in Users, NEW m \in Months, CallClose(h, u, m)
         PROVE  CallsTidy'
    <2>1. PICK c : c = [Idle EXCEPT !.step = "count", !.user = u, !.month = m]
      OBVIOUS
    <2>2. c.step = "count" /\ Begin(h, c)
      BY <1>15, <2>1 DEF Idle, CallClose
    <2>3. QED
      BY <1>10, <2>2
  <1>16. CASE Crash
    <2>1. \A h \in Handlers : handler'[h] = Idle
      BY <1>16 DEF Crash
    <2>2. CallTidy(Idle)
      BY <1>3 DEF Idle
    <2>3. \A h \in Handlers : CallTidy(handler'[h])
      BY <2>1, <2>2
    <2>4. QED
      BY <2>3 DEF CallsTidy, CallTidy
  <1>17. CASE UNCHANGED vars
    <2>1. \A h \in Handlers : CallTidy(handler'[h])
      BY <1>1, <1>17 DEF vars
    <2>2. QED
      BY <2>1 DEF CallsTidy, CallTidy
  <1>18. QED
    BY <1>7, <1>8, <1>9, <1>11, <1>12, <1>13, <1>14, <1>15, <1>16, <1>17
    DEF Next, Call, Continue

\* What a step leaves in the journal is in order: rows keep their lines, and
\* what post inserts has been checked.
LEMMA EntriesTidyStep ==
    ASSUME JournalInv, LinesInv, [Next]_vars
    PROVE  EntriesTidy'
  <1>1. EntriesKept /\ entries \in Seq(Entry)
    BY JournalInvStep DEF JournalInv, TypeOK
  <1>2. ASSUME NEW i \in DOMAIN entries', NEW lines, lines = entries'[i].lines,
               Tidy(lines), KnownAccounts(lines), Difference(lines) = 0
        PROVE  /\ Tidy(entries[i].lines)'
               /\ KnownAccounts(entries[i].lines)'
               /\ (Difference(entries[i].lines) = 0)'
    BY <1>2 DEF Tidy, KnownAccounts, Difference, TotalDebit, TotalCredit
  <1>3. ASSUME NEW i \in DOMAIN entries
        PROVE  /\ entries'[i].lines = entries[i].lines
               /\ i \in DOMAIN entries'
               /\ Tidy(entries[i].lines) /\ KnownAccounts(entries[i].lines)
               /\ Difference(entries[i].lines) = 0
    BY <1>1 DEF EntriesKept, LinesInv, EntriesTidy
  <1>4. CASE DOMAIN entries' = DOMAIN entries
    BY <1>2, <1>3, <1>4 DEF EntriesTidy
  <1>5. ASSUME NEW h \in Handlers, InsertEntry(h)
        PROVE  EntriesTidy'
    <2>1. CASE UNCHANGED entries
      BY <1>4, <2>1
    <2>2. CASE ~UNCHANGED entries
      <3>1. PICK old : old = handler[h].entry
        OBVIOUS
      <3>2. old \in Entry /\ Tidy(old.lines) /\ Difference(old.lines) = 0
        BY <1>5, <3>1 DEF JournalInv, CallsOK, CallOK, LinesInv, CallsTidy, CallTidy,
           InsertEntry, At
      <3>3. PICK e : e = [old EXCEPT !.lines = Stored(@)]
        OBVIOUS
      <3>4. e \in Entry /\ e.lines = old.lines
        <4>1. old.lines \in Lines
          BY <3>2 DEF Entry
        <4>2. QED
          BY <3>2, <3>3, <4>1, StoredType, TidyStored
      <3>5. entries' = Append(entries, e) /\ KnownAccounts(e.lines)
        BY <1>5, <2>2, <3>1, <3>3 DEF InsertEntry
      <3>6. /\ DOMAIN entries' = DOMAIN entries \cup {Len(entries) + 1}
            /\ entries'[Len(entries) + 1] = e
        BY <1>1, <3>4, <3>5
      <3>7. QED
        BY <1>2, <1>3, <3>2, <3>4, <3>5, <3>6 DEF EntriesTidy
    <2>3. QED
      BY <2>1, <2>2
  <1>6. CASE ~\E h \in Handlers : InsertEntry(h)
    <2>1. DOMAIN entries' = DOMAIN entries
      BY <1>1, <1>6
      DEF Next, Crash, Call, Continue, CallPost, CallPostEvent, CallApprove, CallReverse,
          CallClose, CheckPost, CountPending, SavePeriod, RecordAudit, SaveApproved,
          LinkReversal, MarkReversed, Save, vars
    <2>2. QED
      BY <1>4, <2>1
  <1>7. QED
    BY <1>5, <1>6

\* Whatever is posted, approved, reversed and written back stale, if the lines
\* that are posted are whole cents on one side, then in every period the two
\* statements meet, and every drill-down, the budget report and the cash flow
\* show the figures of the statement.
THEOREM StatementsAgreeHolds ==
    ASSUME TidyInputs
    PROVE  Spec => []StatementsAgree
  <1>1. Init => LinesInv
    BY DEF Init, LinesInv, EntriesTidy, CallsTidy, CallTidy, Idle
  <1>2. JournalInv /\ LinesInv /\ [Next]_vars => LinesInv'
    BY CallsTidyStep, EntriesTidyStep DEF LinesInv
  <1>3. JournalInv /\ LinesInv => StatementsAgree
    <2>1. SUFFICES ASSUME JournalInv, LinesInv
                   PROVE  StatementsAgree
      OBVIOUS
    <2>2. Books(entries)
      BY <2>1, TidyBooks DEF JournalInv, TypeOK, LinesInv
    <2>3. QED
      BY <2>2, StatementsMeetIn, DrillDownsIn, CashFlowIn DEF StatementsAgree
  <1>4. QED
    BY <1>1, <1>2, <1>3, JournalInvariant, PTL DEF Spec
===============================================================================
