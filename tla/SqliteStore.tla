------------------------------ MODULE SqliteStore -----------------------------
(***************************************************************************)
(* The memory store over memory.db: src/store/sqlite.ts.                   *)
(*                                                                         *)
(* node:sqlite is synchronous, so an operation that awaits nothing is one  *)
(* step of the process; its rows and its audit records are one transaction *)
(* that commits or is rolled back as a whole.  What awaits between two     *)
(* statements (the adoption of a proposal here, the batch delete of the    *)
(* agent's tools) interleaves with everything else, and the process may    *)
(* die there.                                                              *)
(***************************************************************************)
EXTENDS Integers, SequencesExt, FiniteSetsExt

CONSTANTS
  MaxIds,         \* bound: entries ever added; ids are in order of creation
  Imported,       \* ids the database holds when the plugin is mounted
  Project,        \* ids of scope 'project'
  Blocked,        \* imported ids whose content the scanner would refuse today
  EntriesCap, AuditCap, SuggestionCap,
  MaxRows,        \* bound: proposals ever queued
  MaxEvents,      \* bound: what the calls and clicks of a behaviour cost
  CallCost,       \* bound: what one call costs
  MaxFaults,      \* bound: failures and deaths of the process
  Absent

Ids == 1..MaxIds

(* body: "blocked" is content the scanner refuses, "mask" the placeholder  *)
(* that stands for it on every surface, "plain" and "edited" the rest.     *)
Bodies == {"plain", "edited", "mask", "blocked"}

Row == [body: Bodies, pinned: BOOLEAN, stale: BOOLEAN, superseded: BOOLEAN, access: Nat]

ASSUME SqliteAssumption ==
  /\ Absent \notin Row
  /\ MaxIds \in Nat /\ Imported \subseteq Ids /\ Project \subseteq Ids
  /\ Blocked \subseteq Imported
  /\ \A i \in Imported, j \in Ids \ Imported : i < j
  /\ {EntriesCap, AuditCap, SuggestionCap} \subseteq Nat \ {0}
  /\ {MaxRows, MaxEvents, CallCost, MaxFaults} \subseteq Nat

VARIABLES
  entries,     \* the entries table
  recent,      \* its ids in the order of lastRecalledAt ?? createdAt
  audit,       \* the audit table
  auditSeq,    \* in memory: the last sequence number handed out
  queue,       \* the suggestions table, in the order of lastSeenAt
  version,     \* the version of the identity document
  adopting,    \* proposals written into the document and not yet dropped
  minted,      \* ids handed out
  rows,        \* proposals queued so far
  events, faults, crashes,
  ledger       \* history variable: per id, additions and removals recorded

tables == <<entries, recent, audit, queue, version>>
counters == <<minted, rows, events, faults, crashes>>
store == <<tables, auditSeq, adopting, counters, ledger>>

Fresh(b) == [body |-> b, pinned |-> FALSE, stale |-> FALSE, superseded |-> FALSE, access |-> 0]

Held == {i \in Ids : entries[i] # Absent}

\* scanContent at the write boundary.
Allowed(b) == b \in Bodies \ {"blocked"}

\* redactBlocked, as every surface but getRaw applies it.
Redacted(b) == IF b = "blocked" THEN "mask" ELSE b

Called == events + CallCost <= MaxEvents /\ events' = events + CallCost

\* One more failure or crash may happen.
MayFail == faults + crashes < MaxFaults

-----------------------------------------------------------------------------
(* Transactions.                                                           *)

\* nextAuditSeq
Numbered(records) ==
  [n \in DOMAIN records |-> [op |-> records[n].op, id |-> records[n].id, seq |-> auditSeq + n]]

\* appendAudit and insertAudit: the oldest rows go first.
Trail(records) ==
  LET all == audit \o Numbered(records)
  IN  SubSeq(all, Max({1, Len(all) - AuditCap + 1}), Len(all))

Recorded(records, ops, i) ==
  Cardinality({n \in DOMAIN records : records[n].op \in ops /\ records[n].id = i})

\* Mutant: a failing audit insert leaves the entry rows behind.
RolledBackAudit(newEntries, newRecent) == entries' = newEntries /\ recent' = newRecent

RolledBack(newEntries, newRecent) == UNCHANGED <<entries, recent>>

\* COMMIT: rows and records land together.
Committed(newEntries, newRecent, records) ==
  /\ entries' = newEntries /\ recent' = newRecent
  /\ audit' = Trail(records)
  /\ ledger' = [i \in Ids |-> [added   |-> ledger[i].added   + Recorded(records, {"add"}, i),
                               removed |-> ledger[i].removed + Recorded(records, {"remove", "decay"}, i)]]

Fault == MayFail /\ faults' = faults + 1

\* transaction: after a failure the counter keeps the numbers it handed out.
Transaction(ok, newEntries, newRecent, records) ==
  /\ auditSeq' = auditSeq + Len(records)
  /\ IF ok THEN Committed(newEntries, newRecent, records) /\ UNCHANGED faults
     ELSE Fault /\ RolledBack(newEntries, newRecent) /\ UNCHANGED <<audit, ledger>>
  /\ UNCHANGED <<queue, version, adopting, rows, crashes>>

\* op "decay" is a removal whose source is the janitor, as an eviction's is.
Record(op, i) == [op |-> op, id |-> i]

Put(i, row) == [entries EXCEPT ![i] = row]

-----------------------------------------------------------------------------
(* Entries.                                                                *)

\* Mutant: the pin is not asked for.
EvictableAny(table) == {j \in Ids : table[j] # Absent}

\* Rows that may be evicted.
Evictable(table) == {j \in Ids : table[j] # Absent /\ ~table[j].pinned}

\* trimEntries: those least used, then longest unused, down to the cap.  There
\* is one such set of rows.
Evictions(table, line) ==
  LET over == Cardinality({j \in Ids : table[j] # Absent}) - EntriesCap
      n == Max({0, Min({over, Cardinality(Evictable(table))})})
      Before(j, k) == \/ table[j].access < table[k].access
                      \/ table[j].access = table[k].access
                         /\ \E a, b \in DOMAIN line : a < b /\ line[a] = j /\ line[b] = k
  IN  {V \in SUBSET Evictable(table) :
         Cardinality(V) = n /\ \A j \in V, k \in Evictable(table) \ V : Before(j, k)}

Removals(out) == SetToSeq({Record("decay", j) : j \in out})

\* add: the removals of an eviction are recorded before the addition.
Add(b, ok) ==
  LET i == minted + 1
      table == Put(i, Fresh(b))
      line == Append(recent, i)
  IN  /\ minted < MaxIds /\ Allowed(b)
      /\ minted' = i
      /\ \E out \in Evictions(table, line) :
           Transaction(ok, [j \in Ids |-> IF j \in out THEN Absent ELSE table[j]],
                       SelectSeq(line, LAMBDA j : j \notin out),
                       Append(Removals(out), Record("add", i)))

\* update
Update(i, b, ok) ==
  /\ i \in Held /\ Allowed(b)
  /\ Transaction(ok, Put(i, [entries[i] EXCEPT !.body = b]), recent, <<Record("update", i)>>)
  /\ UNCHANGED minted

Without(i) == SelectSeq(recent, LAMBDA j : j # i)

\* remove
RemoveEntry(i, ok) ==
  /\ i \in Held
  /\ Transaction(ok, Put(i, Absent), Without(i), <<Record("remove", i)>>)
  /\ UNCHANGED minted

\* setPinned: no record.
SetPinned(i, p, ok) ==
  /\ i \in Held
  /\ Transaction(ok, Put(i, [entries[i] EXCEPT !.pinned = p]), recent, <<>>)
  /\ UNCHANGED minted

\* supersedeEntry, once per entry.
Supersede(i, ok) ==
  /\ i \in Held /\ ~entries[i].superseded
  /\ Transaction(ok, Put(i, [entries[i] EXCEPT !.superseded = TRUE]), recent,
                 <<Record("update", i)>>)
  /\ UNCHANGED minted

\* stampRecalled: one transaction per entry, and the loop awaits nothing.  The
\* fence stamps the time and does not count as a use.
Recall(S, used) ==
  LET now == S \cap Held
  IN  /\ entries' = [i \in Ids |-> IF i \in now
                     THEN [entries[i] EXCEPT !.stale = FALSE,
                                             !.access = IF used THEN @ + 1 ELSE @]
                     ELSE entries[i]]
      /\ recent' = SelectSeq(recent, LAMBDA j : j \notin now) \o SetToSeq(now)
      /\ UNCHANGED <<audit, auditSeq, queue, version, adopting, minted, rows, faults, crashes, ledger>>

\* markHits
Hit(i, ok) ==
  /\ i \in Held
  /\ Transaction(ok, entries, recent, <<Record("update", i)>>)
  /\ UNCHANGED minted

\* Rows that were not active for long.
Overdue(n) == {i \in Held \cap Range(SubSeq(recent, 1, n)) : ~entries[i].pinned}

\* Those the janitor writes: project entries go, the others are marked stale
\* (what importance adds to their grace is left out).
Due(n) == {i \in Overdue(n) : i \in Project \/ ~entries[i].stale}

\* janitor, which awaits nothing: the oldest entry first, each in a transaction
\* of its own, and the first that fails ends the loop.
Janitor(n) ==
  \E done \in SUBSET Due(n) :
    LET gone == done \cap Project
        dormant == done \ Project
        records == Removals(gone) \o SetToSeq({Record("update", i) : i \in dormant})
        left == Due(n) \ done
    IN  /\ Due(n) # {} /\ \A i \in done, j \in left : i < j
        /\ Committed([i \in Ids |-> IF i \in gone THEN Absent
                                    ELSE IF i \in dormant THEN [entries[i] EXCEPT !.stale = TRUE]
                                    ELSE entries[i]],
                     SelectSeq(recent, LAMBDA j : j \notin gone), records)
        /\ \/ left = {} /\ auditSeq' = auditSeq + Len(records) /\ UNCHANGED faults
           \/ left # {} /\ auditSeq' = auditSeq + Len(records) + 1 /\ Fault
        /\ UNCHANGED <<queue, version, adopting, minted, rows, crashes>>

\* getRaw: the record is best-effort and changes no entry.
ReadRaw(i) ==
  /\ i \in Held
  /\ Transaction(TRUE, entries, recent, <<Record("readRaw", i)>>)
  /\ UNCHANGED minted

-----------------------------------------------------------------------------
(* Proposals and the identity document.                                    *)

\* trimSuggestions: the fewest hits, then the longest unseen.
TrimmedQueue(q) ==
  IF Len(q) <= SuggestionCap THEN q
  ELSE LET least == {n \in DOMAIN q : \A m \in DOMAIN q : q[n].hits <= q[m].hits}
       IN  RemoveAt(q, Min(least))

\* A proposal is about the identity document, about a new topic or, id given,
\* about an entry.
Subject(on, i) == [on |-> on, id |-> i]
Soul == Subject("soul", 0)

Unlisted == <<entries, recent, audit, auditSeq, minted, faults, crashes, ledger>>

\* observeSuggestion: a proposal on the same subject counts as seen again.
Observe(subject) ==
  LET same == {n \in DOMAIN queue : queue[n].subject = subject}
  IN  /\ \/ /\ same # {}
            /\ \E n \in same :
                 queue' = Append(RemoveAt(queue, n), [queue[n] EXCEPT !.hits = @ + 1])
            /\ UNCHANGED rows
         \/ /\ same = {} /\ rows < MaxRows
            /\ rows' = rows + 1
            /\ queue' = TrimmedQueue(Append(queue, [id |-> rows', subject |-> subject, hits |-> 1]))
      /\ UNCHANGED <<Unlisted, version, adopting>>

\* updateIdentity: the record, its snapshot and the trim are one transaction.
UpdateIdentity ==
  /\ version' = version + 1
  /\ UNCHANGED <<Unlisted, queue, adopting, rows>>

\* adoptSuggestion, of an identity proposal: the document is written ...
AdoptWrite(r) ==
  /\ \E n \in DOMAIN queue : queue[n].id = r /\ queue[n].subject = Soul
  /\ version' = version + 1
  /\ adopting' = adopting \cup {r}
  /\ UNCHANGED <<Unlisted, queue, rows>>

DropRow(r) == SelectSeq(queue, LAMBDA q : q.id # r)

\* ... and the row is dropped by a statement of its own, which may fail.
AdoptDrop(r, ok) ==
  /\ r \in adopting
  /\ adopting' = adopting \ {r}
  /\ IF ok THEN queue' = DropRow(r) /\ UNCHANGED faults
     ELSE Fault /\ UNCHANGED queue
  /\ UNCHANGED <<entries, recent, audit, auditSeq, version, minted, rows, crashes, ledger>>

\* rejectSuggestion: like an adoption, of identity proposals only.
Reject(r) ==
  /\ \E n \in DOMAIN queue : queue[n].id = r /\ queue[n].subject = Soul
  /\ queue' = DropRow(r)
  /\ UNCHANGED <<Unlisted, version, adopting, rows>>

-----------------------------------------------------------------------------
\* maxAuditSeq
BootSeq == Max({0} \cup {audit[n].seq : n \in DOMAIN audit})

\* The process dies and reopens the database.
Reopen ==
  /\ MayFail
  /\ crashes' = crashes + 1
  /\ auditSeq' = BootSeq
  /\ adopting' = {}
  /\ UNCHANGED <<tables, minted, rows, events, faults, ledger>>

InitStore ==
  /\ entries = [i \in Ids |-> IF i \in Imported
                              THEN Fresh(IF i \in Blocked THEN "blocked" ELSE "plain")
                              ELSE Absent]
  /\ recent = SetToSortSeq(Imported, <)
  /\ audit = <<>> /\ auditSeq = 0
  /\ queue = <<>> /\ version = 0 /\ adopting = {}
  /\ minted = Cardinality(Imported) /\ rows = 0
  /\ events = 0 /\ faults = 0 /\ crashes = 0
  /\ ledger = [i \in Ids |-> [added |-> 0, removed |-> 0]]

-----------------------------------------------------------------------------
(* Properties.                                                             *)

\* The store keeps the promise of the book: an eviction, a decay, a batch
\* delete, a write that fails or a crash never leaves an entry without its
\* record or a record without its entry.
Book == INSTANCE MemoryBook WITH held <- Held, ledger <- ledger
BookKept == Book!Spec

=============================================================================
