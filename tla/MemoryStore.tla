----------------------------- MODULE MemoryStore -----------------------------
(***************************************************************************)
(* The durable memory store of src/store/index.ts (DomainMemoryStore) over *)
(* the host's key-value tables.                                            *)
(*                                                                         *)
(* Reads are synchronous from the tables in memory; every write is a job   *)
(* on ONE chain shared by all tables of the domain.  A store operation is  *)
(* therefore a sequence of synchronous segments separated by the jobs it   *)
(* awaits, and what it read before a job may be old when the job lands.    *)
(* A put carries the record its caller built when it queued the job; a     *)
(* read-modify-write (KvTable.update) re-reads the record when it lands.   *)
(***************************************************************************)
EXTENDS Naturals, Sequences, FiniteSets

CONSTANTS
  Clients,      \* concurrent calls into the store (tools, UI, review, hooks)
  Ids,          \* entry ids; add mints a fresh one, as a random UUID is
  Stored,       \* ids the medium already holds when the domain opens
  Project,      \* ids of scope 'project' (the others are global or user)
  Weighty,      \* ids whose assessed importance is 4 or 5
  Contents,     \* entry bodies
  Ops,          \* the operations this instance exercises
  EntriesCap,   \* entriesCap
  AuditCap,     \* auditCap
  MaxCalls,     \* bound: calls made in a behaviour
  MaxFaults,    \* bound: rejected backend writes
  MaxCrashes,   \* bound: process crashes
  Absent        \* the value of a key with no record

AllOps == {"add", "update", "remove", "pin", "unpin", "archive", "unarchive",
           "supersede", "tool", "fence", "hit", "janitor", "readRaw"}

ASSUME StoreAssumption ==
  /\ Stored \subseteq Ids /\ Project \subseteq Ids /\ Weighty \subseteq Ids
  /\ Ops \subseteq AllOps
  /\ EntriesCap \in Nat \ {0} /\ AuditCap \in Nat \ {0}
  /\ MaxCalls \in Nat /\ MaxFaults \in Nat /\ MaxCrashes \in Nat

(* age: 0 active within the decay window, 1 overdue, 2 overdue even under  *)
(* the 1.5x grace of an important entry.                                   *)
Entry == [content: Contents, pinned: BOOLEAN, superseded: BOOLEAN,
          stale: BOOLEAN, access: Nat, hits: Nat, age: 0..2]

ASSUME AbsentAssumption == Absent \notin Entry

Fresh(x) == [content |-> x, pinned |-> FALSE, superseded |-> FALSE,
             stale |-> FALSE, access |-> 0, hits |-> 0, age |-> 0]

VARIABLES
  entries,      \* the entries table
  audit,        \* the audit table, in the order its records landed
  auditSeq,     \* last audit sequence number handed out
  chain,        \* queued writes, next to land first
  call,         \* per client, where its current operation is
  minted,       \* ids ever handed out
  calls, faults, crashes,  \* counters under MaxCalls, MaxFaults, MaxCrashes
  lastEdit,     \* history: content of the last add or update that landed
  hitsLanded,   \* history: usage hits that landed on each entry
  hitsBeside    \* history: those that landed while an edit of it was queued

vars == <<entries, audit, auditSeq, chain, call, minted, calls, faults,
          crashes, lastEdit, hitsLanded, hitsBeside>>
history == <<lastEdit, hitsLanded, hitsBeside>>

Live == {i \in Ids : entries[i] # Absent}

(***************************************************************************)
(* The position of a client in its operation.                              *)
(*   phase  "idle", or what it waits for ("writing" an entry, the "guard"  *)
(*          update of the janitor, "auditing", "cutting" an old audit      *)
(*          record), or what has just been answered ("written", "guarded", *)
(*          "audited"), or "next": ready for the next item of its loop     *)
(*   todo   the items its loop has left (hits, recalls, decay, eviction)   *)
(*   ok     the last answer: the write took place                          *)
(*   cut    audit sequence numbers trimAudit has left to delete            *)
(*   shield history: the entry the janitor has reached, if it must spare it *)
(***************************************************************************)
Idle == [op |-> "none", phase |-> "idle", id |-> Absent, todo |-> {},
         ok |-> FALSE, cut |-> {}, shield |-> {}]

Enqueue(c, frame, kind, i, v) ==
  /\ chain' = Append(chain, [by |-> c, kind |-> kind, id |-> i, val |-> v])
  /\ call' = [call EXCEPT ![c] = frame]

Goto(c, frame) == call' = [call EXCEPT ![c] = frame] /\ UNCHANGED chain

\* A client that is free starts an operation this instance exercises.
Begins(c, op) ==
  /\ op \in Ops
  /\ call[c].phase = "idle"
  /\ calls < MaxCalls
  /\ calls' = calls + 1
  /\ UNCHANGED <<entries, audit, faults, crashes, history>>

Loop(op, S) == [Idle EXCEPT !.op = op, !.phase = "next", !.todo = S]
Writing(frame, i) == [frame EXCEPT !.phase = "writing", !.id = i]

-----------------------------------------------------------------------------
(* Operations, up to the first await.                                      *)

Add(c) ==
  /\ Begins(c, "add")
  /\ \E i \in Ids \ minted, x \in Contents :
       /\ minted' = minted \cup {i}
       /\ Enqueue(c, Writing([Idle EXCEPT !.op = "add"], i), "put", i, Fresh(x))
  /\ UNCHANGED auditSeq

\* The writers that read the record, then queue a put of the whole of it.
PutBack(c, op, i, e) ==
  /\ Begins(c, op)
  /\ Enqueue(c, Writing([Idle EXCEPT !.op = op], i), "put", i, e)
  /\ UNCHANGED <<auditSeq, minted>>

\* Mutant: the edit builds the record anew and forgets its counters.
UpdateAfresh(c) ==
  \E i \in Live, x \in Contents :
    PutBack(c, "update", i, [Fresh(x) EXCEPT !.pinned = entries[i].pinned])

\* Without input.content the put repeats the content that was read.
Update(c) ==
  \E i \in Live, x \in Contents :
    PutBack(c, "update", i, [entries[i] EXCEPT !.content = x])

\* Mutant: the pin is an upsert that does not look the record up.
PinUpsert(c) ==
  \E i \in minted, x \in Contents :
    PutBack(c, "pin", i, [Fresh(x) EXCEPT !.pinned = TRUE])

Pin(c) ==
  \E i \in Live : PutBack(c, "pin", i, [entries[i] EXCEPT !.pinned = TRUE])

Unpin(c) ==
  \E i \in Live : PutBack(c, "unpin", i, [entries[i] EXCEPT !.pinned = FALSE])

Archive(c) ==
  \E i \in Live :
    /\ ~entries[i].stale
    /\ PutBack(c, "archive", i, [entries[i] EXCEPT !.stale = TRUE])

Unarchive(c) ==
  \E i \in Live :
    /\ entries[i].stale
    /\ PutBack(c, "unarchive", i, [entries[i] EXCEPT !.stale = FALSE])

\* The annotation of the content is wording: only the status is kept.
Supersede(c) ==
  \E i \in Live :
    /\ ~entries[i].superseded
    /\ PutBack(c, "supersede", i, [entries[i] EXCEPT !.superseded = TRUE])

Remove(c) ==
  /\ Begins(c, "remove")
  /\ \E i \in Live :
       Enqueue(c, Writing([Idle EXCEPT !.op = "remove"], i), "delete", i, Absent)
  /\ UNCHANGED <<auditSeq, minted>>

\* stampRecalled behind search, memory_get, memory_list ("tool") and behind
\* the auto-recall fence ("fence"); markHits after an assistant message.
Signal(c, op) ==
  /\ op \in {"tool", "fence", "hit"}
  /\ Begins(c, op)
  /\ \E S \in SUBSET Live \ {{}} : Goto(c, Loop(op, S))
  /\ UNCHANGED <<auditSeq, minted>>

\* The snapshot of the pass is only a pre-filter.
Janitor(c) ==
  /\ Begins(c, "janitor")
  /\ LET overdue == {i \in Live : ~entries[i].pinned /\ entries[i].age >= 1}
     IN  overdue # {} /\ Goto(c, Loop("janitor", overdue))
  /\ UNCHANGED <<auditSeq, minted>>

-----------------------------------------------------------------------------
(* The audit record every audited operation appends, then its trim.        *)

NextSeq == auditSeq + 1

AuditOp(f) ==
  CASE f.op \in {"add", "readRaw"} -> f.op
    [] f.op \in {"remove", "trim"} -> "remove"
    [] f.op = "janitor" /\ f.id \in Project -> "remove"
    [] OTHER -> "update"

AppendAudit(c, frame) ==
  /\ auditSeq' = NextSeq
  /\ Enqueue(c, [frame EXCEPT !.phase = "auditing"], "auditPut", frame.id,
             [seq |-> NextSeq, id |-> frame.id, op |-> AuditOp(frame)])

ReadRaw(c) ==
  /\ Begins(c, "readRaw")
  /\ \E i \in Live : AppendAudit(c, [Idle EXCEPT !.op = "readRaw", !.id = i])
  /\ UNCHANGED minted

Unaudited == {"pin", "unpin", "tool", "fence"}
Loops == {"tool", "fence", "hit", "janitor", "trim"}

\* The caller of an entry write resumes.
Resume(c) ==
  LET f == call[c] IN
  /\ f.phase = "written"
  /\ \/ /\ f.ok /\ f.op \notin Unaudited
        /\ AppendAudit(c, f)
     \/ /\ ~(f.ok /\ f.op \notin Unaudited)
        /\ Goto(c, IF f.op \in Loops THEN [f EXCEPT !.phase = "next"] ELSE Idle)
        /\ UNCHANGED auditSeq
  /\ UNCHANGED <<entries, audit, minted, calls, faults, crashes, history>>

AuditSeqs == {audit[n].seq : n \in DOMAIN audit}

\* Mutant: one record too many.
OldestPlusOne(S, excess) ==
  {s \in S : Cardinality({t \in S : t < s}) <= excess}

\* The `excess` smallest of a set of numbers.
Oldest(S, excess) == {s \in S : Cardinality({t \in S : t < s}) < excess}

\* The audit put landed, or was rejected, which is only counted.
Audited(c) ==
  LET f == call[c] IN
  /\ f.phase = "audited"
  /\ Goto(c, [f EXCEPT !.phase = "cut",
                       !.cut = IF f.ok /\ Len(audit) > AuditCap
                               THEN Oldest(AuditSeqs, Len(audit) - AuditCap)
                               ELSE {}])
  /\ UNCHANGED <<entries, audit, auditSeq, minted, calls, faults, crashes, history>>

TrimAudit(c) ==
  LET f == call[c] IN
  /\ f.phase = "cut"
  /\ \/ /\ f.cut = {}
        /\ Goto(c, IF f.op \in Loops \cup {"add"}
                   THEN [f EXCEPT !.phase = "next"] ELSE Idle)
     \/ \E s \in f.cut :
          /\ \A t \in f.cut : s <= t
          /\ Enqueue(c, [f EXCEPT !.phase = "cutting", !.cut = f.cut \ {s}],
                     "auditDelete", f.id, s)
  /\ UNCHANGED <<entries, audit, auditSeq, minted, calls, faults, crashes, history>>

-----------------------------------------------------------------------------
(* trimEntries: evicted in the order unpinned, least accessed, longest     *)
(* unrecalled.  The last tie-breaker is a clock and is left open: any      *)
(* choice of least accessed entries.                                       *)

Unpinned == {i \in Live : ~entries[i].pinned}

\* Mutant: the entry just added is not counted.
ExcessWithoutNew == Cardinality(Live) - EntriesCap - 1

Excess == Cardinality(Live) - EntriesCap

Victims ==
  {V \in SUBSET Unpinned :
     /\ Cardinality(V) = Excess \/ (V = Unpinned /\ Cardinality(V) < Excess)
     /\ \A v \in V, w \in Unpinned \ V : entries[v].access <= entries[w].access}

TrimEntries(c) ==
  /\ call[c].phase = "next" /\ call[c].op = "add"
  /\ IF Cardinality(Live) <= EntriesCap
     THEN Goto(c, Idle)
     ELSE \E V \in Victims : Goto(c, Loop("trim", V))
  /\ UNCHANGED <<entries, audit, auditSeq, minted, calls, faults, crashes, history>>

\* Mutant: the signal is a put of the record as it is now.
QueueSignalSnapshot(c, f, i) == Enqueue(c, f, "put", i, entries[i])

\* stampRecalled and markHits write through the table's update.
QueueSignal(c, f, i) == Enqueue(c, f, f.op, i, Absent)

\* The entry is pinned or, where decay is soft, recalled; and so it is when a
\* queued write has made it so.
Resting(i) == entries[i].pinned \/ (i \notin Project /\ entries[i].age = 0)

Signals(n, i) ==
  /\ chain[n].id = i
  /\ \/ chain[n].kind = "put" /\ chain[n].val.pinned
     \/ chain[n].kind \in {"tool", "fence"} /\ i \notin Project

Unpins(n, i) == chain[n].kind = "put" /\ chain[n].id = i /\ ~chain[n].val.pinned

\* A pin or a recall has landed or is queued, and no write queued behind it
\* puts the record back without the pin.
Spared(i) ==
  \/ i \in Live /\ Resting(i) /\ \A n \in DOMAIN chain : ~Unpins(n, i)
  \/ \E n \in DOMAIN chain :
       Signals(n, i) /\ \A m \in DOMAIN chain : m > n => ~Unpins(m, i)

\* One turn of a loop over entries.
Step(c) ==
  LET f == call[c] IN
  /\ f.phase = "next" /\ f.op \in Loops
  /\ \/ f.todo = {} /\ Goto(c, Idle)
     \/ \E i \in f.todo :
          LET g == [Writing(f, i) EXCEPT !.todo = f.todo \ {i}]
              h == [g EXCEPT !.shield = {j \in {i} : Spared(j)}]
          IN
          \/ f.op = "trim" /\ Enqueue(c, g, "delete", i, Absent)
          \/ f.op \in {"tool", "fence", "hit"} /\ (i \in Live \/ f.op # "hit")
               /\ QueueSignal(c, g, i)
          \/ f.op = "hit" /\ i \notin Live
               /\ Goto(c, [f EXCEPT !.todo = f.todo \ {i}])
          \/ f.op = "janitor" /\ i \in Project
               /\ Enqueue(c, [h EXCEPT !.phase = "guard"], "guard", i, Absent)
          \/ f.op = "janitor" /\ i \notin Project
               /\ Enqueue(c, h, "decay", i, Absent)
  /\ UNCHANGED <<entries, audit, auditSeq, minted, calls, faults, crashes, history>>

\* The guard update of the hard decay answered whether the entry was unpinned
\* at its slot; only then the delete is queued.
Guarded(c) ==
  LET f == call[c] IN
  /\ f.phase = "guarded"
  /\ \/ f.ok /\ Enqueue(c, Writing(f, f.id), "delete", f.id, Absent)
     \/ ~f.ok /\ Goto(c, [f EXCEPT !.phase = "next"])
  /\ UNCHANGED <<entries, audit, auditSeq, minted, calls, faults, crashes, history>>

-----------------------------------------------------------------------------
(* Landing: the head of the chain reaches the backend, then memory.        *)

\* Mutant: a caller that deletes an old audit record is never answered.
AnswerLost(phase) ==
  CASE phase = "writing" -> "written"  [] phase = "guard" -> "guarded"
    [] phase = "auditing" -> "audited" [] phase = "cutting" -> "cutting"

Answer(phase) ==
  CASE phase = "writing" -> "written"  [] phase = "guard" -> "guarded"
    [] phase = "auditing" -> "audited" [] phase = "cutting" -> "cut"

\* Mutant: the janitor trusts its snapshot.
DecayDueInSnapshot(i) == ~entries[i].stale

DecayDue(i) ==
  LET e == entries[i]
  IN  /\ e.age = 2 \/ (e.age = 1 /\ i \notin Weighty)
      /\ ~e.pinned /\ ~e.stale

Hit(e) == [e EXCEPT !.hits = @ + 1]

Recalled(e) == [e EXCEPT !.stale = FALSE, !.age = 0]

\* The record a job leaves at its key, from the record current at its slot.
Written(job) ==
  LET e == entries[job.id] IN
  CASE job.kind = "put" -> job.val
    [] job.kind = "delete" -> Absent
    [] job.kind = "tool" /\ e # Absent ->
         [Recalled(e) EXCEPT !.access = @ + 1]
    [] job.kind = "fence" /\ e # Absent -> Recalled(e)
    [] job.kind = "hit" /\ e # Absent -> Hit(e)
    [] job.kind = "decay" /\ e # Absent -> [e EXCEPT !.stale = @ \/ DecayDue(job.id)]
    [] OTHER -> e

\* Mutant: a delete counts as a removal whatever it answered.
RemovedRegardless(e) == TRUE

Removed(e) == e # Absent

\* What the caller is told.  A missing record makes an update throw 'no
\* record', which its callers swallow; the guard then lets the delete run.
Took(job) ==
  LET e == entries[job.id] IN
  CASE job.kind \in {"put", "auditPut", "auditDelete"} -> TRUE
    [] job.kind = "delete" -> Removed(e)
    [] job.kind \in {"tool", "fence", "hit"} -> e # Absent
    [] job.kind = "decay" -> e # Absent /\ DecayDue(job.id)
    [] job.kind = "guard" -> e = Absent \/ ~e.pinned

Without(s, n) == SubSeq(s, 1, n - 1) \o SubSeq(s, n + 1, Len(s))

PositionOf(q) == CHOOSE n \in DOMAIN audit : audit[n].seq = q

EditQueued(i) == \E n \in DOMAIN chain : chain[n].kind = "put" /\ chain[n].id = i

\* A settled promise resumes its caller, up to the caller's next await, before
\* the next write can come back from the backend.
Settled ==
  \A c \in Clients :
    call[c].phase \in {"idle", "writing", "guard", "auditing", "cutting"}

Land ==
  /\ chain # <<>> /\ Settled
  /\ LET job == Head(chain)
         f == call[job.by]
     IN  /\ entries' = [entries EXCEPT ![job.id] = Written(job)]
         /\ audit' = CASE job.kind = "auditPut" -> Append(audit, job.val)
                       [] job.kind = "auditDelete" /\ job.val \in AuditSeqs ->
                            Without(audit, PositionOf(job.val))
                       [] OTHER -> audit
         /\ call' = [call EXCEPT ![job.by] =
                       [f EXCEPT !.phase = Answer(f.phase), !.ok = Took(job)]]
         /\ lastEdit' = IF job.kind = "put" /\ f.op \in {"add", "update"}
                        THEN [lastEdit EXCEPT ![job.id] = job.val.content]
                        ELSE lastEdit
         /\ hitsLanded' = IF job.kind = "hit" /\ Took(job)
                          THEN [hitsLanded EXCEPT ![job.id] = @ + 1]
                          ELSE hitsLanded
         /\ hitsBeside' = IF job.kind = "hit" /\ Took(job) /\ EditQueued(job.id)
                          THEN [hitsBeside EXCEPT ![job.id] = @ + 1]
                          ELSE hitsBeside
  /\ chain' = Tail(chain)
  /\ UNCHANGED <<auditSeq, minted, calls, faults, crashes>>

\* The backend rejects the write: memory keeps its record.  A failed delete
\* ends the loop it belongs to, a failed audit write ends the audit trim, a
\* failed guard has run its transform already.
Reject ==
  /\ chain # <<>> /\ Settled /\ faults < MaxFaults
  /\ faults' = faults + 1
  /\ LET job == Head(chain)
         f == call[job.by]
         g == [f EXCEPT !.phase = Answer(f.phase),
                        !.ok = job.kind = "guard" /\ Took(job)]
     IN  call' = [call EXCEPT ![job.by] =
                    CASE job.kind = "delete" -> [g EXCEPT !.todo = {}]
                      [] job.kind = "auditDelete" -> [g EXCEPT !.cut = {}]
                      [] OTHER -> g]
  /\ chain' = Tail(chain)
  /\ UNCHANGED <<entries, audit, auditSeq, minted, calls, crashes, history>>

-----------------------------------------------------------------------------
(* The environment.                                                        *)

SeqMax(S) == IF S = {} THEN 0 ELSE CHOOSE m \in S : \A s \in S : s <= m

\* Mutant: every boot numbers its audit records from the start.
BootSeqZero == 0

BootSeq == SeqMax(AuditSeqs)

\* The process dies: queued writes and calls are gone, what landed is on the
\* medium.  The next boot takes its audit sequence from the audit table.
Crash ==
  /\ crashes < MaxCrashes
  /\ crashes' = crashes + 1
  /\ chain' = <<>>
  /\ call' = [c \in Clients |-> Idle]
  /\ auditSeq' = BootSeq
  /\ UNCHANGED <<entries, audit, minted, calls, faults, history>>

\* Days without a recall pass; no operation is that long.
Ageing(i) ==
  /\ "janitor" \in Ops /\ i \in Live
  /\ \A c \in Clients : call[c].phase = "idle"
  /\ entries[i].age < 2
  /\ entries' = [entries EXCEPT ![i].age = @ + 1]
  /\ UNCHANGED <<audit, auditSeq, chain, call, minted, calls, faults, crashes, history>>

-----------------------------------------------------------------------------
\* The medium opens with unstamped entries, any of them pinned.
Init ==
  /\ \E x \in Contents :
       /\ lastEdit = [i \in Ids |-> x]
       /\ \E P \in SUBSET Stored :
            entries = [i \in Ids |-> IF i \in Stored
                                     THEN [Fresh(x) EXCEPT !.pinned = i \in P]
                                     ELSE Absent]
  /\ audit = <<>> /\ auditSeq = 0
  /\ chain = <<>>
  /\ call = [c \in Clients |-> Idle]
  /\ minted = Stored
  /\ calls = 0 /\ faults = 0 /\ crashes = 0
  /\ hitsLanded = [i \in Ids |-> 0] /\ hitsBeside = [i \in Ids |-> 0]

Start(c) ==
  \/ Add(c) \/ Update(c) \/ Remove(c) \/ Pin(c) \/ Unpin(c) \/ Archive(c)
  \/ Unarchive(c) \/ Supersede(c) \/ Janitor(c) \/ ReadRaw(c)
  \/ \E op \in Ops : Signal(c, op)

Proceed(c) ==
  \/ Resume(c) \/ Audited(c) \/ TrimAudit(c) \/ TrimEntries(c) \/ Step(c)
  \/ Guarded(c)

Next ==
  \/ \E c \in Clients : Start(c) \/ Proceed(c)
  \/ Land \/ Reject \/ Crash
  \/ \E i \in Ids : Ageing(i)

Spec == Init /\ [][Next]_vars

\* The chain drains and a promise that settled resumes its caller.
Fairness == WF_vars(Land) /\ \A c \in Clients : WF_vars(Proceed(c))

FairSpec == Spec /\ Fairness

-----------------------------------------------------------------------------
(* Properties.                                                             *)

AuditRecords ==
  [seq: Nat, id: Ids, op: {"add", "update", "remove", "readRaw"}]

Jobs ==
  [by: Clients, id: Ids,
   kind: {"put"}, val: Entry]
  \cup [by: Clients, id: Ids, val: {Absent},
        kind: {"delete", "tool", "fence", "hit", "guard", "decay"}]
  \cup [by: Clients, id: Ids, kind: {"auditPut"},
        val: AuditRecords]
  \cup [by: Clients, id: Ids, kind: {"auditDelete"}, val: Nat]

Phases == {"idle", "writing", "written", "guard", "guarded", "auditing",
           "audited", "cut", "cutting", "next"}

Frames ==
  [op: AllOps \cup {"trim", "none"}, phase: Phases, id: Ids \cup {Absent},
   todo: SUBSET Ids, ok: BOOLEAN, cut: SUBSET Nat, shield: SUBSET Ids]

\* Every variable keeps its type.
TypeOK ==
  /\ entries \in [Ids -> Entry \cup {Absent}]
  /\ audit \in Seq(AuditRecords)
  /\ auditSeq \in Nat
  /\ chain \in Seq(Jobs)
  /\ call \in [Clients -> Frames]
  /\ minted \subseteq Ids
  /\ calls \in Nat /\ faults \in Nat /\ crashes \in Nat
  /\ lastEdit \in [Ids -> Contents]
  /\ hitsLanded \in [Ids -> Nat] /\ hitsBeside \in [Ids -> Nat]

AtRest == \A c \in Clients : call[c].phase = "idle"

\* Recall stamps, usage hits and janitor decay run concurrently with edits
\* and never roll one back: a stored entry carries the content of the last
\* add or update that landed (stampRecalled, markHits and janitor write
\* through the table's read-modify-write, never a put of a snapshot).
ContentIsLastEdit ==
  \A i \in Live : entries[i].content = lastEdit[i]

\* The hit counter of an entry is exact but for one window: a hit that lands
\* while a put of the whole record is queued (update, pin, unpin, archive,
\* supersede read the record before they queue it) may be undone by it.  No
\* hit is lost otherwise, whatever recalls, decays, rejected writes, removals
\* and crashes it meets, and none is counted twice.
HitsAccountedFor ==
  \A i \in Live : /\ entries[i].hits <= hitsLanded[i]
                  /\ hitsLanded[i] <= entries[i].hits + hitsBeside[i]

\* An entry that is gone and that no queued put will write again stays gone:
\* every writer looks the record up before it queues a put, and the
\* read-modify-writes of recalls, hits and decay never create one.
Gone(i) ==
  /\ i \in minted /\ entries[i] = Absent
  /\ \A n \in DOMAIN chain : ~(chain[n].kind = "put" /\ chain[n].id = i)

GoneForGood == [][\A i \in Ids : Gone(i) => Gone(i)']_vars

\* However adds, removals and recalls overlap, once they are all over the
\* table is within its cap, or everything left in it is pinned.
CapHoldsAtRest ==
  AtRest /\ faults = 0 /\ crashes = 0
    => Cardinality(Live) <= EntriesCap \/ Unpinned = {}

\* The janitor's update of an entry that is there says it may decay.
Decided(job) ==
  /\ call[job.by].op = "janitor"
  /\ job.kind \in {"guard", "decay"}
  /\ entries[job.id] # Absent /\ Took(job)

\* A pin, or for a global or user entry a recall, asked for before the janitor
\* reaches the entry is honored although the pass took its snapshot before it:
\* the decision is made again behind it on the chain.  Another write that puts
\* the record back behind the pin undoes it, and a pin that lands between the
\* guard and its delete is not honored, as the code says.
EarlierSignalHonored ==
  [][Land /\ Decided(Head(chain)) /\ faults = 0
       => Head(chain).id \notin call[Head(chain).by].shield]_vars

Removals(i) ==
  {n \in DOMAIN audit : audit[n].id = i /\ audit[n].op = "remove"}

\* Concurrent removals of one entry (memory_forget, eviction, hard decay) leave
\* exactly one removal in the audit trail, and an entry that stands has none,
\* as long as the trail has not been trimmed.
RemovalAuditedOnce ==
  AtRest /\ faults = 0 /\ crashes = 0 /\ Len(audit) = auditSeq
    => \A i \in minted :
         Cardinality(Removals(i)) = IF entries[i] = Absent THEN 1 ELSE 0

\* The audit trail is in append order by its sequence numbers, also after the
\* process dies and the next one reads its last number from the table.
AuditInAppendOrder ==
  \A m, n \in DOMAIN audit : m < n => audit[m].seq < audit[n].seq

\* Overlapping trims of the audit table, from snapshots of different age, drop
\* one oldest record at a time and never go below the cap.
AuditKeepsNewest ==
  [][\/ Len(audit') > Len(audit)
     \/ Len(audit) > AuditCap /\ audit' = Tail(audit)]_audit

\* Every operation returns: no caller waits for good behind the chain.
CallsReturn ==
  \A c \in Clients : call[c].phase # "idle" ~> call[c].phase = "idle"

=============================================================================
