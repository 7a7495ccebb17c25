------------------------------ MODULE Identity -------------------------------
(***************************************************************************)
(* One identity document of the memory domain: the write path of           *)
(* src/store/index.ts (writeIdentity, revertIdentity, trimIdentityHistory) *)
(* and the seed-once service of src/identity/index.ts.  The two documents  *)
(* are independent, so one stands for both.                                *)
(*                                                                         *)
(* A write is a chain of awaited jobs: the read-modify-write of the record *)
(* (or, when there is none, a put of version 1), the put of its history    *)
(* snapshot, and the deletes that bring the history back to its cap.       *)
(***************************************************************************)
EXTENDS Naturals, Sequences, FiniteSets

CONSTANTS
  Writers,     \* concurrent callers: identity_update, adoption, revert
  Service,     \* the caller that stands for the identity service's seed
  Contents,    \* document texts
  Seed,        \* the seed text
  HistoryCap,  \* IDENTITY_HISTORY_CAP
  Existing,    \* TRUE: the medium already holds the document
  MaxCalls,    \* bound: writes asked for in a behaviour
  MaxFaults,   \* bound: rejected backend writes
  MaxCrashes,  \* bound: process crashes
  None         \* no record

ASSUME IdentityAssumption ==
  /\ Service \notin Writers
  /\ Seed \in Contents
  /\ HistoryCap \in Nat \ {0}
  /\ Existing \in BOOLEAN
  /\ MaxCalls \in Nat /\ MaxFaults \in Nat /\ MaxCrashes \in Nat

Version == [version: Nat, content: Contents]

ASSUME NoneAssumption == None \notin Version

Callers == Writers \cup {Service}

VARIABLES
  doc,        \* the record of the document
  history,    \* the identity_history rows
  chain,      \* queued writes: [by, kind, rec]
  call,       \* per caller: [phase, rec, cut]
  kicked,     \* seedInFlight: this process has asked for the seed write
  calls, faults, crashes,
  ever        \* history variable: every record that has been current

vars == <<doc, history, chain, call, kicked, calls, faults, crashes, ever>>
counters == <<calls, faults, crashes>>

(* phase: idle, or awaiting "update", "put", "snapshot" or "drop", or      *)
(* answered: "missing" (the update found no record), "minted" (the record  *)
(* is written), "trim" (the history has one more row).                     *)
(* rec: the record being written; before it is minted, its content only    *)
(* (version 0).  cut: the rows trimIdentityHistory has left to delete.     *)
Idle == [phase |-> "idle", rec |-> None, cut |-> {}]

Enqueue(c, frame, kind, rec) ==
  /\ chain' = Append(chain, [by |-> c, kind |-> kind, rec |-> rec])
  /\ call' = [call EXCEPT ![c] = frame]

Text(x) == [version |-> 0, content |-> x]

\* nextIdentityRecord
NextRecord(current, x) ==
  [version |-> (IF current = None THEN 0 ELSE current.version) + 1, content |-> x]

BeginWrite(c, x) ==
  /\ call[c].phase = "idle"
  /\ Enqueue(c, [phase |-> "update", rec |-> Text(x), cut |-> {}], "update", Text(x))
  /\ UNCHANGED <<doc, history, faults, crashes, ever>>

\* identity_update, or the adoption of an identity proposal.
UpdateIdentity(c) ==
  /\ calls < MaxCalls /\ calls' = calls + 1
  /\ \E x \in Contents : BeginWrite(c, x)
  /\ UNCHANGED kicked

\* The snapshot is read here, and becomes the text of a new version.
RevertIdentity(c) ==
  /\ calls < MaxCalls /\ calls' = calls + 1
  /\ \E r \in history : BeginWrite(c, r.content)
  /\ UNCHANGED kicked

\* A session asks for its snapshot: a document never written is served from
\* the seed, and the seed write is kicked once per process.
ServeSeed ==
  /\ doc = None /\ ~kicked
  /\ kicked' = TRUE
  /\ BeginWrite(Service, Seed)
  /\ UNCHANGED calls

\* The update threw 'no record': first write of the document.
PutFirst(c) ==
  /\ call[c].phase = "missing"
  /\ LET first == NextRecord(None, call[c].rec.content)
     IN  Enqueue(c, [call[c] EXCEPT !.phase = "put", !.rec = first], "put", first)
  /\ UNCHANGED <<doc, history, kicked, counters, ever>>

\* Mutant: the row mints a version of its own.
SnapshotMintsAgain(c) == NextRecord(call[c].rec, call[c].rec.content)

SnapshotRow(c) == call[c].rec

PutSnapshot(c) ==
  /\ call[c].phase = "minted"
  /\ Enqueue(c, [call[c] EXCEPT !.phase = "snapshot"], "snapshot", SnapshotRow(c))
  /\ UNCHANGED <<doc, history, kicked, counters, ever>>

\* Mutant: the rows are sorted the other way round.
NewestRows(rows, n) ==
  {r \in rows : Cardinality({s \in rows : s.version > r.version}) < n}

OldestRows(rows, n) ==
  {r \in rows : Cardinality({s \in rows : s.version < r.version}) < n}

Excess == IF Cardinality(history) > HistoryCap
          THEN Cardinality(history) - HistoryCap ELSE 0

DropNext(c, rows) ==
  \E r \in rows :
    /\ \A s \in rows : r.version <= s.version
    /\ Enqueue(c, [call[c] EXCEPT !.phase = "drop", !.cut = rows \ {r}], "drop", r)

Finish(c) == call' = [call EXCEPT ![c] = Idle] /\ UNCHANGED chain

TrimHistory(c) ==
  /\ call[c].phase = "trim"
  /\ LET rows == OldestRows(history, Excess)
     IN  IF rows = {} THEN Finish(c) ELSE DropNext(c, rows)
  /\ UNCHANGED <<doc, history, kicked, counters, ever>>

TrimMore(c) ==
  /\ call[c].phase = "dropped"
  /\ IF call[c].cut = {} THEN Finish(c) ELSE DropNext(c, call[c].cut)
  /\ UNCHANGED <<doc, history, kicked, counters, ever>>

-----------------------------------------------------------------------------
(* Landing of the head of the chain.                                       *)

\* Mutant: the record is built when the job is queued, not when it lands.
MintEarly(job) == NextRecord(None, job.rec.content)

\* The record an update or a put leaves.
Mint(job) ==
  IF job.kind = "update" THEN NextRecord(doc, job.rec.content) ELSE job.rec

LandRecord(job) ==
  /\ IF job.kind = "update" /\ doc = None
     THEN /\ call' = [call EXCEPT ![job.by].phase = "missing"]
          /\ UNCHANGED <<doc, ever>>
     ELSE /\ doc' = Mint(job)
          /\ ever' = ever \cup {Mint(job)}
          /\ call' = [call EXCEPT ![job.by].phase = "minted",
                                  ![job.by].rec = Mint(job)]
  /\ UNCHANGED history

\* A row is keyed by its version: the put replaces the row of that version.
LandSnapshot(job) ==
  /\ history' = {r \in history : r.version # job.rec.version} \cup {job.rec}
  /\ call' = [call EXCEPT ![job.by].phase = "trim"]
  /\ UNCHANGED <<doc, ever>>

LandDrop(job) ==
  /\ history' = {r \in history : r.version # job.rec.version}
  /\ call' = [call EXCEPT ![job.by].phase = "dropped"]
  /\ UNCHANGED <<doc, ever>>

\* A settled promise resumes its caller, up to the caller's next await, before
\* the next write can come back from the backend.
Settled ==
  \A c \in Callers : call[c].phase \in {"idle", "update", "put", "snapshot", "drop"}

Land ==
  /\ chain # <<>> /\ Settled
  /\ LET job == Head(chain) IN
     \/ job.kind \in {"update", "put"} /\ LandRecord(job)
     \/ job.kind = "snapshot" /\ LandSnapshot(job)
     \/ job.kind = "drop" /\ LandDrop(job)
  /\ chain' = Tail(chain)
  /\ UNCHANGED <<kicked, counters>>

\* The backend rejects the write: the caller's write rejects with it, at
\* whatever step it was.
Reject ==
  /\ chain # <<>> /\ Settled /\ faults < MaxFaults
  /\ faults' = faults + 1
  /\ chain' = Tail(chain)
  /\ call' = [call EXCEPT ![Head(chain).by] = Idle]
  /\ UNCHANGED <<doc, history, kicked, calls, crashes, ever>>

\* The process dies; the next one has kicked no seed yet.
Crash ==
  /\ crashes < MaxCrashes
  /\ crashes' = crashes + 1
  /\ chain' = <<>>
  /\ call' = [c \in Callers |-> Idle]
  /\ kicked' = FALSE
  /\ UNCHANGED <<doc, history, calls, faults, ever>>

-----------------------------------------------------------------------------
Init ==
  /\ IF Existing
     THEN \E x \in Contents : doc = NextRecord(None, x) /\ history = {doc} /\ ever = {doc}
     ELSE doc = None /\ history = {} /\ ever = {}
  /\ chain = <<>>
  /\ call = [c \in Callers |-> Idle]
  /\ kicked = FALSE
  /\ calls = 0 /\ faults = 0 /\ crashes = 0

Next ==
  \/ \E c \in Writers : UpdateIdentity(c) \/ RevertIdentity(c)
  \/ ServeSeed
  \/ \E c \in Callers : PutFirst(c) \/ PutSnapshot(c) \/ TrimHistory(c) \/ TrimMore(c)
  \/ Land \/ Reject \/ Crash

Spec == Init /\ [][Next]_vars

-----------------------------------------------------------------------------
(* Properties.                                                             *)

Docs == Version \cup {None}

Jobs ==
  [by: Callers, kind: {"update", "put", "snapshot", "drop"}, rec: Version]

Phases == {"idle", "update", "missing", "put", "minted", "snapshot", "trim",
           "drop", "dropped"}

\* Every variable keeps its type.
TypeOK ==
  /\ doc \in Docs
  /\ history \subseteq Version
  /\ chain \in Seq(Jobs)
  /\ call \in [Callers -> [phase: Phases, rec: Docs, cut: SUBSET Version]]
  /\ kicked \in BOOLEAN
  /\ calls \in Nat /\ faults \in Nat /\ crashes \in Nat
  /\ ever \subseteq Version

\* Racing rewrites of an existing document never mint the same version: each
\* one that lands is the version after the one it replaces (the comment in
\* writeIdentity).  A document's first writes are the exception it names.
VersionsAdvance ==
  [][doc # None => doc'.version = doc.version + 1]_doc

\* A row of the history is the text that was current under its version, so a
\* revert restores what the document really said then, through races between
\* a rewrite, a revert and the trim, and through crashes between the steps.
HistoryFaithful == history \subseteq ever

\* The document, once it exists, is the abstract versioned document.
Promise == INSTANCE VersionedDocument

PromiseKept == Promise!DocSpec

=============================================================================
