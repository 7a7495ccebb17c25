----------------------------- MODULE Suggestions -----------------------------
(***************************************************************************)
(* The pending-review queue of src/store/index.ts: what models, tools and  *)
(* extractions propose waits here for a human to adopt or reject it.       *)
(*                                                                         *)
(* As in MemoryStore, reads are synchronous and every write is a job on    *)
(* the one chain of the domain.  A row found similar is bumped by a put of *)
(* the whole row; nothing locks a row between its read and its write.      *)
(***************************************************************************)
EXTENDS Integers, Sequences, FiniteSets

CONSTANTS
  Proposers,   \* concurrent observations: tools, extraction, consolidation
  Reviewers,   \* concurrent human decisions
  Ids,         \* suggestion ids; an observation mints a fresh one
  Subjects,    \* what an entry proposal says: similar texts are one subject
  Documents,   \* identity documents
  Targets,     \* entries a proposal may want to change
  Cap,         \* suggestionCap
  MaxCalls,    \* bound: observations and decisions in a behaviour
  MaxFaults,   \* bound: rejected backend writes
  MaxCrashes,  \* bound: process crashes
  None         \* no target, no row

ASSUME SuggestionsAssumption ==
  /\ Subjects \cap Documents = {} /\ None \notin Targets
  /\ Proposers \cap Reviewers = {}
  /\ IsFiniteSet(Proposers) /\ IsFiniteSet(Reviewers)
  /\ Cap \in Nat \ {0}
  /\ MaxCalls \in Nat /\ MaxFaults \in Nat /\ MaxCrashes \in Nat

Proposal ==
  [about: Subjects, target: Targets \cup {None}]
  \cup [about: Documents, target: {None}]

Row ==
  [about: Subjects, target: Targets \cup {None}, hits: Nat]
  \cup [about: Documents, target: {None}, hits: Nat]

ASSUME NoneAssumption == None \notin Row

Clients == Proposers \cup Reviewers

VARIABLES
  queue,     \* the suggestions table
  chain,     \* queued writes: [by, kind, id, row]
  call,      \* per client: [phase, id, todo]
  minted,    \* ids ever handed out
  calls, faults, crashes,
  seen,      \* history: observations of a row that reached the queue
  revived,   \* history: rows that came back, bumped behind their own delete
  written,   \* history: how often the adoption of a row reached memory
  adopted    \* history: rows an adoption has removed from the queue

vars == <<queue, chain, call, minted, calls, faults, crashes, seen,
          revived, written, adopted>>
counters == <<calls, faults, crashes>>
history == <<seen, revived, written, adopted>>

Rows == {s \in Ids : queue[s] # None}

(* phase: idle, or awaiting the put of a "bump" or "join", a "trim" delete, *)
(* the "write" to memory, the "rest" of that operation (its audit, history  *)
(* and eviction writes) or the "delete" of a decided row; or answered:      *)
(* "joined", "trimmed".  id: the row.  todo: the rows trimSuggestions has   *)
(* left to delete.                                                          *)
Idle == [phase |-> "idle", id |-> None, todo |-> {}]

Enqueue(c, frame, kind, s, row) ==
  /\ chain' = Append(chain, [by |-> c, kind |-> kind, id |-> s, row |-> row])
  /\ call' = [call EXCEPT ![c] = frame]

Goto(c, frame) == call' = [call EXCEPT ![c] = frame] /\ UNCHANGED chain

Begins(c) ==
  /\ call[c].phase = "idle"
  /\ calls < MaxCalls /\ calls' = calls + 1
  /\ UNCHANGED <<queue, faults, crashes, history>>

-----------------------------------------------------------------------------
(* observeSuggestion and observeIdentitySuggestion.                        *)

\* Mutant: without a target nothing is looked for.
MatchesTarget(p, row) == p.target # None /\ row.target = p.target

\* The same target wins outright, and only it; otherwise similar content, or
\* the same document.
Matches(p, row) ==
  IF p.target # None THEN row.target = p.target ELSE row.about = p.about

Matched(p) == {s \in Rows : Matches(p, queue[s])}

\* Mutant: the bump starts the count again.
BumpedAfresh(row) == [row EXCEPT !.hits = 1]

Bumped(row) == [row EXCEPT !.hits = @ + 1]

\* Which of several matches comes first is the order of the table, left open.
Bump(c) ==
  /\ Begins(c)
  /\ \E p \in Proposal : \E s \in Matched(p) :
       Enqueue(c, [Idle EXCEPT !.phase = "bump", !.id = s], "put", s, Bumped(queue[s]))
  /\ UNCHANGED minted

FirstSeen(p) == [about |-> p.about, target |-> p.target, hits |-> 1]

Join(c) ==
  /\ Begins(c)
  /\ \E p \in Proposal, s \in Ids \ minted :
       /\ Matched(p) = {}
       /\ minted' = minted \cup {s}
       /\ Enqueue(c, [Idle EXCEPT !.phase = "join", !.id = s], "put", s, FirstSeen(p))

\* Mutant: one row too many is tolerated.
OverCapByTwo == Cardinality(Rows) > Cap + 1

OverCap == Cardinality(Rows) > Cap

\* The rows with the fewest hits.  The tie-breaker, lastSeenAt, is a clock and
\* is left open.
Victims ==
  {V \in SUBSET Rows :
     /\ Cardinality(V) = Cardinality(Rows) - Cap
     /\ \A v \in V, w \in Rows \ V : queue[v].hits <= queue[w].hits}

\* The order of the deletes is left open with the tie-breaker.
DropNext(c, V) ==
  \E s \in V :
    Enqueue(c, [Idle EXCEPT !.phase = "trim", !.id = s, !.todo = V \ {s}], "delete", s, None)

\* trimSuggestions, after a row has joined.
Trim(c) ==
  /\ call[c].phase = "joined"
  /\ IF OverCap THEN \E V \in Victims : DropNext(c, V) ELSE Goto(c, Idle)
  /\ UNCHANGED <<queue, minted, counters, history>>

TrimMore(c) ==
  /\ call[c].phase = "trimmed"
  /\ IF call[c].todo = {} THEN Goto(c, Idle) ELSE DropNext(c, call[c].todo)
  /\ UNCHANGED <<queue, minted, counters, history>>

-----------------------------------------------------------------------------
(* adoptSuggestion and rejectSuggestion.                                   *)

\* The row is read here; the write is the update of its target, the add of an
\* entry, or the rewrite of the document.
Adopt(c) ==
  /\ Begins(c)
  /\ \E s \in Rows :
       Enqueue(c, [Idle EXCEPT !.phase = "write", !.id = s], "write", s, queue[s])
  /\ UNCHANGED minted

\* Mutant: the row is left in the queue.
AdoptedLeavesRow(c) ==
  /\ call[c].phase = "rest"
  /\ Goto(c, Idle)
  /\ UNCHANGED <<queue, minted, counters, history>>

\* The store operation has returned: the row goes.
Adopted(c) ==
  /\ call[c].phase = "rest"
  /\ Enqueue(c, [call[c] EXCEPT !.phase = "delete"], "adopted", call[c].id, None)
  /\ UNCHANGED <<queue, minted, counters, history>>

\* A later write of the store operation is rejected: the adoption rejects, and
\* its row stays.
AdoptFails(c) ==
  /\ call[c].phase = "rest"
  /\ faults < MaxFaults /\ faults' = faults + 1
  /\ Goto(c, Idle)
  /\ UNCHANGED <<queue, minted, calls, crashes, history>>

RejectSuggestion(c) ==
  /\ Begins(c)
  /\ \E s \in Rows :
       Enqueue(c, [Idle EXCEPT !.phase = "delete", !.id = s], "delete", s, None)
  /\ UNCHANGED minted

-----------------------------------------------------------------------------
(* The chain, and the process.                                             *)

Answer(f) ==
  CASE f.phase = "join" -> [f EXCEPT !.phase = "joined"]
    [] f.phase = "trim" -> [f EXCEPT !.phase = "trimmed"]
    [] f.phase = "write" -> [f EXCEPT !.phase = "rest"]
    [] OTHER -> Idle

\* A settled promise resumes its caller, up to the caller's next await, before
\* the next write can come back from the backend.
Settled == \A c \in Clients : call[c].phase \notin {"joined", "trimmed"}

Land ==
  /\ chain # <<>> /\ Settled
  /\ LET job == Head(chain) IN
     /\ queue' = CASE job.kind = "put" -> [queue EXCEPT ![job.id] = job.row]
                   [] job.kind \in {"delete", "adopted"} -> [queue EXCEPT ![job.id] = None]
                   [] OTHER -> queue
     /\ call' = [call EXCEPT ![job.by] = Answer(@)]
     /\ seen' = IF job.kind = "put" THEN [seen EXCEPT ![job.id] = @ + 1] ELSE seen
     /\ revived' = IF call[job.by].phase = "bump" /\ queue[job.id] = None
                   THEN revived \cup {job.id} ELSE revived
     /\ written' = IF job.kind = "write" THEN [written EXCEPT ![job.id] = @ + 1]
                   ELSE written
     /\ adopted' = IF job.kind = "adopted" THEN adopted \cup {job.id} ELSE adopted
  /\ chain' = Tail(chain)
  /\ UNCHANGED <<minted, counters>>

\* Mutant: an adoption whose write failed goes on.
ThrownNot(f) == IF f.phase = "write" THEN [f EXCEPT !.phase = "rest"] ELSE Idle

\* Whatever the write was, its call rejects.
Thrown(f) == Idle

Reject ==
  /\ chain # <<>> /\ Settled /\ faults < MaxFaults
  /\ faults' = faults + 1
  /\ call' = [call EXCEPT ![Head(chain).by] = Thrown(@)]
  /\ chain' = Tail(chain)
  /\ UNCHANGED <<queue, minted, calls, crashes, history>>

Crash ==
  /\ crashes < MaxCrashes /\ crashes' = crashes + 1
  /\ chain' = <<>>
  /\ call' = [c \in Clients |-> Idle]
  /\ UNCHANGED <<queue, minted, calls, faults, history>>

Init ==
  /\ queue = [s \in Ids |-> None]
  /\ chain = <<>>
  /\ call = [c \in Clients |-> Idle]
  /\ minted = {}
  /\ calls = 0 /\ faults = 0 /\ crashes = 0
  /\ seen = [s \in Ids |-> 0]
  /\ revived = {} /\ written = [s \in Ids |-> 0] /\ adopted = {}

Next ==
  \/ \E c \in Proposers : Bump(c) \/ Join(c) \/ Trim(c) \/ TrimMore(c)
  \/ \E c \in Reviewers : Adopt(c) \/ Adopted(c) \/ AdoptFails(c) \/ RejectSuggestion(c)
  \/ Land \/ Reject \/ Crash

Spec == Init /\ [][Next]_vars

-----------------------------------------------------------------------------
(* Properties.                                                             *)

Jobs ==
  [by: Proposers, kind: {"put"}, id: Ids, row: Row]
  \cup [by: Clients, kind: {"delete"}, id: Ids, row: {None}]
  \cup [by: Reviewers, kind: {"adopted"}, id: Ids, row: {None}]
  \cup [by: Reviewers, kind: {"write"}, id: Ids, row: Row]

Phases == {"idle", "bump", "join", "joined", "trim", "trimmed", "write", "rest", "delete"}

\* Every variable keeps its type.
TypeOK ==
  /\ queue \in [Ids -> Row \cup {None}]
  /\ chain \in Seq(Jobs)
  /\ call \in [Clients -> [phase: Phases, id: Ids \cup {None}, todo: SUBSET Ids]]
  /\ minted \subseteq Ids
  /\ calls \in Nat /\ faults \in Nat /\ crashes \in Nat
  /\ revived \subseteq Ids /\ adopted \subseteq Ids
  /\ seen \in [Ids -> Nat] /\ written \in [Ids -> Nat]

AtRest == \A c \in Clients : call[c].phase = "idle"

\* A human yes is never lost: a row leaves the queue through its adoption only
\* after the adopted content has reached memory, also when the write fails or
\* the process dies between the two.
YesNeverLost == \A s \in adopted : written[s] > 0

\* One reviewer's yes is written once: without a failure a row is written a
\* second time only if it was proposed again while its removal was queued.
YesWrittenOnce ==
  faults = 0 /\ crashes = 0 /\ Cardinality(Reviewers) = 1
    => \A s \in Ids : written[s] > 1 => s \in revived

\* Frequency is signal: overlapping observations of a row may count once, but
\* no more of them than can overlap; every other observation raises its hits.
FrequencyIsSignal ==
  \A s \in Rows : seen[s] - 1 <= Cardinality(Proposers) * (queue[s].hits - 1)

\* Rows about the target of a proposal, or about its subject and no target.
Twins(p) ==
  {s \in Rows : queue[s].target = p.target /\ (p.target = None => queue[s].about = p.about)}

\* Nothing locks a subject between the look for its row and the put of one, so
\* it may get several rows; but only as many as observations can overlap, also
\* when rows are decided, evicted and put back, and writes fail, meanwhile.
TwinsBounded == \A p \in Proposal : Cardinality(Twins(p)) <= Cardinality(Proposers)

\* Once every call is over the queue is within its cap, but for the rows that
\* a bump put back behind their own eviction.
CapSettles ==
  AtRest /\ faults = 0 /\ crashes = 0
    => Cardinality(Rows) <= Cap + Cardinality(revived)

=============================================================================
