# dsh-memory in TLA+

A verification development for dsh-memory, the long-term memory plugin of the
DSH agent harness: what its state machines are, what must hold of them under
every interleaving of their callers, and which of that is checked by TLC on
small instances and proved by TLAPS for all of them. Paths are relative to the
repository root.

## 1. The system

dsh-memory is a set of plugins around one store. One Node process runs all of
them; concurrency is that of JavaScript: a function runs undisturbed up to its
next `await`, and many calls are suspended at once. Several things start calls
without waiting for them (recall stamps, hits, the janitor, the seed write,
flushes, the sweep), so calls overlap as a matter of course.

| Component | State | Operations | Talks to |
|---|---|---|---|
| Memory store, `src/store/index.ts` | tables `entries`, `audit`, `suggestions`, `meta`; the audit sequence | add, update, remove, pin, unpin, archive, unarchive, supersede, search, recall stamps, hits, janitor, getRaw, eviction, audit trim | the host's storage domain: reads from memory, writes as jobs on one chain for all tables |
| Suggestion queue, same class | table `suggestions` | observe, adopt, reject, trim | add, update, updateIdentity of the store |
| Identity documents, same class and `src/identity/` | tables `identity`, `identity_history`; which seeds were kicked | update, revert, history trim; snapshot with seed-once | context asks for snapshots; tool, adoption and remote write |
| Backend selection, `apply` in `src/store/index.ts` | the medium `memory.json`, its marker, `memory.db` | boot, import, clear, mark | both stores |
| SQLite store, `src/store/sqlite.ts` | the tables of `memory.db` | the same operations, each one synchronous | - |
| Cross-process guard, `src/store/cross-process.ts` | the owner stamp on the medium, "alerted" | startup claim, probe, goodbye | another process through the file |
| Agent tools, `src/tool/` | - | memory_add, memory_replace, memory_remove, memory_forget, memory_get, memory_list, memory_search, identity_update | the store; the queue in confirm mode |
| Review, `src/review/index.ts`, `extract.ts`, `dedup.ts` | high-water mark and call budget per session, session counters | drain before a step, flush on compaction and dispose, curator, sweep, janitor trigger | the language model, the store |
| Accumulator, `src/review/accumulator.ts` | candidates, open calls, failure streaks | fold over session events | review drains it |
| Consolidation and sweep, `src/review/consolidate.ts`, `sweep.ts` | the batch's live view | ask for verdicts, apply them | the store |
| Prompt context, `src/context/` | a snapshot, digest and hit ledger per session | render sections, auto-recall, count hits | the store, identity, notes |
| Notes, `src/notes/` | - | render project notes from the store | the context asks for them at a freeze |
| Remote service, `src/remote/` | two write gates | every store operation for the management UI | the store |
| Client, `src/client/` | the page: rows, total, filters, last ticket, cached matches, proposals | load, reload, load more, filters, actions, inline editor | the remote service |
| Search ranking, scanner, benchmark, eval | - | pure functions, fixtures | - |

What makes each correct, and what is hard about it:

- **Store.** A write carries either a record its caller built from an earlier
  read (`put`), or a transform that re-reads at its slot (`update`). Correct
  means: no signal rolls an edit back; a removed entry stays removed; caps hold
  once writers are done; the audit trail has each removal once and in order;
  every call comes back. Hard: reads before an await, snapshots of the janitor
  and of eviction, rejected writes, crashes with writes queued.
- **Queue.** A human yes reaches memory and is written once; repeated proposals
  count on one row; the queue stays bounded. Hard: nothing locks a row between
  its read and its put, a decision overlaps observations and the trim, a crash
  falls between the write and the delete.
- **Identity.** Versions advance one by one, a history row is what the document
  said, the seed never replaces what the agent wrote. Hard: three or four
  awaited writes per rewrite, first writes racing the seed.
- **Migration.** No entry is lost and only one backend is ever the truth. Hard:
  crashes at each step, the backend switched between boots.
- **Cross-process.** Two live writers are told; a dead or closed one is not
  reported. Hard: the goodbye is a read and a write of the whole file.
- **Review.** Every candidate is extracted at least once, a session's calls stay
  within budget, a verdict never destroys what it did not see. Hard: the model
  is asked between reading and writing, drains overlap.
- **Accumulator.** A streak is closed by its own success only; tables stay
  bounded. Hard: concurrent calls answered out of order, eviction at the caps.
- **Consolidation and sweep.** A fact that was extracted is written or its loss
  was a verdict's; an entry is hidden only behind one that exists. Hard: verdicts
  are applied to a view taken before the model was asked.
- **Context and notes.** A session's sections do not change between its
  compactions, no entry is told twice or in neither section, a hit belongs to
  one answer. Hard: snapshots are frozen, settings are live.
- **SQLite store and tools.** Every entry comes and goes with one audit record;
  a pinned entry is not forgotten by a batch. Hard: failing transactions,
  crashes, loops that await between deletes.
- **Client.** A page at rest shows the store; its spinner ends. Hard: replies in
  any order, requests overtaken by requests.

## 2. Modules

| Module | Models |
|---|---|
| `MemoryStore` | the store's operations on entries and audit over the write chain |
| `Identity` | one identity document: the write path and the seed-once service |
| `VersionedDocument` | abstract: what the identity layer promises of a document |
| `Suggestions` | the pending-review queue: observe, adopt, reject, trim |
| `Migration` | backend selection and migration over boots and crashes |
| `Accumulator` | the fold over session events that collects candidates |
| `Review` | drains, flushes, mark and budget; extends `Accumulator` |
| `Consolidation` | how extracted facts reach the store, the sweep and the curator |
| `PromptContext` | what a session is told, hits, notes; extends `Identity` |
| `CrossProcess` | several processes on one unit file |
| `SqliteStore` | the store over `memory.db`, one transaction per operation |
| `MemoryBook` | abstract: entries and what the audit trail says of them; kept by the SQLite store and over a change of the backend |
| `AgentTools` | the memory tools; extends `SqliteStore` |
| `MemorySection` | remote service and settings page; extends `AgentTools` |
| `MC*` | instances for TLC |
| `MemoryStoreProofs`, `SuggestionsProofs`, `MigrationProofs`, `ReviewProofs`, `ConsolidationProofs`, `CrossProcessProofs` | theorems about the module of that name, and their proofs |
| `IdentityProofs` | theorems about `Identity` and, through it, `PromptContext` |
| `MemorySectionProofs` | theorems about `MemorySection`, `AgentTools` and `SqliteStore`, and that they implement `MemoryBook` |

Three stacks compose components: `Review` over `Accumulator` (the drains read
the candidates the fold collects), `PromptContext` over `Identity` (a freeze asks
the seed-once service, whose write races writers of the document), and
`MemorySection` over `AgentTools` over `SqliteStore` (a page whose requests are
served between the calls of agents).

### MemoryStore

`chain` is the domain's write chain: jobs `[by, kind, id, val]`. A *put* or
*delete* carries its value, the kinds *tool*, *fence*, *hit*, *guard* and
*decay* stand for the transforms of `KvTable.update`, evaluated on the record
current when the job lands (`Written`, `Took`). `call[c]` is where a suspended
call is: `phase` names the await, `todo` what its loop has left. Correspondence:

- the first segment of each operation is an action: `Add`, `Update`, `Pin`,
  `Unpin`, `Archive`, `Unarchive`, `Supersede`, `Remove`, `ReadRaw`, `Signal`
  (search, get, list, auto-recall and hits) and `Janitor`;
- what follows an await: `Resume` (the audit append of `appendAudit`),
  `Audited` and `TrimAudit` (`trimAudit`), `TrimEntries` (`trimEntries`),
  `Step` (one turn of the loop of `stampRecalled`, `markHits`, `janitor` or
  `trimEntries`), `Guarded` (the hard decay's delete after its guard);
- the host: `Land` and `Reject` take the head of the chain to the backend and
  memory or fail it; `Crash` loses the chain and the calls and reads the audit
  sequence back from the table; `Ageing` lets decay windows pass.

Abstractions. Contents are model values; scanning and validation throw before
any await and change nothing. Clocks are three ages (fresh, overdue, overdue
under the 1.5x grace); the last tie-breaker of eviction, a clock, is left open;
the skip of a stamp that repeats one of the same millisecond is left out. The
audit order is by sequence number: `ts` is taken together with it, so the two
agree while the wall clock does not go back. A search returns any non-empty set
of entries. `supersededBy` and its annotation are wording. `Settled`: when a
write settles, its caller runs to its next await before the next write of the
chain can come back from the backend (promise reactions precede I/O).

### Identity and VersionedDocument

One document (the two kinds are independent) and its history rows. A rewrite is
the chain *update*, or *update* then *put* when there was no record, then
*snapshot*, then *drop* per excess row; a rejected job ends it. `ServeSeed` is
`snapshotFor` on a document that has no record. `ever` records every version
that has been current. `VersionedDocument` says what callers rely on: the next
version at each rewrite, snapshots only of versions that were current, drops
only of the oldest. `PromiseKept` is the refinement, by the same variables.

### Suggestions

The table `suggestions` over the same kind of chain. A proposal is `about` a
subject (a class of similar texts) or a document, and may have a `target`
entry; `Matches` is the dedup rule of the code for all three. An observation is
`Bump` (a put of the whole row it found) or `Join` (a put of a new one, then
`Trim` and `TrimMore`, the deletes of `trimSuggestions`). An adoption is
`Adopt`, whose write to memory stands for `update`, `add` or `updateIdentity`,
then the rest of that operation, then `Adopted`, the delete of the row, or
`AdoptFails`. How many further jobs that operation queues is left open: the
caller may be in "rest" for any time. Which of several matches comes first, and
the clock that breaks ties of the trim, are left open too. Texts, categories and
summaries merged into a bumped row are abstracted: with two overlapping bumps
the longer text can be lost like the hit is. History variables: `seen` counts
the puts of a row, `written` its adoptions that reached memory, `adopted` and
`revived` are the rows removed by an adoption and the rows put back by a bump
queued behind their own delete.

### Migration

The rows of the five data tables on each side, the marker, and the mode of the
process. A boot may choose either backend. The import is one transaction, the
clear goes row by row in table order, then the marker; a crash may fall between
any two. The audit table of the database has no key, so an audit row is
`<<key, n>>` with the boot `n` that inserted it (0 for one written here): what is
imported again is there again (`Inserted`), while every other table replaces.
Each side is served by coarse operations (an add with its audit record,
a removal, a suggestion, an identity rewrite): the atomicity of the operations
is the subject of the other modules. `Held` and `Ledger`, the entries and audit
records of both sides, are the `MemoryBook` of the migration (between import and
clear the medium's audit rows are copies, and counted once). The cap of the trail
is left out here.

### Accumulator and Review

An event of the session is one step of the fold `applyAccumulator`: a user
message with a signal, a tool call, a tool result. A call is named by the number
of its event; what `detectSignal` and `toolSignature` compute from text is a
choice. `EvictToCap` keeps the youngest. History variables replay the trace
without caps (`pending`, `failing`, `resolved`) and name what a cap cost
(`lossy`).

`Review` has one drain per agent of the session. `StartDrain` is the pre-step
hook up to its await: threshold, budget, charge, the batch above the mark.
`DrainAnswered` is the return of one of the two calls (pitfalls, then the rest);
the last one sets the mark from what the drain read before (`FinishDrain`), so
the mark may go back. `DrainFailed` leaves it. `Compact` and `Dispose` flush the
messages a compaction replaces, or all that are left. `Restart` empties mark and
budget, which are kept in WeakMaps, while the accumulator comes back from the
event log.

### Consolidation

A content is a set of facts; `MergeContent` and `MERGE_CHAR_LIMIT` count facts. A
store call is one step. A batch *asks* (its view `live` of the store is taken),
*applies* verdicts one by one, and *adds* what no verdict claimed; a conflict is
two steps, the fresh entry and the supersession. The legacy judge is asked per
fact. A pass (sweep or curator) asks about pairs or the oldest entries and
applies verdicts to what it saw. People edit and remove at any step, and calls
are rejected. Verdicts are anything the parsers let through. History variables
say why a fact may be gone: `givenUp` (a verdict on a view that had it, or a
removal), `exposed` (written while somebody held an older view), `missed` (its
add rejected or its target gone). The model has one scope (the code asks about
pairs of one scope before pairs across scopes: which pairs are asked is a choice
here), and no cooldown stamp.

### PromptContext

`Freeze` is `freezeFor`: the entries told whole, the index, the notes, the
identity text, and the standing ledger, under the settings of that moment. The
sections are then functions of the snapshot and the *live* settings
(`MemorySection`, `NotesSection`, `SoulSection`). `PreStep` sends the digest once
per prefix and the fence; `Answer` books any of the entries in the ledger.
`StoreWritten` moves an entry between absent, active, stale and superseded;
every other component may be its author. A text is the set of entries it tells.
Budgets in characters are positive; what does not fit is counted in a note, and
the ledgers keep entries a limit has cut (section 6).

### CrossProcess

The file, and per process what its domain holds. `Publish` is the host's write
of the whole unit: it renames a new file over the old one, so a goodbye that is
writing the old file writes a file nobody reads. `Boot` judges the stamp,
`Claim` publishes the own one, `Probe` reads the file, the goodbye is three steps
(`GoodbyeRead`, `GoodbyeTruncate`, `GoodbyeWrite`) with publishes between them.
`Close` without `Exit` is a reload of the plugin in a process that lives on;
`ReusePid` gives a dead process's pid to an unrelated one.

### SqliteStore, MemoryBook, AgentTools

`node:sqlite` is synchronous, so an operation without an await is one step, and
`Transaction` lands rows and records together or neither; a failure keeps the
audit numbers it handed out, as the counter in memory does. The janitor has a
transaction per entry, oldest first: it commits those of a prefix and may throw
in the next one. The 1.5x grace of important entries is left out here
(`MemoryStore` has it). The adoption of a
proposal is two steps. Ids are in order of creation, `recent` orders them by last
recall, and content is plain, edited, one the scanner refuses, or the
placeholder. `MemoryBook` says that entries come and go with one record each;
`BookKept` is the refinement, with `held` mapped to the ids in the table.

`AgentTools` has one action per tool. A call reads the human-confirm switch live,
so each may write or propose. `memory_forget` is `ForgetSearch` and then
`ForgetNext` per entry. `Background` stands for the writes of other components
between two calls.

### MemorySection

A request is served at some step (`Serve...`, the remote method over the store)
and handled at a later one (`...Answered`, the code after the await). First
batches and appends carry tickets. A search caches its matches before it looks
at the ticket, and a load as soon as its search has answered: the rest it asks
for (health, projects, then proposals) is one request here, served after the
batch, which may fail the load. A pin asks for the opposite of what the row
showed, so an old row may ask for what is so already. An action (`ActAnswered`) refreshes proposals and, after health,
the list. `Save` sends the draft: the text the row showed, the raw text when it
came in time, or what was typed. The page allows any number of actions at once;
the model has one in flight at a time, beside any number of other requests.

## 3. Runs

| Run | Instance | Shows |
|---|---|---|
| `store_signals` | 2 callers, 1 entry, 2 contents, audit cap 1, 4 calls, 1 rejected write | `ContentIsLastEdit`: stamps, hits and decay never roll an edit back; `HitsAccountedFor`: no hit is counted twice, and none is lost but beside a queued edit; and under fairness `CallsReturn`, whatever is rejected |
| `store_status` | 2 callers, 2 ids (one minted), audit cap 1, 3 calls, 1 rejection, 1 crash | `GoneForGood`; `AuditInAppendOrder`, also over the crash; `AuditKeepsNewest`; `EarlierSignalHonored` |
| `store_limits` | 2 callers, 3 ids, entry cap 1, audit cap 3, 4 calls | `CapHoldsAtRest`, `RemovalAuditedOnce` |
| `identity_races` | 3 callers, 6 calls, history cap 2, 1 rejection, 1 crash | `VersionsAdvance`, `PromiseKept` |
| `identity_first` | no document, 2 writers and the seed, 4 calls, history cap 1, 1 rejection, 1 crash | `HistoryFaithful`, through first writes that mint version 1 twice |
| `suggestions_races` | 2 observers, 1 reviewer, 3 rows, cap 1, 6 calls, 1 rejection, 1 crash | `YesNeverLost`, `YesWrittenOnce`, `FrequencyIsSignal`, `CapSettles`, `TwinsBounded` |
| `migration_crash` | 2 keys, 2 versions, 4 boots, 3 crashes | `NothingLost`, `CleanMigrationSticks`, and the refinement `BookCarried` |
| `review` | 2 agents, 5 events, 2 signatures (one failed once before), caps 2 and 1, threshold 2, budget 2, 1 fault | `PitfallsExact`, `MarkMeansExtracted`, `CallsWithinBudget`, `DisposeLosesNothing`, and under fairness `BacklogDrained` |
| `consolidation` | a batch of 2 facts, a pass, 2 entries, 1 event of people or store | `EveryFactWritten`, `NothingVanishes`, `SuccessorStored` |
| `sessions` | 1 session, a convention of this project and a pitfall of another, 3 events, no document at first, 1 writer, 1 rejection, 1 crash | `NoDoubleInjection`, `NothingFallsBetween`, `PrefixStable`, `HitsPerRound`, `IdentityAlwaysServed` |
| `cross_process` | 2 pids, 3 boots, 2 writes, 1 failure, 1 kill, 1 reused pid | `TurnsLoseNothing`, `SilentOnRestart`, and under fairness `OverlapNoticed` |
| `surfaces` | 2 imported entries (one blocked, one of a project) of at most 3, cap 2, page size 1, 3 calls, or a call and a click, or 2 clicks, 1 fault | `BookKept`, `PinMeansNeverForget`, `QuietPageIsTrue`, and under fairness `LoadingMoreEnds` |

No run checks a type invariant: `TypeCorrect` of `MemoryStore`, `Identity` and
`Suggestions` is proved, and the inductive invariants of the other modules
contain theirs.

What the properties mean, where their name does not say it:

- `HitsAccountedFor` bounds the counter from both sides. The code does undo a hit
  that lands while an edit of the entry is queued (section 6); `hitsBeside` counts
  those, and no other hit may be missing.
- `TwinsBounded`: overlapping observations do make two rows for one subject (see
  section 6), but never more rows than there are observers that can overlap, also
  when rows are decided, evicted and revived in between.
- `BookCarried`: as long as no crash interrupts it, a change of the backend is no
  event of the `MemoryBook`: what boots, imports, clears and marks leave it as it
  was, and each operation on either side is one write of it. An audit record is
  one row: none is lost on the way, and none is there twice.
- `PitfallsExact` compares the fold with a trace that forgets nothing: a
  signature that lost nothing to a cap has a candidate for exactly the successes
  after enough failures.
- `MarkMeansExtracted`: what the mark has passed was in a call that succeeded.
  `CallsWithinBudget`: a trigger is charged once and makes up to two calls, so
  the bound is twice the budget. `DisposeLosesNothing`: without faults and
  refusals the flushes fit together. `BacklogDrained`: enough waiting candidates
  are extracted in the end.
- `EveryFactWritten` and `NothingVanishes` say that timing alone loses nothing;
  their exceptions (`missed`, `exposed`, `givenUp`) are the places where the code
  does lose a fact, named in section 6.
- `NothingFallsBetween` is about the moment of the freeze; `NoDoubleInjection`
  holds for the prompt as assembled under any later settings.
- `SilentOnRestart` lists what may cause an alarm besides a mounted boot: a
  write behind a goodbye, a failure, a reused pid.
- `QuietPageIsTrue` holds of a page that waits for nothing, whose rows come from
  one listing, and of a store not written since.

Bounds. `MaxCalls`, `MaxFaults`, `MaxCrashes`, `MaxBoots`, `MaxVersion`,
`MaxEvents`, `MaxWrites`, `MaxKills`, `MaxReuses`, `MaxIds` and `MaxRows` bound
behaviours through guards; `CallCost` and `ClickCost` share one budget between
agents and user. Three or four calls from two callers allow every ordered pair
of operations to overlap at every await, with another before, between or behind
them, which is what lost updates, double removals, and two overlapping trims
need. A cap of one and three ids make both adds evict. An audit cap of one makes
every append trim. In `Identity` the history cap of two with six rewrites
overflows four times and lets two trims overlap. In `Suggestions` a cap of one
makes each second row a trim, two observers are what a lost hit and a revival
need, and six calls leave two decisions beside them. In `Migration` four boots
allow host, migrate, crash, and either backend twice. In `Review` five events
fit a batch with candidates of both kinds, or an overflow of either cap, and a
second agent whose drain overlaps the first. In
`Consolidation` two facts and two entries are the least for a pair, a merge, a
conflict and a second verdict on an entry the first one changed; one event is
the edit, removal or rejection in between. In `PromptContext` one session is
enough, for sessions share only the store and the identity document; two entries
are one the notes render and one they do not, with a cap of one that cuts. In
`CrossProcess` two processes and three boots give a boot that follows a dead
one next to a live one. In `surfaces` a page size of one makes the second row a
"load more"; more calls and clicks than its bounds allow at once are
covered by the three safety theorems of section 4. The mutants of `PROJECT.json` show for every property that the
interesting case is reached within its bounds.

Symmetry under permutation of callers, keys or rows is used only with safety
properties. `CHECK_DEADLOCK FALSE` is set because calls, events and boots are
bounded: when they are used up and nothing is suspended the system has stopped.

Fairness, only where a liveness property needs it, and never of new calls, of
faults, or of the choice of operation:

- `MemoryStore`: weak fairness of `Land`, since the host drains its chain and
  each backend write settles, and of each caller's next step, since a settled
  promise resumes its caller.
- `Review`: of each agent's `StartDrain`, since the hook runs before every step
  of an agent that goes on, and of `DrainAnswered \/ DrainFailed`: a call ends,
  with an answer, an error or its timeout.
- `CrossProcess`: of `Probe`, an interval timer.
- `MemorySection`: of `Serve` and `Answer`: a request is served or fails, and
  its continuation runs.

## 4. Proofs

The theorems hold for every value of the constants that satisfies the named
assumptions of the modules (`StoreAssumption`, `AbsentAssumption`,
`IdentityAssumption`, `NoneAssumption`, `SuggestionsAssumption`,
`MigrationAssumption`, `AccumulatorAssumption`, `ReviewAssumption`,
`ConsolidationAssumption`, `StoredAssumption`, `PromptAssumption`,
`CrossProcessAssumption`, `SqliteAssumption`, `ToolsAssumption`,
`SectionAssumption`). They say that caps, limits and bounds are numbers, positive
where the code needs it, that sets of clients, sessions and entries are finite
and kinds of actors disjoint, and that a sentinel is not a record. TLC evaluates
each on the runs. Any number of callers, entries, faults and crashes is covered.

Every theorem follows from an inductive invariant of its module:

**`MemoryStoreProofs`**

- `TypeCorrect`, `AuditStaysInOrder`, `RemovalIsFinal` from `StoreInv`. Typing
  alone is not inductive: what `Land` does to the caller depends on the caller
  being at the await that queued the job. `CallInv` says so: whoever has a job on
  the chain has one only, and awaits a job of that kind. The order of
  the audit table needs `OrderInv`: the queued audit puts, in chain order,
  continue the table, and no number exceeds `auditSeq`.
- `CallsNeverStall`, the safety half of `CallsReturn`, from `CallInv` and its
  converse `OwnJob`: a caller that waits has a job of its own on the chain. So
  while a call is under way the head of the chain can land, or the continuation of
  a settled promise is due; nobody waits for nothing, nor all for each other.
- `HitsAreCountedOnce` (`HitsInv`): the count of a record that waits in a put is
  off by no more than the hits that landed beside a queued edit, as is that of the
  record in the table; each hit that lands while the put waits is one of those.
- `SignalsAreHonored` (`HonorInv`): behind each decay on the chain, the entries
  its caller promised to spare are spared by a record or by a put in front of it
  (`SafeBefore`).
- `NewestAuditKept` (`KeptInv`): the numbers a trim has still to delete are, with
  the deletes it has queued, a prefix of the table at least `AuditCap` records
  before its end, however many trims overlap and however old their snapshots.
- `SignalsKeepContent` states `ContentIsLastEdit` for callers that do not also
  pin, archive or supersede: these put back the record they read, which is a
  divergence of section 6 and not a stamp, hit or decay. With the status
  operations the property is false, and the run `store_signals` that checks it
  leaves them out for the same reason.
- `RemovalsAreRecordedOnce` and `CapIsHeld`, for the operations of the run
  `store_limits` and the others that put back no record they have read
  (`NoPutBack`): a put back, queued behind a removal or an eviction, restores the
  entry, as section 6 tells, and then neither property holds. Both rest on
  `AddInv`: a queued job is what its caller will record of it (`FrameInv`), and an
  entry is put once, by the add that minted its id (`PutsNew`).
  - The record of a removal is queued after the delete has landed, so between the
    two the table and the trail disagree. `OnceInv` counts the trail as the audit
    table together with the audit records on the chain, and the callers that have
    removed an entry and still owe its record: an entry that is gone has one of
    either, one that stands has none of both. That the trail lacks nothing when
    it has as many records as numbers were handed out is a pigeonhole argument
    (`FullTable`).
  - Evictions that overlap decide on snapshots, so no count of victims holds
    between them. `RoomInv` says instead that while no add is under way, what
    stands and is not `Leaving` (queued for deletion, or still to be reached by an
    eviction) is within the cap, or everything that may be evicted is `Leaving`.
    `CapIsHeld` assumes that the medium was opened within the cap: only an add
    evicts, and a cap lowered since the last boot is not enforced before one.

**`IdentityProofs`** (one document, and what sessions are told of it)

- `TypeCorrect`, `HistoryIsFaithful` (`FaithInv`), for a document that exists and
  for one that does not: a record that has been minted is in `ever`, and so is
  that of every queued snapshot.
- `RewritesAdvance` and the refinement `ImplementsDocument`, for a document that
  exists (`Existing`): `OrderInv` adds that no first-write put is queued, and that
  a row a trim is about to drop is older than each row that stays. Without a
  document two first writes mint version 1 twice (section 6), so the hypothesis
  is needed.
- `ToldOnce`, `ToldSomewhere`, `AlwaysServed`, `PrefixIsStable` (`PromptInv`): a
  snapshot divides what it tells between index and notes, and covers what was
  active at the freeze; nothing but a freeze changes it.
- `OneHitPerRound` (`HitInv`): what waits for an answer was not hit since it was
  put up.

**`SuggestionsProofs`**

- `TypeCorrect`, `YesIsNeverLost` (`YesInv`): the content of a row is in memory as
  soon as its adoption is back from its write, and still when the delete is
  queued.
- `YesIsWrittenOnce` (`OnceInv`, on top of `RowInv`: an id is handed out once, and
  nobody works on a row that is about to join).
- `FrequencyCounts` (`SignalInv`): overlapping bumps read the same count, so no
  bound on one row is inductive by itself. At its present count a row has left
  out at most one observation per client and count, less those whose bump to that
  count is still queued (`Level`), and counts land in the order they were read.
- `CapIsKept` (`CapInv`): beyond the cap the queue holds only rows that no trim
  has seen, and rows a trim is about to delete.
- `TwinsAreBounded` (`TwinInv`): the rows of a subject in the table, together
  with those whose put is queued (`Brood`), are at most as many as the clients
  that propose. The number of rows alone is not inductive. A new row joins only
  when its client finds none in the table, so the brood is then what is queued,
  and each of its puts has a client that waits for it (`FewCome`); every other
  step makes the brood no larger.

**`MigrationProofs`**

- `MigrationLosesNothing` (`LostInv`: while the medium is being cleared the
  database holds what is left of it) and `MigrationSticks` (`CleanInv`).
- `MigrationCarriesTheBook`, the refinement of `MemoryBook` over changes of the
  backend (`BookInv`): until the first crash an entry is on one side, but for
  those a running migration has copied and not yet cleared (`Settled`); so an
  operation that takes an entry from its side takes it from the book. After a
  crash an entry may be on both sides and be removed from one, which is the
  divergence of section 6; there the theorem says nothing.

**`ReviewProofs`**

- `MarkIsHonest` (`MarkInv`): the batch of a drain is everything behind its mark
  up to the batch's last candidate, and in the second call its pitfalls are
  extracted already; so also a mark that goes back has passed nothing else.
- `BudgetHolds` (`BudgetInv`): the calls made and those still owed are at most
  twice what was charged. `EndIsComplete` (`FlushInv`): what a compaction or the
  end has hidden was handed to a flush.
- `FoldFindsPitfalls` (`FoldInv`): calls and streaks of the fold against those of
  a trace that forgets nothing, for each signature no cap has cost anything.

**`ConsolidationProofs`**

- `SuccessorExists` (`Typed` with the property: ids are positions and never taken
  back), `BatchIsComplete` (`FactsInv`: what a verdict or an add has claimed is
  accounted for).
- `FactsStay` (`VanishInv`): an actor that has not written yet believes all an
  entry says of its facts, or is a sweep that knows the fact of another entry;
  what a sweep knows of an entry, an entry it knows still says when it lands; and
  two sweeps never both miss different entries that say the same fact.

**`CrossProcessProofs`**: `TurnsKeepEverything` (`TurnsInv`: whoever may publish
holds what was written alone, and so does the copy a goodbye carries) and
`RestartsStaySilent` (`SilentInv`: an open stamp on a readable file belongs to a
process that still works, to one that wrote behind its goodbye, or to one that
was killed).

**`MemorySectionProofs`** (the SQLite store under tools, page and remote service)

- `BookIsKept`, the refinement of `MemoryBook`: every step is a step of the book
  or leaves entries and ledger alone (`BookStep`). `StoreInv` (no entry above the
  last id minted) makes an added entry a new one.
- `PinnedStays` (`AuditInv`, `ForgetInv`): the newest record of the trail survives
  the trim of its own transaction, so a removal that committed can be told from
  one that rolled back; and a batch delete is never about to take what was pinned
  when it searched.
- `QuietPagesAreTrue` (`PageInv`): a request that fetches a batch has a ticket of
  its own (`Tickets`), the one with the last ticket is about the filters and rows
  the page has now (`AboutPage`), and a reply that was served is right about the
  listing it read (`Answers`). So until a first batch with the last ticket comes
  back (`Painting`), the page is not quiet; and otherwise it reports an error, is
  mixed, or shows what its listing tells (`Right`). That the next batch of a
  listing carries on where the page ends, and none of its rows is left out as a
  repetition, is `AppendedRows`; that a listing has each of its entries once is
  `NewestListing`, by a bijection between a set of ids and its ranks.
- `SpinnerIsNeverIdle`, the safety half of `LoadingMoreEnds` (`SpinnerIsOwed`, with
  `PageInv`): while the page is loading more, an append or a reload with the last
  ticket is in flight, and its reply, good or bad, ends it.

Model-checked only: `CallsReturn`, `BacklogDrained`, `OverlapNoticed` and
`LoadingMoreEnds`, liveness under fairness and out of the prover's reach. Every
safety property and every refinement that a run checks is also proved, with the
hypotheses named above.

Changes that proofs forced. The order of a listing was a `SortSeq` and the rows an
append leaves out a `SelectSeq`, both defined by recursion, about which nothing
can be proved by induction here; `InOrder` gives the element of each rank
instead, which is the same sequence. As first stated, for every pin asked for
before the janitor's decision, `EarlierSignalHonored` was false with three
callers, one more than its run has: a put queued behind the pin, of a record read
before it, undoes the pin before the decision. The shield of a janitor call is now
what has to be spared when the call reaches the entry. Guards of the form
`entries[i] # Absent` for an index outside the table became `i \in Held`; sets
replaced a `CHOOSE` in the evictions; the None of `CrossProcess` got its
assumption.

## 5. Plan

Modelled: every module of section 2. Proved: section 4. What is left, in order:

1. The refinements of `Identity`, of the SQLite store and of the migration are
   proved for their safety part; nothing abstract is stated of the suggestion
   queue yet, whose promises are the five properties of its run.
2. Parts of the code that stay outside are in section 7.

## 6. Where code and text disagree

Met while modelling, most of them by a counterexample of TLC to a property that
was then stated with the exception. Paths below are relative to `src/`.

Store, queue, identity, migration:

- An edit, a pin or a supersession puts the whole record it read
  (`store/index.ts:752`): a hit that lands in between is rolled back although
  896-897 say usage never is, a pin is undone, and a superseded entry becomes
  active again, against `types.ts:106-107`. An entry removed or evicted in between
  comes back, with its removal in the trail and possibly beyond the cap: TLC finds
  both as soon as `update` joins the operations of `store_limits`.
- The seed's write, fired and forgotten (`identity/index.ts:126`), can overwrite
  an agent's first rewrite; `types.ts:361` and `identity/seeds.ts:5` say that it
  never does.
- Two observations that overlap make two rows for one document or one entry
  (`store/index.ts:1032`, `1055`), against 1017-1018; never more than overlap
  (`TwinsBounded`). A row bumped behind its own
  eviction comes back, and the queue rests above its cap until the next row
  joins. Two adoptions of one row that overlap both write it.
- `trimEntries` deletes an entry pinned after its snapshot; overlapping
  evictions, or one and a removal, leave the table below its cap. The hard
  decay's guard re-checks the pin only, not the recall clock. `pin` and `unpin`
  append no audit record. The history is its newest rows only while no write is
  rejected.
- A crash before the marker leaves two sources of truth. A repeated import
  doubles audit records (their table in `store/sqlite.ts` has no primary key, 195),
  replaces a newer identity record and revives an entry a host boot removed in
  between; `store/index.ts:396-398` calls the re-import idempotent. A medium that
  holds only suggestions or audit records is never imported, and an installation
  that starts on sqlite has no marker, so a host-medium boot is allowed over it.

Review and consolidation:

- `review/accumulator.ts:12-14` calls the flushes the safety net for failures
  that are no candidates; the flushes take messages only, and a tool result has
  no text in them.
- The budget is documented as a number of extractions (`review/index.ts:81`, the
  label in `locales.ts:88`); it is charged per trigger, a trigger makes up to
  two calls, and the calls of consolidation and judge are not charged. A failed
  drain is "retried on the next threshold crossing" by its comment and in fact
  at the very next step, charged again. Mark and budget are in WeakMaps: a
  resumed session drains what was drained before, with a fresh budget.
- `liveById` never drops an entry removed meanwhile, so the fallback to an add
  that the comment promises does not happen and the fact is lost. A merge writes
  over an edit made while the model was asked. Two conflict verdicts for one
  fact add it twice; a rejected supersession leads to a second add. The legacy
  judge merges into superseded entries.
- A merge of the sweep leaves its other entry active; verdicts in a ring
  (a over b, b over c, c over a) hide all three. The pass at startup does not ask
  for the cooldown (`review/sweep.ts:13-14`), whose stamp is awaited after the
  check.

Context:

- The project notes leave out blocked and stale entries (`notes/index.ts:126-128`)
  and tell superseded ones, which `types.ts:104-106` says are filtered out of
  what is injected.
- The standing ledger includes entries cut by the entry or character limit, the
  fence ledger those cut by the fence's limit: an answer can hit an entry it was
  never shown. The "(N more entries)" note is dropped when it does not fit.
- With the notes plugin absent, its snapshot failing or its budget 0, the entries
  left to the notes are told nowhere. The digest follows the live notes switch.

Processes:

- A goodbye that is cut off leaves an empty file, not "a torn stamp at worst"
  (`store/cross-process.ts:83-90`). With three processes a goodbye can hide that
  the other two overlap; a failing claim hides a process; a pid in use again
  raises an alarm where both restart cases are said to stay silent.

Surfaces:

- The SQLite export of the audit log is newest first, the remote service takes
  the last rows of it, so its log shows the oldest (`index.ts:254-257` says oldest
  first). Proposals about entries are never adopted or rejected over SQLite, as
  `store/sqlite.ts:589-592` says; so what confirm mode queues there stays queued.
  `add` and `replace` drop the importance they are given; an eviction is recorded before its addition and
  may take the entry just added.
- `memory_forget` removes an entry pinned after its search.
- In the page: the late answer of an older search replaces the cached matches;
  an append takes the ticket of a first batch in flight and mixes rows; a load
  does not end a "loading more" it overtakes; a load overtaken by a failing reload
  leaves "loading" with an error; a proposal list that fails to load is shown
  empty, and its refresh has no ticket.
- In the editor: a save before the raw text arrives writes the placeholder over
  the blocked content, which `client/MemorySection.tsx:106-111` means to prevent;
  a late raw text replaces what was typed; unchanged blocked content cannot be
  saved.

## 7. Not modelled

- Search ranking (floating-point scores), the scanner (regular expressions), the
  similarity of texts and the echo of an answer: each use of one is a choice in
  the models, so what is shown holds whatever they compute.
- The wording of prompts, notes, tool results and annotations, budgets in
  characters beyond what they cut, the parsers of model answers (any verdict
  they let through is modelled), and settings that only scale.
- `meta` rows, opaque single puts; the sweep's cooldown stamp; the scale
  self-check; the cleanup of legacy notes files.
- Two processes on one `memory.db`: the database serialises them, but the audit
  counter of each is in memory. The guard covers the host medium only.
- The identity pages, cards, styles and locales of the client; the write gates
  of the remote service (configuration read once per call).
- The benchmark, the evaluation harness and the build scripts, which run the
  program from outside.
- The host: its storage domain, session events and model client are modelled
  from how this code uses them and marked external in `PROJECT.json`.
