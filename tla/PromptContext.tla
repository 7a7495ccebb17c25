---------------------------- MODULE PromptContext ----------------------------
(***************************************************************************)
(* What a session is told of the memory: src/context/index.ts with the     *)
(* project notes of src/notes and the identity documents of Identity.      *)
(*                                                                         *)
(* Each session freezes a snapshot when it is created and again at the end *)
(* of a compaction; the sections of its system prompt are built from that  *)
(* snapshot and the live settings.  A step may append a message: the       *)
(* digest, once per prefix, and the fence of the entries recalled for it.  *)
(* The entries a round injected wait in a ledger for the answer, which     *)
(* books the ones it echoes as hits.                                       *)
(*                                                                         *)
(* Texts are the sets of entries they speak of; the character budgets are  *)
(* positive, and what a budget squeezes out is counted in its section.     *)
(***************************************************************************)
EXTENDS Identity, FiniteSetsExt

CONSTANTS
  Sessions,
  Ids,          \* memory entries
  Shape,        \* per entry: [scope, category, project]
  Here,         \* the project the sessions run in
  Stored,       \* the entries there at the start
  Blocked,      \* entries the content scanner refuses
  MaxEntries,   \* memoryMaxEntries
  RecallLimit,  \* autoRecallLimit
  Start,        \* the settings a behaviour may start with
  MaxEvents     \* bound: steps, compactions, settings changes, writes of the store

ASSUME PromptAssumption ==
  /\ Stored \subseteq Ids /\ Blocked \subseteq Ids
  /\ None \notin Contents
  /\ MaxEntries \in Nat \ {0} /\ RecallLimit \in Nat \ {0}
  /\ MaxEvents \in Nat

VARIABLES
  mem,         \* per entry: absent, active, stale or superseded
  settings,    \* the live settings
  frozen,      \* sessionMemory
  digestSent,  \* sessions whose prefix already has its digest
  ledger,      \* hitLedger
  booked,      \* history variable: per session, the entries hit since they were put up
  events

promptVars == <<mem, settings, frozen, digestSent, ledger, booked, events>>
allVars == <<vars, promptVars>>

-----------------------------------------------------------------------------
(* Which entry is told where.                                              *)

ConventionCategories == {"convention", "preference"}
PitfallCategories == {"failure", "procedure", "tool-quirk"}

\* isRenderedEntry: the project notes speak of this entry.
Rendered(e) ==
  /\ Shape[e].scope = "project" => Shape[e].project = Here
  /\ \/ Shape[e].category \in ConventionCategories
     \/ Shape[e].scope # "user" /\ Shape[e].category \in PitfallCategories

\* Mutant: the memory section leaves out what looks like a note, whatever its project.
ExcludedByCategory(notes) ==
  {e \in Ids : notes /\ Shape[e].category \in ConventionCategories \cup PitfallCategories}

\* The entries the memory section leaves to the notes.
Excluded(notes) == {e \in Ids : notes /\ Rendered(e)}

Visible == {e \in Ids : mem[e] = "active"}

Modes == {"full", "index", "digest", "none"}  \* none: policy-only, custom, off

\* renderConventions, renderPitfalls
Conventions(told) == {e \in told : Shape[e].category \in ConventionCategories}
Pitfalls(told) == {e \in told : Shape[e].category \in PitfallCategories}

\* ProjectNotesService.snapshotFor
NotesSnapshot ==
  IF settings.notes
  THEN LET told == {e \in Ids \ Blocked : Rendered(e) /\ mem[e] \in {"active", "superseded"}}
       IN  Conventions(told) \cup Pitfalls(told)
  ELSE {}

Unset == [content |-> {}, index |-> {}, notes |-> {}, soul |-> None, of |-> None,
          asked |-> FALSE, open |-> FALSE]

\* Mutant: the seed is served by the snapshot that writes it only.
SoulOnceSeeded ==
  CASE ~settings.identity -> None
    [] doc # None -> doc.content
    [] OTHER -> IF kicked THEN None ELSE Seed

\* documentFor: the stored document, or the seed while there is none.
Soul ==
  CASE ~settings.identity -> None
    [] doc # None -> doc.content
    [] OTHER -> Seed

\* The snapshot asks the identity service, which writes the seed once.
AskIdentity ==
  IF settings.identity /\ doc = None /\ ~kicked THEN ServeSeed ELSE UNCHANGED vars

\* A new round: the entries it injects wait for the answer.
Put(s, up) ==
  /\ ledger' = [ledger EXCEPT ![s] = up]
  /\ booked' = [booked EXCEPT ![s] = @ \ up]

\* memoryMaxEntries: the first entries are told, the rest is counted.
Capped(told) ==
  IF Cardinality(told) <= MaxEntries THEN {told} ELSE kSubset(MaxEntries, told)

\* freezeFor.  of, asked: the store and the identity switch at that moment
\* (history).
Freeze(s) ==
  LET told == Visible \ Excluded(settings.notes)
      standing == IF settings.hits /\ settings.mode \in {"full", "index"} THEN told ELSE {}
  IN  /\ \E content \in Capped(told) :
           frozen' = [frozen EXCEPT ![s] =
             [content |-> content, index |-> told, notes |-> NotesSnapshot,
              soul |-> Soul, of |-> mem, asked |-> settings.identity, open |-> TRUE]]
      /\ Put(s, standing)
      /\ AskIdentity

Event == events < MaxEvents /\ events' = events + 1

SessionCreated(s) ==
  /\ ~frozen[s].open
  /\ Freeze(s)
  /\ UNCHANGED <<mem, settings, digestSent, events>>

\* The rebuilt prefix holds no digest any more.
Rearm(s) == digestSent' = digestSent \ {s}

\* compaction/end without an error.
CompactionEnd(s) ==
  /\ frozen[s].open /\ Event
  /\ Rearm(s)
  /\ Freeze(s)
  /\ UNCHANGED <<mem, settings>>

\* The freeze throws: the session goes on with the snapshot it has.
CompactionEndUnfrozen(s) ==
  /\ frozen[s].open /\ faults < MaxFaults
  /\ faults' = faults + 1
  /\ Rearm(s)
  /\ UNCHANGED <<doc, history, chain, call, kicked, calls, crashes, ever>>
  /\ UNCHANGED <<mem, settings, frozen, ledger, booked, events>>

DigestDue(s) ==
  /\ settings.mode = "digest"
  /\ s \notin digestSent
  /\ Visible \ Excluded(settings.notes) # {}

\* The step falls through unchanged when its recall fails.
FlagAfterFailure(s) == UNCHANGED digestSent

\* What a search for the step's messages may find, the fence of which is
\* buildAutoRecallBlock; nothing when auto recall is off.
Recallable == {fence \in SUBSET Visible : Cardinality(fence) <= RecallLimit}

\* agent/pre-step: the digest if it is due and the fence of what was recalled.
PreStep(s) ==
  /\ frozen[s].open /\ Event
  /\ \E fence \in Recallable :
       /\ fence # {} \/ DigestDue(s)
       /\ IF fence # {} /\ settings.hits
          THEN Put(s, fence)
          ELSE UNCHANGED <<ledger, booked>>
  /\ IF DigestDue(s)
     THEN digestSent' = digestSent \cup {s}
     ELSE UNCHANGED digestSent
  /\ UNCHANGED <<vars, mem, settings, frozen>>

PreStepFails(s) ==
  /\ frozen[s].open /\ faults < MaxFaults
  /\ faults' = faults + 1
  /\ FlagAfterFailure(s)
  /\ UNCHANGED <<doc, history, chain, call, kicked, calls, crashes, ever>>
  /\ UNCHANGED <<mem, settings, frozen, ledger, booked, events>>

\* Mutant: the ledger waits for more answers.
KeepLedger(s) == UNCHANGED ledger

SpendLedger(s) == ledger' = [ledger EXCEPT ![s] = {}]

\* computeHits: any of them, it is a matter of the words they share.
Echoes(up) == SUBSET up

\* assistant/message: the entries it echoes are hit, unless the write is lost.
Answer(s) ==
  /\ frozen[s].open /\ settings.hits /\ ledger[s] # {}
  /\ SpendLedger(s)
  /\ \E echoed \in Echoes(ledger[s]) :
       booked' = [booked EXCEPT ![s] = @ \cup echoed]
  /\ UNCHANGED <<vars, mem, settings, frozen, digestSent, events>>

-----------------------------------------------------------------------------
(* The surroundings: settings are applied live, and the store is written   *)
(* by the tools, the review pipeline, the janitor and the consolidation.   *)

ChangeSettings ==
  /\ Event
  /\ \/ \E m \in Modes : settings' = [settings EXCEPT !.mode = m]
     \/ settings' = [settings EXCEPT !.notes = ~@]
     \/ settings' = [settings EXCEPT !.hits = ~@]
     \/ settings' = [settings EXCEPT !.identity = ~@]
  /\ settings' # settings
  /\ UNCHANGED <<vars, mem, frozen, digestSent, ledger, booked>>

StoreMoves == [absent |-> {"active"}, active |-> {"absent", "stale", "superseded"},
               stale |-> {"active", "absent"}, superseded |-> {"absent"}]

StoreWritten(e) ==
  /\ Event
  /\ \E to \in StoreMoves[mem[e]] : mem' = [mem EXCEPT ![e] = to]
  /\ UNCHANGED <<vars, settings, frozen, digestSent, ledger, booked>>

\* The process dies with its sessions.
ProcessCrash ==
  /\ Crash
  /\ frozen' = [s \in Sessions |-> Unset]
  /\ digestSent' = {}
  /\ ledger' = [s \in Sessions |-> {}]
  /\ booked' = [s \in Sessions |-> {}]
  /\ UNCHANGED <<mem, settings, events>>

IdentityMoves ==
  /\ \/ \E c \in Writers : UpdateIdentity(c) \/ RevertIdentity(c)
     \/ \E c \in Callers : PutFirst(c) \/ PutSnapshot(c) \/ TrimHistory(c) \/ TrimMore(c)
     \/ Land \/ Reject
  /\ UNCHANGED promptVars

-----------------------------------------------------------------------------
PromptInit ==
  /\ Init
  /\ mem = [e \in Ids |-> IF e \in Stored THEN "active" ELSE "absent"]
  /\ settings \in Start
  /\ frozen = [s \in Sessions |-> Unset]
  /\ digestSent = {}
  /\ ledger = [s \in Sessions |-> {}]
  /\ booked = [s \in Sessions |-> {}]
  /\ events = 0

PromptNext ==
  \/ \E s \in Sessions :
       \/ SessionCreated(s) \/ CompactionEnd(s) \/ CompactionEndUnfrozen(s)
       \/ PreStep(s) \/ PreStepFails(s) \/ Answer(s)
  \/ ChangeSettings
  \/ \E e \in Ids : StoreWritten(e)
  \/ IdentityMoves \/ ProcessCrash

PromptSpec == PromptInit /\ [][PromptNext]_allVars

-----------------------------------------------------------------------------
(* The prompt of a session, as assembled now.                              *)

\* Mutant: the section is read from the store.
LiveMemorySection(s) ==
  CASE settings.mode = "full" -> Visible \ Excluded(settings.notes)
    [] settings.mode = "index" -> frozen[s].index
    [] OTHER -> {}

\* buildMemorySectionText
MemorySection(s) ==
  CASE settings.mode = "full" -> frozen[s].content
    [] settings.mode = "index" -> frozen[s].index
    [] OTHER -> {}

\* Mutant: the notes are rendered at assembly.
LiveNotesSection(s) == NotesSnapshot

\* buildNotesSectionText
NotesSection(s) == IF settings.notes THEN frozen[s].notes ELSE {}

\* buildSoulSectionText, buildUserProfileSectionText
SoulSection(s) == IF settings.identity THEN frozen[s].soul ELSE None

Prompt(s) == <<MemorySection(s), NotesSection(s), SoulSection(s)>>

Open == {s \in Sessions : frozen[s].open}

-----------------------------------------------------------------------------
(* Properties.                                                             *)

\* "No double injection": whatever the live settings become after a freeze, no
\* entry is told in the memory section and in the project notes of one prompt.
NoDoubleInjection == \A s \in Open : MemorySection(s) \cap NotesSection(s) = {}

\* The two sections divide the store between them: an entry active when the
\* session was frozen is in the index, or it is in the notes (a blocked entry
\* is left out of the notes on purpose).
NothingFallsBetween ==
  \A s \in Open : \A e \in Ids \ Blocked :
    frozen[s].of[e] = "active" => e \in frozen[s].index \cup frozen[s].notes

\* The frozen prefix: while the settings stay as they are, the sections of a
\* running session change at its compactions and at no other moment, whatever
\* is written to the store or to the identity documents.
PrefixStable ==
  [][\A s \in Open : Prompt(s)' # Prompt(s) =>
       settings' # settings \/ CompactionEnd(s) \/ ProcessCrash]_allVars

\* An entry that was hit waits for no second hit until it is injected again: a hit
\* belongs to the answer that echoed the entry, not to every later turn.
HitsPerRound == \A s \in Sessions : ledger[s] \cap booked[s] = {}

\* A session frozen with the identity layer on always has a document, the one
\* stored or the seed, also while the seed's write is under way, was rejected
\* or was lost in a crash.
IdentityAlwaysServed ==
  \A s \in Open : frozen[s].asked => frozen[s].soul # None

=============================================================================
