---------------------------- MODULE Consolidation -----------------------------
(***************************************************************************)
(* How extracted facts reach the store: src/review/consolidate.ts (a batch *)
(* judged in one call), src/review/sweep.ts (pairs of stored entries), and *)
(* from src/review/extract.ts the legacy judge and the curator.            *)
(*                                                                         *)
(* All of them read the store, ask a model, and write one entry at a time. *)
(* Meanwhile people edit and remove entries and the others write as well.  *)
(* A content is the set of facts it states; a store call is one step here, *)
(* MemoryStore has its inside.  What the model answers is any verdict the  *)
(* parsers let through.                                                    *)
(***************************************************************************)
EXTENDS Integers, Sequences, FiniteSets, Functions

CONSTANTS
  Batches,    \* extractions that store what they parsed
  Parsed,     \* by batch: the facts it parsed, in order, one entry each
  Passes,     \* sweep and curator passes
  Stored,     \* the store at the start: a sequence of sets of facts
  HumanFacts, \* what people add to an entry
  TopN,       \* sweepTopN, curatorMaxEntries
  MergeLimit, \* MERGE_CHAR_LIMIT, in facts
  MaxEvents,  \* bound: edits and removals by people and rejected store calls
  None

ASSUME ConsolidationAssumption ==
  /\ Batches \cap Passes = {}
  /\ MergeLimit \in Nat \ {0} /\ TopN \in Nat \ {0, 1} /\ MaxEvents \in Nat

Facts(b) == Range(Parsed[b])
AllFacts ==
  (UNION {Facts(b) : b \in Batches}) \cup (UNION Range(Stored)) \cup HumanFacts
Entry == [facts: SUBSET AllFacts, by: Nat \cup {None}]

ASSUME StoredAssumption ==
  /\ Stored \in Seq(SUBSET AllFacts)
  /\ None \notin Nat /\ None \notin Entry

VARIABLES
  store,    \* entries by id, a position: [facts, by], or None once removed
  act,      \* per actor: [phase, live, todo, acted, at]
  events,
  written,  \* history: facts some store call has written
  givenUp,  \* history: facts a verdict has replaced, hidden or cut knowingly
  exposed,  \* history: facts written while another actor held an older view
  missed    \* history: facts whose add was rejected or whose target was gone

vars == <<store, act, events, written, givenUp, exposed, missed>>
history == <<written, givenUp, exposed, missed>>

Actors == Batches \cup Passes
Present == {e \in DOMAIN store : store[e] # None}
Active(s) == {e \in DOMAIN s : s[e] # None /\ s[e].by = None}
Visible == UNION {store[e].facts : e \in Active(store)}

(* phase: idle, "asked" the model, "applying" verdicts, "superseding" after *)
(* the fresh entry of a conflict, "adding" what no verdict claimed, done.   *)
(* live: the store as the actor knows it.  todo: verdicts not yet applied.  *)
(* acted: facts a verdict has claimed.  at: the verdict or fact in hand.    *)
Idle == [phase |-> "idle", live |-> <<>>, todo |-> {}, acted |-> {}, at |-> None]
Done == [Idle EXCEPT !.phase = "done"]

Init ==
  /\ store = [e \in DOMAIN Stored |-> [facts |-> Stored[e], by |-> None]]
  /\ act = [a \in Actors |-> Idle]
  /\ events = 0
  /\ written = UNION {Stored[e] : e \in DOMAIN Stored}
  /\ givenUp = {} /\ exposed = {} /\ missed = {}

(* The larger of two when one holds the other or both would be too long.   *)
MergeContent(old, new) ==
  IF new \subseteq old \/ old \subseteq new
     \/ Cardinality(old \cup new) > MergeLimit
  THEN IF Cardinality(new) >= Cardinality(old) THEN new ELSE old
  ELSE old \cup new

Flying(a) == {o \in Actors \ {a} : act[o].phase \notin {"idle", "done"}}

(* memory.update: the status is kept.  The facts it brings into an entry   *)
(* are exposed when somebody else is at work, or when the writer's view of *)
(* the entry was out of date.                                              *)
Update(a, e, facts, view, dropped) ==
  /\ store' = [store EXCEPT ![e].facts = facts]
  /\ written' = written \cup facts
  /\ givenUp' = givenUp \cup dropped
  /\ exposed' = exposed \cup
       (IF Flying(a) # {} \/ store[e] # view THEN facts \ store[e].facts ELSE {})

(* memory.add.                                                             *)
Add(a, f) ==
  /\ store' = Append(store, [facts |-> {f}, by |-> None])
  /\ written' = written \cup {f}
  /\ exposed' = exposed \cup (IF Flying(a) # {} THEN {f} ELSE {})
  /\ UNCHANGED givenUp

(* supersedeEntry: whatever the entry says is hidden.                      *)
Supersede(e, by, known) ==
  /\ store' = [store EXCEPT ![e].by = IF @ = None THEN by ELSE @]
  /\ givenUp' = givenUp \cup known

Event == events < MaxEvents /\ events' = events + 1
Rejected == Event /\ UNCHANGED store

-----------------------------------------------------------------------------
(* applyConsolidation                                                      *)

(* The store is read once.  Without a pair that shares words or anchors,   *)
(* or without a route, nothing is asked.                                   *)
StartBatch(b) ==
  /\ act[b].phase = "idle"
  /\ \E phase \in {"asked", "adding", "legacy"} :
       act' = [act EXCEPT ![b] = [Idle EXCEPT !.phase = phase, !.live =
                 IF phase = "adding" THEN <<>> ELSE store]]
  /\ UNCHANGED <<store, events, history>>

(* Mutant: superseded entries are offered as targets.                      *)
OfferedAll(live) == {e \in DOMAIN live : live[e] # None}

(* selectConsolidationCandidates, selectSweepPairs: active entries only.   *)
Offered(live) == Active(live)

(* The answer is in: at most one verdict for each pair of a fact and an    *)
(* entry gets through the parser, and its target is one of the offered.    *)
(* What a verdict says is chosen when it is applied.  A failed or          *)
(* unreadable answer and "new" are no verdict, nor is one on a target that *)
(* this batch has superseded.                                              *)
Judged(b) ==
  /\ act[b].phase = "asked"
  /\ act' = [act EXCEPT ![b].phase = "applying",
               ![b].todo = (DOMAIN Parsed[b]) \X Offered(act[b].live)]
  /\ UNCHANGED <<store, events, history>>

Verdicts(b) ==
  [pair: act[b].todo, action: {"merge", "update", "conflict"},
   target: Offered(act[b].live)]

After(pair, todo) ==
  {p \in todo : p[1] > pair[1] \/ (p[1] = pair[1] /\ p[2] > pair[2])}
FactOf(b, v) == Parsed[b][v.pair[1]]

(* Verdicts are applied in the order of the pairs.                         *)
Took(b, v, live, acted) ==
  act' = [act EXCEPT ![b].phase = "applying", ![b].live = live,
            ![b].todo = After(v.pair, @), ![b].acted = @ \cup acted, ![b].at = None]

Replacement(action, f, old) ==
  IF action = "update" THEN {f} ELSE MergeContent(old, {f})

(* merge and update write what the batch knows of the target, not what the *)
(* target says by now; a target gone meanwhile is claimed all the same.    *)
Rewrite(b, v) ==
  LET e == v.target
      old == act[b].live[e].facts
      f == FactOf(b, v)
      new == Replacement(v.action, f, old)
  IN /\ v.action \in {"merge", "update"}
     /\ \/ /\ e \in Present /\ UNCHANGED <<events, missed>>
           /\ Update(b, e, new, act[b].live[e], (old \cup {f}) \ new)
           /\ Took(b, v, [act[b].live EXCEPT ![e] = [store[e] EXCEPT !.facts = new]],
                   {f})
        \/ /\ e \notin Present /\ missed' = missed \cup {f}
           /\ Took(b, v, act[b].live, {f})
           /\ UNCHANGED <<store, events, written, givenUp, exposed>>
        \/ Rejected /\ Took(b, v, act[b].live, {}) /\ UNCHANGED history

(* Mutant: the target of a conflict is hidden before its successor exists. *)
AddFreshLater(b, v) ==
  /\ v.action = "conflict"
  /\ IF v.target \in Present
     THEN Supersede(v.target, Len(store) + 1, act[b].live[v.target].facts)
     ELSE UNCHANGED <<store, givenUp>>
  /\ act' = [act EXCEPT ![b].phase = "superseding",
                        ![b].at = [verdict |-> v, fresh |-> Len(store) + 1]]
  /\ UNCHANGED <<events, written, exposed, missed>>

(* The fresh entry of a conflict comes first.                              *)
AddFresh(b, v) ==
  /\ v.action = "conflict"
  /\ \/ /\ Add(b, FactOf(b, v)) /\ UNCHANGED <<events, missed>>
        /\ act' = [act EXCEPT ![b].phase = "superseding",
                     ![b].at = [verdict |-> v, fresh |-> Len(store) + 1]]
     \/ Rejected /\ Took(b, v, act[b].live, {}) /\ UNCHANGED history

ApplyVerdict(b) ==
  /\ act[b].phase = "applying"
  /\ \E v \in Verdicts(b) : Rewrite(b, v) \/ AddFresh(b, v)

(* ... and then the target is hidden, if it is still there.  When that is  *)
(* rejected the fact is not claimed, and will be added once more.          *)
SupersedeTarget(b) ==
  LET v == act[b].at.verdict
      fresh == act[b].at.fresh
      live == act[b].live
  IN /\ act[b].phase = "superseding"
     /\ \/ /\ v.target \in Present
           /\ Supersede(v.target, fresh, live[v.target].facts)
           /\ Took(b, v, [live EXCEPT ![v.target].by = fresh], {FactOf(b, v)})
           /\ UNCHANGED <<events, written, exposed, missed>>
        \/ /\ v.target \notin Present
           /\ Took(b, v, live, {FactOf(b, v)})
           /\ UNCHANGED <<store, events, history>>
        \/ /\ Rejected /\ Took(b, v, live, {})
           /\ UNCHANGED history

(* The next fact in order that nothing has claimed.                        *)
NextFact(b, f) ==
  \E i \in DOMAIN Parsed[b] :
    /\ Parsed[b][i] = f /\ f \notin act[b].acted
    /\ \A j \in 1 .. i - 1 : Parsed[b][j] \in act[b].acted

Claim(b, f) ==
  LET acted == act[b].acted \cup {f} IN
  act' = [act EXCEPT ![b] = IF Facts(b) \subseteq acted THEN Done
                            ELSE [@ EXCEPT !.acted = acted, !.at = None]]

(* Mutant: a batch with verdicts is over once they are applied.            *)
UnclaimedDropped(b) ==
  /\ act[b].phase = "applying"
  /\ act' = [act EXCEPT ![b] = Done]
  /\ UNCHANGED <<store, events, history>>

(* The other pairs have no verdict.  What none has claimed is added.       *)
Unclaimed(b) ==
  /\ act[b].phase = "applying"
  /\ act' = [act EXCEPT ![b] =
               IF Facts(b) \subseteq act[b].acted THEN Done
               ELSE [@ EXCEPT !.phase = "adding", !.todo = {}, !.live = <<>>]]
  /\ UNCHANGED <<store, events, history>>

(* A rejected add is reported and the fact is dropped.                     *)
DirectAdd(b, f) ==
  /\ act[b].phase \in {"adding", "legacy"} /\ act[b].at = None
  /\ NextFact(b, f)
  /\ Claim(b, f)
  /\ \/ Add(b, f) /\ UNCHANGED <<events, missed>>
     \/ /\ Rejected /\ missed' = missed \cup {f}
        /\ UNCHANGED <<written, givenUp, exposed>>

-----------------------------------------------------------------------------
(* legacyStoreMemories: one question for each near-duplicate               *)

(* findDuplicate: on the list of the start and what the batch has added.   *)
NearDuplicate(b, e) ==
  \/ e \in DOMAIN act[b].live /\ act[b].live[e] # None
  \/ \E g \in Facts(b) \cap act[b].acted : store[e].facts = {g}

LegacyAsk(b, f, e) ==
  /\ act[b].phase = "legacy" /\ act[b].at = None
  /\ NextFact(b, f) /\ e \in Present /\ NearDuplicate(b, e)
  /\ act' = [act EXCEPT ![b].at = [fact |-> f, target |-> e, view |-> store[e]]]
  /\ UNCHANGED <<store, events, history>>

JudgeVerdicts == {"duplicate", "update", "new"}

(* A duplicate is merged into what the entry said when it was read, also   *)
(* into a superseded entry, which hides the fact.  Any rejected call drops *)
(* the fact, and so does a target gone meanwhile.                          *)
LegacyWrite(b, action) ==
  LET f == act[b].at.fact
      e == act[b].at.target
      old == act[b].at.view.facts
      new == Replacement(action, f, old)
  IN /\ act[b].phase = "legacy" /\ act[b].at # None
     /\ Claim(b, f)
     /\ \/ /\ action = "new" /\ Add(b, f)
           /\ UNCHANGED <<events, missed>>
        \/ /\ action # "new" /\ e \in Present
           /\ Update(b, e, new, act[b].at.view,
                     IF act[b].at.view.by = None THEN (old \cup {f}) \ new
                                                 ELSE old \cup {f})
           /\ UNCHANGED <<events, missed>>
        \/ /\ missed' = missed \cup {f}
           /\ \/ Rejected
              \/ action # "new" /\ e \notin Present /\ UNCHANGED <<store, events>>
           /\ UNCHANGED <<written, givenUp, exposed>>

-----------------------------------------------------------------------------
(* runSweepPass and runCuration                                            *)

(* selectSweepPairs: any two of the chosen that share words.               *)
Pairs(chosen) == {pair \in SUBSET chosen : Cardinality(pair) = 2}

(* rankForSweep takes the topN active entries in use, the curator its      *)
(* longest ones, superseded or not; neither starts with fewer than two.    *)
StartPass(p, mode) ==
  /\ act[p].phase = "idle"
  /\ \E chosen \in SUBSET (IF mode = "sweep" THEN Offered(store) ELSE Present) :
       /\ Cardinality(chosen) = TopN
       /\ act' = [act EXCEPT ![p] = [Idle EXCEPT !.phase = mode, !.live = store,
            !.todo = IF mode = "curate" THEN chosen ELSE Pairs(chosen)]]
  /\ UNCHANGED <<store, events, history>>

(* A verdict's target is a side of its pair.                               *)
SweepVerdicts(p) ==
  LET sides == UNION act[p].todo IN
  {v \in [action: {"merge", "update", "conflict"}, target: sides, other: sides] :
     {v.target, v.other} \in act[p].todo}

PassTook(p, v) ==
  act' = [act EXCEPT ![p].todo = @ \ {{v.target, v.other}}]

(* applySweep: the target is read again, the other side is not.            *)
ApplySweep(p, v) ==
  LET known == act[p].live[v.target]
      other == act[p].live[v.other].facts
      base == IF v.action = "merge" THEN store[v.target] ELSE known
      new == IF v.action = "merge" THEN MergeContent(base.facts, other) ELSE other
  IN /\ PassTook(p, v)
     /\ \/ /\ v.target \in Active(store) /\ v.action # "conflict"
           /\ Update(p, v.target, new, base, (base.facts \cup other) \ new)
           /\ UNCHANGED events
        \/ /\ v.target \in Active(store) /\ v.action = "conflict"
           /\ Supersede(v.target, v.other, known.facts)
           /\ UNCHANGED <<events, written, exposed>>
        \/ /\ v.target \notin Active(store)
           /\ UNCHANGED <<store, events, written, givenUp, exposed>>
        \/ Rejected /\ UNCHANGED <<written, givenUp, exposed>>
     /\ UNCHANGED missed

(* parseCuratedLines: the offered entries the answer may have a line for.  *)
Curated(p) == act[p].todo

(* A curator rewrites an entry to what it said when it was chosen.         *)
Curate(p, e) ==
  /\ act' = [act EXCEPT ![p].todo = @ \ {e}]
  /\ \/ e \in Present /\ Update(p, e, act[p].live[e].facts, act[p].live[e], {}) /\ UNCHANGED events
     \/ e \notin Present /\ UNCHANGED <<store, events, written, givenUp, exposed>>
     \/ Rejected /\ UNCHANGED <<written, givenUp, exposed>>
  /\ UNCHANGED missed

EndPass(p) ==
  /\ act[p].phase \in {"curate", "sweep"}
  /\ act' = [act EXCEPT ![p] = Done]
  /\ UNCHANGED <<store, events, history>>

-----------------------------------------------------------------------------
(* People, through the tools or the settings section                       *)

Edit(e, h) ==
  /\ e \in Active(store) /\ h \notin written /\ Event
  /\ store' = [store EXCEPT ![e].facts = @ \cup {h}]
  /\ written' = written \cup {h}
  /\ exposed' = exposed \cup
       {h : a \in {o \in Actors : act[o].phase \notin {"idle", "done"}}}
  /\ UNCHANGED <<act, givenUp, missed>>

Remove(e) ==
  /\ e \in Present /\ Event
  /\ store' = [store EXCEPT ![e] = None]
  /\ givenUp' = givenUp \cup store[e].facts
  /\ UNCHANGED <<act, written, exposed, missed>>

BatchStep(b) ==
  \/ StartBatch(b) \/ Judged(b) \/ ApplyVerdict(b) \/ SupersedeTarget(b)
  \/ Unclaimed(b) \/ \E f \in Facts(b) : DirectAdd(b, f)
  \/ \E f \in Facts(b), e \in DOMAIN store : LegacyAsk(b, f, e)
  \/ \E action \in JudgeVerdicts : LegacyWrite(b, action)

PassStep(p) ==
  \/ \E mode \in {"sweep", "curate"} : StartPass(p, mode)
  \/ act[p].phase = "sweep" /\ \E v \in SweepVerdicts(p) : ApplySweep(p, v)
  \/ act[p].phase = "curate" /\ \E e \in Curated(p) : Curate(p, e)
  \/ EndPass(p)

Next ==
  \/ \E b \in Batches : BatchStep(b)
  \/ \E p \in Passes : PassStep(p)
  \/ \E e \in DOMAIN store, h \in HumanFacts : Edit(e, h)
  \/ \E e \in DOMAIN store : Remove(e)

Spec == Init /\ [][Next]_vars

-----------------------------------------------------------------------------
Finished(b) == act[b].phase = "done"

(* A batch that is over has written every fact it parsed into some entry,  *)
(* by a verdict or by an add of its own, unless the add was rejected, the  *)
(* target was removed while the model was asked, or a merge was too long   *)
(* (applyConsolidation, legacyStoreMemories, mergeContent).                *)
EveryFactWritten ==
  \A b \in Batches : Finished(b) => Facts(b) \subseteq written \cup missed \cup givenUp

(* No fact disappears by accident of timing alone: one that no active      *)
(* entry says any more was replaced, hidden or cut by a verdict on a view  *)
(* that had it, was removed by people, or was written while somebody held  *)
(* an older view of the store.                                             *)
NothingVanishes == written \ Visible \subseteq givenUp \cup exposed

(* What a superseded entry points at was stored before it was hidden:      *)
(* neither a stop between the two writes nor a rejected one hides a fact   *)
(* behind an entry that never was.                                         *)
SuccessorStored ==
  \A e \in Present : store[e].by # None => store[e].by \in DOMAIN store

=============================================================================
