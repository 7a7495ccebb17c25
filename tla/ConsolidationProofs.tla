------------------------- MODULE ConsolidationProofs --------------------------
(***************************************************************************)
(* Theorems about how extracted facts reach the store, for any batches,    *)
(* sweeps and curators at once, any entries, limits and verdicts, and any  *)
(* number of edits, removals and rejected calls.                           *)
(***************************************************************************)
EXTENDS Consolidation, SequenceTheorems, TLAPS

-----------------------------------------------------------------------------
(* Positions in a sequence of facts.                                       *)

\* A sequence after an element is appended.
LEMMA AppendPositions ==
  ASSUME NEW S, NEW s \in Seq(S), NEW x \in S
  PROVE  /\ Append(s, x) \in Seq(S)
         /\ 1..Len(Append(s, x)) = 1..Len(s) \cup {Len(s) + 1}
         /\ Len(s) + 1 \notin 1..Len(s)
         /\ \A n \in 1..Len(s) : Append(s, x)[n] = s[n]
         /\ Append(s, x)[Len(s) + 1] = x
  OBVIOUS

-----------------------------------------------------------------------------
(* Types: the store, and what an actor keeps while it is at work.          *)

Fields == {"phase", "live", "todo", "acted", "at"}

\* The entries a view has.
Held(live) == {e \in DOMAIN live : live[e] \in Entry}

\* A view is of entries the store has, or had.
FrameTyped(d) ==
  /\ DOMAIN d = Fields
  /\ DOMAIN d.live \in SUBSET DOMAIN store
  /\ \A e \in DOMAIN d.live : d.live[e] \in Entry \cup {None}

\* What a batch has in hand is about a fact it parsed; the fresh entry of a
\* conflict is there before its target is hidden.
BatchTyped(b, d) ==
  /\ FrameTyped(d)
  /\ d.phase \in {"applying", "superseding"} =>
       \A pair \in d.todo : pair[1] \in DOMAIN Parsed[b]
  /\ d.phase = "superseding" =>
       /\ d.at.verdict.pair[1] \in DOMAIN Parsed[b]
       /\ d.at.verdict.target \in Offered(d.live)
       /\ d.at.fresh \in DOMAIN store
  /\ d.phase = "legacy" /\ d.at # None =>
       d.at.fact \in Facts(b) /\ d.at.view \in Entry

\* A pass works on entries it has read.
PassTyped(d) ==
  /\ FrameTyped(d)
  /\ d.phase = "sweep" => d.todo \in SUBSET SUBSET (Held(d.live) \cap Active(d.live))
  /\ d.phase = "curate" => d.todo \in SUBSET Held(d.live)

StoreTyped == store \in Seq(Entry \cup {None})

Typed ==
  /\ StoreTyped /\ DOMAIN act = Actors
  /\ \A b \in Batches : BatchTyped(b, act[b])
  /\ \A p \in Passes : PassTyped(act[p])

\* The record of an entry once a store call has changed it.
LEMMA EntryOps ==
  ASSUME NEW entry \in Entry
  PROVE  /\ entry # None
         /\ entry.facts \in SUBSET AllFacts /\ entry.by \in Nat \cup {None}
         /\ \A facts \in SUBSET AllFacts :
              /\ [entry EXCEPT !.facts = facts] \in Entry
              /\ [entry EXCEPT !.facts = facts].facts = facts
              /\ [entry EXCEPT !.facts = facts].by = entry.by
         /\ \A by \in Nat \cup {None} :
              /\ [entry EXCEPT !.by = by] \in Entry
              /\ [entry EXCEPT !.by = by].by = by
              /\ [entry EXCEPT !.by = by].facts = entry.facts
  BY StoredAssumption DEF Entry

LEMMA FactsKnown ==
  /\ \A b \in Batches : \A i \in DOMAIN Parsed[b] :
       Parsed[b][i] \in Facts(b) /\ Parsed[b][i] \in AllFacts
  /\ \A b \in Batches : \A f \in Facts(b) : f \in AllFacts
  /\ \A h \in HumanFacts : h \in AllFacts
<1>1. \A b \in Batches : \A i \in DOMAIN Parsed[b] : Parsed[b][i] \in Facts(b)
  BY DEF Facts, Range
<1>2. \A b \in Batches : \A f \in Facts(b) : f \in AllFacts
  BY Zenon DEF AllFacts
<1>3. \A h \in HumanFacts : h \in AllFacts
  BY DEF AllFacts
<1> QED
  BY <1>1, <1>2, <1>3

LEMMA StorePositions ==
  ASSUME StoreTyped
  PROVE  /\ Len(store) \in Nat /\ DOMAIN store = 1..Len(store)
         /\ \A e \in DOMAIN store : store[e] \in Entry \cup {None} /\ e \in Nat
         /\ \A e \in Present : e \in DOMAIN store /\ store[e] \in Entry
         /\ \A e \in Active(store) : e \in Present /\ store[e].by = None
         /\ \A e \in DOMAIN store : store[e] \in Entry => e \in Present
  BY StoredAssumption DEF StoreTyped, Present, Active, Entry

\* The active entries of a view are entries.
LEMMA OfferedHeld ==
  ASSUME NEW d, FrameTyped(d), NEW e \in Offered(d.live)
  PROVE  e \in DOMAIN d.live /\ d.live[e] \in Entry /\ d.live[e].by = None
  BY DEF FrameTyped, Offered, Active

-----------------------------------------------------------------------------
(* Steps of one actor: the others keep what they have.                     *)

Mine(a) == DOMAIN act' = DOMAIN act /\ \A o \in Actors \ {a} : act'[o] = act[o]

LEMMA BatchMoves ==
  ASSUME Typed, NEW b \in Batches, Mine(b), StoreTyped',
         DOMAIN store \subseteq DOMAIN store', BatchTyped(b, act[b])'
  PROVE  Typed'
<1>1. \A o \in Batches \ {b} : BatchTyped(o, act[o])'
  BY DEF Typed, Mine, Actors, BatchTyped, FrameTyped
<1>2. \A p \in Passes : PassTyped(act[p])'
  BY ConsolidationAssumption DEF Typed, Mine, Actors, PassTyped, FrameTyped
<1> QED
  BY <1>1, <1>2 DEF Typed, Mine

LEMMA PassMoves ==
  ASSUME Typed, NEW p \in Passes, Mine(p), StoreTyped',
         DOMAIN store \subseteq DOMAIN store', PassTyped(act[p])'
  PROVE  Typed'
<1>1. \A b \in Batches : BatchTyped(b, act[b])'
  BY ConsolidationAssumption DEF Typed, Mine, Actors, BatchTyped, FrameTyped
<1>2. \A o \in Passes \ {p} : PassTyped(act[o])'
  BY DEF Typed, Mine, Actors, PassTyped, FrameTyped
<1> QED
  BY <1>1, <1>2 DEF Typed, Mine

LEMMA NobodyMoves ==
  ASSUME Typed, UNCHANGED act, StoreTyped', DOMAIN store \subseteq DOMAIN store'
  PROVE  Typed'
<1>1. \A b \in Batches : BatchTyped(b, act[b])'
  BY DEF Typed, BatchTyped, FrameTyped
<1>2. \A p \in Passes : PassTyped(act[p])'
  BY DEF Typed, PassTyped, FrameTyped
<1> QED
  BY <1>1, <1>2 DEF Typed

-----------------------------------------------------------------------------
(* The store calls.                                                        *)

LEMMA StoreKept ==
  ASSUME StoreTyped, UNCHANGED store
  PROVE  StoreTyped' /\ DOMAIN store \subseteq DOMAIN store'
  BY DEF StoreTyped

\* One entry of the store is replaced.
LEMMA StoreSet ==
  ASSUME StoreTyped, NEW e \in DOMAIN store, NEW x \in Entry \cup {None},
         store' = [store EXCEPT ![e] = x]
  PROVE  /\ StoreTyped' /\ DOMAIN store' = DOMAIN store
         /\ store'[e] = x /\ \A o \in DOMAIN store \ {e} : store'[o] = store[o]
  BY DEF StoreTyped

LEMMA UpdateStores ==
  ASSUME StoreTyped, NEW a, NEW e \in Present, NEW facts \in SUBSET AllFacts,
         NEW view, NEW dropped, Update(a, e, facts, view, dropped)
  PROVE  /\ StoreTyped' /\ DOMAIN store' = DOMAIN store
         /\ store'[e] \in Entry
         /\ store'[e] = [store[e] EXCEPT !.facts = facts]
         /\ store'[e].facts = facts /\ store'[e].by = store[e].by
         /\ \A o \in DOMAIN store \ {e} : store'[o] = store[o]
<1> DEFINE x == [store[e] EXCEPT !.facts = facts]
<1>1. e \in DOMAIN store /\ store[e] \in Entry
  BY StorePositions
<1>2. /\ x \in Entry /\ x.facts = facts /\ x.by = store[e].by
  BY <1>1, EntryOps
<1>3. store' = [store EXCEPT ![e] = x]
  BY DEF Update
<1> HIDE DEF x
<1>4. /\ StoreTyped' /\ DOMAIN store' = DOMAIN store
      /\ store'[e] = x /\ \A o \in DOMAIN store \ {e} : store'[o] = store[o]
  BY <1>1, <1>2, <1>3, StoreSet
<1> QED
  BY <1>2, <1>4 DEF x

LEMMA AddStores ==
  ASSUME StoreTyped, NEW a, NEW f \in AllFacts, Add(a, f)
  PROVE  /\ StoreTyped' /\ DOMAIN store' = DOMAIN store \cup {Len(store) + 1}
         /\ Len(store) + 1 \notin DOMAIN store
         /\ store'[Len(store) + 1] = [facts |-> {f}, by |-> None]
         /\ store'[Len(store) + 1] \in Entry
         /\ \A o \in DOMAIN store : store'[o] = store[o]
<1> DEFINE x == [facts |-> {f}, by |-> None]
<1>1. x \in Entry /\ x \in Entry \cup {None}
  BY DEF Entry
<1>2. store' = Append(store, x)
  BY DEF Add
<1>3. store \in Seq(Entry \cup {None})
  BY DEF StoreTyped
<1> HIDE DEF x
<1>4. /\ store' \in Seq(Entry \cup {None})
      /\ 1..Len(store') = 1..Len(store) \cup {Len(store) + 1}
      /\ Len(store) + 1 \notin 1..Len(store)
      /\ \A o \in 1..Len(store) : store'[o] = store[o]
      /\ store'[Len(store) + 1] = x
  BY <1>1, <1>2, <1>3, AppendPositions
<1>5. DOMAIN store = 1..Len(store) /\ DOMAIN store' = 1..Len(store')
  BY <1>3, <1>4
<1> QED
  BY <1>1, <1>4, <1>5 DEF x, StoreTyped

LEMMA SupersedeStores ==
  ASSUME StoreTyped, NEW e \in Present, NEW by \in DOMAIN store, NEW known,
         Supersede(e, by, known)
  PROVE  /\ StoreTyped' /\ DOMAIN store' = DOMAIN store
         /\ store'[e] \in Entry /\ store'[e].facts = store[e].facts
         /\ store'[e].by = (IF store[e].by = None THEN by ELSE store[e].by)
         /\ store'[e].by # None
         /\ \A o \in DOMAIN store \ {e} : store'[o] = store[o]
<1> DEFINE n == IF store[e].by = None THEN by ELSE store[e].by
           x == [store[e] EXCEPT !.by = n]
<1>1. e \in DOMAIN store /\ store[e] \in Entry /\ by \in Nat
  BY StorePositions
<1>2. n \in Nat \cup {None} /\ n # None
  BY <1>1, EntryOps, StoredAssumption
<1>3. store' = [store EXCEPT ![e] = x]
  BY <1>1 DEF Supersede
<1> HIDE DEF n
<1>4. x \in Entry /\ x.facts = store[e].facts /\ x.by = n
  BY <1>1, <1>2, EntryOps
<1> HIDE DEF x
<1>5. /\ StoreTyped' /\ DOMAIN store' = DOMAIN store
      /\ store'[e] = x /\ \A o \in DOMAIN store \ {e} : store'[o] = store[o]
  BY <1>1, <1>3, <1>4, StoreSet
<1> QED
  BY <1>2, <1>4, <1>5 DEF n

\* Whatever a merge or an update writes comes from its two sides.
LEMMA MergeIsPart ==
  ASSUME NEW old, NEW new
  PROVE  MergeContent(old, new) \in SUBSET (old \cup new)
  BY DEF MergeContent

LEMMA ReplacementIsPart ==
  ASSUME NEW action, NEW f, NEW old
  PROVE  Replacement(action, f, old) \in SUBSET (old \cup {f})
  BY MergeIsPart DEF Replacement

-----------------------------------------------------------------------------
(* What each step leaves in the hands of its actor.                        *)

LEMMA TookMoves ==
  ASSUME Typed, NEW b \in Batches, NEW v, NEW live, NEW acted,
         Took(b, v, live, acted)
  PROVE  /\ Mine(b) /\ DOMAIN act'[b] = Fields
         /\ act'[b].phase = "applying" /\ act'[b].live = live /\ act'[b].at = None
         /\ act'[b].todo \in SUBSET act[b].todo
<1>1. b \in Actors /\ DOMAIN act = Actors /\ DOMAIN act[b] = Fields
  BY DEF Typed, Actors, BatchTyped, FrameTyped
<1>2. Mine(b)
  BY <1>1 DEF Took, Mine
<1>3. act'[b] = [act[b] EXCEPT !.phase = "applying", !.live = live,
                   !.todo = After(v.pair, act[b].todo),
                   !.acted = act[b].acted \cup acted, !.at = None]
  BY <1>1 DEF Took, Fields
<1>4. After(v.pair, act[b].todo) \in SUBSET act[b].todo
  BY DEF After
<1> QED
  BY <1>1, <1>2, <1>3, <1>4 DEF Fields

LEMMA TookActed ==
  ASSUME Typed, NEW b \in Batches, NEW v, NEW live, NEW acted,
         Took(b, v, live, acted)
  PROVE  act'[b].acted = act[b].acted \cup acted
<1>1. b \in Actors /\ DOMAIN act = Actors /\ DOMAIN act[b] = Fields
  BY DEF Typed, Actors, BatchTyped, FrameTyped
<1>2. act'[b] = [act[b] EXCEPT !.phase = "applying", !.live = live,
                   !.todo = After(v.pair, act[b].todo),
                   !.acted = act[b].acted \cup acted, !.at = None]
  BY <1>1 DEF Took, Fields
<1> QED
  BY <1>1, <1>2 DEF Fields

LEMMA ClaimMoves ==
  ASSUME Typed, NEW b \in Batches, NEW f, Claim(b, f)
  PROVE  /\ Mine(b) /\ DOMAIN act'[b] = Fields /\ act'[b].at = None
         /\ \/ /\ act'[b].phase = "done" /\ Facts(b) \subseteq act[b].acted \cup {f}
               /\ act'[b].live = <<>> /\ act'[b].acted = {}
            \/ /\ act'[b].phase = act[b].phase /\ act'[b].live = act[b].live
               /\ act'[b].todo = act[b].todo
               /\ act'[b].acted = act[b].acted \cup {f}
<1>1. b \in Actors /\ DOMAIN act = Actors /\ DOMAIN act[b] = Fields
  BY DEF Typed, Actors, BatchTyped, FrameTyped
<1>2. Mine(b)
  BY <1>1 DEF Claim, Mine
<1>3. act'[b] = IF Facts(b) \subseteq act[b].acted \cup {f} THEN Done
                ELSE [act[b] EXCEPT !.acted = act[b].acted \cup {f}, !.at = None]
  BY <1>1 DEF Claim
<1> QED
  BY <1>1, <1>2, <1>3 DEF Done, Idle, Fields

LEMMA StartBatchMoves ==
  ASSUME Typed, NEW b \in Batches, StartBatch(b)
  PROVE  /\ Mine(b) /\ DOMAIN act'[b] = Fields /\ UNCHANGED store
         /\ act'[b].at = None /\ act'[b].acted = {}
         /\ \/ act'[b].phase \in {"asked", "legacy"} /\ act'[b].live = store
            \/ act'[b].phase = "adding" /\ act'[b].live = <<>>
  BY DEF Typed, Actors, StartBatch, Mine, Idle, Fields

LEMMA JudgedMoves ==
  ASSUME Typed, NEW b \in Batches, Judged(b)
  PROVE  /\ Mine(b) /\ DOMAIN act'[b] = Fields /\ UNCHANGED store
         /\ act[b].phase = "asked" /\ act'[b].phase = "applying"
         /\ act'[b].live = act[b].live /\ act'[b].acted = act[b].acted
         /\ \A pair \in act'[b].todo : pair[1] \in DOMAIN Parsed[b]
  BY DEF Typed, BatchTyped, FrameTyped, Actors, Judged, Mine, Fields

LEMMA UnclaimedMoves ==
  ASSUME Typed, NEW b \in Batches, Unclaimed(b)
  PROVE  /\ Mine(b) /\ DOMAIN act'[b] = Fields /\ UNCHANGED store
         /\ act'[b].live = <<>>
         /\ \/ /\ act'[b].phase = "done" /\ act'[b].acted = {}
               /\ Facts(b) \subseteq act[b].acted
            \/ act'[b].phase = "adding" /\ act'[b].acted = act[b].acted
  BY DEF Typed, BatchTyped, FrameTyped, Actors, Unclaimed, Mine, Done, Idle, Fields

\* The fresh entry is stored and the verdict is kept for what comes next.
LEMMA FreshMoves ==
  ASSUME Typed, NEW b \in Batches, NEW v,
         act' = [act EXCEPT ![b].phase = "superseding",
                            ![b].at = [verdict |-> v, fresh |-> Len(store) + 1]]
  PROVE  /\ Mine(b) /\ DOMAIN act'[b] = Fields /\ act'[b].phase = "superseding"
         /\ act'[b].at.verdict = v /\ act'[b].at.fresh = Len(store) + 1
         /\ act'[b].live = act[b].live /\ act'[b].todo = act[b].todo
         /\ act'[b].acted = act[b].acted
  BY DEF Typed, BatchTyped, FrameTyped, Actors, Mine, Fields

LEMMA LegacyAskMoves ==
  ASSUME Typed, NEW b \in Batches, NEW f, NEW e, LegacyAsk(b, f, e)
  PROVE  /\ Mine(b) /\ DOMAIN act'[b] = Fields /\ UNCHANGED store
         /\ act[b].phase = "legacy" /\ act'[b].phase = "legacy"
         /\ act'[b].at = [fact |-> f, target |-> e, view |-> store[e]]
         /\ act'[b].live = act[b].live /\ act'[b].acted = act[b].acted
  BY DEF Typed, BatchTyped, FrameTyped, Actors, Mine, Fields, LegacyAsk

LEMMA StartPassMoves ==
  ASSUME Typed, NEW p \in Passes, NEW mode \in {"sweep", "curate"}, StartPass(p, mode)
  PROVE  /\ Mine(p) /\ DOMAIN act'[p] = Fields /\ UNCHANGED store
         /\ act'[p].phase = mode /\ act'[p].live = store
         /\ mode = "sweep" => act'[p].todo \in SUBSET SUBSET Active(store)
         /\ mode = "curate" => act'[p].todo \in SUBSET Present
  BY DEF Typed, Actors, Mine, Fields, StartPass, Idle, Pairs, Offered

LEMMA PassTookMoves ==
  ASSUME Typed, NEW p \in Passes, NEW v, PassTook(p, v)
  PROVE  /\ Mine(p) /\ DOMAIN act'[p] = Fields /\ act'[p].phase = act[p].phase
         /\ act'[p].live = act[p].live /\ act'[p].todo \in SUBSET act[p].todo
  BY DEF Typed, PassTyped, FrameTyped, Actors, Mine, Fields, PassTook

LEMMA CurateMoves ==
  ASSUME Typed, NEW p \in Passes, NEW e, Curate(p, e)
  PROVE  /\ Mine(p) /\ DOMAIN act'[p] = Fields /\ act'[p].phase = act[p].phase
         /\ act'[p].live = act[p].live /\ act'[p].todo \in SUBSET act[p].todo
  BY DEF Typed, PassTyped, FrameTyped, Actors, Mine, Fields, Curate

LEMMA EndPassMoves ==
  ASSUME Typed, NEW p \in Passes, EndPass(p)
  PROVE  /\ Mine(p) /\ DOMAIN act'[p] = Fields /\ UNCHANGED store
         /\ act'[p].phase = "done" /\ act'[p].live = <<>>
  BY DEF Typed, Actors, Mine, Fields, EndPass, Done, Idle

\* The sides of a pair that a sweep has a verdict for.
LEMMA SidesHeld ==
  ASSUME Typed, NEW p \in Passes, act[p].phase = "sweep", NEW v \in SweepVerdicts(p)
  PROVE  /\ v.target \in Held(act[p].live) /\ v.other \in Held(act[p].live)
         /\ v.target \in Active(act[p].live) /\ v.other \in Active(act[p].live)
         /\ v.target \in DOMAIN store /\ v.other \in DOMAIN store
<1>1. /\ v.target \in UNION act[p].todo /\ v.other \in UNION act[p].todo
  BY DEF SweepVerdicts
<1> QED
  BY <1>1 DEF Typed, PassTyped, FrameTyped, Held

-----------------------------------------------------------------------------
(* Every step keeps the types.                                             *)

LEMMA InitTyped == Init => Typed
<1> SUFFICES ASSUME Init
             PROVE  Typed
  OBVIOUS
<1>1. StoreTyped
  <2>1. /\ DOMAIN Stored = 1..Len(Stored) /\ Len(Stored) \in Nat
        /\ \A e \in DOMAIN Stored : Stored[e] \in SUBSET AllFacts
    BY StoredAssumption
  <2>2. \A e \in 1..Len(Stored) : [facts |-> Stored[e], by |-> None] \in Entry \cup {None}
    BY <2>1 DEF Entry
  <2>3. store = [e \in 1..Len(Stored) |-> [facts |-> Stored[e], by |-> None]]
    BY <2>1 DEF Init
  <2> QED
    BY <2>1, <2>2, <2>3, IsASeq DEF StoreTyped
<1>2. act = [a \in Actors |-> Idle]
  BY DEF Init
<1> QED
  BY <1>1, <1>2 DEF Typed, Actors, BatchTyped, PassTyped, FrameTyped, Idle, Fields

LEMMA RewriteTyped ==
  ASSUME Typed, NEW b \in Batches, act[b].phase = "applying", NEW v \in Verdicts(b),
         Rewrite(b, v)
  PROVE  Typed'
<1> DEFINE e == v.target
           old == act[b].live[e].facts
           f == FactOf(b, v)
           new == Replacement(v.action, f, old)
<1>1. /\ FrameTyped(act[b]) /\ StoreTyped
      /\ \A pair \in act[b].todo : pair[1] \in DOMAIN Parsed[b]
      /\ v.pair \in act[b].todo /\ e \in Offered(act[b].live)
  BY DEF Typed, BatchTyped, Verdicts
<1>2. e \in DOMAIN act[b].live /\ act[b].live[e] \in Entry
  BY <1>1, OfferedHeld
<1>3. new \in SUBSET AllFacts
  BY <1>1, <1>2, EntryOps, FactsKnown, ReplacementIsPart DEF FactOf
<1>4. CASE e \in Present /\ Update(b, e, new, act[b].live[e], (old \cup {f}) \ new)
           /\ Took(b, v, [act[b].live EXCEPT ![e] = [store[e] EXCEPT !.facts = new]], {f})
  <2> DEFINE live == [act[b].live EXCEPT ![e] = [store[e] EXCEPT !.facts = new]]
  <2>0. e \in Present /\ Took(b, v, live, {f})
        /\ Update(b, e, new, act[b].live[e], (old \cup {f}) \ new)
    BY <1>4
  <2> HIDE DEF live, new, old, f
  <2>1. /\ StoreTyped' /\ DOMAIN store' = DOMAIN store
        /\ [store[e] EXCEPT !.facts = new] \in Entry
    <3>1. store[e] \in Entry
      BY <1>1, <2>0, StorePositions
    <3>2. [store[e] EXCEPT !.facts = new] \in Entry
      BY <1>3, <3>1, EntryOps
    <3>3. StoreTyped' /\ DOMAIN store' = DOMAIN store
      BY <1>1, <1>3, <2>0, UpdateStores
    <3> QED
      BY <3>2, <3>3
  <2>2. /\ DOMAIN live = DOMAIN act[b].live
        /\ \A o \in DOMAIN live : live[o] \in Entry \cup {None}
    BY <1>1, <1>2, <2>1 DEF FrameTyped, live
  <2>3. /\ Mine(b) /\ DOMAIN act'[b] = Fields
        /\ act'[b].phase = "applying" /\ act'[b].live = live
        /\ act'[b].todo \in SUBSET act[b].todo
    BY <2>0, TookMoves
  <2>4. BatchTyped(b, act[b])'
    BY <1>1, <2>1, <2>2, <2>3 DEF BatchTyped, FrameTyped
  <2> QED
    BY <2>1, <2>3, <2>4, BatchMoves
<1>5. ASSUME NEW acted, UNCHANGED store, Took(b, v, act[b].live, acted)
      PROVE  Typed'
  <2>1. /\ Mine(b) /\ DOMAIN act'[b] = Fields
        /\ act'[b].phase = "applying" /\ act'[b].live = act[b].live
        /\ act'[b].todo \in SUBSET act[b].todo
    BY <1>5, TookMoves
  <2>2. BatchTyped(b, act[b])'
    BY <1>1, <1>5, <2>1 DEF BatchTyped, FrameTyped
  <2> QED
    BY <1>1, <1>5, <2>1, <2>2, BatchMoves, StoreKept
<1> QED
  BY <1>4, <1>5 DEF Rewrite, Rejected

LEMMA AddFreshTyped ==
  ASSUME Typed, NEW b \in Batches, act[b].phase = "applying", NEW v \in Verdicts(b),
         AddFresh(b, v)
  PROVE  Typed'
<1>1. /\ FrameTyped(act[b]) /\ StoreTyped
      /\ \A pair \in act[b].todo : pair[1] \in DOMAIN Parsed[b]
      /\ v.pair \in act[b].todo /\ v.target \in Offered(act[b].live)
  BY DEF Typed, BatchTyped, Verdicts
<1>2. CASE Add(b, FactOf(b, v)) /\
           act' = [act EXCEPT ![b].phase = "superseding",
                              ![b].at = [verdict |-> v, fresh |-> Len(store) + 1]]
  <2>1. FactOf(b, v) \in AllFacts
    BY <1>1, FactsKnown DEF FactOf
  <2>2. StoreTyped' /\ DOMAIN store' = DOMAIN store \cup {Len(store) + 1}
    BY <1>1, <1>2, <2>1, AddStores
  <2>3. /\ Mine(b) /\ DOMAIN act'[b] = Fields /\ act'[b].phase = "superseding"
        /\ act'[b].at.verdict = v /\ act'[b].at.fresh = Len(store) + 1
        /\ act'[b].live = act[b].live /\ act'[b].todo = act[b].todo
    BY <1>2, FreshMoves
  <2>4. BatchTyped(b, act[b])'
    BY <1>1, <2>2, <2>3 DEF BatchTyped, FrameTyped
  <2> QED
    BY <2>2, <2>3, <2>4, BatchMoves
<1>3. CASE UNCHANGED store /\ Took(b, v, act[b].live, {})
  <2>1. /\ Mine(b) /\ DOMAIN act'[b] = Fields
        /\ act'[b].phase = "applying" /\ act'[b].live = act[b].live
        /\ act'[b].todo \in SUBSET act[b].todo
    BY <1>3, TookMoves
  <2>2. BatchTyped(b, act[b])'
    BY <1>1, <1>3, <2>1 DEF BatchTyped, FrameTyped
  <2> QED
    BY <1>1, <1>3, <2>1, <2>2, BatchMoves, StoreKept
<1> QED
  BY <1>2, <1>3 DEF AddFresh, Rejected

LEMMA SupersedeTargetTyped ==
  ASSUME Typed, NEW b \in Batches, SupersedeTarget(b)
  PROVE  Typed'
<1> DEFINE v == act[b].at.verdict
           fresh == act[b].at.fresh
           live == act[b].live
<1>1. /\ FrameTyped(act[b]) /\ StoreTyped /\ act[b].phase = "superseding"
      /\ \A pair \in act[b].todo : pair[1] \in DOMAIN Parsed[b]
      /\ v.target \in Offered(live) /\ fresh \in DOMAIN store
  BY DEF Typed, BatchTyped, SupersedeTarget
<1>2. v.target \in DOMAIN live /\ live[v.target] \in Entry
  BY <1>1, OfferedHeld
<1>3. CASE v.target \in Present /\ Supersede(v.target, fresh, live[v.target].facts)
           /\ Took(b, v, [live EXCEPT ![v.target].by = fresh], {FactOf(b, v)})
  <2> DEFINE new == [live EXCEPT ![v.target].by = fresh]
  <2>1. StoreTyped' /\ DOMAIN store' = DOMAIN store
    BY <1>1, <1>3, SupersedeStores
  <2>2. fresh \in Nat \cup {None}
    BY <1>1, StorePositions
  <2>3. [live[v.target] EXCEPT !.by = fresh] \in Entry
    BY <1>2, <2>2, EntryOps
  <2>4. /\ DOMAIN new = DOMAIN live
        /\ \A o \in DOMAIN new : new[o] \in Entry \cup {None}
    BY <1>1, <1>2, <2>3 DEF FrameTyped
  <2> HIDE DEF new
  <2>5. /\ Mine(b) /\ DOMAIN act'[b] = Fields
        /\ act'[b].phase = "applying" /\ act'[b].live = new
        /\ act'[b].todo \in SUBSET act[b].todo
    BY <1>3, TookMoves DEF new
  <2>6. BatchTyped(b, act[b])'
    BY <1>1, <2>1, <2>4, <2>5 DEF BatchTyped, FrameTyped
  <2> QED
    BY <2>1, <2>5, <2>6, BatchMoves
<1>4. ASSUME NEW acted, UNCHANGED store, Took(b, v, live, acted)
      PROVE  Typed'
  <2>1. /\ Mine(b) /\ DOMAIN act'[b] = Fields
        /\ act'[b].phase = "applying" /\ act'[b].live = live
        /\ act'[b].todo \in SUBSET act[b].todo
    BY <1>4, TookMoves
  <2>2. BatchTyped(b, act[b])'
    BY <1>1, <1>4, <2>1 DEF BatchTyped, FrameTyped
  <2> QED
    BY <1>1, <1>4, <2>1, <2>2, BatchMoves, StoreKept
<1> QED
  BY <1>3, <1>4 DEF SupersedeTarget, Rejected

\* A claim leaves the view, or nothing at all.
LEMMA ClaimTyped ==
  ASSUME Typed, NEW b \in Batches, act[b].phase \in {"adding", "legacy"}, NEW f,
         Claim(b, f), StoreTyped', DOMAIN store \subseteq DOMAIN store'
  PROVE  Typed'
<1>1. FrameTyped(act[b])
  BY DEF Typed, BatchTyped
<1>2. BatchTyped(b, act[b])'
  BY <1>1, ClaimMoves DEF BatchTyped, FrameTyped
<1> QED
  BY <1>2, ClaimMoves, BatchMoves

LEMMA DirectAddTyped ==
  ASSUME Typed, NEW b \in Batches, NEW f \in Facts(b), DirectAdd(b, f)
  PROVE  Typed'
<1>1. f \in AllFacts /\ StoreTyped
  BY FactsKnown DEF Typed
<1>2. StoreTyped' /\ DOMAIN store \subseteq DOMAIN store'
  BY <1>1, AddStores, StoreKept DEF DirectAdd, Rejected
<1> QED
  BY <1>2, ClaimTyped DEF DirectAdd

LEMMA LegacyWriteTyped ==
  ASSUME Typed, NEW b \in Batches, NEW action \in JudgeVerdicts, LegacyWrite(b, action)
  PROVE  Typed'
<1> DEFINE f == act[b].at.fact
           e == act[b].at.target
           old == act[b].at.view.facts
           new == Replacement(action, f, old)
<1>1. /\ StoreTyped /\ act[b].phase = "legacy" /\ Claim(b, f)
      /\ f \in Facts(b) /\ act[b].at.view \in Entry
  BY DEF Typed, BatchTyped, LegacyWrite
<1>2. f \in AllFacts /\ new \in SUBSET AllFacts
  BY <1>1, EntryOps, FactsKnown, ReplacementIsPart
<1>3. StoreTyped' /\ DOMAIN store \subseteq DOMAIN store'
  <2>1. CASE Add(b, f)
    BY <1>1, <1>2, <2>1, AddStores
  <2>2. ASSUME NEW dropped, e \in Present, Update(b, e, new, act[b].at.view, dropped)
        PROVE  StoreTyped' /\ DOMAIN store \subseteq DOMAIN store'
    BY <1>1, <1>2, <2>2, UpdateStores
  <2>3. CASE UNCHANGED store
    BY <1>1, <2>3, StoreKept
  <2> QED
    BY <2>1, <2>2, <2>3, Zenon DEF LegacyWrite, Rejected
<1> QED
  BY <1>1, <1>3, ClaimTyped

LEMMA LegacyAskTyped ==
  ASSUME Typed, NEW b \in Batches, NEW f \in Facts(b), NEW e, LegacyAsk(b, f, e)
  PROVE  Typed'
<1>1. FrameTyped(act[b]) /\ StoreTyped
  BY DEF Typed, BatchTyped
<1>2. store[e] \in Entry
  BY <1>1, StorePositions DEF LegacyAsk
<1>3. /\ act'[b].phase = "legacy" /\ DOMAIN act'[b] = Fields
      /\ act'[b].live = act[b].live /\ UNCHANGED store
      /\ act'[b].at = [fact |-> f, target |-> e, view |-> store[e]]
  BY LegacyAskMoves, Zenon
<1>4. BatchTyped(b, act[b])'
  BY <1>1, <1>2, <1>3 DEF BatchTyped, FrameTyped
<1> QED
  BY <1>1, <1>4, LegacyAskMoves, BatchMoves, StoreKept

LEMMA BatchStepTyped ==
  ASSUME Typed, NEW b \in Batches, BatchStep(b)
  PROVE  Typed'
<1>1. /\ FrameTyped(act[b]) /\ StoreTyped
      /\ \A e \in DOMAIN store : store[e] \in Entry \cup {None}
  BY StorePositions DEF Typed, BatchTyped
<1>2. CASE StartBatch(b)
  <2>1. BatchTyped(b, act[b])'
    BY <1>1, <1>2, StartBatchMoves DEF BatchTyped, FrameTyped
  <2> QED
    BY <1>1, <1>2, <2>1, StartBatchMoves, BatchMoves, StoreKept
<1>3. CASE Judged(b)
  <2>1. BatchTyped(b, act[b])'
    BY <1>1, <1>3, JudgedMoves DEF BatchTyped, FrameTyped
  <2> QED
    BY <1>1, <1>3, <2>1, JudgedMoves, BatchMoves, StoreKept
<1>4. CASE Unclaimed(b)
  <2>1. BatchTyped(b, act[b])'
    BY <1>1, <1>4, UnclaimedMoves DEF BatchTyped, FrameTyped
  <2> QED
    BY <1>1, <1>4, <2>1, UnclaimedMoves, BatchMoves, StoreKept
<1>5. CASE ApplyVerdict(b)
  BY <1>5, RewriteTyped, AddFreshTyped DEF ApplyVerdict
<1> QED
  BY <1>2, <1>3, <1>4, <1>5, SupersedeTargetTyped, DirectAddTyped, LegacyAskTyped,
     LegacyWriteTyped DEF BatchStep

LEMMA ApplySweepTyped ==
  ASSUME Typed, NEW p \in Passes, act[p].phase = "sweep", NEW v \in SweepVerdicts(p),
         ApplySweep(p, v)
  PROVE  Typed'
<1> DEFINE known == act[p].live[v.target]
           other == act[p].live[v.other].facts
           base == IF v.action = "merge" THEN store[v.target] ELSE known
           new == IF v.action = "merge" THEN MergeContent(base.facts, other) ELSE other
<1>1. /\ StoreTyped /\ FrameTyped(act[p])
      /\ act[p].todo \in SUBSET SUBSET (Held(act[p].live) \cap Active(act[p].live))
  BY DEF Typed, PassTyped
<1>2. known \in Entry /\ act[p].live[v.other] \in Entry /\ v.other \in DOMAIN store
  BY SidesHeld DEF Held
<1>3. StoreTyped' /\ DOMAIN store \subseteq DOMAIN store'
  <2>1. ASSUME NEW dropped, v.target \in Active(store),
               Update(p, v.target, new, base, dropped)
        PROVE  StoreTyped' /\ DOMAIN store \subseteq DOMAIN store'
    <3>1. v.target \in Present /\ store[v.target] \in Entry
      BY <1>1, <2>1, StorePositions
    <3>2. new \in SUBSET AllFacts
      BY <1>2, <3>1, EntryOps, MergeIsPart
    <3> QED
      BY <1>1, <2>1, <3>1, <3>2, UpdateStores
  <2>2. CASE v.target \in Active(store) /\ Supersede(v.target, v.other, known.facts)
    <3>1. v.target \in Present
      BY <1>1, <2>2, StorePositions
    <3> QED
      BY <1>1, <1>2, <2>2, <3>1, SupersedeStores
  <2>3. CASE UNCHANGED store
    BY <1>1, <2>3, StoreKept
  <2> QED
    BY <2>1, <2>2, <2>3, Zenon DEF ApplySweep, Rejected
<1>4. PassTook(p, v)
  BY DEF ApplySweep
<1>5. PassTyped(act[p])'
  BY <1>1, <1>3, <1>4, PassTookMoves DEF PassTyped, FrameTyped
<1> QED
  BY <1>3, <1>4, <1>5, PassTookMoves, PassMoves

LEMMA CurateTyped ==
  ASSUME Typed, NEW p \in Passes, act[p].phase = "curate", NEW e \in Curated(p),
         Curate(p, e)
  PROVE  Typed'
<1>1. /\ StoreTyped /\ FrameTyped(act[p]) /\ act[p].todo \in SUBSET Held(act[p].live)
  BY DEF Typed, PassTyped
<1>2. act[p].live[e] \in Entry
  BY <1>1 DEF Curated, Held
<1>3. StoreTyped' /\ DOMAIN store \subseteq DOMAIN store'
  BY <1>1, <1>2, EntryOps, UpdateStores, StoreKept DEF Curate, Rejected
<1>4. PassTyped(act[p])'
  BY <1>1, <1>3, CurateMoves DEF PassTyped, FrameTyped
<1> QED
  BY <1>3, <1>4, CurateMoves, PassMoves

LEMMA PassStepTyped ==
  ASSUME Typed, NEW p \in Passes, PassStep(p)
  PROVE  Typed'
<1>1. /\ FrameTyped(act[p]) /\ StoreTyped
      /\ \A e \in DOMAIN store : store[e] \in Entry \cup {None}
      /\ \A e \in Present : e \in DOMAIN store /\ store[e] \in Entry
      /\ \A e \in Active(store) : e \in Present
  BY StorePositions DEF Typed, PassTyped
<1>2. ASSUME NEW mode \in {"sweep", "curate"}, StartPass(p, mode)
      PROVE  Typed'
  <2>0. Active(store) \subseteq Held(store) /\ Present \subseteq Held(store)
    BY <1>1 DEF Held
  <2>1. PassTyped(act[p])'
    BY <1>1, <1>2, <2>0, StartPassMoves DEF PassTyped, FrameTyped
  <2> QED
    BY <1>1, <1>2, <2>1, StartPassMoves, PassMoves, StoreKept
<1>3. CASE EndPass(p)
  <2>1. PassTyped(act[p])'
    BY <1>1, <1>3, EndPassMoves DEF PassTyped, FrameTyped
  <2> QED
    BY <1>1, <1>3, <2>1, EndPassMoves, PassMoves, StoreKept
<1> QED
  BY <1>2, <1>3, ApplySweepTyped, CurateTyped DEF PassStep

LEMMA EditTyped ==
  ASSUME Typed, NEW e \in DOMAIN store, NEW h \in HumanFacts, Edit(e, h)
  PROVE  /\ Typed' /\ DOMAIN store' = DOMAIN store
         /\ store'[e] \in Entry /\ store'[e].by = store[e].by
         /\ store'[e].facts = store[e].facts \cup {h}
         /\ \A o \in DOMAIN store \ {e} : store'[o] = store[o]
<1>1. StoreTyped /\ store[e] \in Entry
  BY StorePositions DEF Typed, Edit
<1> DEFINE x == [store[e] EXCEPT !.facts = store[e].facts \cup {h}]
<1>2. store[e].facts \cup {h} \in SUBSET AllFacts
  BY <1>1, EntryOps, FactsKnown
<1>3. x \in Entry /\ x.by = store[e].by /\ x.facts = store[e].facts \cup {h}
  BY <1>1, <1>2, EntryOps
<1>4. store' = [store EXCEPT ![e] = x]
  BY DEF Edit
<1> HIDE DEF x
<1>5. /\ StoreTyped' /\ DOMAIN store' = DOMAIN store /\ store'[e] = x
      /\ \A o \in DOMAIN store \ {e} : store'[o] = store[o]
  BY <1>1, <1>3, <1>4, StoreSet
<1> QED
  BY <1>3, <1>5, NobodyMoves DEF Edit

LEMMA RemoveTyped ==
  ASSUME Typed, NEW e \in DOMAIN store, Remove(e)
  PROVE  /\ Typed' /\ DOMAIN store' = DOMAIN store /\ store'[e] = None
         /\ \A o \in DOMAIN store \ {e} : store'[o] = store[o]
<1>1. StoreTyped /\ store' = [store EXCEPT ![e] = None]
  BY DEF Typed, Remove
<1>2. /\ StoreTyped' /\ DOMAIN store' = DOMAIN store /\ store'[e] = None
      /\ \A o \in DOMAIN store \ {e} : store'[o] = store[o]
  BY <1>1, StoreSet
<1> QED
  BY <1>2, NobodyMoves DEF Remove

LEMMA StepTyped == Typed /\ [Next]_vars => Typed'
<1> SUFFICES ASSUME Typed, [Next]_vars
             PROVE  Typed'
  OBVIOUS
<1>1. CASE UNCHANGED vars
  BY <1>1, NobodyMoves, StoreKept DEF vars, Typed
<1> QED
  BY <1>1, BatchStepTyped, PassStepTyped, EditTyped, RemoveTyped DEF Next

-----------------------------------------------------------------------------
(* Successors.                                                             *)

\* What a step does to the store: one entry is added, changed or removed, and
\* a changed one keeps its successor or gets one that is in the store.
OneEntry ==
  \/ UNCHANGED store
  \/ /\ DOMAIN store' = DOMAIN store \cup {Len(store) + 1}
     /\ \A o \in DOMAIN store : store'[o] = store[o]
     /\ store'[Len(store) + 1].by = None
  \/ \E e \in DOMAIN store :
       /\ DOMAIN store' = DOMAIN store
       /\ \A o \in DOMAIN store \ {e} : store'[o] = store[o]
       /\ \/ store'[e] = None
          \/ e \in Present /\ store'[e].by \in {store[e].by} \cup DOMAIN store

LEMMA UpdateOne ==
  ASSUME StoreTyped, NEW a, NEW e \in Present, NEW facts \in SUBSET AllFacts,
         NEW view, NEW dropped, Update(a, e, facts, view, dropped)
  PROVE  OneEntry
  BY UpdateStores, StorePositions DEF OneEntry

LEMMA AddOne ==
  ASSUME StoreTyped, NEW a, NEW f \in AllFacts, Add(a, f)
  PROVE  OneEntry
<1>1. /\ DOMAIN store' = DOMAIN store \cup {Len(store) + 1}
      /\ \A o \in DOMAIN store : store'[o] = store[o]
      /\ store'[Len(store) + 1] = [facts |-> {f}, by |-> None]
  BY AddStores
<1> QED
  BY <1>1 DEF OneEntry

LEMMA SupersedeOne ==
  ASSUME StoreTyped, NEW e \in Present, NEW by \in DOMAIN store, NEW known,
         Supersede(e, by, known)
  PROVE  OneEntry
  BY SupersedeStores, StorePositions DEF OneEntry

LEMMA BatchStepOne ==
  ASSUME Typed, NEW b \in Batches, BatchStep(b)
  PROVE  OneEntry
<1>1. /\ FrameTyped(act[b]) /\ StoreTyped /\ BatchTyped(b, act[b])
  BY DEF Typed, BatchTyped
<1>2. CASE UNCHANGED store
  BY <1>2 DEF OneEntry
<1>3. ASSUME NEW v \in Verdicts(b), act[b].phase = "applying", Rewrite(b, v)
      PROVE  OneEntry
  <2> DEFINE e == v.target
             old == act[b].live[e].facts
             f == FactOf(b, v)
             new == Replacement(v.action, f, old)
  <2>1. /\ e \in Offered(act[b].live) /\ v.pair[1] \in DOMAIN Parsed[b]
    BY <1>1, <1>3 DEF Verdicts, BatchTyped
  <2>2. new \in SUBSET AllFacts
    BY <1>1, <2>1, OfferedHeld, EntryOps, FactsKnown, ReplacementIsPart DEF FactOf
  <2>3. \/ e \in Present /\ Update(b, e, new, act[b].live[e], (old \cup {f}) \ new)
        \/ UNCHANGED store
    BY <1>3 DEF Rewrite, Rejected
  <2> HIDE DEF new, old, f, e
  <2> QED
    BY <1>1, <1>2, <2>2, <2>3, UpdateOne
<1>4. ASSUME NEW v \in Verdicts(b), act[b].phase = "applying", AddFresh(b, v)
      PROVE  OneEntry
  <2>1. FactOf(b, v) \in AllFacts
    BY <1>1, <1>4, FactsKnown DEF Verdicts, BatchTyped, FactOf
  <2> QED
    BY <1>1, <1>2, <1>4, <2>1, AddOne DEF AddFresh, Rejected
<1>5. CASE SupersedeTarget(b)
  BY <1>1, <1>2, <1>5, SupersedeOne DEF SupersedeTarget, Rejected, BatchTyped
<1>6. ASSUME NEW f \in Facts(b), DirectAdd(b, f)
      PROVE  OneEntry
  BY <1>1, <1>2, <1>6, AddOne, FactsKnown DEF DirectAdd, Rejected
<1>7. ASSUME NEW action \in JudgeVerdicts, LegacyWrite(b, action)
      PROVE  OneEntry
  <2> DEFINE f == act[b].at.fact
             e == act[b].at.target
             old == act[b].at.view.facts
             new == Replacement(action, f, old)
  <2>1. f \in Facts(b) /\ act[b].at.view \in Entry
    BY <1>1, <1>7 DEF BatchTyped, LegacyWrite
  <2>2. f \in AllFacts /\ new \in SUBSET AllFacts
    BY <2>1, EntryOps, FactsKnown, ReplacementIsPart
  <2>3. \/ Add(b, f)
        \/ e \in Present /\ \E dropped : Update(b, e, new, act[b].at.view, dropped)
        \/ UNCHANGED store
    BY <1>7, Zenon DEF LegacyWrite, Rejected
  <2> HIDE DEF new, old, f, e
  <2> QED
    BY <1>1, <1>2, <2>2, <2>3, UpdateOne, AddOne
<1> QED
  BY <1>2, <1>3, <1>4, <1>5, <1>6, <1>7
     DEF BatchStep, ApplyVerdict, StartBatch, Judged, Unclaimed, LegacyAsk

LEMMA PassStepOne ==
  ASSUME Typed, NEW p \in Passes, PassStep(p)
  PROVE  OneEntry
<1>1. StoreTyped /\ PassTyped(act[p])
  BY DEF Typed
<1>2. CASE UNCHANGED store
  BY <1>2 DEF OneEntry
<1>3. ASSUME act[p].phase = "sweep", NEW v \in SweepVerdicts(p), ApplySweep(p, v)
      PROVE  OneEntry
  <2> DEFINE known == act[p].live[v.target]
             other == act[p].live[v.other].facts
             base == IF v.action = "merge" THEN store[v.target] ELSE known
             new == IF v.action = "merge" THEN MergeContent(base.facts, other) ELSE other
  <2>1. known \in Entry /\ act[p].live[v.other] \in Entry /\ v.other \in DOMAIN store
    BY <1>3, SidesHeld DEF Held
  <2>2. v.target \in Active(store) => v.target \in Present /\ store[v.target] \in Entry
    BY <1>1, StorePositions
  <2>3. v.target \in Active(store) => new \in SUBSET AllFacts
    BY <2>1, <2>2, EntryOps, MergeIsPart
  <2>4. \/ v.target \in Active(store) /\ \E dropped : Update(p, v.target, new, base, dropped)
        \/ v.target \in Active(store) /\ Supersede(v.target, v.other, known.facts)
        \/ UNCHANGED store
    BY <1>3, Zenon DEF ApplySweep, Rejected
  <2> HIDE DEF new, base, known
  <2> QED
    BY <1>1, <1>2, <2>1, <2>2, <2>3, <2>4, UpdateOne, SupersedeOne
<1>4. ASSUME act[p].phase = "curate", NEW e \in Curated(p), Curate(p, e)
      PROVE  OneEntry
  <2>1. act[p].live[e].facts \in SUBSET AllFacts
    BY <1>1, <1>4, EntryOps DEF Curated, Held, PassTyped
  <2> QED
    BY <1>1, <1>2, <1>4, <2>1, UpdateOne DEF Curate, Rejected
<1> QED
  BY <1>2, <1>3, <1>4 DEF PassStep, StartPass, EndPass

LEMMA StepOne == Typed /\ [Next]_vars => OneEntry
<1> SUFFICES ASSUME Typed, [Next]_vars
             PROVE  OneEntry
  OBVIOUS
<1>1. CASE UNCHANGED vars
  BY <1>1 DEF vars, OneEntry
<1>2. ASSUME NEW e \in DOMAIN store, NEW h \in HumanFacts, Edit(e, h)
      PROVE  OneEntry
  <2>1. e \in Present
    BY <1>2, StorePositions DEF Edit, Typed
  <2> QED
    BY <1>2, <2>1, EditTyped DEF OneEntry
<1>3. ASSUME NEW e \in DOMAIN store, Remove(e)
      PROVE  OneEntry
  BY <1>3, RemoveTyped DEF OneEntry
<1> QED
  BY <1>1, <1>2, <1>3, BatchStepOne, PassStepOne DEF Next

(* What a superseded entry points at was stored before it was hidden, with *)
(* any number of batches and sweeps hiding entries at once: a conflict's   *)
(* fresh entry exists before its target is touched (applyConsolidation),   *)
(* a sweep points at the other side of its pair, and nothing that was once *)
(* in the store loses its row to a later write.                            *)
THEOREM SuccessorExists == Spec => []SuccessorStored
<1> DEFINE Inv == Typed /\ SuccessorStored
<1>1. Init => Inv
  <2>1. Init => SuccessorStored
    BY DEF Init, SuccessorStored, Present
  <2> QED
    BY <2>1, InitTyped
<1>2. Inv /\ [Next]_vars => Inv'
  <2> SUFFICES ASSUME Typed, SuccessorStored, [Next]_vars
               PROVE  Typed' /\ SuccessorStored'
    OBVIOUS
  <2>1. OneEntry
    BY StepOne
  <2>2. SuccessorStored'
    BY <2>1 DEF OneEntry, SuccessorStored, Present
  <2> QED
    BY <2>2, StepTyped
<1> QED
  BY <1>1, <1>2, PTL DEF Spec

-----------------------------------------------------------------------------
(* Every parsed fact.                                                      *)

Accounted == written \cup missed \cup givenUp

\* What a verdict or an add has claimed is in the store, or it is known why it
\* is not; so is the fact of a conflict that still has its target to hide.
ClaimInv(b) ==
  /\ act[b].acted \in SUBSET Accounted
  /\ act[b].phase = "superseding" => FactOf(b, act[b].at.verdict) \in Accounted
  /\ act[b].phase = "done" => Facts(b) \subseteq Accounted

FactsInv == Typed /\ \A b \in Batches : ClaimInv(b)

\* Nothing is taken back.
Grown ==
  /\ written \subseteq written' /\ givenUp \subseteq givenUp'
  /\ exposed \subseteq exposed' /\ missed \subseteq missed'

LEMMA HistoryGrows ==
  ASSUME [Next]_vars
  PROVE  Grown
<1>1. CASE UNCHANGED history
  BY <1>1 DEF history, Grown
<1>2. ASSUME NEW b \in Batches, BatchStep(b)
      PROVE  Grown
  <2>1. ASSUME NEW v, Rewrite(b, v)
        PROVE  Grown
    BY <1>1, <2>1 DEF Rewrite, Update, Grown
  <2>2. ASSUME NEW v, AddFresh(b, v)
        PROVE  Grown
    BY <1>1, <2>2 DEF AddFresh, Add, Grown
  <2>3. CASE SupersedeTarget(b)
    BY <1>1, <2>3 DEF SupersedeTarget, Supersede, Grown
  <2>4. ASSUME NEW f, DirectAdd(b, f)
        PROVE  Grown
    BY <2>4 DEF DirectAdd, Add, Grown
  <2>5. ASSUME NEW action, LegacyWrite(b, action)
        PROVE  Grown
    BY <2>5 DEF LegacyWrite, Add, Update, Grown
  <2> QED
    BY <1>1, <1>2, <2>1, <2>2, <2>3, <2>4, <2>5
       DEF BatchStep, StartBatch, Judged, ApplyVerdict, Unclaimed, LegacyAsk
<1>3. ASSUME NEW p \in Passes, PassStep(p)
      PROVE  Grown
  <2>1. ASSUME NEW v, ApplySweep(p, v)
        PROVE  Grown
    BY <2>1 DEF ApplySweep, Update, Supersede, Grown
  <2>2. ASSUME NEW e, Curate(p, e)
        PROVE  Grown
    BY <2>2 DEF Curate, Update, Grown
  <2> QED
    BY <1>1, <1>3, <2>1, <2>2 DEF PassStep, StartPass, EndPass
<1> QED
  BY <1>1, <1>2, <1>3 DEF Next, Edit, Remove, vars, history, Grown

LEMMA AccountedGrows ==
  ASSUME [Next]_vars
  PROVE  Accounted \subseteq Accounted'
  BY HistoryGrows DEF Grown, Accounted

\* The claims of the others are as good as before.
LEMMA OthersClaims ==
  ASSUME FactsInv, [Next]_vars, NEW b \in Batches, act'[b] = act[b]
  PROVE  ClaimInv(b)'
<1>1. ClaimInv(b) /\ Accounted \subseteq Accounted'
  BY AccountedGrows DEF FactsInv
<1> QED
  BY <1>1 DEF ClaimInv, FactOf

\* What a verdict claims has to be accounted for.
LEMMA TookClaims ==
  ASSUME FactsInv, [Next]_vars, NEW b \in Batches, NEW v, NEW live, NEW acted,
         Took(b, v, live, acted), acted \in SUBSET Accounted'
  PROVE  ClaimInv(b)'
<1>1. Typed /\ act[b].acted \in SUBSET Accounted'
  BY AccountedGrows DEF FactsInv, ClaimInv
<1>2. act'[b].phase = "applying"
  BY <1>1, TookMoves
<1>3. act'[b].acted \in SUBSET Accounted'
  BY <1>1, TookActed
<1> QED
  BY <1>2, <1>3 DEF ClaimInv

\* A step that claims a fact accounts for it.
LEMMA RewriteClaims ==
  ASSUME FactsInv, NEW b \in Batches, act[b].phase = "applying", NEW v \in Verdicts(b),
         Rewrite(b, v) \/ AddFresh(b, v), [Next]_vars
  PROVE  ClaimInv(b)'
<1> DEFINE f == FactOf(b, v)
<1>1. Typed /\ act[b].acted \in SUBSET Accounted'
  BY AccountedGrows DEF FactsInv, ClaimInv
<1>2. ASSUME NEW live, NEW acted, Took(b, v, live, acted), acted \in SUBSET Accounted'
      PROVE  ClaimInv(b)'
  BY <1>2, TookClaims
<1>3. {} \in SUBSET Accounted'
  OBVIOUS
<1>4. CASE Rewrite(b, v)
  <2> DEFINE e == v.target
             old == act[b].live[e].facts
             new == Replacement(v.action, f, old)
             live == [act[b].live EXCEPT ![e] = [store[e] EXCEPT !.facts = new]]
  <2>1. CASE Update(b, e, new, act[b].live[e], (old \cup {f}) \ new) /\ Took(b, v, live, {f})
    <3>1. f \in new \cup ((old \cup {f}) \ new)
      OBVIOUS
    <3> HIDE DEF new, old, live, f
    <3>2. f \in Accounted'
      BY <2>1, <3>1 DEF Update, Accounted
    <3> QED
      BY <1>2, <2>1, <3>2
  <2>2. CASE missed' = missed \cup {f} /\ Took(b, v, act[b].live, {f})
    <3>1. f \in Accounted'
      BY <2>2 DEF Accounted
    <3> QED
      BY <1>2, <2>2, <3>1
  <2>3. CASE Took(b, v, act[b].live, {})
    BY <1>2, <1>3, <2>3
  <2> QED
    BY <1>4, <2>1, <2>2, <2>3 DEF Rewrite
<1>5. CASE AddFresh(b, v)
  <2>1. CASE Add(b, f) /\
             act' = [act EXCEPT ![b].phase = "superseding",
                                ![b].at = [verdict |-> v, fresh |-> Len(store) + 1]]
    <3>1. f \in Accounted'
      BY <2>1 DEF Add, Accounted
    <3>2. /\ act'[b].phase = "superseding" /\ act'[b].at.verdict = v
          /\ act'[b].acted = act[b].acted
      BY <1>1, <2>1, FreshMoves
    <3> QED
      BY <1>1, <3>1, <3>2 DEF ClaimInv, FactOf
  <2>2. CASE Took(b, v, act[b].live, {})
    BY <1>2, <1>3, <2>2
  <2> QED
    BY <1>5, <2>1, <2>2 DEF AddFresh
<1> QED
  BY <1>4, <1>5

LEMMA SupersedeTargetClaims ==
  ASSUME FactsInv, NEW b \in Batches, SupersedeTarget(b), [Next]_vars
  PROVE  ClaimInv(b)'
<1> DEFINE v == act[b].at.verdict
<1>1. {FactOf(b, v)} \in SUBSET Accounted' /\ {} \in SUBSET Accounted'
  BY AccountedGrows DEF FactsInv, ClaimInv, SupersedeTarget
<1> QED
  BY <1>1, TookClaims DEF SupersedeTarget

LEMMA ClaimClaims ==
  ASSUME FactsInv, NEW b \in Batches, NEW f, Claim(b, f), f \in Accounted',
         act[b].phase \in {"adding", "legacy"}, [Next]_vars
  PROVE  ClaimInv(b)'
<1>1. Typed /\ act[b].acted \in SUBSET Accounted'
  BY AccountedGrows DEF FactsInv, ClaimInv
<1> QED
  BY <1>1, ClaimMoves DEF ClaimInv

LEMMA LegacyWriteClaims ==
  ASSUME FactsInv, NEW b \in Batches, NEW action \in JudgeVerdicts, LegacyWrite(b, action),
         [Next]_vars
  PROVE  ClaimInv(b)'
<1> DEFINE f == act[b].at.fact
           e == act[b].at.target
           old == act[b].at.view.facts
           new == Replacement(action, f, old)
           dropped == IF act[b].at.view.by = None THEN (old \cup {f}) \ new ELSE old \cup {f}
<1>1. f \in new \cup dropped
  OBVIOUS
<1>2. \/ Add(b, f)
      \/ Update(b, e, new, act[b].at.view, dropped)
      \/ missed' = missed \cup {f}
  BY DEF LegacyWrite
<1>3. Claim(b, f) /\ act[b].phase \in {"adding", "legacy"}
  BY DEF LegacyWrite
<1> HIDE DEF f, new, dropped, old
<1>4. f \in Accounted'
  BY <1>1, <1>2 DEF Add, Update, Accounted
<1> QED
  BY <1>3, <1>4, ClaimClaims

\* A step of a batch is its own.
LEMMA BatchStepMine ==
  ASSUME Typed, NEW b \in Batches, BatchStep(b)
  PROVE  Mine(b)
<1>1. ASSUME NEW v, Rewrite(b, v)
      PROVE  Mine(b)
  BY <1>1, TookMoves DEF Rewrite
<1>2. ASSUME NEW v, AddFresh(b, v)
      PROVE  Mine(b)
  BY <1>2, TookMoves, FreshMoves DEF AddFresh
<1>3. SupersedeTarget(b) => Mine(b)
  BY TookMoves DEF SupersedeTarget
<1>4. ASSUME NEW f, DirectAdd(b, f)
      PROVE  Mine(b)
  BY <1>4, ClaimMoves DEF DirectAdd
<1>5. ASSUME NEW action, LegacyWrite(b, action)
      PROVE  Mine(b)
  BY <1>5, ClaimMoves DEF LegacyWrite
<1>6. \A f, e : LegacyAsk(b, f, e) => Mine(b)
  BY LegacyAskMoves
<1>7. StartBatch(b) \/ Judged(b) \/ Unclaimed(b) => Mine(b)
  BY StartBatchMoves, JudgedMoves, UnclaimedMoves
<1> QED
  BY <1>1, <1>2, <1>3, <1>4, <1>5, <1>6, <1>7 DEF BatchStep, ApplyVerdict

LEMMA BatchStepClaims ==
  ASSUME FactsInv, NEW b \in Batches, BatchStep(b), [Next]_vars
  PROVE  FactsInv'
<1>1. Typed /\ act[b].acted \in SUBSET Accounted'
  BY AccountedGrows DEF FactsInv, ClaimInv
<1>2. ASSUME NEW f \in Facts(b), DirectAdd(b, f)
      PROVE  ClaimInv(b)'
  <2>1. f \in Accounted'
    BY <1>2 DEF DirectAdd, Add, Accounted
  <2> QED
    BY <1>2, <2>1, ClaimClaims DEF DirectAdd
<1>3. ASSUME StartBatch(b) \/ Judged(b) \/ Unclaimed(b)
      PROVE  ClaimInv(b)'
  BY <1>1, <1>3, StartBatchMoves, JudgedMoves, UnclaimedMoves DEF ClaimInv
<1>4. ASSUME NEW f, NEW e, LegacyAsk(b, f, e)
      PROVE  ClaimInv(b)'
  BY <1>1, <1>4, LegacyAskMoves DEF ClaimInv
<1>5. ASSUME ApplyVerdict(b)
      PROVE  ClaimInv(b)'
  BY <1>5, RewriteClaims DEF ApplyVerdict
<1>6. ClaimInv(b)'
  BY <1>2, <1>3, <1>4, <1>5, SupersedeTargetClaims, LegacyWriteClaims DEF BatchStep
<1>7. Mine(b)
  BY <1>1, BatchStepMine
<1>8. \A o \in Batches \ {b} : act'[o] = act[o]
  BY <1>7 DEF Mine, Actors
<1> QED
  BY <1>1, <1>6, <1>8, OthersClaims, StepTyped DEF FactsInv

LEMMA PassStepClaims ==
  ASSUME FactsInv, NEW p \in Passes, PassStep(p), [Next]_vars
  PROVE  FactsInv'
<1>1. Typed
  BY DEF FactsInv
<1>2. Mine(p)
  BY <1>1, StartPassMoves, PassTookMoves, CurateMoves, EndPassMoves
     DEF PassStep, ApplySweep
<1>3. \A b \in Batches : act'[b] = act[b]
  BY <1>2, ConsolidationAssumption DEF Mine, Actors
<1> QED
  BY <1>1, <1>3, OthersClaims, StepTyped DEF FactsInv

LEMMA NextKeepsClaims == FactsInv /\ [Next]_vars => FactsInv'
<1> SUFFICES ASSUME FactsInv, [Next]_vars
             PROVE  FactsInv'
  OBVIOUS
<1>1. CASE UNCHANGED act
  BY <1>1, OthersClaims, StepTyped DEF FactsInv
<1> QED
  BY <1>1, BatchStepClaims, PassStepClaims DEF Next, Edit, Remove, vars

(* A batch that is over has written every fact it parsed into some entry,  *)
(* by a verdict or by an add of its own; what it has not written was given *)
(* up by a verdict it read, or met a rejected add or an entry removed in   *)
(* the meantime (applyConsolidation, legacyStoreMemories).                 *)
THEOREM BatchIsComplete == Spec => []EveryFactWritten
<1>1. Init => FactsInv
  BY InitTyped DEF Init, FactsInv, ClaimInv, Actors, Idle
<1>2. FactsInv => EveryFactWritten
  BY DEF FactsInv, ClaimInv, EveryFactWritten, Finished, Accounted
<1> QED
  BY <1>1, <1>2, NextKeepsClaims, PTL DEF Spec

-----------------------------------------------------------------------------
(* No fact vanishes.  A verdict knows what its actor believes an entry to  *)
(* say; what it drops beyond that is still told by another entry that the  *)
(* same sweep knows of.                                                    *)

Excused == givenUp \cup exposed

Says(s, e, f) == e \in Active(s) /\ f \in s[e].facts

Sweeps(a) == act[a].phase = "sweep"
Knows(a, e, f) == Says(act[a].live, e, f)
Resting(a) == act[a].phase \in {"idle", "done"}

Viewing == {"asked", "applying", "superseding", "sweep", "curate"}

\* What an actor will take an entry for when it writes it.
Believes(a, e, x) ==
  \/ /\ act[a].phase \in Viewing
     /\ e \in Held(act[a].live) /\ x = act[a].live[e]
  \/ /\ act[a].phase = "legacy" /\ act[a].at # None
     /\ e = act[a].at.target /\ x = act[a].at.view

Recorded == \A e \in Present : store[e].facts \subseteq written

\* What a sweep knows is still said by an entry it knows it of.
Remembered ==
  \A p \in Actors : \A f, o : Sweeps(p) /\ f \notin Excused /\ Knows(p, o, f) =>
    \E e : Says(store, e, f) /\ Knows(p, e, f)

\* An actor believes all that an entry says, or is a sweep that knows the fact
\* of another entry.
UpToDate ==
  \A a \in Actors : \A e, x, f : Believes(a, e, x) /\ Says(store, e, f) /\ f \notin Excused =>
    \/ f \in x.facts
    \/ Sweeps(a) /\ \E o : Knows(a, o, f)

\* Of two entries that say the same, two sweeps do not each miss a different one.
Shared ==
  \A p, q \in Actors : \A f, e, o :
    p # q /\ Sweeps(p) /\ Sweeps(q) /\ f \notin Excused
    /\ Says(store, e, f) /\ Says(store, o, f)
      => Knows(p, e, f) \/ Knows(q, o, f)

VanishInv == Typed /\ Recorded /\ Remembered /\ UpToDate /\ Shared /\ NothingVanishes

\* What a step of the actors in X, one or none, does to the facts.
Loses(X) ==
  \A e, f : Says(store, e, f) /\ ~Says(store', e, f) =>
    \/ f \in Excused'
    \/ \E x \in X : Sweeps(x) /\ e \in Held(act[x].live) /\ f \notin act[x].live[e].facts

Gains(X) ==
  \A e, f : Says(store', e, f) /\ ~Says(store, e, f) =>
    \/ f \in Excused'
    \/ /\ \A o \in Actors \ X : Resting(o)
       /\ \A x \in X : \A y : Believes(x, e, y)' =>
            f \in y.facts \/ (Sweeps(x)' /\ \E o : Knows(x, o, f)')

Writes ==
  /\ \A f \in written' \ written : f \in Excused' \/ \E e : Says(store', e, f)
  /\ Recorded'

\* What it does to the views: they stay, or are of the store as it is now.
Views(X) ==
  /\ \A o \in Actors \ X : act'[o] = act[o]
  /\ \A x \in X :
       /\ \A e, y : Believes(x, e, y)' =>
            /\ Believes(x, e, y) \/ y = store'[e] \/ e \notin Active(store')
            /\ Sweeps(x) => Sweeps(x)'
       /\ Sweeps(x)' => \/ Sweeps(x) /\ act'[x].live = act[x].live
                        \/ act'[x].live = store'

Told(X) == Loses(X) /\ Gains(X) /\ Writes

LEMMA VanishStep ==
  ASSUME VanishInv, Typed', Grown, NEW X \in SUBSET Actors, \A x, y \in X : x = y,
         Told(X), Views(X)
  PROVE  VanishInv'
<1>1. Excused \subseteq Excused'
  BY DEF Grown, Excused
<1>2. Recorded'
  BY DEF Told, Writes
\* A fact whose entry stops saying it is still said by an entry the writer knows.
<1>3. ASSUME NEW e, NEW f, Says(store, e, f), ~Says(store', e, f), f \notin Excused'
      PROVE  \E x \in X : /\ Sweeps(x) /\ ~Knows(x, e, f)
                          /\ \E o : Says(store, o, f) /\ Says(store', o, f) /\ Knows(x, o, f)
  <2>1. PICK x \in X : /\ Sweeps(x) /\ e \in Held(act[x].live)
                       /\ f \notin act[x].live[e].facts
    BY <1>3 DEF Told, Loses
  <2>2. Believes(x, e, act[x].live[e])
    BY <2>1 DEF Believes, Sweeps, Viewing
  <2>3. x \in Actors /\ f \notin Excused
    BY <1>1, <1>3
  <2>4. \E o : Knows(x, o, f)
    BY <1>3, <2>1, <2>2, <2>3 DEF VanishInv, UpToDate
  <2>5. PICK o : Says(store, o, f) /\ Knows(x, o, f)
    BY <2>1, <2>3, <2>4 DEF VanishInv, Remembered
  <2>6. Says(store', o, f)
    <3>1. ASSUME ~Says(store', o, f) PROVE FALSE
      <4>1. PICK y \in X : f \notin act[y].live[o].facts
        BY <1>3, <2>5, <3>1 DEF Told, Loses
      <4>2. y = x
        OBVIOUS
      <4> QED
        BY <2>5, <4>1, <4>2 DEF Knows, Says
    <3> QED
      BY <3>1
  <2>7. ~Knows(x, e, f)
    BY <2>1 DEF Knows, Says
  <2> QED
    BY <2>1, <2>5, <2>6, <2>7
<1>4. NothingVanishes'
  <2> SUFFICES ASSUME NEW f \in written', f \notin Excused'
               PROVE  \E e : Says(store', e, f)
    BY Zenon DEF NothingVanishes, Visible, Excused, Says
  <2>1. CASE f \in written
    <3>1. f \notin Excused
      BY <1>1
    <3>2. PICK e : Says(store, e, f)
      BY <2>1, <3>1, Zenon DEF VanishInv, NothingVanishes, Visible, Excused, Says
    <3> QED
      BY <1>3, <3>2
  <2>2. CASE f \notin written
    BY <2>2 DEF Told, Writes
  <2> QED
    BY <2>1, <2>2
\* A sweep is in the middle of its work, or has just read the store.
<1>5. ASSUME NEW p \in Actors, Sweeps(p)'
      PROVE  \/ Sweeps(p) /\ act'[p].live = act[p].live
             \/ p \in X /\ act'[p].live = store'
  <2>1. CASE p \in X
    BY <1>5, <2>1 DEF Views
  <2>2. CASE p \notin X
    BY <1>5, <2>2 DEF Views, Sweeps
  <2> QED
    BY <2>1, <2>2
<1>6. Remembered'
  <2> SUFFICES ASSUME NEW p \in Actors, NEW f, NEW o,
                      Sweeps(p)', f \notin Excused', Knows(p, o, f)'
               PROVE  \E e : Says(store', e, f) /\ Knows(p, e, f)'
    BY DEF Remembered
  <2>1. CASE act'[p].live = store'
    BY <2>1 DEF Knows
  <2>2. CASE Sweeps(p) /\ act'[p].live = act[p].live
    <3>1. Knows(p, o, f) /\ f \notin Excused
      BY <1>1, <2>2 DEF Knows
    <3>2. PICK e : Says(store, e, f) /\ Knows(p, e, f)
      BY <2>2, <3>1 DEF VanishInv, Remembered
    <3>3. CASE Says(store', e, f)
      BY <2>2, <3>2, <3>3 DEF Knows
    <3>4. CASE ~Says(store', e, f)
      <4>1. PICK x \in X : /\ Sweeps(x) /\ ~Knows(x, e, f)
                           /\ \E n : Says(store, n, f) /\ Says(store', n, f) /\ Knows(x, n, f)
        BY <1>3, <3>2, <3>4
      <4>2. PICK n : Says(store, n, f) /\ Says(store', n, f) /\ Knows(x, n, f)
        BY <4>1
      <4>3. x # p /\ x \in Actors
        BY <3>2, <4>1
      <4>4. Knows(p, n, f)
        BY <2>2, <3>1, <3>2, <4>1, <4>2, <4>3 DEF VanishInv, Shared
      <4> QED
        BY <2>2, <4>2, <4>4 DEF Knows
    <3> QED
      BY <3>3, <3>4
  <2> QED
    BY <1>5, <2>1, <2>2
<1>7. UpToDate'
  <2> SUFFICES ASSUME NEW a \in Actors, NEW e, NEW x, NEW f,
                      Believes(a, e, x)', Says(store', e, f), f \notin Excused'
               PROVE  f \in x.facts \/ (Sweeps(a)' /\ \E o : Knows(a, o, f)')
    BY DEF UpToDate
  <2>0. f \notin Excused
    BY <1>1
  <2>1. CASE a \notin X
    <3>1. act'[a] = act[a]
      BY <2>1 DEF Views
    <3>2. Believes(a, e, x) /\ ~Resting(a)
      BY <3>1 DEF Believes, Resting, Viewing
    <3>3. Says(store, e, f)
      BY <2>1, <3>2 DEF Told, Gains
    <3>4. f \in x.facts \/ (Sweeps(a) /\ \E o : Knows(a, o, f))
      BY <2>0, <3>2, <3>3 DEF VanishInv, UpToDate
    <3> QED
      BY <3>1, <3>4 DEF Sweeps, Knows
  <2>2. CASE a \in X /\ ~Says(store, e, f)
    BY <2>2 DEF Told, Gains
  <2>3. CASE a \in X /\ Says(store, e, f)
    <3>1. /\ Believes(a, e, x) \/ x = store'[e] \/ e \notin Active(store')
          /\ Sweeps(a) => Sweeps(a)'
      BY <2>3 DEF Views
    <3>2. CASE Believes(a, e, x)
      <4>1. f \in x.facts \/ (Sweeps(a) /\ \E o : Knows(a, o, f))
        BY <2>0, <2>3, <3>2 DEF VanishInv, UpToDate
      <4>2. ASSUME Sweeps(a), NEW o, Knows(a, o, f)
            PROVE  Sweeps(a)' /\ \E n : Knows(a, n, f)'
        <5>1. Sweeps(a)'
          BY <3>1, <4>2
        <5> QED
          BY <1>5, <4>2, <5>1 DEF Knows
      <4> QED
        BY <4>1, <4>2
    <3>3. CASE x = store'[e] \/ e \notin Active(store')
      BY <3>3 DEF Says
    <3> QED
      BY <3>1, <3>2, <3>3
  <2> QED
    BY <2>1, <2>2, <2>3
<1>8. Shared'
  <2> SUFFICES ASSUME NEW p \in Actors, NEW q \in Actors, NEW f, NEW e, NEW o,
                      p # q, Sweeps(p)', Sweeps(q)', f \notin Excused',
                      Says(store', e, f), Says(store', o, f)
               PROVE  Knows(p, e, f)' \/ Knows(q, o, f)'
    BY DEF Shared
  <2>1. CASE act'[p].live = store' \/ act'[q].live = store'
    BY <2>1 DEF Knows
  <2>2. CASE /\ Sweeps(p) /\ act'[p].live = act[p].live
             /\ Sweeps(q) /\ act'[q].live = act[q].live
    <3>1. \E r \in Actors \ X : ~Resting(r)
      BY <2>2 DEF Sweeps, Resting
    <3>2. Says(store, e, f) /\ Says(store, o, f)
      BY <3>1 DEF Told, Gains
    <3>3. Knows(p, e, f) \/ Knows(q, o, f)
      BY <1>1, <2>2, <3>2 DEF VanishInv, Shared
    <3> QED
      BY <2>2, <3>3 DEF Knows
  <2> QED
    BY <1>5, <2>1, <2>2
<1> QED
  BY <1>2, <1>4, <1>6, <1>7, <1>8 DEF VanishInv

-----------------------------------------------------------------------------
(* What the store calls do to the facts.                                   *)

\* A call that leaves the store alone.
LEMMA KeptTells ==
  ASSUME Recorded, UNCHANGED <<store, written>>, NEW X
  PROVE  Told(X)
  BY DEF Told, Loses, Gains, Writes, Recorded, Present

\* What goes is excused, or is news to a sweep ...
Drops(a, e, rest, excused) ==
  \A f \in store[e].facts \ rest :
    \/ e \notin Active(store)
    \/ f \in Excused \cup excused
    \/ Sweeps(a) /\ e \in Held(act[a].live) /\ f \notin act[a].live[e].facts

\* ... and what comes, unseen by others, is known to the writer.
Brings(a, e, facts, view, dropped) ==
  store[e] = view =>
    /\ \A f \in facts \ store[e].facts : \A y : Believes(a, e, y)' =>
         f \in y.facts \/ (Sweeps(a)' /\ \E o : Knows(a, o, f)')
    /\ e \notin Active(store) => facts \subseteq dropped \cup store[e].facts

LEMMA UpdateTells ==
  ASSUME VanishInv, NEW a \in Actors, NEW e \in Present, NEW facts \in SUBSET AllFacts,
         NEW view, NEW dropped, Update(a, e, facts, view, dropped),
         Drops(a, e, facts, dropped), Brings(a, e, facts, view, dropped)
  PROVE  Told({a})
<1>1. /\ DOMAIN store' = DOMAIN store /\ store'[e] \in Entry
      /\ store'[e].facts = facts /\ store'[e].by = store[e].by
      /\ \A o \in DOMAIN store \ {e} : store'[o] = store[o]
      /\ e \in DOMAIN store /\ store[e] # None /\ store'[e] # None
  <2>1. StoreTyped
    BY DEF VanishInv, Typed
  <2>2. e \in DOMAIN store /\ store[e] # None
    BY DEF Present
  <2>3. /\ StoreTyped' /\ DOMAIN store' = DOMAIN store
        /\ store'[e] \in Entry
        /\ store'[e] = [store[e] EXCEPT !.facts = facts]
        /\ store'[e].facts = facts /\ store'[e].by = store[e].by
        /\ \A o \in DOMAIN store \ {e} : store'[o] = store[o]
    BY <2>1, UpdateStores, ZenonT(30)
  <2>4. store'[e] # None
    BY <2>3, EntryOps
  <2> QED
    BY <2>2, <2>3, <2>4
<1>2. /\ Excused \cup dropped \subseteq Excused'
      /\ written' = written \cup facts
      /\ Flying(a) # {} \/ store[e] # view => facts \ store[e].facts \subseteq Excused'
  BY DEF Update, Excused
<1>3. /\ e \in Active(store') <=> e \in Active(store)
      /\ \A o : o # e => (o \in Active(store') <=> o \in Active(store))
      /\ \A o : o # e => (o \in Present' <=> o \in Present)
      /\ \A o \in Active(store) : o \in DOMAIN store
  BY <1>1 DEF Active, Present
<1>4. ASSUME NEW o, NEW f, o # e
      PROVE  Says(store', o, f) <=> Says(store, o, f)
  BY <1>1, <1>3, <1>4 DEF Says, Active
<1>5. Loses({a})
  <2> SUFFICES ASSUME NEW o, NEW f, Says(store, o, f), ~Says(store', o, f), f \notin Excused'
               PROVE  /\ Sweeps(a) /\ o \in Held(act[a].live)
                      /\ f \notin act[a].live[o].facts
    BY DEF Loses
  <2>1. o = e
    BY <1>4
  <2> QED
    BY <1>1, <1>2, <1>3, <2>1 DEF Says, Drops
<1>6. Gains({a})
  <2> SUFFICES ASSUME NEW o, NEW f, Says(store', o, f), ~Says(store, o, f), f \notin Excused'
               PROVE  /\ \A n \in Actors \ {a} : Resting(n)
                      /\ \A y : Believes(a, o, y)' =>
                           f \in y.facts \/ (Sweeps(a)' /\ \E n : Knows(a, n, f)')
    BY DEF Gains
  <2>1. o = e
    BY <1>4
  <2>2. f \in facts \ store[e].facts
    BY <1>1, <1>3, <2>1 DEF Says
  <2>3. Flying(a) = {} /\ store[e] = view
    BY <1>2, <2>2
  <2>4. \A n \in Actors \ {a} : Resting(n)
    BY <2>3 DEF Flying, Resting
  <2> QED
    BY <2>1, <2>2, <2>3, <2>4 DEF Brings
<1>7. Writes
  <2>1. Recorded'
    <3> SUFFICES ASSUME NEW o \in Present' PROVE store'[o].facts \subseteq written'
      BY DEF Recorded
    <3> QED
      BY <1>1, <1>2, <1>3 DEF VanishInv, Recorded, Present
  <2>2. ASSUME NEW f \in written' \ written, f \notin Excused'
        PROVE  \E o : Says(store', o, f)
    <3>1. f \in facts
      BY <1>2, <2>2
    <3>2. f \notin store[e].facts
      BY <2>2 DEF VanishInv, Recorded
    <3>3. store[e] = view
      BY <1>2, <2>2, <3>1, <3>2
    <3>4. e \in Active(store)
      BY <1>2, <2>2, <3>1, <3>2, <3>3 DEF Brings
    <3> QED
      BY <1>1, <1>3, <3>1, <3>4 DEF Says
  <2> QED
    BY <2>1, <2>2 DEF Writes
<1> QED
  BY <1>5, <1>6, <1>7 DEF Told

LEMMA AddTells ==
  ASSUME VanishInv, NEW a \in Actors, NEW g \in AllFacts, Add(a, g),
         \A n, y : n = Len(store) + 1 => ~Believes(a, n, y)'
  PROVE  Told({a})
<1>0. PICK n : n = Len(store) + 1
  OBVIOUS
<1>1. /\ DOMAIN store' = DOMAIN store \cup {n} /\ n \notin DOMAIN store
      /\ store'[n] \in Entry /\ store'[n] # None
      /\ \A o \in DOMAIN store : store'[o] = store[o]
      /\ store'[n].facts = {g} /\ store'[n].by = None
  <2>1. /\ DOMAIN store' = DOMAIN store \cup {n} /\ n \notin DOMAIN store
        /\ store'[n] = [facts |-> {g}, by |-> None] /\ store'[n] \in Entry
        /\ \A o \in DOMAIN store : store'[o] = store[o]
    BY <1>0, AddStores DEF VanishInv, Typed
  <2>2. store'[n] # None
    BY <2>1, EntryOps
  <2>3. store'[n].facts = {g} /\ store'[n].by = None
    BY <2>1
  <2> QED
    BY <2>1, <2>2, <2>3
<1>2. /\ written' = written \cup {g}
      /\ Excused \subseteq Excused' /\ (Flying(a) # {} => g \in Excused')
  BY DEF Add, Excused
<1>3. /\ \A o : o # n => (o \in Active(store') <=> o \in Active(store))
      /\ \A o : o # n => (o \in Present' <=> o \in Present)
      /\ n \in Active(store') /\ n \notin Active(store)
  BY <1>1 DEF Active, Present
<1>4. ASSUME NEW o, NEW f, o # n
      PROVE  Says(store', o, f) <=> Says(store, o, f)
  BY <1>1, <1>3, <1>4 DEF Says, Active
<1>5. Loses({a})
  BY <1>3, <1>4 DEF Loses, Says
<1>6. Gains({a})
  <2> SUFFICES ASSUME NEW o, NEW f, Says(store', o, f), ~Says(store, o, f), f \notin Excused'
               PROVE  /\ \A m \in Actors \ {a} : Resting(m)
                      /\ \A y : ~Believes(a, o, y)'
    BY DEF Gains
  <2>1. o = n
    BY <1>4
  <2>2. f = g
    BY <1>1, <2>1 DEF Says
  <2>3. Flying(a) = {}
    BY <1>2, <2>2
  <2>4. \A m \in Actors \ {a} : Resting(m)
    BY <2>3 DEF Flying, Resting
  <2>5. \A y : ~Believes(a, n, y)'
    BY <1>0
  <2> QED
    BY <2>1, <2>4, <2>5
<1>7. Writes
  <2>1. Recorded'
    <3> SUFFICES ASSUME NEW o \in Present' PROVE store'[o].facts \subseteq written'
      BY DEF Recorded
    <3> QED
      BY <1>1, <1>2, <1>3 DEF VanishInv, Recorded, Present
  <2>2. Says(store', n, g)
    BY <1>1, <1>3 DEF Says
  <2> QED
    BY <1>2, <2>1, <2>2 DEF Writes
<1> QED
  BY <1>5, <1>6, <1>7 DEF Told

LEMMA SupersedeTells ==
  ASSUME VanishInv, NEW a \in Actors, NEW e \in Present, NEW by \in DOMAIN store,
         NEW known, Supersede(e, by, known), UNCHANGED <<written, exposed>>,
         Drops(a, e, {}, known)
  PROVE  Told({a}) /\ e \notin Active(store')
<1>1. /\ DOMAIN store' = DOMAIN store /\ store'[e] \in Entry
      /\ store'[e].facts = store[e].facts /\ store'[e].by # None
      /\ \A o \in DOMAIN store \ {e} : store'[o] = store[o]
      /\ e \in DOMAIN store /\ store[e] # None /\ store'[e] # None
  BY SupersedeStores, EntryOps DEF VanishInv, Typed, Present
<1>2. /\ Excused \cup known \subseteq Excused' /\ written' = written
  BY DEF Supersede, Excused
<1>3. /\ \A o : o # e => (o \in Active(store') <=> o \in Active(store))
      /\ \A o : o \in Present' <=> o \in Present
      /\ e \notin Active(store')
  BY <1>1 DEF Active, Present
<1>4. ASSUME NEW o, NEW f, o # e
      PROVE  Says(store', o, f) <=> Says(store, o, f)
  BY <1>1, <1>3, <1>4 DEF Says, Active
<1>5. Loses({a})
  <2> SUFFICES ASSUME NEW o, NEW f, Says(store, o, f), ~Says(store', o, f), f \notin Excused'
               PROVE  /\ Sweeps(a) /\ o \in Held(act[a].live)
                      /\ f \notin act[a].live[o].facts
    BY DEF Loses
  <2>1. o = e
    BY <1>4
  <2> QED
    BY <1>2, <2>1 DEF Says, Drops
<1>6. Gains({a})
  BY <1>3, <1>4 DEF Gains, Says
<1>7. Writes
  BY <1>1, <1>2, <1>3 DEF Writes, VanishInv, Recorded, Present
<1> QED
  BY <1>3, <1>5, <1>6, <1>7 DEF Told

-----------------------------------------------------------------------------
(* What each step does to the view of its actor.                           *)

\* An actor that adds, or is over, has no view.
LEMMA BlindViews ==
  ASSUME NEW a \in Actors, Mine(a), act'[a].phase \notin Viewing,
         act'[a].phase = "legacy" => act'[a].at = None
  PROVE  Views({a}) /\ \A e, y : ~Believes(a, e, y)'
  BY DEF Views, Mine, Believes, Sweeps, Viewing

\* One that keeps its view.
LEMMA SameViews ==
  ASSUME NEW a \in Actors, Mine(a), act[a].phase \in Viewing, act'[a].phase \in Viewing,
         act'[a].live = act[a].live,
         act[a].phase = "sweep" <=> act'[a].phase = "sweep"
  PROVE  Views({a}) /\ \A e, y : Believes(a, e, y)' => Believes(a, e, y)
<1>1. \A e, y : Believes(a, e, y)' => Believes(a, e, y)
  BY DEF Believes, Viewing
<1> QED
  BY <1>1 DEF Views, Mine, Sweeps

\* One that has just read the store.
LEMMA FreshViews ==
  ASSUME NEW a \in Actors, Mine(a), UNCHANGED store, act[a].phase = "idle",
         act'[a].phase \in Viewing, act'[a].live = store
  PROVE  Views({a})
<1>1. \A e, y : Believes(a, e, y)' => y = store'[e]
  BY DEF Believes, Viewing
<1> QED
  BY <1>1 DEF Views, Mine, Sweeps

\* A batch that changes what it knows of one entry.
LEMMA OneViewed ==
  ASSUME NEW a \in Actors, Mine(a), act[a].phase \in Viewing \ {"sweep"},
         act'[a].phase \in Viewing \ {"sweep"}, NEW e \in Held(act[a].live),
         DOMAIN act'[a].live = DOMAIN act[a].live,
         \A o \in DOMAIN act[a].live \ {e} : act'[a].live[o] = act[a].live[o],
         act'[a].live[e] = store'[e] \/ e \notin Active(store')
  PROVE  Views({a})
<1>1. ASSUME NEW o, NEW y, Believes(a, o, y)'
      PROVE  Believes(a, o, y) \/ y = store'[o] \/ o \notin Active(store')
  <2>1. o \in DOMAIN act[a].live /\ y = act'[a].live[o] /\ act'[a].live[o] \in Entry
    BY <1>1 DEF Believes, Held, Viewing
  <2>2. CASE o = e
    BY <2>1, <2>2
  <2>3. CASE o # e
    BY <2>1, <2>3 DEF Believes, Held
  <2> QED
    BY <2>2, <2>3
<1> QED
  BY <1>1 DEF Views, Mine, Sweeps

-----------------------------------------------------------------------------
(* Every step of an actor.                                                 *)

LEMMA RewriteTells ==
  ASSUME VanishInv, NEW b \in Batches, act[b].phase = "applying", NEW v \in Verdicts(b),
         Rewrite(b, v)
  PROVE  Told({b}) /\ Views({b})
<1> DEFINE e == v.target
           old == act[b].live[e].facts
           f == FactOf(b, v)
           new == Replacement(v.action, f, old)
           live == [act[b].live EXCEPT ![e] = [store[e] EXCEPT !.facts = new]]
<1>1. /\ b \in Actors /\ Typed /\ StoreTyped /\ FrameTyped(act[b]) /\ Recorded
      /\ v.pair[1] \in DOMAIN Parsed[b] /\ e \in Offered(act[b].live)
  BY DEF VanishInv, Typed, BatchTyped, Verdicts, Actors
<1>2. /\ e \in DOMAIN act[b].live /\ act[b].live[e] \in Entry /\ act[b].live[e].by = None
      /\ e \in Held(act[b].live)
  BY <1>1, OfferedHeld DEF Held
<1>3. new \in SUBSET AllFacts
  BY <1>1, <1>2, EntryOps, FactsKnown, ReplacementIsPart DEF FactOf
<1>4. Believes(b, e, act[b].live[e]) /\ ~Sweeps(b)
  BY <1>2 DEF Believes, Viewing, Sweeps
<1>5. CASE e \in Present /\ Update(b, e, new, act[b].live[e], (old \cup {f}) \ new)
           /\ Took(b, v, live, {f})
  <2> HIDE DEF new, f, live
  <2>1. /\ Mine(b) /\ act'[b].phase = "applying" /\ act'[b].live = live
    BY <1>1, <1>5, TookMoves
  <2>2. /\ store'[e] = [store[e] EXCEPT !.facts = new] /\ store'[e].facts = new
        /\ store[e] \in Entry
    <3>1. store[e] \in Entry
      BY <1>1, <1>5, StorePositions
    <3>2. /\ store'[e] = [store[e] EXCEPT !.facts = new] /\ store'[e].facts = new
      <4> DEFINE dropped == (old \cup {f}) \ new
                 view == act[b].live[e]
      <4>1. e \in Present /\ Update(b, e, new, view, dropped)
        BY <1>5
      <4> HIDE DEF dropped, view, old, e
      <4> QED
        BY <1>1, <1>3, <4>1, UpdateStores
    <3> QED
      BY <3>1, <3>2
  <2>3. /\ DOMAIN live = DOMAIN act[b].live /\ live[e] = store'[e]
        /\ \A o \in DOMAIN act[b].live \ {e} : live[o] = act[b].live[o]
    BY <1>2, <2>2 DEF live
  <2>4. Views({b})
    BY <1>1, <1>2, <2>1, <2>3, OneViewed DEF Viewing
  <2>5. Drops(b, e, new, (old \cup {f}) \ new)
    BY <1>1, <1>4 DEF Drops, VanishInv, UpToDate, Says
  <2>6. Brings(b, e, new, act[b].live[e], (old \cup {f}) \ new)
    <3>1. ASSUME NEW g \in new \ store[e].facts, NEW y, Believes(b, e, y)'
          PROVE  g \in y.facts
      BY <2>1, <2>2, <2>3, <3>1 DEF Believes, Viewing
    <3>2. ASSUME e \notin Active(store), store[e] = act[b].live[e] PROVE FALSE
      BY <1>1, <1>2, <1>5, <3>2, StorePositions, EntryOps DEF Active
    <3> QED
      BY <3>1, <3>2 DEF Brings
  <2>7. Told({b})
    <3> DEFINE dropped == (old \cup {f}) \ new
               view == act[b].live[e]
    <3>1. /\ e \in Present /\ Update(b, e, new, view, dropped)
          /\ Drops(b, e, new, dropped) /\ Brings(b, e, new, view, dropped)
      BY <1>5, <2>5, <2>6
    <3> HIDE DEF dropped, view, old, e
    <3> QED
      BY <1>1, <1>3, <3>1, UpdateTells
  <2> QED
    BY <2>4, <2>7
<1>6. ASSUME NEW acted, UNCHANGED <<store, written>>, Took(b, v, act[b].live, acted)
      PROVE  Told({b}) /\ Views({b})
  <2>1. /\ Mine(b) /\ act'[b].phase = "applying" /\ act'[b].live = act[b].live
    BY <1>1, <1>6, TookMoves
  <2> QED
    BY <1>1, <1>6, <2>1, KeptTells, SameViews DEF Viewing
<1> QED
  BY <1>5, <1>6 DEF Rewrite, Rejected, history

LEMMA AddFreshTells ==
  ASSUME VanishInv, NEW b \in Batches, act[b].phase = "applying", NEW v \in Verdicts(b),
         AddFresh(b, v)
  PROVE  Told({b}) /\ Views({b})
<1>1. /\ b \in Actors /\ Typed /\ StoreTyped /\ FrameTyped(act[b]) /\ Recorded
      /\ v.pair[1] \in DOMAIN Parsed[b]
  BY DEF VanishInv, Typed, BatchTyped, Verdicts, Actors
<1>2. CASE Add(b, FactOf(b, v)) /\
           act' = [act EXCEPT ![b].phase = "superseding",
                              ![b].at = [verdict |-> v, fresh |-> Len(store) + 1]]
  <2>1. FactOf(b, v) \in AllFacts
    BY <1>1, FactsKnown DEF FactOf
  <2>2. Mine(b) /\ act'[b].phase = "superseding" /\ act'[b].live = act[b].live
    BY <1>1, <1>2, FreshMoves
  <2>3. Views({b}) /\ \A e, y : Believes(b, e, y)' => Believes(b, e, y)
    BY <1>1, <2>2, SameViews DEF Viewing
  <2>4. \A n, y : n = Len(store) + 1 => ~Believes(b, n, y)
    <3>1. Len(store) + 1 \notin DOMAIN store
      BY <1>1, <1>2, <2>1, AddStores
    <3> QED
      BY <1>1, <3>1 DEF Believes, Held, FrameTyped
  <2> QED
    BY <1>1, <1>2, <2>1, <2>3, <2>4, AddTells
<1>3. CASE UNCHANGED <<store, written>> /\ Took(b, v, act[b].live, {})
  <2>1. /\ Mine(b) /\ act'[b].phase = "applying" /\ act'[b].live = act[b].live
    BY <1>1, <1>3, TookMoves
  <2> QED
    BY <1>1, <1>3, <2>1, KeptTells, SameViews DEF Viewing
<1> QED
  BY <1>2, <1>3 DEF AddFresh, Rejected, history

LEMMA SupersedeTargetTells ==
  ASSUME VanishInv, NEW b \in Batches, SupersedeTarget(b)
  PROVE  Told({b}) /\ Views({b})
<1> DEFINE v == act[b].at.verdict
           e == v.target
           fresh == act[b].at.fresh
           live == act[b].live
           new == [live EXCEPT ![e].by = fresh]
<1>1. /\ b \in Actors /\ Typed /\ StoreTyped /\ FrameTyped(act[b]) /\ Recorded
      /\ act[b].phase = "superseding" /\ e \in Offered(live) /\ fresh \in DOMAIN store
  BY DEF VanishInv, Typed, BatchTyped, SupersedeTarget, Actors
<1>2. e \in DOMAIN live /\ e \in Held(live)
  BY <1>1, OfferedHeld DEF Held
<1>3. Believes(b, e, live[e]) /\ ~Sweeps(b)
  BY <1>1, <1>2 DEF Believes, Viewing, Sweeps
<1>4. CASE /\ e \in Present /\ Supersede(e, fresh, live[e].facts)
           /\ Took(b, v, new, {FactOf(b, v)}) /\ UNCHANGED <<written, exposed>>
  <2>1. Drops(b, e, {}, live[e].facts)
    BY <1>1, <1>3 DEF Drops, VanishInv, UpToDate, Says
  <2>2. Told({b}) /\ e \notin Active(store')
    BY <1>1, <1>4, <2>1, SupersedeTells
  <2>3. /\ DOMAIN new = DOMAIN live /\ \A o \in DOMAIN live \ {e} : new[o] = live[o]
    OBVIOUS
  <2> HIDE DEF new
  <2>4. Mine(b) /\ act'[b].phase = "applying" /\ act'[b].live = new
    BY <1>1, <1>4, TookMoves
  <2>5. Views({b})
    BY <1>1, <1>2, <2>2, <2>3, <2>4, OneViewed DEF Viewing
  <2> QED
    BY <2>2, <2>5
<1>5. ASSUME NEW acted, UNCHANGED <<store, written>>, Took(b, v, live, acted)
      PROVE  Told({b}) /\ Views({b})
  <2>1. /\ Mine(b) /\ act'[b].phase = "applying" /\ act'[b].live = live
    BY <1>1, <1>5, TookMoves
  <2> QED
    BY <1>1, <1>5, <2>1, KeptTells, SameViews DEF Viewing
<1> QED
  BY <1>4, <1>5 DEF SupersedeTarget, Rejected, history

\* A batch that claims what it has in hand looks at no entry any more.
LEMMA ClaimViews ==
  ASSUME VanishInv, NEW b \in Batches, act[b].phase \in {"adding", "legacy"}, NEW f,
         Claim(b, f)
  PROVE  Views({b}) /\ \A e, y : ~Believes(b, e, y)'
<1>1. b \in Actors /\ Typed
  BY DEF Actors, VanishInv
<1>2. Mine(b) /\ act'[b].phase \in {"done", "adding", "legacy"} /\ act'[b].at = None
  BY <1>1, ClaimMoves
<1> QED
  BY <1>1, <1>2, BlindViews DEF Viewing

LEMMA DirectAddTells ==
  ASSUME VanishInv, NEW b \in Batches, NEW f \in Facts(b), DirectAdd(b, f)
  PROVE  Told({b}) /\ Views({b})
<1>1. b \in Actors /\ f \in AllFacts /\ Recorded
  BY FactsKnown DEF Actors, VanishInv
<1>2. Views({b}) /\ \A e, y : ~Believes(b, e, y)'
  BY ClaimViews DEF DirectAdd
<1>3. Told({b})
  BY <1>1, <1>2, AddTells, KeptTells DEF DirectAdd, Rejected
<1> QED
  BY <1>2, <1>3

LEMMA LegacyWriteTells ==
  ASSUME VanishInv, NEW b \in Batches, NEW action \in JudgeVerdicts, LegacyWrite(b, action)
  PROVE  Told({b}) /\ Views({b})
<1> DEFINE f == act[b].at.fact
           e == act[b].at.target
           view == act[b].at.view
           old == act[b].at.view.facts
           new == Replacement(action, f, old)
           dropped == IF view.by = None THEN (old \cup {f}) \ new ELSE old \cup {f}
<1>1. /\ b \in Actors /\ StoreTyped /\ Recorded
      /\ act[b].phase = "legacy" /\ act[b].at # None /\ Claim(b, f)
      /\ f \in Facts(b) /\ view \in Entry
  BY DEF VanishInv, Typed, BatchTyped, LegacyWrite, Actors
<1>2. /\ f \in AllFacts /\ new \in SUBSET AllFacts /\ new \in SUBSET (old \cup {f})
  BY <1>1, EntryOps, FactsKnown, ReplacementIsPart
<1>3. Views({b}) /\ \A o, y : ~Believes(b, o, y)'
  BY <1>1, ClaimViews
<1>4. Believes(b, e, view) /\ ~Sweeps(b)
  BY <1>1 DEF Believes, Sweeps
<1>5. CASE Add(b, f)
  <2> HIDE DEF f
  <2> QED
    BY <1>1, <1>2, <1>3, <1>5, AddTells
<1>6. CASE e \in Present /\ Update(b, e, new, view, dropped)
  <2>1. PICK o : o = e
    OBVIOUS
  <2>2. o \in Present /\ Update(b, o, new, view, dropped)
    BY <1>6, <2>1
  <2>3. Drops(b, o, new, dropped)
    <3>1. old \ new \subseteq dropped
      OBVIOUS
    <3> HIDE DEF dropped, new
    <3> QED
      BY <1>1, <1>4, <2>1, <3>1 DEF Drops, VanishInv, UpToDate, Says
  <2>4. Brings(b, o, new, view, dropped)
    <3>1. ASSUME o \notin Active(store), store[o] = view
          PROVE  new \subseteq dropped \cup store[o].facts
      <4>1. view.by # None
        BY <1>1, <2>2, <3>1, StorePositions, EntryOps DEF Active
      <4> QED
        BY <1>2, <4>1
    <3> HIDE DEF dropped, new
    <3> QED
      BY <1>3, <3>1 DEF Brings
  <2> HIDE DEF dropped, new, view, f, old
  <2>5. b \in Actors /\ new \in SUBSET AllFacts
    BY <1>1, <1>2
  <2>6. Told({b})
    BY <2>2, <2>3, <2>4, <2>5, UpdateTells
  <2> QED
    BY <1>3, <2>6
<1>7. CASE UNCHANGED <<store, written>>
  BY <1>1, <1>3, <1>7, KeptTells
<1>8. \/ Add(b, f)
      \/ e \in Present /\ Update(b, e, new, view, dropped)
      \/ UNCHANGED <<store, written>>
  BY Zenon DEF LegacyWrite, Rejected
<1> QED
  BY <1>5, <1>6, <1>7, <1>8

LEMMA BatchTells ==
  ASSUME VanishInv, NEW b \in Batches, BatchStep(b)
  PROVE  Told({b}) /\ Views({b})
<1>1. b \in Actors /\ Typed /\ Recorded
  BY DEF Actors, VanishInv
<1>2. CASE StartBatch(b)
  <2>1. /\ Mine(b) /\ UNCHANGED store /\ act'[b].at = None
        /\ \/ act'[b].phase \in {"asked", "legacy"} /\ act'[b].live = store
           \/ act'[b].phase = "adding"
    BY <1>1, <1>2, StartBatchMoves
  <2>2. Told({b}) /\ act[b].phase = "idle"
    BY <1>1, <1>2, KeptTells DEF StartBatch, history
  <2>3. Views({b})
    <3>1. CASE act'[b].phase = "asked" /\ act'[b].live = store
      BY <1>1, <2>1, <2>2, <3>1, FreshViews DEF Viewing
    <3>2. CASE act'[b].phase \in {"legacy", "adding"}
      BY <1>1, <2>1, <3>2, BlindViews DEF Viewing
    <3> QED
      BY <2>1, <3>1, <3>2
  <2> QED
    BY <2>2, <2>3
<1>3. CASE Judged(b)
  <2>1. /\ Mine(b) /\ act[b].phase = "asked" /\ act'[b].phase = "applying"
        /\ act'[b].live = act[b].live
    BY <1>1, <1>3, JudgedMoves
  <2>2. Told({b})
    BY <1>1, <1>3, KeptTells DEF Judged, history
  <2> QED
    BY <1>1, <2>1, <2>2, SameViews DEF Viewing
<1>4. CASE Unclaimed(b)
  <2>1. Mine(b) /\ act'[b].phase \in {"done", "adding"}
    BY <1>1, <1>4, UnclaimedMoves
  <2>2. Told({b})
    BY <1>1, <1>4, KeptTells DEF Unclaimed, history
  <2> QED
    BY <1>1, <2>1, <2>2, BlindViews DEF Viewing
<1>5. ASSUME NEW f, NEW e, LegacyAsk(b, f, e)
      PROVE  Told({b}) /\ Views({b})
  <2>1. /\ Mine(b) /\ UNCHANGED store /\ act[b].phase = "legacy" /\ act'[b].phase = "legacy"
        /\ act'[b].at = [fact |-> f, target |-> e, view |-> store[e]]
    BY <1>1, <1>5, LegacyAskMoves, Zenon
  <2>2. Told({b})
    BY <1>1, <1>5, KeptTells DEF LegacyAsk, history
  <2>3. \A o, y : Believes(b, o, y)' => y = store'[o]
    BY <2>1 DEF Believes, Viewing
  <2>4. Views({b})
    BY <1>1, <2>1, <2>3 DEF Views, Mine, Sweeps
  <2> QED
    BY <2>2, <2>4
<1>6. CASE ApplyVerdict(b)
  BY <1>6, RewriteTells, AddFreshTells DEF ApplyVerdict
<1> QED
  BY <1>2, <1>3, <1>4, <1>5, <1>6, SupersedeTargetTells, DirectAddTells,
     LegacyWriteTells DEF BatchStep

LEMMA ApplySweepTells ==
  ASSUME VanishInv, NEW p \in Passes, act[p].phase = "sweep", NEW v \in SweepVerdicts(p),
         ApplySweep(p, v)
  PROVE  Told({p}) /\ Views({p})
<1> DEFINE known == act[p].live[v.target]
           other == act[p].live[v.other].facts
           base == IF v.action = "merge" THEN store[v.target] ELSE known
           new == IF v.action = "merge" THEN MergeContent(base.facts, other) ELSE other
           dropped == (base.facts \cup other) \ new
<1>1. p \in Actors /\ Typed /\ StoreTyped /\ Recorded
  BY DEF Actors, VanishInv, Typed
<1>2. /\ known \in Entry /\ act[p].live[v.other] \in Entry /\ v.other \in DOMAIN store
      /\ v.target \in Held(act[p].live) /\ v.other \in Active(act[p].live)
  BY <1>1, SidesHeld DEF Held
<1>3. /\ Mine(p) /\ act'[p].phase = "sweep" /\ act'[p].live = act[p].live
  BY <1>1, PassTookMoves DEF ApplySweep
<1>4. Views({p}) /\ Sweeps(p) /\ Sweeps(p)'
  BY <1>1, <1>3, SameViews DEF Viewing, Sweeps
<1>5. \A f \in other : Knows(p, v.other, f)'
  BY <1>2, <1>3 DEF Knows, Says
<1>6. CASE v.target \in Active(store) /\ Update(p, v.target, new, base, dropped)
  <2>1. v.target \in Present /\ store[v.target] \in Entry
    BY <1>1, <1>6, StorePositions
  <2>2. new \in SUBSET AllFacts
    BY <1>2, <2>1, EntryOps, MergeIsPart
  <2>3. new \subseteq base.facts \cup other
    BY MergeIsPart
  <2>4. Drops(p, v.target, new, dropped)
    <3>1. CASE v.action = "merge"
      BY <3>1 DEF Drops
    <3>2. CASE v.action # "merge"
      BY <1>2, <1>4, <3>2 DEF Drops
    <3> QED
      BY <3>1, <3>2
  <2>5. Brings(p, v.target, new, base, dropped)
    BY <1>4, <1>5, <1>6, <2>3 DEF Brings
  <2> HIDE DEF new, base, dropped
  <2>6. Told({p})
    BY <1>1, <1>6, <2>1, <2>2, <2>4, <2>5, UpdateTells
  <2> QED
    BY <1>4, <2>6
<1>7. CASE /\ v.target \in Active(store) /\ Supersede(v.target, v.other, known.facts)
           /\ UNCHANGED <<written, exposed>>
  <2>1. v.target \in Present
    BY <1>1, <1>7, StorePositions
  <2>2. Drops(p, v.target, {}, known.facts)
    BY <1>2, <1>4 DEF Drops
  <2>3. Told({p})
    BY <1>1, <1>2, <1>7, <2>1, <2>2, SupersedeTells
  <2> QED
    BY <1>4, <2>3
<1>8. CASE UNCHANGED <<store, written>>
  BY <1>1, <1>4, <1>8, KeptTells
<1>9. \/ v.target \in Active(store) /\ Update(p, v.target, new, base, dropped)
      \/ /\ v.target \in Active(store) /\ Supersede(v.target, v.other, known.facts)
         /\ UNCHANGED <<written, exposed>>
      \/ UNCHANGED <<store, written>>
  BY Zenon DEF ApplySweep, Rejected
<1> QED
  BY <1>6, <1>7, <1>8, <1>9

LEMMA CurateTells ==
  ASSUME VanishInv, NEW p \in Passes, act[p].phase = "curate", NEW e \in Curated(p),
         Curate(p, e)
  PROVE  Told({p}) /\ Views({p})
<1> DEFINE view == act[p].live[e]
<1>1. /\ p \in Actors /\ Typed /\ StoreTyped /\ Recorded /\ e \in Held(act[p].live)
      /\ view \in Entry
  BY DEF Actors, VanishInv, Typed, PassTyped, Curated, Held
<1>2. /\ Mine(p) /\ act'[p].phase = "curate" /\ act'[p].live = act[p].live
  BY <1>1, CurateMoves
<1>3. Views({p})
  BY <1>1, <1>2, SameViews DEF Viewing
<1>4. Believes(p, e, view) /\ ~Sweeps(p)
  BY <1>1 DEF Believes, Viewing, Sweeps
<1>5. CASE e \in Present /\ Update(p, e, view.facts, view, {})
  <2>1. Drops(p, e, view.facts, {})
    BY <1>1, <1>4 DEF Drops, VanishInv, UpToDate, Says
  <2>2. Brings(p, e, view.facts, view, {})
    BY DEF Brings
  <2>3. view.facts \in SUBSET AllFacts
    BY <1>1, EntryOps
  <2> HIDE DEF view
  <2>4. Told({p})
    BY <1>1, <1>5, <2>1, <2>2, <2>3, UpdateTells
  <2> QED
    BY <1>3, <2>4
<1>6. CASE UNCHANGED <<store, written>>
  BY <1>1, <1>3, <1>6, KeptTells
<1> QED
  BY <1>5, <1>6 DEF Curate, Rejected

LEMMA PassTells ==
  ASSUME VanishInv, NEW p \in Passes, PassStep(p)
  PROVE  Told({p}) /\ Views({p})
<1>1. p \in Actors /\ Typed /\ Recorded
  BY DEF Actors, VanishInv
<1>2. ASSUME NEW mode \in {"sweep", "curate"}, StartPass(p, mode)
      PROVE  Told({p}) /\ Views({p})
  <2>1. Mine(p) /\ UNCHANGED store /\ act'[p].phase = mode /\ act'[p].live = store
    BY <1>1, <1>2, StartPassMoves
  <2>2. Told({p}) /\ act[p].phase = "idle"
    BY <1>1, <1>2, KeptTells DEF StartPass, history
  <2> QED
    BY <1>1, <2>1, <2>2, FreshViews DEF Viewing
<1>3. CASE EndPass(p)
  <2>1. Mine(p) /\ act'[p].phase = "done"
    BY <1>1, <1>3, EndPassMoves
  <2>2. Told({p})
    BY <1>1, <1>3, KeptTells DEF EndPass, history
  <2> QED
    BY <1>1, <2>1, <2>2, BlindViews DEF Viewing
<1> QED
  BY <1>2, <1>3, ApplySweepTells, CurateTells DEF PassStep

\* People.
LEMMA EditTells ==
  ASSUME VanishInv, NEW e \in DOMAIN store, NEW h \in HumanFacts, Edit(e, h)
  PROVE  Told({}) /\ Views({})
<1>1. /\ Typed /\ Recorded /\ e \in Active(store) /\ written' = written \cup {h}
      /\ Excused \subseteq Excused' /\ UNCHANGED act
      /\ (\E o \in Actors : ~Resting(o)) => h \in Excused'
  BY DEF VanishInv, Edit, Excused, Resting
<1>2. /\ DOMAIN store' = DOMAIN store
      /\ store'[e] \in Entry /\ store'[e].by = store[e].by
      /\ store'[e].facts = store[e].facts \cup {h}
      /\ \A o \in DOMAIN store \ {e} : store'[o] = store[o]
      /\ store'[e] # None
  <2>1. store'[e] \in Entry
    BY <1>1, EditTyped
  <2> QED
    BY <1>1, <2>1, EditTyped, EntryOps
<1>3. /\ \A o : o \in Active(store') <=> o \in Active(store)
      /\ \A o : o \in Present' <=> o \in Present
      /\ e \in Present
  BY <1>1, <1>2 DEF Active, Present
<1>4. ASSUME NEW o, NEW f, Says(store, o, f)
      PROVE  Says(store', o, f)
  BY <1>2, <1>3, <1>4 DEF Says, Active
<1>5. ASSUME NEW o, NEW f, Says(store', o, f), ~Says(store, o, f)
      PROVE  f = h
  BY <1>2, <1>3, <1>5 DEF Says, Active
<1>6. Loses({}) /\ Gains({})
  BY <1>1, <1>4, <1>5 DEF Loses, Gains
<1>7. Writes
  <2>1. Recorded'
    <3> SUFFICES ASSUME NEW o \in Present' PROVE store'[o].facts \subseteq written'
      BY DEF Recorded
    <3> QED
      BY <1>1, <1>2, <1>3 DEF Recorded, Present
  <2>2. Says(store', e, h)
    BY <1>1, <1>2, <1>3 DEF Says
  <2> QED
    BY <1>1, <2>1, <2>2 DEF Writes
<1> QED
  BY <1>1, <1>6, <1>7 DEF Told, Views

LEMMA RemoveTells ==
  ASSUME VanishInv, NEW e \in DOMAIN store, Remove(e)
  PROVE  Told({}) /\ Views({})
<1>1. /\ Typed /\ Recorded /\ e \in Present /\ UNCHANGED <<written, act>>
      /\ store[e].facts \subseteq Excused'
  BY DEF VanishInv, Remove, Excused
<1>2. /\ DOMAIN store' = DOMAIN store /\ store'[e] = None
      /\ \A o \in DOMAIN store \ {e} : store'[o] = store[o]
  BY <1>1, RemoveTyped
<1>3. /\ \A o : o # e => (o \in Active(store') <=> o \in Active(store))
      /\ \A o \in Present' : o \in Present /\ o # e
      /\ e \notin Active(store')
  BY <1>2 DEF Active, Present
<1>4. ASSUME NEW o, NEW f, o # e
      PROVE  Says(store', o, f) <=> Says(store, o, f)
  BY <1>2, <1>3, <1>4 DEF Says, Active
<1>5. Loses({})
  BY <1>1, <1>4 DEF Loses, Says
<1>6. Gains({})
  BY <1>3, <1>4 DEF Gains, Says
<1>7. Writes
  BY <1>1, <1>2, <1>3 DEF Writes, Recorded, Present
<1> QED
  BY <1>1, <1>5, <1>6, <1>7 DEF Told, Views

LEMMA InitVanish == Init => VanishInv
<1> SUFFICES ASSUME Init PROVE VanishInv
  OBVIOUS
<1>1. Typed
  BY InitTyped
<1>2. /\ act = [a \in Actors |-> Idle] /\ DOMAIN store = DOMAIN Stored
      /\ \A e \in DOMAIN Stored :
           /\ store[e] = [facts |-> Stored[e], by |-> None]
           /\ store[e].facts = Stored[e] /\ store[e].by = None
      /\ written = UNION {Stored[e] : e \in DOMAIN Stored}
  BY DEF Init
<1>3. \A e \in DOMAIN store : store[e] \in Entry => e \in Active(store)
  BY <1>2, EntryOps DEF Active
<1>4. \A e \in DOMAIN Stored : e \in Active(store)
  <2>1. \A e \in DOMAIN Stored : [facts |-> Stored[e], by |-> None] \in Entry
    BY StoredAssumption DEF Entry
  <2> QED
    BY <1>2, <1>3, <2>1
<1>5. Recorded
  BY <1>2 DEF Recorded, Present
<1>6. NothingVanishes
  BY <1>2, <1>4 DEF NothingVanishes, Visible
<1>7. \A a \in Actors : act[a].phase = "idle"
  BY <1>2 DEF Idle
<1> QED
  BY <1>1, <1>5, <1>6, <1>7
     DEF VanishInv, Remembered, UpToDate, Shared, Sweeps, Believes, Viewing

LEMMA NextKeepsVanish == VanishInv /\ [Next]_vars => VanishInv'
<1> SUFFICES ASSUME VanishInv, [Next]_vars
             PROVE  VanishInv'
  OBVIOUS
<1>1. Typed' /\ Grown
  BY StepTyped, HistoryGrows DEF VanishInv
<1>2. ASSUME NEW a \in Actors, Told({a}), Views({a})
      PROVE  VanishInv'
  <2>1. {a} \in SUBSET Actors /\ \A x, y \in {a} : x = y
    OBVIOUS
  <2> QED
    BY <1>1, <1>2, <2>1, VanishStep
<1>3. ASSUME Told({}), Views({})
      PROVE  VanishInv'
  <2>1. {} \in SUBSET Actors /\ \A x, y \in {} : x = y
    OBVIOUS
  <2> QED
    BY <1>1, <1>3, <2>1, VanishStep
<1>4. CASE UNCHANGED vars
  <2>1. Told({}) /\ Views({})
    BY <1>4, KeptTells DEF vars, VanishInv, Views
  <2> QED
    BY <1>3, <2>1
<1> QED
  BY <1>2, <1>3, <1>4, BatchTells, PassTells, EditTells, RemoveTells DEF Next, Actors

(* No fact disappears by accident of timing alone.  Batches, sweeps and    *)
(* curators all write from views that may be old; yet a fact that no       *)
(* active entry says any more was replaced, hidden or cut by a verdict on  *)
(* a view that had it, was removed by people, or was written while         *)
(* somebody held an older view (applyConsolidation, applySweep, the legacy *)
(* judge, runCuration).                                                    *)
THEOREM FactsStay == Spec => []NothingVanishes
<1>1. VanishInv => NothingVanishes
  BY DEF VanishInv
<1> QED
  BY InitVanish, NextKeepsVanish, <1>1, PTL DEF Spec

=============================================================================
