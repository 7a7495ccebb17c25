----------------------------- MODULE ReviewProofs -----------------------------
(***************************************************************************)
(* Theorems about the review of a session and the accumulator under it,    *)
(* for any agents, signatures, caps, thresholds and budget, and any number *)
(* of events, failed calls and restarts.                                   *)
(***************************************************************************)
EXTENDS Review, FiniteSetTheorems, TLAPS

-----------------------------------------------------------------------------
(* Greatest numbers.                                                       *)

\* A set of numbers below a bound has a least element.
LEMMA LeastNumber ==
  ASSUME NEW S \in SUBSET Nat, S # {}
  PROVE  \E x \in S : \A y \in S : x <= y
<1> DEFINE R == {ss \in Nat \X Nat : ss[1] < ss[2]}
<1>1. IsWellFoundedOn(R, Nat)
  BY NatLessThanWellFounded DEF OpToRel
<1>2. \E x \in S : \A y \in S : <<y, x>> \notin R
  <2> HIDE DEF R
  <2> QED
    BY <1>1, WFMin
<1>3. \A x, y \in S : <<y, x>> \notin R => x <= y
  OBVIOUS
<1> QED
  BY <1>2, <1>3

\* A set of numbers none of which exceeds a bound has a greatest element, and
\* this is the one that the mark is set to.
LEMMA GreatestNumber ==
  ASSUME NEW S \in SUBSET Nat, S # {}, NEW bound \in Nat, \A x \in S : x <= bound
  PROVE  LET top == CHOOSE s \in S : \A t \in S : t <= s
         IN  top \in S /\ \A t \in S : t <= top
<1> DEFINE Gaps == {bound - x : x \in S}
<1>1. Gaps \in SUBSET Nat /\ Gaps # {}
  <2>1. PICK x \in S : TRUE
    OBVIOUS
  <2>2. bound - x \in Gaps
    BY <2>1
  <2>3. \A y \in S : bound - y \in Nat
    OBVIOUS
  <2> QED
    BY <2>2, <2>3
<1>2. \E g \in Gaps : \A h \in Gaps : g <= h
  <2> HIDE DEF Gaps
  <2> QED
    BY <1>1, LeastNumber
<1>3. \E x \in S : \A y \in S : bound - x <= bound - y
  BY <1>2
<1>4. \E x \in S : \A y \in S : y <= x
  BY <1>3
<1> QED
  BY <1>4, Zenon

-----------------------------------------------------------------------------
(* The invariant.                                                          *)

\* Events are numbered in order, and a candidate bears the number of its event.
Numbered ==
  /\ seq \in Nat
  /\ \A x \in candidates : x.seq \in Nat /\ 0 < x.seq /\ x.seq <= seq

\* A drain was started from a mark and took everything behind it up to the
\* last candidate of its batch.
Taken(a) ==
  /\ drain[a].batch \in SUBSET candidates
  /\ drain[a].mark \in Nat /\ drain[a].mark <= seq
  /\ \A x \in drain[a].batch : \A y \in candidates :
       drain[a].mark < y.seq /\ y.seq <= x.seq => y \in drain[a].batch

\* What a drain will move the mark over has been extracted, or is still to be
\* extracted by the call it waits for.
Owed(a) ==
  /\ \A x \in candidates : x.seq <= drain[a].mark => x.seq \in extracted
  /\ drain[a].phase = "rest" =>
       \A x \in drain[a].batch :
         x.signal = "pitfall-resolved" => x.seq \in extracted

DrainTyped ==
  drain \in [Agents -> [phase: {"idle", "pitfall", "rest"},
                        batch: SUBSET candidates, mark: Nat]]

MarkInv ==
  /\ Numbered
  /\ mark \in Nat /\ mark <= seq
  /\ DrainTyped
  /\ \A a \in Agents : Taken(a) /\ Owed(a)
  /\ MarkMeansExtracted

LEMMA FreshCandidates ==
  ASSUME Numbered, SessionEvent
  PROVE  /\ Numbered' /\ seq' = seq + 1
         /\ candidates \subseteq candidates'
         /\ \A x \in candidates' \ candidates : x.seq = seq + 1
<1>1. /\ seq' = seq + 1
      /\ candidates \subseteq candidates'
      /\ \A x \in candidates' \ candidates : x.seq = seq + 1
  <2>1. ASSUME NEW s \in Signals, UserMessage(s)
        PROVE  <1>1!:
    BY <2>1 DEF UserMessage, NextEvent
  <2>2. ASSUME NEW g \in Signatures, ToolCall(g)
        PROVE  <1>1!:
    BY <2>2 DEF ToolCall, NextEvent
  <2>3. ASSUME NEW c \in DOMAIN pending, NEW failed \in BOOLEAN, ToolResult(c, failed)
        PROVE  <1>1!:
    BY <2>3 DEF ToolResult, NextEvent, ExtendStreak, ResolveStreak, accumulator
  <2> QED
    BY <2>1, <2>2, <2>3 DEF SessionEvent
<1> QED
  BY <1>1 DEF Numbered

LEMMA InitMark == Init => MarkInv
  BY DEF Init, AccInit, MarkInv, Numbered, DrainTyped, Taken, Owed, Idle,
         MarkMeansExtracted

LEMMA EventKeepsMark ==
  ASSUME MarkInv, SessionEvent, UNCHANGED reviewVars
  PROVE  MarkInv'
<1>1. /\ Numbered /\ Numbered' /\ seq' = seq + 1
      /\ candidates \subseteq candidates'
      /\ \A x \in candidates' \ candidates : x.seq = seq + 1
  BY FreshCandidates DEF MarkInv
<1>2. /\ mark' = mark /\ drain' = drain /\ extracted' = extracted
  BY DEF reviewVars
<1>3. DrainTyped'
  BY <1>1, <1>2 DEF MarkInv, DrainTyped
<1>4. ASSUME NEW a \in Agents
      PROVE  Taken(a)'
  BY <1>1, <1>2 DEF MarkInv, Taken, Numbered
<1>5. ASSUME NEW a \in Agents
      PROVE  Owed(a)'
  BY <1>1, <1>2 DEF MarkInv, Taken, Owed, Numbered
<1>6. MarkMeansExtracted'
  BY <1>1, <1>2 DEF MarkInv, MarkMeansExtracted, Numbered
<1> QED
  BY <1>1, <1>2, <1>3, <1>4, <1>5, <1>6 DEF MarkInv, Numbered

\* Another agent's drain, and a drain that ends without moving the mark.
LEMMA QuietKeepsMark ==
  ASSUME MarkInv, UNCHANGED <<seq, candidates>>,
         extracted \subseteq extracted',
         mark' \in {mark, 0},
         DrainTyped',
         \A a \in Agents : drain'[a] \in {drain[a], Idle}
  PROVE  MarkInv'
<1>1. Numbered' /\ mark' \in Nat /\ mark' <= seq'
  BY DEF MarkInv, Numbered
<1>2. ASSUME NEW a \in Agents
      PROVE  Taken(a)' /\ Owed(a)'
  <2>1. CASE drain'[a] = drain[a]
    BY <2>1 DEF MarkInv, Taken, Owed
  <2>2. CASE drain'[a] = Idle
    BY <2>2, <1>1 DEF MarkInv, Taken, Owed, Idle, Numbered
  <2> QED
    BY <2>1, <2>2
<1>3. MarkMeansExtracted'
  BY DEF MarkInv, MarkMeansExtracted, Numbered
<1> QED
  BY <1>1, <1>2, <1>3 DEF MarkInv

LEMMA StartDrainKeepsMark ==
  ASSUME MarkInv, NEW a \in Agents, StartDrain(a)
  PROVE  MarkInv'
<1>1. /\ seq' = seq /\ candidates' = candidates /\ mark' = mark /\ extracted' = extracted
      /\ drain' = [drain EXCEPT ![a] = [phase |-> FirstPhase(Unprocessed),
                                        batch |-> Unprocessed, mark |-> mark]]
  BY DEF StartDrain, accumulatorVars, accumulator
<1>2. /\ FirstPhase(Unprocessed) \in {"pitfall", "rest"}
      /\ FirstPhase(Unprocessed) = "rest" =>
           \A x \in Unprocessed : x.signal # "pitfall-resolved"
  BY DEF FirstPhase
<1>3. DrainTyped'
  BY <1>1, <1>2 DEF MarkInv, DrainTyped, Unprocessed
<1>4. ASSUME NEW b \in Agents, b # a
      PROVE  Taken(b)' /\ Owed(b)'
  BY <1>1, <1>4 DEF MarkInv, DrainTyped, Taken, Owed
<1>5. /\ drain'[a].phase = FirstPhase(Unprocessed)
      /\ drain'[a].batch = Unprocessed /\ drain'[a].mark = mark
  BY <1>1 DEF MarkInv, DrainTyped
<1>6. Taken(a)'
  BY <1>1, <1>5 DEF MarkInv, Taken, Unprocessed
<1>7. Owed(a)'
  BY <1>1, <1>2, <1>5 DEF MarkInv, Owed, MarkMeansExtracted
<1> QED
  BY <1>1, <1>3, <1>4, <1>6, <1>7 DEF MarkInv, Numbered, MarkMeansExtracted

\* The mark that a drain writes covers its batch and the mark it started from.
LEMMA CoveredTop ==
  ASSUME MarkInv, NEW a \in Agents, FinishDrain(a)
  PROVE  /\ mark' \in Nat /\ mark' <= seq
         /\ mark' = drain[a].mark \/ \E x \in drain[a].batch : mark' = x.seq
<1> DEFINE covered == Seqs(drain[a].batch) \cup {drain[a].mark}
<1>1. /\ covered \in SUBSET Nat /\ covered # {} /\ seq \in Nat
      /\ \A s \in covered : s <= seq
  BY DEF MarkInv, Numbered, Taken, Seqs
<1>2. mark' = CHOOSE s \in covered : \A t \in covered : t <= s
  BY DEF FinishDrain
<1>3. mark' \in covered
  <2> HIDE DEF covered
  <2> QED
    BY <1>1, <1>2, GreatestNumber
<1> QED
  BY <1>1, <1>3 DEF Seqs

LEMMA FinishKeepsMark ==
  ASSUME MarkInv, NEW a \in Agents, DrainAnswered(a), FinishDrain(a),
         drain[a].phase # "pitfall" \/ drain[a].batch = Covers(a)
  PROVE  MarkInv'
<1>1. /\ seq' = seq /\ candidates' = candidates
      /\ extracted' = extracted \cup Seqs(Covers(a))
      /\ drain[a].phase # "idle"
      /\ drain' = [drain EXCEPT ![a] = Idle]
  BY DEF DrainAnswered, FinishDrain, accumulatorVars, accumulator
<1>2. /\ mark' \in Nat /\ mark' <= seq
      /\ mark' = drain[a].mark \/ \E x \in drain[a].batch : mark' = x.seq
  BY CoveredTop
<1>3. \A x \in drain[a].batch : x.seq \in extracted'
  <2>1. CASE drain[a].phase = "pitfall"
    BY <1>1, <2>1 DEF Seqs
  <2>2. CASE drain[a].phase = "rest"
    BY <1>1, <2>2 DEF MarkInv, Owed, Covers, Seqs
  <2> QED
    BY <1>1, <2>1, <2>2 DEF MarkInv, DrainTyped
<1>4. MarkMeansExtracted'
  <2> SUFFICES ASSUME NEW x \in candidates, x.seq <= mark'
               PROVE  x.seq \in extracted'
    BY <1>1 DEF MarkMeansExtracted
  <2>1. CASE x.seq <= drain[a].mark
    BY <1>1, <2>1 DEF MarkInv, Owed
  <2>2. CASE drain[a].mark < x.seq
    BY <1>2, <1>3, <2>2 DEF MarkInv, Taken, Numbered
  <2> QED
    BY <2>1, <2>2 DEF MarkInv, Taken, Numbered
<1>5. DrainTyped'
  BY <1>1 DEF MarkInv, DrainTyped, Idle
<1>6. ASSUME NEW b \in Agents
      PROVE  Taken(b)' /\ Owed(b)'
  <2>1. drain'[b] \in {drain[b], Idle}
    BY <1>1 DEF MarkInv, DrainTyped
  <2>2. CASE drain'[b] = drain[b]
    BY <1>1, <2>2 DEF MarkInv, Taken, Owed
  <2>3. CASE drain'[b] = Idle
    BY <1>1, <2>3 DEF MarkInv, Taken, Owed, Idle, Numbered
  <2> QED
    BY <2>1, <2>2, <2>3
<1> QED
  BY <1>1, <1>2, <1>4, <1>5, <1>6 DEF MarkInv, Numbered

LEMMA MoreKeepsMark ==
  ASSUME MarkInv, NEW a \in Agents, DrainAnswered(a), DrainMore(a),
         drain[a].phase = "pitfall"
  PROVE  MarkInv'
<1>1. /\ seq' = seq /\ candidates' = candidates /\ mark' = mark
      /\ extracted' = extracted \cup Seqs(Covers(a))
      /\ drain' = [drain EXCEPT ![a].phase = "rest"]
  BY DEF DrainAnswered, DrainMore, accumulatorVars, accumulator
<1>2. DrainTyped'
  BY <1>1 DEF MarkInv, DrainTyped
<1>3. ASSUME NEW b \in Agents, b # a
      PROVE  Taken(b)' /\ Owed(b)'
  BY <1>1, <1>3 DEF MarkInv, DrainTyped, Taken, Owed
<1>4. /\ drain'[a].batch = drain[a].batch /\ drain'[a].mark = drain[a].mark
  BY <1>1 DEF MarkInv, DrainTyped
<1>5. Taken(a)'
  BY <1>1, <1>4 DEF MarkInv, Taken
<1>6. Owed(a)'
  BY <1>1, <1>4 DEF MarkInv, Owed, Covers, Seqs
<1> QED
  BY <1>1, <1>2, <1>3, <1>5, <1>6 DEF MarkInv, Numbered, MarkMeansExtracted

LEMMA AnswerKeepsMark ==
  ASSUME MarkInv, NEW a \in Agents, DrainAnswered(a)
  PROVE  MarkInv'
<1>1. CASE drain[a].phase = "pitfall" /\ drain[a].batch # Covers(a)
  BY <1>1, MoreKeepsMark DEF DrainAnswered
<1>2. CASE ~(drain[a].phase = "pitfall" /\ drain[a].batch # Covers(a))
  BY <1>2, FinishKeepsMark DEF DrainAnswered
<1> QED
  BY <1>1, <1>2

LEMMA NextKeepsMark == MarkInv /\ [Next]_vars => MarkInv'
<1> SUFFICES ASSUME MarkInv, [Next]_vars
             PROVE  MarkInv'
  OBVIOUS
<1> USE DEF accumulatorVars, accumulator
<1>0. DrainTyped /\ \A a \in Agents : drain[a] = drain[a]
  BY DEF MarkInv
<1>1. CASE ~disposed /\ SessionEvent /\ UNCHANGED reviewVars
  BY <1>1, EventKeepsMark
<1>2. CASE RefuseDrain
  BY <1>0, <1>2, QuietKeepsMark DEF RefuseDrain, Exhausted, DrainTyped
<1>3. CASE Dispose
  BY <1>0, <1>3, QuietKeepsMark DEF Dispose, StartFlush, Exhausted, DrainTyped
<1>4. CASE Restart
  <2>1. DrainTyped' /\ \A a \in Agents : drain'[a] = Idle
    BY <1>4 DEF Restart, DrainTyped, Idle
  <2> QED
    BY <1>4, <2>1, QuietKeepsMark DEF Restart
<1>5. ASSUME NEW s \in Seqs(candidates), Compact(s)
      PROVE  MarkInv'
  BY <1>0, <1>5, QuietKeepsMark DEF Compact, StartFlush, Exhausted, DrainTyped
<1>6. ASSUME NEW a \in Agents, StartDrain(a)
      PROVE  MarkInv'
  BY <1>6, StartDrainKeepsMark
<1>7. ASSUME NEW a \in Agents, DrainAnswered(a)
      PROVE  MarkInv'
  BY <1>7, AnswerKeepsMark
<1>8. ASSUME NEW a \in Agents, DrainFailed(a)
      PROVE  MarkInv'
  <2>1. DrainTyped' /\ \A b \in Agents : drain'[b] \in {drain[b], Idle}
    BY <1>0, <1>8 DEF DrainFailed, DrainTyped, Idle
  <2> QED
    BY <1>8, <2>1, QuietKeepsMark DEF DrainFailed
<1>9. ASSUME NEW f \in flushes, FlushAnswered(f) \/ FlushFailed(f)
      PROVE  MarkInv'
  BY <1>0, <1>9, QuietKeepsMark DEF FlushAnswered, FlushFailed, DrainTyped
<1>10. CASE UNCHANGED vars
  BY <1>0, <1>10, QuietKeepsMark DEF vars, reviewVars, DrainTyped
<1> QED
  BY <1>1, <1>2, <1>3, <1>4, <1>5, <1>6, <1>7, <1>8, <1>9, <1>10 DEF Next, Step

(* Every candidate the mark has passed was in a call that succeeded:       *)
(* maybeRunReview may compute the mark from what it read before its calls, *)
(* however many agents drain at once.                                      *)
THEOREM MarkIsHonest == Spec => []MarkMeansExtracted
<1>1. MarkInv => MarkMeansExtracted
  BY DEF MarkInv
<1> QED
  BY InitMark, NextKeepsMark, <1>1, PTL DEF Spec

-----------------------------------------------------------------------------
(* The budget.                                                             *)

\* The drains that may still make a second call.
Owing == {a \in Agents : drain[a].phase = "pitfall"}

\* A trigger pays for two calls, and a call not yet made is still covered.
BudgetInv ==
  /\ used \in Nat /\ calls \in Nat
  /\ DOMAIN drain = Agents
  /\ IsFiniteSet(Owing)
  /\ Budget > 0 => used <= Budget /\ calls + Cardinality(Owing) <= 2 * used

LEMMA InitBudget == Init => BudgetInv
<1> SUFFICES ASSUME Init PROVE BudgetInv
  OBVIOUS
<1>1. Owing = {}
  BY DEF Init, Owing, Idle
<1> QED
  BY <1>1, FS_EmptySet, ReviewAssumption DEF Init, BudgetInv

\* An agent that was not owing may come to owe one call.
LEMMA OneMoreOwing ==
  ASSUME BudgetInv, NEW a \in Agents, NEW d, drain' = [drain EXCEPT ![a] = d],
         a \notin Owing
  PROVE  /\ IsFiniteSet(Owing') /\ DOMAIN drain' = Agents
         /\ Cardinality(Owing') \in Nat /\ Cardinality(Owing) \in Nat
         /\ Cardinality(Owing') <= Cardinality(Owing) + 1
<1>1. Owing' = Owing \/ Owing' = Owing \cup {a}
  BY DEF BudgetInv, Owing
<1>2. /\ IsFiniteSet(Owing \cup {a}) /\ Cardinality(Owing) \in Nat
      /\ Cardinality(Owing \cup {a}) = Cardinality(Owing) + 1
  BY FS_AddElement, FS_CardinalityType DEF BudgetInv
<1>3. CASE Owing' = Owing
  BY <1>2, <1>3 DEF BudgetInv
<1>4. CASE Owing' = Owing \cup {a}
  BY <1>2, <1>4 DEF BudgetInv
<1> QED
  BY <1>1, <1>3, <1>4

\* A drain that made its second call, or ended, owes nothing any more.
LEMMA OneLessOwing ==
  ASSUME BudgetInv, NEW a \in Agents, NEW d, drain' = [drain EXCEPT ![a] = d],
         d.phase # "pitfall"
  PROVE  /\ IsFiniteSet(Owing') /\ DOMAIN drain' = Agents
         /\ Cardinality(Owing') \in Nat /\ Cardinality(Owing) \in Nat
         /\ Cardinality(Owing') <= Cardinality(Owing)
         /\ a \in Owing => Cardinality(Owing') = Cardinality(Owing) - 1
<1>1. Owing' = Owing \ {a}
  BY DEF BudgetInv, Owing
<1>2. /\ IsFiniteSet(Owing \ {a}) /\ Cardinality(Owing) \in Nat
      /\ Cardinality(Owing \ {a}) = Cardinality(Owing) - (IF a \in Owing THEN 1 ELSE 0)
  BY FS_RemoveElement, FS_CardinalityType DEF BudgetInv
<1>3. Cardinality(Owing \ {a}) \in Nat
  BY <1>2, FS_CardinalityType
<1> QED
  BY <1>1, <1>2, <1>3 DEF BudgetInv

\* A trigger that the budget admits is charged before its call.
LEMMA ChargePays ==
  ASSUME BudgetInv, CheckBudget, Charge
  PROVE  /\ used' \in Nat
         /\ Budget > 0 => used' = used + 1 /\ used' <= Budget
  BY ReviewAssumption DEF BudgetInv, CheckBudget, Charge

LEMMA FlushKeepsBudget ==
  ASSUME BudgetInv, NEW f, CheckBudget, StartFlush(f)
  PROVE  BudgetInv'
<1>1. /\ used' \in Nat /\ calls' = calls + 1 /\ drain' = drain
      /\ Budget > 0 => used' = used + 1 /\ used' <= Budget
  BY ChargePays DEF StartFlush
<1>2. Owing' = Owing
  BY <1>1 DEF Owing
<1>3. Cardinality(Owing) \in Nat
  BY FS_CardinalityType DEF BudgetInv
<1> QED
  BY <1>1, <1>2, <1>3 DEF BudgetInv

LEMMA IdleKeepsBudget ==
  ASSUME BudgetInv, UNCHANGED <<used, calls, drain>>
  PROVE  BudgetInv'
  BY DEF BudgetInv, Owing

LEMMA StartDrainKeepsBudget ==
  ASSUME BudgetInv, NEW a \in Agents, StartDrain(a)
  PROVE  BudgetInv'
<1> DEFINE d == [phase |-> FirstPhase(Unprocessed), batch |-> Unprocessed, mark |-> mark]
<1>1. /\ drain' = [drain EXCEPT ![a] = d] /\ a \notin Owing
      /\ calls' = calls + 1 /\ CheckBudget /\ Charge
  BY DEF StartDrain, Owing
<1>2. /\ used' \in Nat
      /\ Budget > 0 => used' = used + 1 /\ used' <= Budget
  BY <1>1, ChargePays
<1>3. /\ IsFiniteSet(Owing') /\ DOMAIN drain' = Agents
      /\ Cardinality(Owing') \in Nat /\ Cardinality(Owing) \in Nat
      /\ Cardinality(Owing') <= Cardinality(Owing) + 1
  <2> HIDE DEF d
  <2> QED
    BY <1>1, OneMoreOwing
<1> QED
  BY <1>1, <1>2, <1>3 DEF BudgetInv

LEMMA AnswerKeepsBudget ==
  ASSUME BudgetInv, NEW a \in Agents, DrainAnswered(a)
  PROVE  BudgetInv'
<1>1. UNCHANGED used
  BY DEF DrainAnswered
<1>2. CASE DrainMore(a) /\ drain[a].phase = "pitfall"
  <2> DEFINE d == [drain[a] EXCEPT !.phase = "rest"]
  <2>1. /\ drain' = [drain EXCEPT ![a] = d] /\ calls' = calls + 1 /\ a \in Owing
    BY <1>2 DEF DrainMore, Owing, BudgetInv
  <2>2. d.phase # "pitfall"
    BY <1>2
  <2>3. /\ IsFiniteSet(Owing') /\ DOMAIN drain' = Agents
        /\ Cardinality(Owing') \in Nat /\ Cardinality(Owing) \in Nat
        /\ Cardinality(Owing') = Cardinality(Owing) - 1
    <3> HIDE DEF d
    <3> QED
      BY <2>1, <2>2, OneLessOwing
  <2> QED
    BY <1>1, <2>1, <2>3 DEF BudgetInv
<1>3. CASE FinishDrain(a)
  <2>1. drain' = [drain EXCEPT ![a] = Idle] /\ calls' = calls /\ Idle.phase # "pitfall"
    BY <1>3 DEF FinishDrain, Idle
  <2>2. /\ IsFiniteSet(Owing') /\ DOMAIN drain' = Agents
        /\ Cardinality(Owing') \in Nat /\ Cardinality(Owing) \in Nat
        /\ Cardinality(Owing') <= Cardinality(Owing)
    BY <2>1, OneLessOwing
  <2> QED
    BY <1>1, <2>1, <2>2 DEF BudgetInv
<1> QED
  BY <1>2, <1>3 DEF DrainAnswered

LEMMA FailureKeepsBudget ==
  ASSUME BudgetInv, NEW a \in Agents, DrainFailed(a)
  PROVE  BudgetInv'
<1>1. /\ drain' = [drain EXCEPT ![a] = Idle] /\ UNCHANGED <<used, calls>>
      /\ Idle.phase # "pitfall"
  BY DEF DrainFailed, Idle
<1>2. /\ IsFiniteSet(Owing') /\ DOMAIN drain' = Agents
      /\ Cardinality(Owing') \in Nat /\ Cardinality(Owing) \in Nat
      /\ Cardinality(Owing') <= Cardinality(Owing)
  BY <1>1, OneLessOwing
<1> QED
  BY <1>1, <1>2 DEF BudgetInv

LEMMA RestartKeepsBudget ==
  ASSUME BudgetInv, Restart
  PROVE  BudgetInv'
<1>1. Owing' = {} /\ DOMAIN drain' = Agents /\ used' = 0 /\ calls' = 0
  BY DEF Restart, Owing, Idle
<1> QED
  BY <1>1, FS_EmptySet, ReviewAssumption DEF BudgetInv

LEMMA NextKeepsBudget == BudgetInv /\ [Next]_vars => BudgetInv'
<1> SUFFICES ASSUME BudgetInv, [Next]_vars
             PROVE  BudgetInv'
  OBVIOUS
<1>1. CASE ~disposed /\ SessionEvent /\ UNCHANGED reviewVars
  BY <1>1, IdleKeepsBudget DEF reviewVars
<1>2. CASE RefuseDrain
  BY <1>2, IdleKeepsBudget DEF RefuseDrain, Exhausted
<1>3. CASE Dispose
  BY <1>3, FlushKeepsBudget, IdleKeepsBudget DEF Dispose, Exhausted
<1>4. CASE Restart
  BY <1>4, RestartKeepsBudget
<1>5. ASSUME NEW s \in Seqs(candidates), Compact(s)
      PROVE  BudgetInv'
  BY <1>5, FlushKeepsBudget, IdleKeepsBudget DEF Compact, Exhausted
<1>6. ASSUME NEW a \in Agents, StartDrain(a) \/ DrainAnswered(a) \/ DrainFailed(a)
      PROVE  BudgetInv'
  BY <1>6, StartDrainKeepsBudget, AnswerKeepsBudget, FailureKeepsBudget
<1>7. ASSUME NEW f \in flushes, FlushAnswered(f) \/ FlushFailed(f)
      PROVE  BudgetInv'
  BY <1>7, IdleKeepsBudget DEF FlushAnswered, FlushFailed
<1>8. CASE UNCHANGED vars
  BY <1>8, IdleKeepsBudget DEF vars, reviewVars
<1> QED
  BY <1>1, <1>2, <1>3, <1>4, <1>5, <1>6, <1>7, <1>8 DEF Next, Step

(* The calls of a session stay within twice its budget: checkBudget admits *)
(* and charges a trigger in one piece, so no interleaving of drains and    *)
(* flushes passes it with a count that is out of date, and the second call *)
(* of a drain is paid for by the charge of its first.                      *)
THEOREM BudgetHolds == Spec => []CallsWithinBudget
<1>1. BudgetInv => CallsWithinBudget
  <2> SUFFICES ASSUME BudgetInv, Budget > 0
               PROVE  used <= Budget /\ calls <= 2 * Budget
    BY DEF CallsWithinBudget
  <2>1. Cardinality(Owing) \in Nat
    BY FS_CardinalityType DEF BudgetInv
  <2> QED
    BY <2>1, ReviewAssumption DEF BudgetInv
<1> QED
  BY InitBudget, NextKeepsBudget, <1>1, PTL DEF Spec

-----------------------------------------------------------------------------
(* The end of a session.                                                   *)

\* Undisturbed, every message that a compaction or the end has hidden was
\* handed to a flush, which has answered or is still to answer.
HandedOver ==
  faults = 0 /\ ~refused =>
    \A x \in candidates \ Pitfalls :
      x.seq <= shadowed \/ disposed =>
        x.seq \in extracted \/ \E f \in flushes : x \in f

FlushInv ==
  /\ Numbered
  /\ shadowed \in Nat /\ shadowed <= seq /\ faults \in Nat
  /\ HandedOver

LEMMA InitFlush == Init => FlushInv
  BY DEF Init, AccInit, FlushInv, Numbered, HandedOver

\* Flushes and extractions only grow, and what is hidden stays the same.
LEMMA QuietKeepsFlush ==
  ASSUME FlushInv, UNCHANGED <<seq, candidates, shadowed, disposed, flushes>>,
         extracted \subseteq extracted',
         faults' \in {faults, faults + 1}, refused => refused'
  PROVE  FlushInv'
  BY DEF FlushInv, Numbered, HandedOver, Pitfalls

\* A session event is numbered behind everything that was hidden.
LEMMA EventKeepsFlush ==
  ASSUME FlushInv, ~disposed, SessionEvent, UNCHANGED reviewVars
  PROVE  FlushInv'
<1>1. /\ Numbered' /\ Numbered /\ seq' = seq + 1
      /\ candidates \subseteq candidates'
      /\ \A x \in candidates' \ candidates : x.seq = seq + 1
  BY FreshCandidates DEF FlushInv
<1>2. UNCHANGED <<shadowed, disposed, flushes, extracted, refused, faults>>
  BY DEF reviewVars
<1>3. HandedOver'
  BY <1>1, <1>2 DEF FlushInv, Numbered, HandedOver, Pitfalls
<1> QED
  BY <1>1, <1>2, <1>3 DEF FlushInv, Numbered

\* A flush carries exactly what becomes hidden with its start.
LEMMA FlushTakesHidden ==
  ASSUME FlushInv, NEW upto \in Nat, upto <= seq, StartFlush(Messages(shadowed, upto)),
         shadowed' <= upto, shadowed' \in Nat, disposed' => upto = seq, ~disposed
  PROVE  FlushInv'
<1>1. /\ UNCHANGED <<seq, candidates, extracted, refused, faults>>
      /\ flushes' = flushes \cup {Messages(shadowed, upto)}
  BY DEF StartFlush, accumulatorVars, accumulator
<1>2. ASSUME NEW x \in candidates \ Pitfalls, x.seq <= shadowed' \/ disposed',
             faults = 0, ~refused
      PROVE  x.seq \in extracted \/ \E f \in flushes' : x \in f
  <2>1. x.seq \in Nat /\ x.seq <= upto
    BY <1>2 DEF FlushInv, Numbered
  <2>2. CASE x.seq <= shadowed
    BY <1>1, <1>2, <2>2 DEF FlushInv, HandedOver
  <2>3. CASE shadowed < x.seq
    BY <1>1, <2>1, <2>3 DEF Messages
  <2> QED
    BY <2>1, <2>2, <2>3 DEF FlushInv
<1>3. HandedOver'
  BY <1>1, <1>2 DEF HandedOver, Pitfalls
<1> QED
  BY <1>1, <1>3 DEF FlushInv, Numbered

LEMMA RefusedKeepsFlush ==
  ASSUME FlushInv, Exhausted, shadowed' \in Nat, shadowed' <= seq
  PROVE  FlushInv'
  BY DEF FlushInv, Numbered, HandedOver, Exhausted, accumulatorVars, accumulator

LEMMA AnswerKeepsFlush ==
  ASSUME FlushInv, NEW f \in flushes, FlushAnswered(f)
  PROVE  FlushInv'
<1>1. /\ UNCHANGED <<seq, candidates, shadowed, disposed, refused, faults>>
      /\ flushes' = flushes \ {f} /\ extracted' = extracted \cup Seqs(f)
  BY DEF FlushAnswered, accumulatorVars, accumulator
<1>2. \A x \in f : x.seq \in extracted'
  BY <1>1 DEF Seqs
<1> QED
  BY <1>1, <1>2 DEF FlushInv, Numbered, HandedOver, Pitfalls

LEMMA NextKeepsFlush == FlushInv /\ [Next]_vars => FlushInv'
<1> SUFFICES ASSUME FlushInv, [Next]_vars
             PROVE  FlushInv'
  OBVIOUS
<1> USE DEF accumulatorVars, accumulator
<1>0. seq \in Nat /\ shadowed \in Nat /\ shadowed <= seq /\ seq <= seq
  BY DEF FlushInv, Numbered
<1>1. CASE ~disposed /\ SessionEvent /\ UNCHANGED reviewVars
  BY <1>1, EventKeepsFlush
<1>2. CASE RefuseDrain
  BY <1>0, <1>2, RefusedKeepsFlush DEF RefuseDrain
<1>3. CASE Dispose
  BY <1>0, <1>3, FlushTakesHidden, RefusedKeepsFlush DEF Dispose
<1>4. CASE Restart
  BY <1>4 DEF Restart, FlushInv, Numbered, HandedOver
<1>5. ASSUME NEW s \in Seqs(candidates), Compact(s)
      PROVE  FlushInv'
  <2>1. s \in Nat /\ s <= seq /\ s <= s
    BY DEF FlushInv, Numbered, Seqs
  <2> QED
    BY <1>5, <2>1, FlushTakesHidden, RefusedKeepsFlush DEF Compact
<1>6. ASSUME NEW a \in Agents, StartDrain(a) \/ DrainAnswered(a) \/ DrainFailed(a)
      PROVE  FlushInv'
  BY <1>6, QuietKeepsFlush DEF StartDrain, DrainAnswered, DrainFailed
<1>7. ASSUME NEW f \in flushes, FlushAnswered(f)
      PROVE  FlushInv'
  BY <1>7, AnswerKeepsFlush
<1>8. ASSUME NEW f \in flushes, FlushFailed(f)
      PROVE  FlushInv'
  BY <1>8 DEF FlushFailed, FlushInv, Numbered, HandedOver
<1>9. CASE UNCHANGED vars
  BY <1>9, QuietKeepsFlush DEF vars, reviewVars
<1> QED
  BY <1>1, <1>2, <1>3, <1>4, <1>5, <1>6, <1>7, <1>8, <1>9 DEF Next, Step

(* A session that ended without a failed call, a restart or a refused      *)
(* trigger has had every message with a signal in an extraction: what      *)
(* flushOnCompaction hides and what flushOnDispose takes fit together.     *)
THEOREM EndIsComplete == Spec => []DisposeLosesNothing
<1>1. FlushInv => DisposeLosesNothing
  <2> SUFFICES ASSUME FlushInv, disposed, flushes = {}, faults = 0, ~refused,
                      NEW x \in candidates \ Pitfalls
               PROVE  x.seq \in extracted
    BY DEF DisposeLosesNothing, Seqs
  <2> QED
    BY DEF FlushInv, HandedOver
<1> QED
  BY InitFlush, NextKeepsFlush, <1>1, PTL DEF Spec

-----------------------------------------------------------------------------
(* The fold over the events.                                               *)

\* A call that the fold holds is a call without a result, by its signature,
\* and a signature that had a call evicted is marked for it.
CallsHeld ==
  /\ \A c \in DOMAIN pending :
       c \in Nat /\ c <= seq /\ pending[c] \in Signatures
  /\ DOMAIN openCalls \subseteq DOMAIN pending
  /\ \A c \in DOMAIN openCalls : openCalls[c] = pending[c]
  /\ \A c \in DOMAIN pending \ DOMAIN openCalls : pending[c] \in lossy

\* A streak counts the failures since the last success.
StreaksCount ==
  /\ DOMAIN failing = Signatures
  /\ \A g \in Signatures : failing[g] \in Nat
  /\ \A g \in Signatures \ lossy : StreakOf(g).count = failing[g]

PitfallSeqs(g) == {x.seq : x \in {y \in Pitfalls : y.sig = g}}
ResolvedSeqs(g) == {x.seq : x \in {y \in resolved : y.sig = g}}

FoldInv ==
  /\ Numbered /\ CallsHeld /\ StreaksCount
  /\ \A g \in Signatures \ lossy : PitfallSeqs(g) = ResolvedSeqs(g)

LEMMA FoldIsExact == FoldInv => PitfallsExact
  BY DEF FoldInv, PitfallsExact, PitfallSeqs, ResolvedSeqs

LEMMA InitFold == Init => FoldInv
<1> SUFFICES ASSUME Init
             PROVE  FoldInv
  OBVIOUS
<1>1. CallsHeld
  BY DEF Init, AccInit, CallsHeld
<1>2. \A g \in Signatures : StreakOf(g).count = failing[g]
  BY DEF Init, AccInit, StreakOf
<1>3. StreaksCount
  BY <1>2 DEF Init, AccInit, StreaksCount
<1> QED
  BY <1>1, <1>3 DEF Init, AccInit, FoldInv, Numbered, PitfallSeqs, ResolvedSeqs,
                    Pitfalls

\* What the caps leave is a part of the record.
LEMMA EvictionKeepsPart ==
  ASSUME NEW record, NEW cap, NEW age
  PROVE  LET kept == EvictToCap(record, cap, age)
         IN  /\ DOMAIN kept \subseteq DOMAIN record
             /\ \A k \in DOMAIN kept : kept[k] = record[k]
  BY DEF EvictToCap, Restrict

LEMMA MessageKeepsFold ==
  ASSUME FoldInv, NEW s \in Signals, UserMessage(s)
  PROVE  FoldInv'
<1>1. /\ seq' = seq + 1 /\ seq \in Nat
      /\ candidates' = candidates \cup {[seq |-> seq + 1, signal |-> s, sig |-> None]}
      /\ UNCHANGED <<openCalls, openStreaks, pending, failing, resolved, lossy>>
  BY DEF UserMessage, NextEvent, trace, FoldInv, Numbered
<1>2. Pitfalls' = Pitfalls
  BY <1>1, AccumulatorAssumption DEF Pitfalls
<1>3. Numbered'
  BY <1>1 DEF FoldInv, Numbered
<1>4. CallsHeld'
  BY <1>1 DEF FoldInv, CallsHeld
<1>5. StreaksCount'
  BY <1>1 DEF FoldInv, StreaksCount, StreakOf
<1> QED
  BY <1>1, <1>2, <1>3, <1>4, <1>5 DEF FoldInv, PitfallSeqs, ResolvedSeqs

LEMMA CallKeepsFold ==
  ASSUME FoldInv, NEW g \in Signatures, ToolCall(g)
  PROVE  FoldInv'
<1> DEFINE opened == With(openCalls, seq + 1, g)
           kept == EvictToCap(opened, OpenCallsCap, [c \in DOMAIN opened |-> c])
<1>1. /\ seq' = seq + 1 /\ seq \in Nat
      /\ openCalls' = kept
      /\ lossy' = lossy \cup {opened[c] : c \in DOMAIN opened \ DOMAIN kept}
      /\ pending' = With(pending, seq + 1, g)
      /\ UNCHANGED <<candidates, openStreaks, failing, resolved>>
  BY DEF ToolCall, NextEvent, FoldInv, Numbered
<1>2. /\ DOMAIN kept \subseteq DOMAIN opened
      /\ \A c \in DOMAIN kept : kept[c] = opened[c]
  BY EvictionKeepsPart
<1>3. /\ DOMAIN opened = DOMAIN openCalls \cup {seq + 1}
      /\ \A c \in DOMAIN opened : opened[c] = IF c = seq + 1 THEN g ELSE openCalls[c]
  BY DEF With
<1>4. /\ DOMAIN pending' = DOMAIN pending \cup {seq + 1}
      /\ \A c \in DOMAIN pending' : pending'[c] = IF c = seq + 1 THEN g ELSE pending[c]
  BY <1>1 DEF With
<1> HIDE DEF opened, kept
<1>5. \A c \in DOMAIN pending : c # seq + 1
  BY <1>1 DEF FoldInv, CallsHeld
<1>6. /\ \A c \in DOMAIN opened : c \in DOMAIN pending' /\ opened[c] = pending'[c]
      /\ \A c \in DOMAIN pending' \ DOMAIN opened : pending'[c] \in lossy
  BY <1>3, <1>4, <1>5 DEF FoldInv, CallsHeld
<1>7. CallsHeld'
  <2>1. \A c \in DOMAIN pending' :
          c \in Nat /\ c <= seq' /\ pending'[c] \in Signatures
    BY <1>1, <1>4 DEF FoldInv, CallsHeld
  <2>2. \A c \in DOMAIN openCalls' : c \in DOMAIN pending' /\ openCalls'[c] = pending'[c]
    BY <1>1, <1>2, <1>6
  <2>3. ASSUME NEW c \in DOMAIN pending' \ DOMAIN openCalls'
        PROVE  pending'[c] \in lossy'
    <3>1. CASE c \in DOMAIN opened
      BY <1>1, <1>6, <2>3, <3>1
    <3>2. CASE c \notin DOMAIN opened
      BY <1>1, <1>6, <2>3, <3>2
    <3> QED
      BY <3>1, <3>2
  <2> QED
    BY <2>1, <2>2, <2>3 DEF CallsHeld
<1>8. StreaksCount'
  BY <1>1 DEF FoldInv, StreaksCount, StreakOf
<1>9. Numbered'
  BY <1>1 DEF FoldInv, Numbered
<1> QED
  BY <1>1, <1>7, <1>8, <1>9 DEF FoldInv, PitfallSeqs, ResolvedSeqs, Pitfalls

\* Taking a result away from the calls without one.
LEMMA ResultKeepsCalls ==
  ASSUME FoldInv, NEW c \in DOMAIN pending, NEW failed \in BOOLEAN,
         ToolResult(c, failed), lossy \subseteq lossy'
  PROVE  CallsHeld'
<1>1. seq' = seq + 1 /\ seq \in Nat /\ pending' = Without(pending, c)
  BY DEF ToolResult, NextEvent, FoldInv, Numbered
<1>2. /\ DOMAIN pending' = DOMAIN pending \ {c}
      /\ \A d \in DOMAIN pending' : pending'[d] = pending[d]
  BY <1>1 DEF Without, Restrict
<1>3. CASE c \in DOMAIN openCalls
  <2>1. openCalls' = Without(openCalls, c)
    BY <1>3 DEF ToolResult
  <2>2. /\ DOMAIN openCalls' = DOMAIN openCalls \ {c}
        /\ \A d \in DOMAIN openCalls' : openCalls'[d] = openCalls[d]
    BY <2>1 DEF Without, Restrict
  <2> QED
    BY <1>1, <1>2, <2>2 DEF FoldInv, CallsHeld
<1>4. CASE c \notin DOMAIN openCalls
  <2>1. openCalls' = openCalls
    BY <1>4 DEF ToolResult, accumulator
  <2> QED
    BY <1>1, <1>2, <1>4, <2>1 DEF FoldInv, CallsHeld
<1> QED
  BY <1>3, <1>4

\* A result the fold is not waiting for concerns a signature that lost a call.
LEMMA StrayResultKeepsFold ==
  ASSUME FoldInv, NEW c \in DOMAIN pending, NEW failed \in BOOLEAN,
         ToolResult(c, failed), c \notin DOMAIN openCalls
  PROVE  FoldInv'
<1> DEFINE g == pending[c]
<1>1. /\ seq' = seq + 1 /\ seq \in Nat
      /\ UNCHANGED <<candidates, openCalls, openStreaks, lossy>>
      /\ failing' = [failing EXCEPT ![g] = IF failed THEN @ + 1 ELSE 0]
      /\ resolved' \in {resolved, resolved \cup {[seq |-> seq + 1, sig |-> g]}}
  BY DEF ToolResult, NextEvent, FoldInv, Numbered, accumulator
<1>2. g \in lossy /\ g \in Signatures
  BY DEF FoldInv, CallsHeld
<1>3. CallsHeld'
  BY <1>1, ResultKeepsCalls
<1>4. StreaksCount'
  BY <1>1, <1>2 DEF FoldInv, StreaksCount, StreakOf
<1>5. Numbered'
  BY <1>1 DEF FoldInv, Numbered
<1>6. ASSUME NEW h \in Signatures \ lossy
      PROVE  PitfallSeqs(h)' = ResolvedSeqs(h)'
  <2>1. ResolvedSeqs(h)' = ResolvedSeqs(h)
    BY <1>1, <1>2, <1>6 DEF ResolvedSeqs
  <2> QED
    BY <1>1, <1>6, <2>1 DEF FoldInv, PitfallSeqs, Pitfalls
<1> QED
  BY <1>1, <1>3, <1>4, <1>5, <1>6 DEF FoldInv

LEMMA FailureKeepsFold ==
  ASSUME FoldInv, NEW c \in DOMAIN pending, ToolResult(c, TRUE),
         c \in DOMAIN openCalls
  PROVE  FoldInv'
<1> DEFINE g == pending[c]
           streak == [count |-> StreakOf(g).count + 1, lastSeq |-> seq + 1]
           streaks == With(openStreaks, g, streak)
           kept == EvictToCap(streaks, OpenStreaksCap,
                              [k \in DOMAIN streaks |-> streaks[k].lastSeq])
<1>1. /\ seq' = seq + 1 /\ seq \in Nat
      /\ openStreaks' = kept
      /\ lossy' = lossy \cup (DOMAIN streaks \ DOMAIN kept)
      /\ failing' = [failing EXCEPT ![g] = @ + 1]
      /\ UNCHANGED <<candidates, resolved>>
  BY DEF ToolResult, NextEvent, ExtendStreak, FoldInv, Numbered, CallsHeld
<1>2. g \in Signatures
  BY DEF FoldInv, CallsHeld
<1>3. /\ DOMAIN kept \subseteq DOMAIN streaks
      /\ \A k \in DOMAIN kept : kept[k] = streaks[k]
  BY EvictionKeepsPart
<1>4. /\ DOMAIN streaks = DOMAIN openStreaks \cup {g}
      /\ \A k \in DOMAIN streaks : streaks[k] = IF k = g THEN streak ELSE openStreaks[k]
  BY DEF With
<1> HIDE DEF g, streaks, kept
<1>5. CallsHeld'
  BY <1>1, ResultKeepsCalls
<1>6. ASSUME NEW h \in Signatures \ lossy'
      PROVE  StreakOf(h)'.count = failing'[h]
  <2>1. StreakOf(h).count = failing[h] /\ failing'[h] = IF h = g THEN failing[h] + 1 ELSE failing[h]
    BY <1>1, <1>2, <1>6 DEF FoldInv, StreaksCount
  <2>2. StreakOf(h)' = IF h = g THEN streak ELSE StreakOf(h)
    BY <1>1, <1>3, <1>4, <1>6 DEF StreakOf
  <2> QED
    BY <2>1, <2>2
<1>7. StreaksCount'
  BY <1>1, <1>2, <1>6 DEF FoldInv, StreaksCount
<1>8. Numbered'
  BY <1>1 DEF FoldInv, Numbered
<1> QED
  BY <1>1, <1>5, <1>7, <1>8 DEF FoldInv, PitfallSeqs, ResolvedSeqs, Pitfalls

LEMMA SuccessKeepsFold ==
  ASSUME FoldInv, NEW c \in DOMAIN pending, ToolResult(c, FALSE),
         c \in DOMAIN openCalls
  PROVE  FoldInv'
<1> DEFINE g == pending[c]
           found == [seq |-> seq + 1, signal |-> "pitfall-resolved", sig |-> g]
<1>1. /\ seq' = seq + 1 /\ seq \in Nat
      /\ openStreaks' = Without(openStreaks, g)
      /\ candidates' = IF StreakOf(g).count < PitfallStreakThreshold
                       THEN candidates ELSE candidates \cup {found}
      /\ failing' = [failing EXCEPT ![g] = 0]
      /\ resolved' = IF failing[g] >= PitfallStreakThreshold
                     THEN resolved \cup {[seq |-> seq + 1, sig |-> g]} ELSE resolved
      /\ UNCHANGED lossy
  BY DEF ToolResult, NextEvent, ResolveStreak, FoldInv, Numbered, CallsHeld
<1>2. g \in Signatures
  BY DEF FoldInv, CallsHeld
<1>3. /\ DOMAIN openStreaks' \subseteq DOMAIN openStreaks \ {g}
      /\ DOMAIN openStreaks \ {g} \subseteq DOMAIN openStreaks'
      /\ \A k \in DOMAIN openStreaks' : openStreaks'[k] = openStreaks[k]
  BY <1>1 DEF Without, Restrict
<1>4. CallsHeld'
  BY <1>1, ResultKeepsCalls
<1> HIDE DEF g
<1>5. ASSUME NEW h \in Signatures \ lossy
      PROVE  StreakOf(h)'.count = failing'[h]
  <2>1. StreakOf(h).count = failing[h] /\ failing'[h] = IF h = g THEN 0 ELSE failing[h]
    BY <1>1, <1>2, <1>5 DEF FoldInv, StreaksCount
  <2>2. StreakOf(h)' = IF h = g THEN [count |-> 0, lastSeq |-> 0] ELSE StreakOf(h)
    BY <1>3 DEF StreakOf
  <2> QED
    BY <2>1, <2>2
<1>6. StreaksCount'
  BY <1>1, <1>2, <1>5 DEF FoldInv, StreaksCount
<1>7. Numbered'
  BY <1>1 DEF FoldInv, Numbered
<1>8. ASSUME NEW h \in Signatures \ lossy
      PROVE  PitfallSeqs(h)' = ResolvedSeqs(h)'
  <2>1. PitfallSeqs(h) = ResolvedSeqs(h)
    BY <1>8 DEF FoldInv
  <2>2. CASE h # g
    <3>1. PitfallSeqs(h)' = PitfallSeqs(h)
      BY <1>1, <2>2 DEF PitfallSeqs, Pitfalls
    <3>2. ResolvedSeqs(h)' = ResolvedSeqs(h)
      BY <1>1, <2>2 DEF ResolvedSeqs
    <3> QED
      BY <2>1, <3>1, <3>2
  <2>3. CASE h = g
    <3> DEFINE long == failing[h] >= PitfallStreakThreshold
    <3>1. (StreakOf(g).count < PitfallStreakThreshold) = ~long
      BY <1>2, <1>8, <2>3, AccumulatorAssumption DEF FoldInv, StreaksCount
    <3>2. long => PitfallSeqs(h)' = PitfallSeqs(h) \cup {seq + 1}
      <4> SUFFICES ASSUME long
                   PROVE  PitfallSeqs(h)' = PitfallSeqs(h) \cup {seq + 1}
        OBVIOUS
      <4>1. /\ candidates' = candidates \cup {found}
            /\ found.signal = "pitfall-resolved" /\ found.sig = h /\ found.seq = seq + 1
        BY <1>1, <2>3, <3>1
      <4> HIDE DEF found, long
      <4>2. {y \in Pitfalls' : y.sig = h} = {y \in Pitfalls : y.sig = h} \cup {found}
        BY <4>1 DEF Pitfalls
      <4> QED
        BY <4>1, <4>2 DEF PitfallSeqs
    <3>3. ~long => PitfallSeqs(h)' = PitfallSeqs(h)
      BY <1>1, <2>3, <3>1 DEF PitfallSeqs, Pitfalls
    <3>4. long => ResolvedSeqs(h)' = ResolvedSeqs(h) \cup {seq + 1}
      <4> SUFFICES ASSUME long
                   PROVE  ResolvedSeqs(h)' = ResolvedSeqs(h) \cup {seq + 1}
        OBVIOUS
      <4> DEFINE success == [seq |-> seq + 1, sig |-> h]
      <4>1. /\ resolved' = resolved \cup {success}
            /\ success.sig = h /\ success.seq = seq + 1
        BY <1>1, <2>3
      <4> HIDE DEF success, long
      <4>2. {y \in resolved' : y.sig = h} = {y \in resolved : y.sig = h} \cup {success}
        BY <4>1
      <4> QED
        BY <4>1, <4>2 DEF ResolvedSeqs
    <3>5. ~long => ResolvedSeqs(h)' = ResolvedSeqs(h)
      BY <1>1, <2>3 DEF ResolvedSeqs
    <3> QED
      BY <2>1, <3>2, <3>3, <3>4, <3>5
  <2> QED
    BY <2>2, <2>3
<1> QED
  BY <1>1, <1>4, <1>6, <1>7, <1>8 DEF FoldInv

LEMMA NextKeepsFold == FoldInv /\ [Next]_vars => FoldInv'
<1> SUFFICES ASSUME FoldInv, [Next]_vars
             PROVE  FoldInv'
  OBVIOUS
<1>1. ASSUME NEW c \in DOMAIN pending, NEW failed \in BOOLEAN, ToolResult(c, failed)
      PROVE  FoldInv'
  <2>1. CASE c \in DOMAIN openCalls /\ failed = TRUE
    BY <1>1, <2>1, FailureKeepsFold
  <2>2. CASE c \in DOMAIN openCalls /\ failed = FALSE
    BY <1>1, <2>2, SuccessKeepsFold
  <2> QED
    BY <1>1, <2>1, <2>2, StrayResultKeepsFold
<1>2. CASE SessionEvent
  BY <1>1, <1>2, MessageKeepsFold, CallKeepsFold DEF SessionEvent
<1>3. CASE UNCHANGED accumulatorVars
  BY <1>3 DEF accumulatorVars, accumulator, trace, FoldInv, Numbered, CallsHeld,
              StreaksCount, StreakOf, PitfallSeqs, ResolvedSeqs, Pitfalls
<1>4. SessionEvent \/ UNCHANGED accumulatorVars
  BY DEF Next, Step, RefuseDrain, Exhausted, Dispose, StartFlush, Restart, Compact,
         StartDrain, DrainAnswered, DrainFailed, FlushAnswered, FlushFailed, vars
<1> QED
  BY <1>2, <1>3, <1>4

(* A signature that lost nothing to the caps has a pitfall candidate for   *)
(* exactly the successes that followed enough failures in a row, whatever  *)
(* order concurrent calls are answered in (applyAccumulator, evictToCap).  *)
THEOREM FoldFindsPitfalls == Spec => []PitfallsExact
  BY InitFold, NextKeepsFold, FoldIsExact, PTL DEF Spec

=============================================================================
