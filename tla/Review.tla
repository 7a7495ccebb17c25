-------------------------------- MODULE Review --------------------------------
(***************************************************************************)
(* The review plugin of src/review/index.ts over the accumulator of one    *)
(* session: drains before an agent's step, flushes at a compaction and at  *)
(* the end of the session, all within one budget of extractions.           *)
(*                                                                         *)
(* A drain reads the mark, asks the model (pitfalls first, then the rest)  *)
(* and writes the mark when every call has succeeded.  Between the read    *)
(* and the write other agents of the session step, events arrive and       *)
(* flushes start.  Flushes see messages only: a tool result has no text.   *)
(* Mark and budget are in memory; the accumulator survives a restart.      *)
(***************************************************************************)
EXTENDS Accumulator

CONSTANTS
  Agents,      \* agents that step in this session
  Threshold,   \* reviewCandidateThreshold
  Budget,      \* extractionBudget; 0 is no limit
  Watched,     \* bound: the seqs the liveness property follows
  MaxFaults    \* bound: failed model calls and restarts

ASSUME ReviewAssumption ==
  /\ Threshold \in Nat \ {0} /\ Budget \in Nat /\ MaxFaults \in Nat
  /\ Watched \subseteq Nat

VARIABLES
  mark,      \* highWaterMarks: seq of the last candidate covered
  used,      \* extractionCalls: triggers charged
  drain,     \* per agent: [phase, batch, mark]
  flushes,   \* flushes in flight: the candidates whose text each carries
  shadowed,  \* seq of the last event a compaction has replaced
  disposed,  \* the session is over
  calls,     \* history: extraction calls made under this mark and budget
  extracted, \* history: seqs of candidates a successful call has covered
  refused,   \* history: the budget has refused a trigger
  faults     \* history: failed calls and restarts

reviewVars == <<mark, used, drain, flushes, shadowed, disposed, calls,
                extracted, refused, faults>>
vars == <<accumulatorVars, reviewVars>>

Idle == [phase |-> "idle", batch |-> {}, mark |-> 0]

Init ==
  /\ AccInit
  /\ mark = 0 /\ used = 0 /\ calls = 0
  /\ drain = [a \in Agents |-> Idle]
  /\ flushes = {} /\ shadowed = 0 /\ disposed = FALSE
  /\ extracted = {} /\ refused = FALSE /\ faults = 0

Seqs(batch) == {x.seq : x \in batch}
Unprocessed == {x \in candidates : x.seq > mark}
Messages(from, to) ==
  {x \in candidates \ Pitfalls : from < x.seq /\ x.seq <= to}

(* Mutant: a used-up budget is noticed one trigger late.                   *)
CheckBudgetLate == Budget = 0 \/ used <= Budget
CheckBudget == Budget = 0 \/ used < Budget

Charge == used' = IF Budget = 0 THEN used ELSE used + 1

Exhausted == refused' = TRUE /\ UNCHANGED <<accumulatorVars, mark, used, drain,
               flushes, calls, extracted, faults>>

FirstPhase(batch) ==
  IF \E x \in batch : x.signal = "pitfall-resolved" THEN "pitfall" ELSE "rest"

(* agent/pre-step, maybeRunReview up to its await.                         *)
StartDrain(a) ==
  /\ ~disposed /\ drain[a].phase = "idle"
  /\ Cardinality(Unprocessed) >= Threshold /\ CheckBudget
  /\ Charge /\ calls' = calls + 1
  /\ drain' = [drain EXCEPT ![a] = [phase |-> FirstPhase(Unprocessed),
                                    batch |-> Unprocessed, mark |-> mark]]
  /\ UNCHANGED <<accumulatorVars, mark, flushes, shadowed, disposed,
                 extracted, refused, faults>>

RefuseDrain ==
  /\ ~disposed /\ Cardinality(Unprocessed) >= Threshold /\ ~CheckBudget
  /\ ~refused
  /\ Exhausted /\ UNCHANGED <<shadowed, disposed>>

DrainMore(a) ==
  /\ drain' = [drain EXCEPT ![a].phase = "rest"]
  /\ calls' = calls + 1
  /\ UNCHANGED mark

(* Mutant: the mark moves to the last candidate there is, not to the last  *)
(* one of the batch.                                                       *)
FinishDrainAtEnd(a) ==
  /\ mark' = CHOOSE s \in Seqs(candidates) : \A t \in Seqs(candidates) : t <= s
  /\ drain' = [drain EXCEPT ![a] = Idle]
  /\ UNCHANGED calls

(* The mark is computed from what was read before the calls.               *)
FinishDrain(a) ==
  LET covered == Seqs(drain[a].batch) \cup {drain[a].mark}
  IN /\ mark' = CHOOSE s \in covered : \A t \in covered : t <= s
     /\ drain' = [drain EXCEPT ![a] = Idle]
     /\ UNCHANGED calls

Covers(a) == {x \in drain[a].batch :
                (x.signal = "pitfall-resolved") = (drain[a].phase = "pitfall")}

DrainAnswered(a) ==
  /\ drain[a].phase # "idle"
  /\ extracted' = extracted \cup Seqs(Covers(a))
  /\ IF drain[a].phase = "pitfall" /\ drain[a].batch # Covers(a)
     THEN DrainMore(a) ELSE FinishDrain(a)
  /\ UNCHANGED <<accumulatorVars, used, flushes, shadowed, disposed,
                 refused, faults>>

(* Mutant: a drain advances the mark although its call failed.             *)
DrainFailedMarked(a) ==
  /\ drain[a].phase # "idle" /\ faults < MaxFaults
  /\ faults' = faults + 1
  /\ FinishDrain(a)
  /\ UNCHANGED <<accumulatorVars, used, flushes, shadowed, disposed,
                 extracted, refused>>

(* The batch stays unprocessed; what the first call stored stays stored,   *)
(* the charge is kept.                                                     *)
DrainFailed(a) ==
  /\ drain[a].phase # "idle" /\ faults < MaxFaults
  /\ faults' = faults + 1
  /\ drain' = [drain EXCEPT ![a] = Idle]
  /\ UNCHANGED <<accumulatorVars, mark, used, flushes, shadowed, disposed,
                 calls, extracted, refused>>

StartFlush(covered) ==
  /\ Charge /\ calls' = calls + 1
  /\ flushes' = flushes \cup {covered}
  /\ UNCHANGED <<accumulatorVars, mark, drain, extracted, refused, faults>>

(* compaction/end: the events up to s were replaced by a summary.  Only    *)
(* the seqs of candidates make a difference.                               *)
Compact(s) ==
  /\ ~disposed /\ s > shadowed
  /\ shadowed' = s /\ UNCHANGED disposed
  /\ IF CheckBudget THEN StartFlush(Messages(shadowed, s)) ELSE Exhausted

(* Mutant: the flush at the end takes what the drains have left.           *)
DisposeUnmarked ==
  /\ ~disposed /\ disposed' = TRUE /\ UNCHANGED shadowed
  /\ IF CheckBudget
     THEN StartFlush(Messages(IF mark > shadowed THEN mark ELSE shadowed, seq) \
                     UNION {drain[a].batch : a \in Agents})
     ELSE Exhausted

(* session/disposed: the flush takes every message not yet replaced.       *)
Dispose ==
  /\ ~disposed /\ disposed' = TRUE /\ UNCHANGED shadowed
  /\ IF CheckBudget THEN StartFlush(Messages(shadowed, seq)) ELSE Exhausted

FlushAnswered(f) ==
  /\ flushes' = flushes \ {f}
  /\ extracted' = extracted \cup Seqs(f)
  /\ UNCHANGED <<accumulatorVars, mark, used, drain, shadowed, disposed,
                 calls, refused, faults>>

(* A stream error, the token cap, no route, or the five seconds of the     *)
(* flush at the end.                                                       *)
FlushFailed(f) ==
  /\ faults < MaxFaults /\ faults' = faults + 1
  /\ flushes' = flushes \ {f}
  /\ UNCHANGED <<accumulatorVars, mark, used, drain, shadowed, disposed,
                 calls, extracted, refused>>

(* The process dies and the session is resumed: the projection is back,    *)
(* the WeakMaps of the plugin are empty.                                   *)
Restart ==
  /\ ~disposed /\ faults < MaxFaults /\ faults' = faults + 1
  /\ mark' = 0 /\ used' = 0 /\ calls' = 0
  /\ drain' = [a \in Agents |-> Idle] /\ flushes' = {}
  /\ UNCHANGED <<accumulatorVars, shadowed, disposed, extracted, refused>>

Step ==
  \/ ~disposed /\ SessionEvent /\ UNCHANGED reviewVars
  \/ RefuseDrain \/ Dispose \/ Restart
  \/ \E s \in Seqs(candidates) : Compact(s)

Next ==
  \/ Step
  \/ \E a \in Agents : StartDrain(a) \/ DrainAnswered(a) \/ DrainFailed(a)
  \/ \E f \in flushes : FlushAnswered(f) \/ FlushFailed(f)

Spec == Init /\ [][Next]_vars

(* A model call ends, and an agent that goes on takes its next step.       *)
Fairness ==
  \A a \in Agents : WF_vars(StartDrain(a))
                    /\ WF_vars(DrainAnswered(a) \/ DrainFailed(a))

FairSpec == Spec /\ Fairness

-----------------------------------------------------------------------------
(* Every candidate the mark has passed was in a call that succeeded, also  *)
(* when drains of two agents overlap, the first of a drain's two calls     *)
(* fails or the later drain ends first (maybeRunReview).                   *)
MarkMeansExtracted ==
  \A x \in candidates : x.seq <= mark => x.seq \in extracted

(* The calls of a session stay within twice its budget: a trigger is       *)
(* charged once and makes at most two calls (checkBudget).                 *)
CallsWithinBudget == Budget > 0 => used <= Budget /\ calls <= 2 * Budget

(* A session that ended without a failed call, a restart or a refused      *)
(* trigger has had every message with a signal in an extraction: what the  *)
(* flushes take and what compaction hid fit together (flushOnCompaction,   *)
(* flushOnDispose).                                                        *)
DisposeLosesNothing ==
  disposed /\ flushes = {} /\ faults = 0 /\ ~refused
    => Seqs(candidates \ Pitfalls) \subseteq extracted

(* Once enough candidates wait and no drain is under way (one that comes   *)
(* during a drain may wait for more), each is extracted in the end, unless *)
(* the session ends or the budget is spent: overlapping drains, a mark set *)
(* back, failures and restarts forget none (maybeRunReview).               *)
BacklogDrained ==
  \A s \in Watched :
    ( /\ s \in Seqs(Unprocessed) /\ Cardinality(Unprocessed) >= Threshold
      /\ \A a \in Agents : drain[a].phase = "idle" )
    ~> s \in extracted \/ disposed \/ ~CheckBudget

=============================================================================
