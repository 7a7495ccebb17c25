----------------------------- MODULE Accumulator -----------------------------
(***************************************************************************)
(* The review accumulator of src/review/accumulator.ts: a pure fold over   *)
(* the events of one session that collects candidates for extraction.      *)
(*                                                                         *)
(* A user message is a candidate when it carries a signal.  Tool calls are *)
(* paired with their results: failures of one signature in a row, followed *)
(* by a success, make one "pitfall-resolved" candidate.  The fold keeps    *)
(* only so many open calls and open streaks, the oldest are evicted.       *)
(***************************************************************************)
EXTENDS Integers, FiniteSets, Functions

CONSTANTS
  Signals,                \* what detectSignal finds in a message
  Signatures,             \* what toolSignature makes of a tool and its target
  PitfallStreakThreshold, \* pitfallStreakThreshold
  OpenCallsCap,           \* OPEN_CALLS_CAP
  OpenStreaksCap,         \* OPEN_STREAKS_CAP
  Prior,                  \* signatures that failed once before the first event
  MaxEvents,              \* bound: events of a behaviour
  None                    \* the signature of a message's candidate

ASSUME AccumulatorAssumption ==
  /\ PitfallStreakThreshold \in Nat \ {0}
  /\ OpenCallsCap \in Nat \ {0} /\ OpenStreaksCap \in Nat \ {0}
  /\ MaxEvents \in Nat
  /\ Prior \subseteq Signatures /\ Cardinality(Prior) <= 1
  /\ None \notin Signatures /\ "pitfall-resolved" \notin Signals

VARIABLES
  seq,         \* seq of the last event
  candidates,  \* AccumulatorState.candidates
  openCalls,   \* by call: its signature; a call is named by its event's seq
  openStreaks, \* by signature: [count, lastSeq]
  pending,     \* history: calls without a result, evicted ones included
  failing,     \* history: by signature, failures since its last success
  resolved,    \* history: successes that ended a streak: [seq, sig]
  lossy        \* history: signatures that lost a call or a streak to a cap

accumulator == <<candidates, openCalls, openStreaks>>
trace == <<pending, failing, resolved, lossy>>
accumulatorVars == <<seq, accumulator, trace>>

(* A behaviour starts when each signature of Prior has failed once.        *)
AccInit ==
  /\ seq = 0 /\ candidates = {}
  /\ openCalls = <<>>
  /\ openStreaks = [g \in Prior |-> [count |-> 1, lastSeq |-> 0]]
  /\ pending = <<>>
  /\ failing = [g \in Signatures |-> IF g \in Prior THEN 1 ELSE 0]
  /\ resolved = {} /\ lossy = {}

NextEvent == seq < MaxEvents /\ seq' = seq + 1

(* What stays of a record at its cap: the youngest entries.                *)
EvictToCap(record, cap, age) ==
  Restrict(record, {k \in DOMAIN record :
             Cardinality({j \in DOMAIN record : age[j] > age[k]}) < cap})

With(record, k, v) ==
  [j \in DOMAIN record \cup {k} |-> IF j = k THEN v ELSE record[j]]
Without(record, k) == Restrict(record, DOMAIN record \ {k})

(* A message whose text matches a keyword or a correction pattern.         *)
UserMessage(signal) ==
  /\ NextEvent
  /\ candidates' = candidates \cup
       {[seq |-> seq + 1, signal |-> signal, sig |-> None]}
  /\ UNCHANGED <<openCalls, openStreaks, trace>>

ToolCall(g) ==
  /\ NextEvent
  /\ LET opened == With(openCalls, seq + 1, g)
         kept == EvictToCap(opened, OpenCallsCap, [c \in DOMAIN opened |-> c])
     IN /\ openCalls' = kept
        /\ lossy' = lossy \cup
             {opened[c] : c \in DOMAIN opened \ DOMAIN kept}
  /\ pending' = With(pending, seq + 1, g)
  /\ UNCHANGED <<candidates, openStreaks, failing, resolved>>

StreakOf(g) ==
  IF g \in DOMAIN openStreaks THEN openStreaks[g] ELSE [count |-> 0, lastSeq |-> 0]

(* A failure starts or extends the streak of its signature.                *)
ExtendStreak(g) ==
  LET streaks == With(openStreaks, g, [count |-> StreakOf(g).count + 1,
                                       lastSeq |-> seq + 1])
      kept == EvictToCap(streaks, OpenStreaksCap,
                         [k \in DOMAIN streaks |-> streaks[k].lastSeq])
  IN /\ openStreaks' = kept
     /\ lossy' = lossy \cup (DOMAIN streaks \ DOMAIN kept)
     /\ UNCHANGED candidates

(* Mutant: the threshold has to be exceeded.                               *)
ResolveAbove(g) ==
  /\ openStreaks' = Without(openStreaks, g)
  /\ candidates' = IF StreakOf(g).count <= PitfallStreakThreshold
                   THEN candidates
                   ELSE candidates \cup
                          {[seq |-> seq + 1, signal |-> "pitfall-resolved", sig |-> g]}
  /\ UNCHANGED lossy

(* A success ends the streak, and reports it when it was long enough.      *)
ResolveStreak(g) ==
  /\ openStreaks' = Without(openStreaks, g)
  /\ candidates' = IF StreakOf(g).count < PitfallStreakThreshold
                   THEN candidates
                   ELSE candidates \cup
                          {[seq |-> seq + 1, signal |-> "pitfall-resolved", sig |-> g]}
  /\ UNCHANGED lossy

(* The result of a call the fold no longer holds changes nothing.          *)
ToolResult(c, failed) ==
  /\ NextEvent
  /\ pending' = Without(pending, c)
  /\ IF c \in DOMAIN openCalls
     THEN /\ openCalls' = Without(openCalls, c)
          /\ IF failed THEN ExtendStreak(openCalls[c])
                       ELSE ResolveStreak(openCalls[c])
     ELSE UNCHANGED <<accumulator, lossy>>
  /\ LET g == pending[c] IN
     /\ failing' = [failing EXCEPT ![g] = IF failed THEN @ + 1 ELSE 0]
     /\ resolved' = IF ~failed /\ failing[g] >= PitfallStreakThreshold
                    THEN resolved \cup {[seq |-> seq + 1, sig |-> g]}
                    ELSE resolved

SessionEvent ==
  \/ \E s \in Signals : UserMessage(s)
  \/ \E g \in Signatures : ToolCall(g)
  \/ \E c \in DOMAIN pending, failed \in BOOLEAN : ToolResult(c, failed)

Pitfalls == {x \in candidates : x.signal = "pitfall-resolved"}

(* A signature that lost nothing to the caps has a pitfall candidate for   *)
(* exactly the successes that followed enough failures in a row, whatever  *)
(* the order in which concurrent calls were answered and whichever other   *)
(* signatures were evicted meanwhile (applyAccumulator, evictToCap).       *)
PitfallsExact ==
  \A g \in Signatures \ lossy :
    {x.seq : x \in {y \in Pitfalls : y.sig = g}}
      = {x.seq : x \in {y \in resolved : y.sig = g}}

=============================================================================
