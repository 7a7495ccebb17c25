-------------------------- MODULE SuggestionsProofs --------------------------
(***************************************************************************)
(* Theorems about the suggestion queue, for any number of observations and *)
(* reviewers, any rows and cap, and any number of rejected writes and      *)
(* crashes.                                                                *)
(***************************************************************************)
EXTENDS Suggestions, FiniteSetTheorems, SequenceTheorems, TLAPS

-----------------------------------------------------------------------------
(* Positions in a write chain.                                             *)

\* A sequence after an element is appended.
LEMMA AppendPositions ==
  ASSUME NEW S, NEW s \in Seq(S), NEW x \in S
  PROVE  /\ Append(s, x) \in Seq(S)
         /\ 1..Len(Append(s, x)) = 1..Len(s) \cup {Len(s) + 1}
         /\ Len(s) + 1 \notin 1..Len(s)
         /\ \A n \in 1..Len(s) : Append(s, x)[n] = s[n]
         /\ Append(s, x)[Len(s) + 1] = x
  OBVIOUS

\* A sequence without its head.
LEMMA TailPositions ==
  ASSUME NEW S, NEW s \in Seq(S), s # <<>>
  PROVE  /\ Head(s) = s[1] /\ 1 \in 1..Len(s) /\ Head(s) \in S
         /\ Tail(s) \in Seq(S)
         /\ \A n \in 1..Len(Tail(s)) :
              n + 1 \in 1..Len(s) /\ n + 1 # 1 /\ Tail(s)[n] = s[n + 1]
         /\ \A n \in 1..Len(s) :
              n # 1 => n - 1 \in 1..Len(Tail(s)) /\ Tail(s)[n - 1] = s[n]
  OBVIOUS

-----------------------------------------------------------------------------
(* A client waits for its own last job, and for nothing else.              *)

JobPhases == {"bump", "join", "trim", "write", "delete"}

\* The phases in which a job of this kind is awaited.
AwaitedIn(kind) ==
  CASE kind = "put" -> {"bump", "join"}
    [] kind = "write" -> {"write"}
    [] OTHER -> {"trim", "delete"}

Waiting ==
  /\ \A n \in 1..Len(chain) : call[chain[n].by].phase \in AwaitedIn(chain[n].kind)
  /\ \A n \in 1..Len(chain) : call[chain[n].by].id = chain[n].id
  /\ \A m, n \in 1..Len(chain) : chain[m].by = chain[n].by => m = n

Frames == [phase: Phases, id: Ids \cup {None}, todo: SUBSET Ids]

HasRow(frame) == frame.phase # "idle" => frame.id \in Ids

CallInv ==
  /\ chain \in Seq(Jobs)
  /\ call \in [Clients -> Frames]
  /\ \A c \in Clients : HasRow(call[c])
  /\ Waiting

DataTyped ==
  /\ queue \in [Ids -> Row \cup {None}]
  /\ minted \subseteq Ids
  /\ calls \in Nat /\ faults \in Nat /\ crashes \in Nat
  /\ revived \subseteq Ids /\ adopted \subseteq Ids
  /\ seen \in [Ids -> Nat] /\ written \in [Ids -> Nat]

TypeInv == CallInv /\ DataTyped

LEMMA TypeInvIsTyped == ASSUME TypeInv PROVE TypeOK
  BY DEF TypeInv, CallInv, DataTyped, TypeOK, Frames

LEMMA JobTyped ==
  ASSUME NEW job \in Jobs
  PROVE  /\ job.by \in Clients /\ job.id \in Ids
         /\ job.kind \in {"put", "delete", "adopted", "write"}
         /\ job.kind \in {"put", "write"} => job.row \in Row
         /\ AwaitedIn(job.kind) \subseteq JobPhases
  BY DEF Jobs, Clients, AwaitedIn, JobPhases

LEMMA EnqueueCalls ==
  ASSUME CallInv, NEW c \in Clients, call[c].phase \notin JobPhases,
         NEW frame \in Frames, frame.id \in Ids,
         NEW kind, NEW row, [by |-> c, kind |-> kind, id |-> frame.id, row |-> row] \in Jobs,
         frame.phase \in AwaitedIn(kind),
         Enqueue(c, frame, kind, frame.id, row)
  PROVE  CallInv'
<1> DEFINE job == [by |-> c, kind |-> kind, id |-> frame.id, row |-> row]
<1>1. chain' = Append(chain, job) /\ call' = [call EXCEPT ![c] = frame]
  BY DEF Enqueue
<1>2. /\ chain' \in Seq(Jobs)
      /\ 1..Len(chain') = 1..Len(chain) \cup {Len(chain) + 1}
      /\ Len(chain) + 1 \notin 1..Len(chain)
      /\ \A n \in 1..Len(chain) : chain'[n] = chain[n] /\ chain[n] \in Jobs
      /\ chain'[Len(chain) + 1] = job
  BY <1>1, AppendPositions DEF CallInv
<1>3. call' \in [Clients -> Frames] /\ \A d \in Clients : HasRow(call'[d])
  BY <1>1 DEF CallInv, HasRow
<1>4. \A n \in 1..Len(chain) : chain[n].by # c /\ chain[n].by \in Clients
  BY <1>2, JobTyped DEF CallInv, Waiting
<1>5. Waiting'
  <2>1. \A n \in 1..Len(chain') : /\ call'[chain'[n].by].phase \in AwaitedIn(chain'[n].kind)
                                  /\ call'[chain'[n].by].id = chain'[n].id
    BY <1>1, <1>2, <1>4 DEF CallInv, Waiting
  <2>2. \A m, n \in 1..Len(chain') : chain'[m].by = chain'[n].by => m = n
    BY <1>2, <1>4 DEF CallInv, Waiting
  <2> QED
    BY <2>1, <2>2 DEF Waiting
<1> QED
  BY <1>2, <1>3, <1>5 DEF CallInv

LEMMA GotoCalls ==
  ASSUME CallInv, NEW c \in Clients, call[c].phase \notin JobPhases,
         NEW frame \in Frames, HasRow(frame), Goto(c, frame)
  PROVE  CallInv'
<1>1. chain' = chain /\ call' = [call EXCEPT ![c] = frame]
  BY DEF Goto
<1>2. call' \in [Clients -> Frames] /\ \A d \in Clients : HasRow(call'[d])
  BY <1>1 DEF CallInv
<1>3. \A n \in 1..Len(chain) : chain[n].by # c /\ chain[n].by \in Clients
  BY JobTyped DEF CallInv, Waiting
<1>4. Waiting'
  BY <1>1, <1>3 DEF CallInv, Waiting
<1> QED
  BY <1>1, <1>2, <1>4 DEF CallInv

\* The job at the head of the chain, and its caller.
LEMMA HeadTyped ==
  ASSUME CallInv, chain # <<>>
  PROVE  /\ Head(chain) = chain[1] /\ 1 \in 1..Len(chain) /\ Head(chain) \in Jobs
         /\ Head(chain).by \in Clients /\ Head(chain).id \in Ids
         /\ call[Head(chain).by] \in Frames
         /\ call[Head(chain).by].phase \in AwaitedIn(Head(chain).kind)
         /\ call[Head(chain).by].id = Head(chain).id
<1>1. Head(chain) = chain[1] /\ 1 \in 1..Len(chain) /\ Head(chain) \in Jobs
  BY TailPositions DEF CallInv
<1>2. Head(chain).by \in Clients /\ Head(chain).id \in Ids
  BY <1>1, JobTyped
<1> QED
  BY <1>1, <1>2 DEF CallInv, Waiting

\* The head of the chain is taken and its caller answered.
LEMMA AnswerCalls ==
  ASSUME CallInv, chain # <<>>, chain' = Tail(chain),
         NEW frame \in Frames, HasRow(frame),
         call' = [call EXCEPT ![Head(chain).by] = frame]
  PROVE  CallInv'
<1>1. /\ chain' \in Seq(Jobs)
      /\ \A n \in 1..Len(chain') :
           n + 1 \in 1..Len(chain) /\ n + 1 # 1 /\ chain'[n] = chain[n + 1]
  BY TailPositions DEF CallInv
<1>2. call' \in [Clients -> Frames] /\ \A d \in Clients : HasRow(call'[d])
  BY HeadTyped DEF CallInv
<1>3. \A n \in 1..Len(chain') : chain'[n].by # Head(chain).by /\ chain'[n].by \in Clients
  BY <1>1, HeadTyped, JobTyped DEF CallInv, Waiting
<1>4. Waiting'
  <2>1. \A n \in 1..Len(chain') : /\ call'[chain'[n].by].phase \in AwaitedIn(chain'[n].kind)
                                  /\ call'[chain'[n].by].id = chain'[n].id
    BY <1>1, <1>3 DEF CallInv, Waiting
  <2>2. \A m, n \in 1..Len(chain') : chain'[m].by = chain'[n].by => m = n
    <3> SUFFICES ASSUME NEW m \in 1..Len(chain'), NEW n \in 1..Len(chain'),
                        chain'[m].by = chain'[n].by
                 PROVE  m = n
      OBVIOUS
    <3>1. m + 1 = n + 1
      BY <1>1 DEF CallInv, Waiting
    <3> QED
      BY <3>1
  <2> QED
    BY <2>1, <2>2 DEF Waiting
<1> QED
  BY <1>1, <1>2, <1>4 DEF CallInv

LEMMA IdleTyped == Idle \in Frames /\ Idle.phase = "idle" /\ HasRow(Idle)
  BY DEF Idle, Frames, Phases, HasRow

LEMMA StartTyped ==
  \A p \in Phases, s \in Ids, T \in SUBSET Ids :
    /\ [Idle EXCEPT !.phase = p, !.id = s] \in Frames
    /\ [Idle EXCEPT !.phase = p, !.id = s, !.todo = T] \in Frames
  BY DEF Idle, Frames

-----------------------------------------------------------------------------
(* Type correctness.                                                       *)

LEMMA RowTyped ==
  ASSUME NEW row \in Row
  PROVE  row.hits \in Nat /\ row # None /\ Bumped(row) \in Row
  BY NoneAssumption DEF Row, Bumped

LEMMA QueuedTyped ==
  ASSUME DataTyped, NEW s \in Rows
  PROVE  s \in Ids /\ queue[s] \in Row
  BY DEF DataTyped, Rows

LEMMA BumpTyped ==
  ASSUME TypeInv, NEW c \in Proposers, Bump(c) PROVE TypeInv'
<1>1. PICK s \in Rows :
        Enqueue(c, [Idle EXCEPT !.phase = "bump", !.id = s], "put", s, Bumped(queue[s]))
  BY DEF Bump, Matched
<1> DEFINE frame == [Idle EXCEPT !.phase = "bump", !.id = s]
<1>2. s \in Ids /\ Bumped(queue[s]) \in Row
  BY QueuedTyped, RowTyped DEF TypeInv
<1>3. frame \in Frames /\ frame.id = s /\ frame.phase = "bump"
  BY <1>2, StartTyped DEF Phases, Idle
<1>4. [by |-> c, kind |-> "put", id |-> s, row |-> Bumped(queue[s])] \in Jobs
  BY <1>2 DEF Jobs
<1>5. c \in Clients /\ call[c].phase \notin JobPhases /\ "bump" \in AwaitedIn("put")
  BY DEF Clients, Bump, Begins, JobPhases, AwaitedIn
<1> HIDE DEF frame
<1>6. Enqueue(c, frame, "put", frame.id, Bumped(queue[s]))
  BY <1>1, <1>3 DEF frame
<1>7. CallInv'
  BY <1>2, <1>3, <1>4, <1>5, <1>6, EnqueueCalls DEF TypeInv
<1>8. DataTyped'
  BY DEF Bump, Begins, history, TypeInv, DataTyped
<1> QED
  BY <1>7, <1>8 DEF TypeInv

LEMMA JoinTyped ==
  ASSUME TypeInv, NEW c \in Proposers, Join(c) PROVE TypeInv'
<1>1. PICK p \in Proposal, s \in Ids \ minted :
        /\ minted' = minted \cup {s}
        /\ Enqueue(c, [Idle EXCEPT !.phase = "join", !.id = s], "put", s, FirstSeen(p))
  BY DEF Join
<1> DEFINE frame == [Idle EXCEPT !.phase = "join", !.id = s]
<1>2. FirstSeen(p) \in Row
  BY DEF FirstSeen, Proposal, Row
<1>3. frame \in Frames /\ frame.id = s /\ frame.phase = "join"
  BY StartTyped DEF Phases, Idle
<1>4. [by |-> c, kind |-> "put", id |-> s, row |-> FirstSeen(p)] \in Jobs
  BY <1>2 DEF Jobs
<1>5. c \in Clients /\ call[c].phase \notin JobPhases /\ "join" \in AwaitedIn("put")
  BY DEF Clients, Join, Begins, JobPhases, AwaitedIn
<1> HIDE DEF frame
<1>6. Enqueue(c, frame, "put", frame.id, FirstSeen(p))
  BY <1>1, <1>3 DEF frame
<1>7. CallInv'
  BY <1>3, <1>4, <1>5, <1>6, EnqueueCalls DEF TypeInv
<1>8. DataTyped'
  BY <1>1 DEF Join, Begins, history, TypeInv, DataTyped
<1> QED
  BY <1>7, <1>8 DEF TypeInv

LEMMA DropTyped ==
  ASSUME CallInv, NEW c \in Proposers, call[c].phase \notin JobPhases,
         NEW V \in SUBSET Ids, DropNext(c, V)
  PROVE  CallInv'
<1>1. PICK s \in V :
        Enqueue(c, [Idle EXCEPT !.phase = "trim", !.id = s, !.todo = V \ {s}], "delete", s, None)
  BY DEF DropNext
<1> DEFINE frame == [Idle EXCEPT !.phase = "trim", !.id = s, !.todo = V \ {s}]
<1>2. frame \in Frames /\ frame.id = s /\ frame.phase = "trim" /\ s \in Ids
  BY StartTyped DEF Phases, Idle
<1>3. [by |-> c, kind |-> "delete", id |-> s, row |-> None] \in Jobs
  BY <1>2 DEF Jobs, Clients
<1>4. c \in Clients /\ "trim" \in AwaitedIn("delete")
  BY DEF Clients, AwaitedIn
<1> HIDE DEF frame
<1>5. Enqueue(c, frame, "delete", frame.id, None)
  BY <1>1, <1>2 DEF frame
<1> QED
  BY <1>2, <1>3, <1>4, <1>5, EnqueueCalls

LEMMA TrimTyped ==
  ASSUME TypeInv, NEW c \in Proposers, Trim(c) \/ TrimMore(c) PROVE TypeInv'
<1>1. c \in Clients /\ call[c].phase \notin JobPhases /\ CallInv
  BY DEF Clients, Trim, TrimMore, JobPhases, TypeInv
<1>2. ASSUME Goto(c, Idle) PROVE CallInv'
  BY <1>1, <1>2, GotoCalls, IdleTyped
<1>3. CallInv'
  <2>1. CASE Trim(c)
    <3>1. \A V \in Victims : V \in SUBSET Ids
      BY DEF Victims, Rows
    <3> QED
      BY <1>1, <1>2, <2>1, <3>1, DropTyped DEF Trim
  <2>2. CASE TrimMore(c)
    <3>1. call[c].todo \in SUBSET Ids
      BY <1>1 DEF CallInv, Frames
    <3> QED
      BY <1>1, <1>2, <2>2, <3>1, DropTyped DEF TrimMore
  <2> QED
    BY <2>1, <2>2
<1>4. DataTyped'
  BY DEF Trim, TrimMore, counters, history, TypeInv, DataTyped
<1> QED
  BY <1>3, <1>4 DEF TypeInv

\* A reviewer's call begins with a write of the row's content or a delete.
LEMMA DecideTyped ==
  ASSUME TypeInv, NEW c \in Reviewers, Adopt(c) \/ RejectSuggestion(c) PROVE TypeInv'
<1>1. /\ c \in Clients /\ call[c].phase \notin JobPhases /\ CallInv
      /\ "write" \in AwaitedIn("write") /\ "delete" \in AwaitedIn("delete")
  BY DEF Clients, Adopt, RejectSuggestion, Begins, JobPhases, TypeInv, AwaitedIn
<1> DEFINE frame(p, s) == [Idle EXCEPT !.phase = p, !.id = s]
<1>2. ASSUME NEW p \in {"write", "delete"}, NEW s \in Ids
      PROVE  frame(p, s) \in Frames /\ frame(p, s).id = s /\ frame(p, s).phase = p
  BY <1>2, StartTyped DEF Phases, Idle
<1>3. CASE Adopt(c)
  <2>1. PICK s \in Rows : Enqueue(c, frame("write", s), "write", s, queue[s])
    BY <1>3 DEF Adopt
  <2>2. s \in Ids /\ [by |-> c, kind |-> "write", id |-> s, row |-> queue[s]] \in Jobs
    BY QueuedTyped DEF TypeInv, Jobs
  <2> HIDE DEF frame
  <2>3. Enqueue(c, frame("write", s), "write", frame("write", s).id, queue[s])
    BY <1>2, <2>1, <2>2
  <2>4. CallInv'
    BY <1>1, <1>2, <2>2, <2>3, EnqueueCalls
  <2>5. UNCHANGED <<queue, minted, faults, crashes, history>> /\ calls' = calls + 1
    BY <1>3 DEF Adopt, Begins
  <2>6. DataTyped'
    BY <2>5 DEF history, TypeInv, DataTyped
  <2> QED
    BY <2>4, <2>6 DEF TypeInv
<1>4. CASE RejectSuggestion(c)
  <2>1. PICK s \in Rows : Enqueue(c, frame("delete", s), "delete", s, None)
    BY <1>4 DEF RejectSuggestion
  <2>2. s \in Ids /\ [by |-> c, kind |-> "delete", id |-> s, row |-> None] \in Jobs
    BY <1>1, QueuedTyped DEF TypeInv, Jobs
  <2> HIDE DEF frame
  <2>3. Enqueue(c, frame("delete", s), "delete", frame("delete", s).id, None)
    BY <1>2, <2>1, <2>2
  <2>4. CallInv'
    BY <1>1, <1>2, <2>2, <2>3, EnqueueCalls
  <2>5. UNCHANGED <<queue, minted, faults, crashes, history>> /\ calls' = calls + 1
    BY <1>4 DEF RejectSuggestion, Begins
  <2>6. DataTyped'
    BY <2>5 DEF history, TypeInv, DataTyped
  <2> QED
    BY <2>4, <2>6 DEF TypeInv
<1> QED
  BY <1>3, <1>4

LEMMA AdoptedTyped ==
  ASSUME TypeInv, NEW c \in Reviewers, Adopted(c) \/ AdoptFails(c) PROVE TypeInv'
<1>1. /\ c \in Clients /\ call[c].phase = "rest" /\ call[c].phase \notin JobPhases
      /\ CallInv /\ "delete" \in AwaitedIn("adopted")
  BY DEF Clients, Adopted, AdoptFails, JobPhases, TypeInv, AwaitedIn
<1> DEFINE frame == [call[c] EXCEPT !.phase = "delete"]
<1>2. /\ frame \in Frames /\ frame.id = call[c].id /\ frame.phase = "delete"
      /\ call[c].id \in Ids
  BY <1>1 DEF CallInv, HasRow, Frames, Phases
<1>3. [by |-> c, kind |-> "adopted", id |-> frame.id, row |-> None] \in Jobs
  BY <1>2 DEF Jobs
<1>4. CASE Adopted(c)
  <2>1. Enqueue(c, frame, "adopted", frame.id, None)
    BY <1>2, <1>4 DEF Adopted
  <2> HIDE DEF frame
  <2>2. CallInv'
    BY <1>1, <1>2, <1>3, <2>1, EnqueueCalls
  <2>3. DataTyped'
    BY <1>4 DEF Adopted, counters, history, TypeInv, DataTyped
  <2> QED
    BY <2>2, <2>3 DEF TypeInv
<1>5. CASE AdoptFails(c)
  <2>1. CallInv'
    BY <1>1, <1>5, GotoCalls, IdleTyped DEF AdoptFails
  <2>2. DataTyped'
    BY <1>5 DEF AdoptFails, history, TypeInv, DataTyped
  <2> QED
    BY <2>1, <2>2 DEF TypeInv
<1> QED
  BY <1>4, <1>5

LEMMA AnswerTyped ==
  ASSUME NEW frame \in Frames, frame.phase # "idle", HasRow(frame)
  PROVE  Answer(frame) \in Frames /\ HasRow(Answer(frame))
<1>1. ASSUME NEW p \in Phases
      PROVE  [frame EXCEPT !.phase = p] \in Frames /\ HasRow([frame EXCEPT !.phase = p])
  BY DEF Frames, HasRow
<1>2. "joined" \in Phases /\ "trimmed" \in Phases /\ "rest" \in Phases
  BY DEF Phases
<1> QED
  BY <1>1, <1>2, IdleTyped, Zenon DEF Answer

LEMMA LandTyped ==
  ASSUME TypeInv, Land PROVE TypeInv'
<1> DEFINE job == Head(chain)
           f == call[job.by]
<1>1. CallInv /\ DataTyped /\ chain # <<>> /\ chain' = Tail(chain)
  BY DEF TypeInv, Land
<1>2. /\ job \in Jobs /\ job.by \in Clients /\ job.id \in Ids
      /\ f \in Frames /\ f.phase \in JobPhases /\ HasRow(f)
  BY <1>1, HeadTyped, JobTyped DEF CallInv
<1>3. job.kind = "put" => job.row \in Row
  BY <1>2, JobTyped
<1>4. CallInv'
  <2>1. call' = [call EXCEPT ![job.by] = Answer(f)]
    BY DEF Land
  <2>2. Answer(f) \in Frames /\ HasRow(Answer(f))
    BY <1>2, AnswerTyped DEF JobPhases
  <2> QED
    BY <1>1, <2>1, <2>2, AnswerCalls
<1>5. queue' \in [Ids -> Row \cup {None}]
  BY <1>1, <1>2, <1>3 DEF Land, DataTyped
<1>6. seen' \in [Ids -> Nat] /\ written' \in [Ids -> Nat]
  BY <1>1, <1>2 DEF Land, DataTyped
<1>7. revived' \subseteq Ids /\ adopted' \subseteq Ids
  BY <1>1, <1>2 DEF Land, DataTyped
<1>8. minted' \subseteq Ids /\ calls' \in Nat /\ faults' \in Nat /\ crashes' \in Nat
  BY <1>1 DEF Land, DataTyped, counters
<1> QED
  BY <1>4, <1>5, <1>6, <1>7, <1>8 DEF TypeInv, DataTyped

LEMMA RejectTyped ==
  ASSUME TypeInv, Reject PROVE TypeInv'
<1>1. /\ CallInv /\ chain # <<>> /\ chain' = Tail(chain)
      /\ call' = [call EXCEPT ![Head(chain).by] = Idle]
  BY DEF TypeInv, Reject, Thrown
<1>2. CallInv'
  BY <1>1, AnswerCalls, IdleTyped
<1>3. DataTyped'
  BY DEF Reject, history, TypeInv, DataTyped
<1> QED
  BY <1>2, <1>3 DEF TypeInv

LEMMA NoJobs ==
  ASSUME chain = <<>>, call = [c \in Clients |-> Idle] PROVE CallInv
  BY IdleTyped DEF CallInv, Waiting

LEMMA CrashTyped ==
  ASSUME TypeInv, Crash PROVE TypeInv'
<1>1. CallInv'
  BY IdleTyped DEF Crash, CallInv, Waiting
<1>2. DataTyped'
  BY DEF Crash, history, TypeInv, DataTyped
<1> QED
  BY <1>1, <1>2 DEF TypeInv

LEMMA InitTyped == ASSUME Init PROVE TypeInv
<1>1. CallInv
  BY NoJobs DEF Init
<1>2. DataTyped
  BY DEF Init, DataTyped
<1> QED
  BY <1>1, <1>2 DEF TypeInv

LEMMA StepTyped == ASSUME TypeInv, [Next]_vars PROVE TypeInv'
<1>1. ASSUME NEW c \in Proposers, Bump(c) \/ Join(c) \/ Trim(c) \/ TrimMore(c)
      PROVE  TypeInv'
  BY <1>1, BumpTyped, JoinTyped, TrimTyped
<1>2. ASSUME NEW c \in Reviewers,
             Adopt(c) \/ Adopted(c) \/ AdoptFails(c) \/ RejectSuggestion(c)
      PROVE  TypeInv'
  BY <1>2, DecideTyped, AdoptedTyped
<1>3. CASE UNCHANGED vars
  BY <1>3 DEF vars, TypeInv, CallInv, Waiting, HasRow, DataTyped
<1> QED
  BY <1>1, <1>2, <1>3, LandTyped, RejectTyped, CrashTyped DEF Next

LEMMA TypeInvariant == Spec => []TypeInv
<1>1. Init => TypeInv
  BY InitTyped
<1>2. TypeInv /\ [Next]_vars => TypeInv'
  BY StepTyped
<1> QED
  BY <1>1, <1>2, PTL DEF Spec

\* The queue, its rows, the chain and the callers keep their types.
THEOREM TypeCorrect == Spec => []TypeOK
<1>1. TypeInv => TypeOK
  BY TypeInvIsTyped
<1> QED
  BY <1>1, TypeInvariant, PTL

-----------------------------------------------------------------------------
(* A human yes is never lost.  What a removed row owes to its adoption is  *)
(* owed already by the adoption that has come back from memory, and by the *)
(* delete it has queued.                                                   *)

InMemory == {s \in Ids : written[s] > 0}

YesInv ==
  /\ TypeInv
  /\ \A s \in adopted : s \in InMemory
  /\ \A c \in Clients : call[c].phase = "rest" => call[c].id \in InMemory
  /\ \A n \in 1..Len(chain) : chain[n].kind = "adopted" => chain[n].id \in InMemory

\* A client that queues a job: only an adoption that is back from memory
\* queues the delete of its row.
LEMMA EnqueueYes ==
  ASSUME YesInv, TypeInv', UNCHANGED <<written, adopted>>,
         NEW c \in Clients, NEW frame, frame.phase # "rest",
         NEW kind, NEW s \in Ids, NEW row, kind = "adopted" => s \in InMemory,
         [by |-> c, kind |-> kind, id |-> s, row |-> row] \in Jobs,
         Enqueue(c, frame, kind, s, row)
  PROVE  YesInv'
<1> DEFINE job == [by |-> c, kind |-> kind, id |-> s, row |-> row]
<1>1. chain' = Append(chain, job) /\ call' = [call EXCEPT ![c] = frame]
  BY DEF Enqueue
<1>2. /\ 1..Len(chain') = 1..Len(chain) \cup {Len(chain) + 1}
      /\ \A n \in 1..Len(chain) : chain'[n] = chain[n]
      /\ chain'[Len(chain) + 1] = job
  BY <1>1, AppendPositions DEF YesInv, TypeInv, CallInv
<1>3. \A n \in 1..Len(chain') : chain'[n].kind = "adopted" => chain'[n].id \in InMemory'
  BY <1>2 DEF YesInv, InMemory
<1>4. \A d \in Clients : call'[d].phase = "rest" => call'[d].id \in InMemory'
  BY <1>1 DEF YesInv, TypeInv, CallInv, InMemory
<1> QED
  BY <1>3, <1>4 DEF YesInv, InMemory

LEMMA GotoYes ==
  ASSUME YesInv, TypeInv', UNCHANGED <<written, adopted>>,
         NEW c \in Clients, Goto(c, Idle)
  PROVE  YesInv'
<1>1. chain' = chain /\ call' = [call EXCEPT ![c] = Idle]
  BY DEF Goto
<1>2. \A d \in Clients : call'[d].phase = "rest" => call'[d].id \in InMemory'
  BY <1>1, IdleTyped DEF YesInv, TypeInv, CallInv, InMemory
<1> QED
  BY <1>1, <1>2 DEF YesInv, InMemory

LEMMA ProposerYes ==
  ASSUME YesInv, TypeInv', NEW c \in Proposers,
         Bump(c) \/ Join(c) \/ Trim(c) \/ TrimMore(c)
  PROVE  YesInv'
<1>1. UNCHANGED <<written, adopted>> /\ c \in Clients
  BY DEF Bump, Join, Trim, TrimMore, Begins, history, Clients
<1>2. ASSUME NEW frame, frame.phase \in {"bump", "join", "trim"},
             NEW kind \in {"put", "delete"}, NEW s \in Ids, NEW row,
             kind = "put" => row \in Row, kind = "delete" => row = None,
             Enqueue(c, frame, kind, s, row)
      PROVE  YesInv'
  <2>1. [by |-> c, kind |-> kind, id |-> s, row |-> row] \in Jobs
    BY <1>1, <1>2 DEF Jobs
  <2> QED
    BY <1>1, <1>2, <2>1, EnqueueYes
<1>3. ASSUME NEW V \in SUBSET Ids, DropNext(c, V) PROVE YesInv'
  <2> DEFINE frame(s) == [Idle EXCEPT !.phase = "trim", !.id = s, !.todo = V \ {s}]
  <2>1. PICK s \in V : Enqueue(c, frame(s), "delete", s, None)
    BY <1>3 DEF DropNext
  <2>2. frame(s).phase = "trim" /\ s \in Ids
    BY DEF Idle
  <2> HIDE DEF frame
  <2> QED
    BY <1>2, <2>1, <2>2
<1>4. CASE Bump(c)
  <2> DEFINE frame(s) == [Idle EXCEPT !.phase = "bump", !.id = s]
  <2>1. PICK s \in Rows : Enqueue(c, frame(s), "put", s, Bumped(queue[s]))
    BY <1>4 DEF Bump, Matched
  <2>2. s \in Ids /\ Bumped(queue[s]) \in Row
    BY QueuedTyped, RowTyped DEF YesInv, TypeInv
  <2>3. frame(s).phase = "bump"
    BY DEF Idle
  <2> HIDE DEF frame
  <2> QED
    BY <1>2, <2>1, <2>2, <2>3
<1>5. CASE Join(c)
  <2> DEFINE frame(s) == [Idle EXCEPT !.phase = "join", !.id = s]
  <2>1. PICK p \in Proposal, s \in Ids : Enqueue(c, frame(s), "put", s, FirstSeen(p))
    BY <1>5 DEF Join
  <2>2. FirstSeen(p) \in Row
    BY DEF FirstSeen, Proposal, Row
  <2>3. frame(s).phase = "join"
    BY DEF Idle
  <2> HIDE DEF frame
  <2> QED
    BY <1>2, <2>1, <2>2, <2>3
<1>6. CASE Trim(c)
  <2>1. \A V \in Victims : V \in SUBSET Ids
    BY DEF Victims, Rows
  <2> QED
    BY <1>1, <1>3, <1>6, <2>1, GotoYes DEF Trim
<1>7. CASE TrimMore(c)
  <2>1. call[c].todo \in SUBSET Ids
    BY <1>1 DEF YesInv, TypeInv, CallInv, Frames
  <2> QED
    BY <1>1, <1>3, <1>7, <2>1, GotoYes DEF TrimMore
<1> QED
  BY <1>4, <1>5, <1>6, <1>7

LEMMA ReviewerYes ==
  ASSUME YesInv, TypeInv', NEW c \in Reviewers,
         Adopt(c) \/ Adopted(c) \/ AdoptFails(c) \/ RejectSuggestion(c)
  PROVE  YesInv'
<1>1. UNCHANGED <<written, adopted>> /\ c \in Clients
  BY DEF Adopt, Adopted, AdoptFails, RejectSuggestion, Begins, history, Clients
<1>2. CASE Adopt(c)
  <2>1. PICK s \in Rows :
          Enqueue(c, [Idle EXCEPT !.phase = "write", !.id = s], "write", s, queue[s])
    BY <1>2 DEF Adopt
  <2>2. s \in Ids /\ [by |-> c, kind |-> "write", id |-> s, row |-> queue[s]] \in Jobs
    BY QueuedTyped DEF YesInv, TypeInv, Jobs
  <2>3. [Idle EXCEPT !.phase = "write", !.id = s].phase = "write"
    BY DEF Idle
  <2> QED
    BY <1>1, <2>1, <2>2, <2>3, EnqueueYes
<1>3. CASE Adopted(c)
  <2> DEFINE frame == [call[c] EXCEPT !.phase = "delete"]
  <2>1. call[c].phase = "rest" /\ Enqueue(c, frame, "adopted", call[c].id, None)
    BY <1>3 DEF Adopted
  <2>2. call[c].id \in Ids /\ call[c].id \in InMemory /\ frame.phase = "delete"
    BY <1>1, <2>1 DEF YesInv, TypeInv, CallInv, HasRow, Frames
  <2>3. [by |-> c, kind |-> "adopted", id |-> call[c].id, row |-> None] \in Jobs
    BY <2>2 DEF Jobs
  <2> HIDE DEF frame
  <2> QED
    BY <1>1, <2>1, <2>2, <2>3, EnqueueYes
<1>4. CASE AdoptFails(c)
  BY <1>1, <1>4, GotoYes DEF AdoptFails
<1>5. CASE RejectSuggestion(c)
  <2>1. PICK s \in Rows :
          Enqueue(c, [Idle EXCEPT !.phase = "delete", !.id = s], "delete", s, None)
    BY <1>5 DEF RejectSuggestion
  <2>2. s \in Ids /\ [by |-> c, kind |-> "delete", id |-> s, row |-> None] \in Jobs
    BY <1>1, QueuedTyped DEF YesInv, TypeInv, Jobs
  <2>3. [Idle EXCEPT !.phase = "delete", !.id = s].phase = "delete"
    BY DEF Idle
  <2> QED
    BY <1>1, <2>1, <2>2, <2>3, EnqueueYes
<1> QED
  BY <1>2, <1>3, <1>4, <1>5

\* The landing of a write is what makes its adoption come back from memory.
LEMMA LandYes ==
  ASSUME YesInv, TypeInv', Land PROVE YesInv'
<1> DEFINE job == Head(chain)
           f == call[job.by]
<1>1. CallInv /\ DataTyped /\ chain # <<>> /\ chain' = Tail(chain)
  BY DEF YesInv, TypeInv, Land
<1>2. /\ job = chain[1] /\ 1 \in 1..Len(chain) /\ job.by \in Clients /\ job.id \in Ids
      /\ f \in Frames /\ f.phase \in AwaitedIn(job.kind) /\ f.id = job.id
      /\ job.kind \in {"put", "delete", "adopted", "write"}
  BY <1>1, HeadTyped, JobTyped
<1>3. InMemory \subseteq InMemory'
  BY <1>1, <1>2 DEF Land, InMemory, DataTyped
<1>4. f.phase = "write" => job.id \in InMemory'
  <2>1. f.phase = "write" => job.kind = "write"
    BY <1>2 DEF AwaitedIn
  <2> QED
    BY <1>1, <1>2, <2>1 DEF Land, InMemory, DataTyped
<1>5. call' = [call EXCEPT ![job.by] = Answer(f)]
  BY DEF Land
<1>6. Answer(f).phase = "rest" => f.phase = "write" /\ Answer(f).id = f.id
  <2>1. \A p \in {"joined", "trimmed", "rest"} :
          [f EXCEPT !.phase = p].phase = p /\ [f EXCEPT !.phase = p].id = f.id
    BY <1>2 DEF Frames
  <2> QED
    BY <2>1, IdleTyped DEF Answer
<1>7. \A d \in Clients : call'[d].phase = "rest" => call'[d].id \in InMemory'
  <2> SUFFICES ASSUME NEW d \in Clients, call'[d].phase = "rest"
               PROVE  call'[d].id \in InMemory'
    OBVIOUS
  <2>1. CASE d = job.by
    <3>1. call'[d] = Answer(f)
      BY <1>1, <1>5, <2>1 DEF CallInv
    <3> QED
      BY <1>2, <1>4, <1>6, <3>1
  <2>2. CASE d # job.by
    <3>1. call'[d] = call[d] /\ call[d].id \in Ids
      BY <1>1, <1>5, <2>2 DEF CallInv, HasRow
    <3> QED
      BY <1>3, <3>1 DEF YesInv
  <2> QED
    BY <2>1, <2>2
<1>8. \A n \in 1..Len(chain') : chain'[n].kind = "adopted" => chain'[n].id \in InMemory'
  <2>1. \A n \in 1..Len(chain') : n + 1 \in 1..Len(chain) /\ chain'[n] = chain[n + 1]
    BY <1>1, TailPositions DEF CallInv
  <2>2. \A n \in 1..Len(chain) : chain[n].id \in Ids
    BY <1>1, JobTyped DEF CallInv
  <2> QED
    BY <1>3, <2>1, <2>2 DEF YesInv
<1>9. \A s \in adopted' : s \in InMemory'
  <2>1. adopted' = IF job.kind = "adopted" THEN adopted \cup {job.id} ELSE adopted
    BY DEF Land
  <2>2. job.kind = "adopted" => job.id \in InMemory
    BY <1>2 DEF YesInv
  <2>3. adopted \subseteq Ids
    BY <1>1 DEF DataTyped
  <2> QED
    BY <1>2, <1>3, <2>1, <2>2, <2>3 DEF YesInv
<1> QED
  BY <1>7, <1>8, <1>9 DEF YesInv

LEMMA RejectYes ==
  ASSUME YesInv, TypeInv', Reject PROVE YesInv'
<1>1. /\ CallInv /\ chain # <<>> /\ chain' = Tail(chain)
      /\ call' = [call EXCEPT ![Head(chain).by] = Idle]
      /\ UNCHANGED <<written, adopted>>
  BY DEF YesInv, TypeInv, Reject, Thrown, history
<1>2. \A n \in 1..Len(chain') : n + 1 \in 1..Len(chain) /\ chain'[n] = chain[n + 1]
  BY <1>1, TailPositions DEF CallInv
<1>3. \A d \in Clients : call'[d].phase = "rest" => call'[d].id \in InMemory'
  BY <1>1, IdleTyped DEF YesInv, CallInv, InMemory
<1>4. \A n \in 1..Len(chain') : chain'[n].kind = "adopted" => chain'[n].id \in InMemory'
  BY <1>1, <1>2 DEF YesInv, InMemory
<1> QED
  BY <1>1, <1>3, <1>4 DEF YesInv, InMemory

LEMMA CrashYes ==
  ASSUME YesInv, TypeInv', Crash PROVE YesInv'
<1>1. /\ chain' = <<>> /\ call' = [c \in Clients |-> Idle]
      /\ UNCHANGED <<written, adopted>>
  BY DEF Crash, history
<1>2. \A d \in Clients : call'[d].phase # "rest"
  BY <1>1, IdleTyped
<1> QED
  BY <1>1, <1>2 DEF YesInv, InMemory

LEMMA YesInvariant == Spec => []YesInv
<1>1. Init => YesInv
  <2>1. Init => \A c \in Clients : call[c].phase # "rest"
    BY IdleTyped DEF Init
  <2> QED
    BY <2>1, InitTyped DEF Init, YesInv
<1>2. YesInv /\ [Next]_vars => YesInv'
  <2> SUFFICES ASSUME YesInv, [Next]_vars PROVE YesInv'
    OBVIOUS
  <2>1. TypeInv'
    BY StepTyped DEF YesInv
  <2>2. ASSUME NEW c \in Proposers, Bump(c) \/ Join(c) \/ Trim(c) \/ TrimMore(c)
        PROVE  YesInv'
    BY <2>1, <2>2, ProposerYes
  <2>3. ASSUME NEW c \in Reviewers,
               Adopt(c) \/ Adopted(c) \/ AdoptFails(c) \/ RejectSuggestion(c)
        PROVE  YesInv'
    BY <2>1, <2>3, ReviewerYes
  <2>4. CASE UNCHANGED vars
    BY <2>1, <2>4 DEF vars, YesInv, InMemory
  <2> QED
    BY <2>1, <2>2, <2>3, <2>4, LandYes, RejectYes, CrashYes DEF Next
<1> QED
  BY <1>1, <1>2, PTL DEF Spec

\* A row that its adoption has removed from the queue has reached memory,
\* through failures of any write and crashes between any two.
THEOREM YesIsNeverLost == Spec => []YesNeverLost
<1>1. YesInv => YesNeverLost
  BY DEF YesInv, InMemory, YesNeverLost
<1> QED
  BY <1>1, YesInvariant, PTL

-----------------------------------------------------------------------------
(* Whose row is whose: an id is handed out once, and nobody else works on  *)
(* a row that is about to join.                                            *)

Touching(c, s) ==
  \/ call[c].phase # "idle" /\ call[c].id = s
  \/ s \in call[c].todo

Handed ==
  /\ IsFiniteSet(minted) /\ Rows \subseteq minted /\ revived \subseteq minted
  /\ \A c \in Clients, s \in Ids : Touching(c, s) => s \in minted
  /\ \A s \in Ids : written[s] > 0 \/ seen[s] > 0 => s \in minted

JoinAlone ==
  \A c \in Clients, s \in Ids : call[c].phase = "join" /\ call[c].id = s =>
    /\ s \notin Rows /\ seen[s] = 0 /\ written[s] = 0
    /\ \A d \in Clients \ {c} : ~ Touching(d, s)

RowInv == TypeInv /\ Handed /\ JoinAlone

\* What a client does between two awaits: it goes on with rows it has or finds
\* in the queue, or mints one.
ClientMoves(c) ==
  /\ UNCHANGED <<queue, history>>
  /\ \A d \in Clients \ {c} : call'[d] = call[d]
  /\ \/ /\ minted' = minted /\ call'[c].phase # "join"
        /\ \A s \in Ids : Touching(c, s)' => Touching(c, s) \/ s \in Rows
     \/ \E s \in Ids \ minted :
          /\ minted' = minted \cup {s}
          /\ call'[c].phase = "join" /\ call'[c].id = s /\ call'[c].todo = {}

LEMMA EnqueueMoves ==
  ASSUME TypeInv, NEW c \in Clients, NEW frame, NEW kind, NEW s, NEW row,
         Enqueue(c, frame, kind, s, row)
  PROVE  call'[c] = frame /\ \A d \in Clients \ {c} : call'[d] = call[d]
  BY DEF TypeInv, CallInv, Enqueue

LEMMA GotoMoves ==
  ASSUME TypeInv, NEW c \in Clients, NEW frame, Goto(c, frame)
  PROVE  call'[c] = frame /\ \A d \in Clients \ {c} : call'[d] = call[d]
  BY DEF TypeInv, CallInv, Goto

\* A call that takes up a row of the queue.
LEMMA TakesUp ==
  ASSUME TypeInv, NEW c \in Clients, NEW p \in {"bump", "write", "delete"},
         NEW s \in Rows, NEW kind, NEW row,
         Enqueue(c, [Idle EXCEPT !.phase = p, !.id = s], kind, s, row),
         UNCHANGED <<queue, minted, history>>
  PROVE  ClientMoves(c)
<1> DEFINE frame == [Idle EXCEPT !.phase = p, !.id = s]
<1>1. frame.phase = p /\ frame.id = s /\ frame.todo = {}
  BY DEF Idle
<1> HIDE DEF frame
<1>2. call'[c] = frame /\ \A d \in Clients \ {c} : call'[d] = call[d]
  BY EnqueueMoves DEF frame
<1> QED
  BY <1>1, <1>2 DEF ClientMoves, Touching

LEMMA DropMoves ==
  ASSUME TypeInv, NEW c \in Clients, NEW V \in SUBSET Ids, DropNext(c, V),
         \A s \in V : Touching(c, s) \/ s \in Rows, UNCHANGED <<queue, minted, history>>
  PROVE  ClientMoves(c)
<1> DEFINE frame(s) == [Idle EXCEPT !.phase = "trim", !.id = s, !.todo = V \ {s}]
<1>1. PICK s \in V : Enqueue(c, frame(s), "delete", s, None)
  BY DEF DropNext
<1>2. frame(s).phase = "trim" /\ frame(s).id = s /\ frame(s).todo = V \ {s}
  BY DEF Idle
<1> HIDE DEF frame
<1>3. call'[c] = frame(s) /\ \A d \in Clients \ {c} : call'[d] = call[d]
  BY <1>1, EnqueueMoves
<1> QED
  BY <1>2, <1>3 DEF ClientMoves, Touching

LEMMA RestMoves ==
  ASSUME TypeInv, NEW c \in Clients, Goto(c, Idle), UNCHANGED <<queue, minted, history>>
  PROVE  ClientMoves(c)
<1>1. call'[c] = Idle /\ \A d \in Clients \ {c} : call'[d] = call[d]
  BY GotoMoves
<1>2. Idle.phase = "idle" /\ Idle.todo = {}
  BY DEF Idle
<1> QED
  BY <1>1, <1>2 DEF ClientMoves, Touching

LEMMA ProposerMoves ==
  ASSUME TypeInv, NEW c \in Proposers, Bump(c) \/ Join(c) \/ Trim(c) \/ TrimMore(c)
  PROVE  ClientMoves(c)
<1>1. c \in Clients
  BY DEF Clients
<1>2. CASE Bump(c)
  <2>1. PICK s \in Rows :
          Enqueue(c, [Idle EXCEPT !.phase = "bump", !.id = s], "put", s, Bumped(queue[s]))
    BY <1>2 DEF Bump, Matched
  <2>2. UNCHANGED <<queue, minted, history>>
    BY <1>2 DEF Bump, Begins
  <2> QED
    BY <1>1, <2>1, <2>2, TakesUp
<1>3. CASE Join(c)
  <2> DEFINE frame(s) == [Idle EXCEPT !.phase = "join", !.id = s]
  <2>1. PICK p \in Proposal, s \in Ids \ minted :
          minted' = minted \cup {s} /\ Enqueue(c, frame(s), "put", s, FirstSeen(p))
    BY <1>3 DEF Join
  <2>2. frame(s).phase = "join" /\ frame(s).id = s /\ frame(s).todo = {}
    BY DEF Idle
  <2> HIDE DEF frame
  <2>3. call'[c] = frame(s) /\ \A d \in Clients \ {c} : call'[d] = call[d]
    BY <1>1, <2>1, EnqueueMoves
  <2>4. UNCHANGED <<queue, history>>
    BY <1>3 DEF Join, Begins
  <2> QED
    BY <2>1, <2>2, <2>3, <2>4 DEF ClientMoves
<1>4. CASE Trim(c)
  <2>1. \A V \in Victims : V \in SUBSET Ids /\ V \in SUBSET Rows
    BY DEF Victims, Rows
  <2>2. UNCHANGED <<queue, minted, history>>
    BY <1>4 DEF Trim
  <2>3. Goto(c, Idle) \/ \E V \in Victims : DropNext(c, V)
    BY <1>4 DEF Trim
  <2> QED
    BY <1>1, <2>1, <2>2, <2>3, DropMoves, RestMoves
<1>5. CASE TrimMore(c)
  <2>1. call[c].todo \in SUBSET Ids /\ \A s \in call[c].todo : Touching(c, s)
    BY <1>1 DEF TypeInv, CallInv, Frames, Touching
  <2>2. UNCHANGED <<queue, minted, history>>
    BY <1>5 DEF TrimMore
  <2>3. Goto(c, Idle) \/ DropNext(c, call[c].todo)
    BY <1>5 DEF TrimMore
  <2> QED
    BY <1>1, <2>1, <2>2, <2>3, DropMoves, RestMoves
<1> QED
  BY <1>2, <1>3, <1>4, <1>5

LEMMA ReviewerMoves ==
  ASSUME TypeInv, NEW c \in Reviewers,
         Adopt(c) \/ Adopted(c) \/ AdoptFails(c) \/ RejectSuggestion(c)
  PROVE  ClientMoves(c)
<1>1. c \in Clients /\ UNCHANGED <<queue, minted, history>>
  BY DEF Clients, Adopt, Adopted, AdoptFails, RejectSuggestion, Begins
<1>2. CASE Adopt(c)
  BY <1>1, <1>2, TakesUp DEF Adopt
<1>3. CASE RejectSuggestion(c)
  BY <1>1, <1>3, TakesUp DEF RejectSuggestion
<1>4. CASE Adopted(c)
  <2> DEFINE frame == [call[c] EXCEPT !.phase = "delete"]
  <2>1. call[c] \in Frames /\ call[c].phase = "rest"
    BY <1>1, <1>4 DEF Adopted, TypeInv, CallInv
  <2>2. frame.phase = "delete" /\ frame.id = call[c].id /\ frame.todo = call[c].todo
    BY <2>1 DEF Frames
  <2> HIDE DEF frame
  <2>3. call'[c] = frame /\ \A d \in Clients \ {c} : call'[d] = call[d]
    BY <1>1, <1>4, EnqueueMoves DEF Adopted, frame
  <2> QED
    BY <1>1, <2>1, <2>2, <2>3 DEF ClientMoves, Touching
<1>5. CASE AdoptFails(c)
  BY <1>1, <1>5, RestMoves DEF AdoptFails
<1> QED
  BY <1>2, <1>3, <1>4, <1>5

LEMMA ClientKeepsRows ==
  ASSUME RowInv, TypeInv', NEW c \in Clients, ClientMoves(c)
  PROVE  RowInv'
<1>1. /\ UNCHANGED <<queue, seen, revived, written>> /\ Rows' = Rows
      /\ \A d \in Clients \ {c} : call'[d] = call[d]
      /\ \A d \in Clients \ {c}, s \in Ids : Touching(d, s)' <=> Touching(d, s)
  BY DEF ClientMoves, history, Rows, Touching
<1>2. \A d \in Clients : call[d].phase = "join" => call[d].id \in Ids
  BY DEF RowInv, TypeInv, CallInv, HasRow
<1>3. CASE /\ minted' = minted /\ call'[c].phase # "join"
           /\ \A s \in Ids : Touching(c, s)' => Touching(c, s) \/ s \in Rows
  <2>1. Handed'
    BY <1>1, <1>3 DEF RowInv, Handed
  <2>2. JoinAlone'
    BY <1>1, <1>2, <1>3 DEF RowInv, JoinAlone
  <2> QED
    BY <2>1, <2>2 DEF RowInv
<1>4. ASSUME NEW s \in Ids \ minted, minted' = minted \cup {s},
             call'[c].phase = "join", call'[c].id = s, call'[c].todo = {}
      PROVE  RowInv'
  <2>1. \A t \in Ids : Touching(c, t)' => t = s
    BY <1>4 DEF Touching
  <2>2. IsFiniteSet(minted')
    BY <1>4, FS_AddElement DEF RowInv, Handed
  <2>3. Handed'
    BY <1>1, <1>4, <2>1, <2>2 DEF RowInv, Handed
  <2>4. s \notin Rows /\ seen[s] = 0 /\ written[s] = 0
    BY DEF RowInv, Handed, TypeInv, DataTyped
  <2>5. \A d \in Clients \ {c} : ~ Touching(d, s)
    BY DEF RowInv, Handed
  <2>6. \A d \in Clients \ {c} : call[d].phase = "join" => call[d].id # s
    BY <2>5 DEF Touching
  <2>7. JoinAlone'
    BY <1>1, <1>2, <1>4, <2>1, <2>4, <2>5, <2>6 DEF RowInv, JoinAlone
  <2> QED
    BY <2>3, <2>7 DEF RowInv
<1> QED
  BY <1>3, <1>4 DEF ClientMoves

\* A caller that is answered goes on with the rows it had.
LEMMA AnswerMoves ==
  ASSUME NEW frame \in Frames
  PROVE  /\ Answer(frame).phase \in {"idle", "joined", "trimmed", "rest"}
         /\ \/ Answer(frame) = Idle
            \/ /\ frame.phase \in {"join", "trim", "write"}
               /\ Answer(frame).id = frame.id /\ Answer(frame).todo = frame.todo
         /\ Answer(frame).phase = "joined" => frame.phase = "join"
         /\ Answer(frame).phase = "rest" => frame.phase = "write"
<1>1. \A p : /\ [frame EXCEPT !.phase = p].phase = p
             /\ [frame EXCEPT !.phase = p].id = frame.id
             /\ [frame EXCEPT !.phase = p].todo = frame.todo
  BY DEF Frames
<1> QED
  BY <1>1, IdleTyped DEF Answer

\* What the head of the chain does when it lands: to its own row, and to its
\* caller.
LEMMA LandMoves ==
  ASSUME TypeInv, Land
  PROVE  LET job == Head(chain)
         IN  /\ chain # <<>> /\ chain' = Tail(chain) /\ UNCHANGED <<minted, faults, crashes>>
             /\ job.by \in Clients /\ job.id \in Ids /\ job \in Jobs
             /\ call[job.by].id = job.id /\ call[job.by] \in Frames
             /\ call[job.by].phase \in AwaitedIn(job.kind) /\ call[job.by].phase # "idle"
             /\ call'[job.by] = Answer(call[job.by])
             /\ \A d \in Clients \ {job.by} : call'[d] = call[d]
             /\ \A s \in Ids \ {job.id} :
                  /\ queue'[s] = queue[s] /\ seen'[s] = seen[s] /\ written'[s] = written[s]
                  /\ s \in revived' => s \in revived
             /\ revived \subseteq revived'
<1> DEFINE job == Head(chain)
<1>1. /\ CallInv /\ DataTyped /\ chain # <<>> /\ chain' = Tail(chain)
  BY DEF TypeInv, Land
<1>2. /\ job.by \in Clients /\ job.id \in Ids /\ job \in Jobs
      /\ call[job.by].id = job.id /\ call[job.by] \in Frames
      /\ call[job.by].phase \in AwaitedIn(job.kind)
      /\ AwaitedIn(job.kind) \subseteq JobPhases
  BY <1>1, HeadTyped, JobTyped
<1>3. call[job.by].phase # "idle"
  BY <1>2 DEF JobPhases
<1>4. call' = [call EXCEPT ![job.by] = Answer(call[job.by])]
  BY DEF Land
<1>5. /\ call'[job.by] = Answer(call[job.by])
      /\ \A d \in Clients \ {job.by} : call'[d] = call[d]
  BY <1>1, <1>2, <1>4 DEF CallInv
<1>6. /\ \A s \in Ids \ {job.id} : queue'[s] = queue[s]
  BY <1>1, <1>2 DEF Land, DataTyped
<1>7. /\ \A s \in Ids \ {job.id} : seen'[s] = seen[s] /\ written'[s] = written[s]
  BY <1>1, <1>2 DEF Land, DataTyped
<1>8. /\ revived \subseteq revived' /\ revived' \subseteq revived \cup {job.id}
      /\ UNCHANGED <<minted, faults, crashes>>
  BY DEF Land, counters
<1> QED
  BY <1>1, <1>2, <1>3, <1>5, <1>6, <1>7, <1>8

LEMMA AnsweredTouching ==
  ASSUME NEW c \in Clients, call[c] \in Frames, call[c].phase # "idle",
         call'[c] = Answer(call[c]) \/ call'[c] = Idle, NEW s \in Ids, Touching(c, s)'
  PROVE  Touching(c, s)
  BY AnswerMoves, IdleTyped DEF Touching, Idle

LEMMA LandKeepsRows ==
  ASSUME RowInv, TypeInv', Land
  PROVE  RowInv'
<1>1. PICK c \in Clients, x \in Ids :
        /\ c = Head(chain).by /\ call[c].id = x /\ call[c] \in Frames
        /\ call[c].phase # "idle" /\ call'[c] = Answer(call[c]) /\ minted' = minted
        /\ \A d \in Clients \ {c} : call'[d] = call[d]
        /\ \A s \in Ids \ {x} :
             /\ queue'[s] = queue[s] /\ seen'[s] = seen[s] /\ written'[s] = written[s]
             /\ s \in revived' => s \in revived
  BY LandMoves DEF RowInv
<1>2. \A d \in Clients, s \in Ids : Touching(d, s)' => Touching(d, s)
  <2>1. \A s \in Ids : Touching(c, s)' => Touching(c, s)
    BY <1>1, AnsweredTouching
  <2> QED
    BY <1>1, <2>1 DEF Touching
<1>3. Touching(c, x) /\ x \in minted
  BY <1>1 DEF Touching, RowInv, Handed
<1>4. Handed'
  <2>1. Rows' \subseteq minted'
    BY <1>1, <1>3 DEF RowInv, Handed, Rows
  <2>2. revived' \subseteq minted'
    BY <1>1, <1>3 DEF RowInv, Handed, TypeInv, DataTyped
  <2>3. \A s \in Ids : written'[s] > 0 \/ seen'[s] > 0 => s \in minted'
    BY <1>1, <1>3 DEF RowInv, Handed
  <2>4. \A d \in Clients, s \in Ids : Touching(d, s)' => s \in minted'
    BY <1>1, <1>2 DEF RowInv, Handed
  <2> QED
    BY <1>1, <2>1, <2>2, <2>3, <2>4 DEF RowInv, Handed
<1>5. JoinAlone'
  <2> SUFFICES ASSUME NEW d \in Clients, NEW s \in Ids,
                      call'[d].phase = "join", call'[d].id = s
               PROVE  /\ s \notin Rows' /\ seen'[s] = 0 /\ written'[s] = 0
                      /\ \A e \in Clients \ {d} : ~ Touching(e, s)'
    BY DEF JoinAlone
  <2>1. d # c
    BY <1>1, AnswerMoves
  <2>2. call'[d] = call[d] /\ call[d].phase = "join" /\ call[d].id = s
    BY <1>1, <2>1
  <2>3. s # x
    BY <1>1, <1>3, <2>1, <2>2 DEF RowInv, JoinAlone
  <2> QED
    BY <1>1, <1>2, <2>2, <2>3 DEF RowInv, JoinAlone, Rows
<1> QED
  BY <1>4, <1>5 DEF RowInv

\* Callers that are thrown out have no row left.
LEMMA ThrownKeepsRows ==
  ASSUME RowInv, TypeInv', UNCHANGED <<queue, minted, history>>,
         \A d \in Clients : call'[d] = call[d] \/ call'[d] = Idle
  PROVE  RowInv'
<1>1. \A d \in Clients, s \in Ids : Touching(d, s)' => Touching(d, s)
  BY DEF Touching, Idle
<1>2. Rows' = Rows /\ UNCHANGED <<minted, seen, revived, written>>
  BY DEF Rows, history
<1>3. Handed'
  BY <1>1, <1>2 DEF RowInv, Handed
<1>4. \A d \in Clients : call'[d].phase = "join" =>
                           call'[d] = call[d] /\ call[d].id \in Ids
  BY IdleTyped DEF RowInv, TypeInv, CallInv, HasRow
<1>5. JoinAlone'
  BY <1>1, <1>2, <1>4 DEF RowInv, JoinAlone
<1> QED
  BY <1>3, <1>5 DEF RowInv

LEMMA RejectMoves ==
  ASSUME TypeInv, Reject
  PROVE  /\ UNCHANGED <<queue, minted, history, crashes>> /\ faults' = faults + 1
         /\ chain # <<>> /\ chain' = Tail(chain) /\ Head(chain).by \in Clients
         /\ call'[Head(chain).by] = Idle
         /\ \A d \in Clients \ {Head(chain).by} : call'[d] = call[d]
<1>1. CallInv /\ chain # <<>> /\ call' = [call EXCEPT ![Head(chain).by] = Idle]
  BY DEF TypeInv, Reject, Thrown
<1>2. Head(chain).by \in Clients
  BY <1>1, HeadTyped
<1> QED
  BY <1>1, <1>2 DEF Reject, CallInv

LEMMA StepRows ==
  ASSUME RowInv, [Next]_vars PROVE RowInv'
<1>0. TypeInv /\ TypeInv'
  BY StepTyped DEF RowInv
<1>1. ASSUME NEW c \in Proposers, Bump(c) \/ Join(c) \/ Trim(c) \/ TrimMore(c)
      PROVE  RowInv'
  BY <1>0, <1>1, ProposerMoves, ClientKeepsRows DEF Clients
<1>2. ASSUME NEW c \in Reviewers,
             Adopt(c) \/ Adopted(c) \/ AdoptFails(c) \/ RejectSuggestion(c)
      PROVE  RowInv'
  BY <1>0, <1>2, ReviewerMoves, ClientKeepsRows DEF Clients
<1>3. CASE Reject
  BY <1>0, <1>3, RejectMoves, ThrownKeepsRows DEF Reject
<1>4. CASE Crash
  BY <1>0, <1>4, ThrownKeepsRows DEF Crash
<1>5. CASE UNCHANGED vars
  BY <1>0, <1>5, ThrownKeepsRows DEF vars, history
<1> QED
  BY <1>0, <1>1, <1>2, <1>3, <1>4, <1>5, LandKeepsRows DEF Next

LEMMA InitRows ==
  ASSUME Init PROVE RowInv
<1>1. Rows = {} /\ revived = {} /\ minted = {}
  BY DEF Init, Rows
<1>2. IsFiniteSet(minted)
  BY <1>1, FS_EmptySet
<1>3. \A c \in Clients : call[c].phase = "idle" /\ call[c].todo = {}
  BY DEF Init, Idle
<1>4. Handed
  BY <1>1, <1>2, <1>3 DEF Handed, Touching, Init
<1> QED
  BY <1>3, <1>4, InitTyped DEF RowInv, JoinAlone

LEMMA RowInvariant == Spec => []RowInv
<1>1. Init => RowInv
  BY InitRows
<1>2. RowInv /\ [Next]_vars => RowInv'
  BY StepRows
<1> QED
  BY <1>1, <1>2, PTL DEF Spec

-----------------------------------------------------------------------------
(* One reviewer's yes is written once.                                     *)

Calm == faults = 0 /\ crashes = 0

\* A row whose content has reached memory is out of the queue, or its reviewer
\* is on the way to take it out; one whose content is on the way has not been
\* there before.
OnceInv ==
  Calm => \A s \in Ids \ revived, r \in Reviewers :
    /\ written[s] <= 1
    /\ written[s] = 1 /\ s \in Rows =>
         call[r].phase \in {"rest", "delete"} /\ call[r].id = s
    /\ call[r].phase = "write" /\ call[r].id = s => written[s] = 0

LEMMA ProposerOnce ==
  ASSUME RowInv, OnceInv, NEW c \in Proposers,
         Bump(c) \/ Join(c) \/ Trim(c) \/ TrimMore(c)
  PROVE  OnceInv'
<1>1. c \in Clients /\ TypeInv
  BY DEF Clients, RowInv
<1>2. /\ UNCHANGED <<queue, history, faults, crashes>>
      /\ \A d \in Clients \ {c} : call'[d] = call[d]
  BY <1>1, ProposerMoves DEF ClientMoves, Bump, Join, Trim, TrimMore, Begins, counters
<1>3. \A r \in Reviewers : call'[r] = call[r]
  BY <1>2, SuggestionsAssumption DEF Clients
<1> QED
  BY <1>2, <1>3 DEF OnceInv, Calm, Rows, history

LEMMA ReviewerOnce ==
  ASSUME RowInv, OnceInv, NEW c \in Reviewers, \A r \in Reviewers : r = c,
         Adopt(c) \/ Adopted(c) \/ AdoptFails(c) \/ RejectSuggestion(c)
  PROVE  OnceInv'
<1>1. /\ c \in Clients /\ TypeInv /\ call[c] \in Frames
      /\ \A s \in Ids : written[s] \in Nat
  BY DEF Clients, RowInv, TypeInv, CallInv, DataTyped
<1>2. /\ UNCHANGED <<queue, written, revived>> /\ Rows' = Rows
  BY DEF Adopt, Adopted, AdoptFails, RejectSuggestion, Begins, history, Rows
<1>3. CASE Adopt(c) \/ RejectSuggestion(c)
  <2>1. call[c].phase = "idle" /\ UNCHANGED <<faults, crashes>>
    BY <1>3 DEF Adopt, RejectSuggestion, Begins
  <2>2. PICK t \in Rows, p \in {"write", "delete"} : \E kind, row :
          Enqueue(c, [Idle EXCEPT !.phase = p, !.id = t], kind, t, row)
    BY <1>3 DEF Adopt, RejectSuggestion
  <2>3. [Idle EXCEPT !.phase = p, !.id = t].id = t
    BY DEF Idle
  <2>4. call'[c].id = t
    BY <1>1, <2>2, <2>3, EnqueueMoves
  <2>5. Calm => \A s \in Rows \ revived : written[s] = 0
    BY <1>1, <2>1 DEF OnceInv, Rows
  <2> QED
    BY <1>1, <1>2, <2>1, <2>2, <2>4, <2>5 DEF OnceInv, Calm, Rows
<1>4. CASE Adopted(c)
  <2> DEFINE frame == [call[c] EXCEPT !.phase = "delete"]
  <2>1. call[c].phase = "rest" /\ UNCHANGED <<faults, crashes>>
    BY <1>4 DEF Adopted, counters
  <2>2. frame.phase = "delete" /\ frame.id = call[c].id
    BY <1>1 DEF Frames
  <2> HIDE DEF frame
  <2>3. call'[c] = frame
    BY <1>1, <1>4, EnqueueMoves DEF Adopted, frame
  <2> QED
    BY <1>2, <2>1, <2>2, <2>3 DEF OnceInv, Calm
<1>5. CASE AdoptFails(c)
  <2>1. faults' # 0
    BY <1>1, <1>5 DEF AdoptFails, TypeInv, DataTyped
  <2> QED
    BY <2>1 DEF OnceInv, Calm
<1> QED
  BY <1>3, <1>4, <1>5

LEMMA LandOnce ==
  ASSUME RowInv, OnceInv, Land, \A q, r \in Reviewers : q = r
  PROVE  OnceInv'
<1> DEFINE job == Head(chain)
<1>1. /\ job \in Jobs /\ job.by \in Clients /\ job.id \in Ids /\ call[job.by].id = job.id
      /\ call[job.by] \in Frames /\ call[job.by].phase \in AwaitedIn(job.kind)
      /\ call'[job.by] = Answer(call[job.by])
      /\ \A d \in Clients \ {job.by} : call'[d] = call[d]
      /\ \A s \in Ids \ {job.id} :
           /\ queue'[s] = queue[s] /\ written'[s] = written[s]
           /\ s \in revived' => s \in revived
      /\ revived \subseteq revived' /\ UNCHANGED <<faults, crashes>>
  BY LandMoves DEF RowInv
<1>2. /\ queue \in [Ids -> Row \cup {None}] /\ written \in [Ids -> Nat]
  BY DEF RowInv, TypeInv, DataTyped
<1> SUFFICES ASSUME Calm', NEW s \in Ids \ revived', NEW r \in Reviewers
             PROVE  /\ written'[s] <= 1
                    /\ written'[s] = 1 /\ s \in Rows' =>
                         call'[r].phase \in {"rest", "delete"} /\ call'[r].id = s
                    /\ call'[r].phase = "write" /\ call'[r].id = s => written'[s] = 0
  BY DEF OnceInv
<1>3. Calm /\ s \in Ids \ revived /\ r \in Clients
  BY <1>1 DEF Calm, Clients
<1>4. /\ written[s] <= 1
      /\ written[s] = 1 /\ s \in Rows =>
           call[r].phase \in {"rest", "delete"} /\ call[r].id = s
      /\ call[r].phase = "write" /\ call[r].id = s => written[s] = 0
  BY <1>3 DEF OnceInv
<1>5. CASE job.by = r
  <2>1. /\ job.kind \in {"delete", "adopted", "write"}
        /\ job.kind = "write" <=> call[r].phase = "write"
    BY <1>1, <1>5, SuggestionsAssumption DEF Jobs, AwaitedIn
  <2>2. CASE job.kind = "write"
    <3>1. call[r].phase = "write" /\ UNCHANGED queue
          /\ written' = [written EXCEPT ![job.id] = written[job.id] + 1]
      BY <2>1, <2>2, <1>2 DEF Land
    <3>2. call'[r].phase = "rest" /\ call'[r].id = job.id
      BY <1>1, <1>5, <3>1 DEF Answer, Frames
    <3>3. CASE s = job.id
      <4>1. written[s] = 0 /\ written'[s] = 1
        BY <1>1, <1>2, <1>4, <1>5, <3>1, <3>3
      <4> QED
        BY <3>2, <3>3, <4>1
    <3>4. CASE s # job.id
      BY <1>1, <1>4, <1>5, <3>1, <3>2, <3>4 DEF Rows
    <3> QED
      BY <3>3, <3>4
  <2>3. CASE job.kind # "write"
    <3>1. /\ UNCHANGED written /\ queue'[job.id] = None
      BY <1>1, <1>2, <2>1, <2>3 DEF Land
    <3>2. call'[r].phase \in {"idle", "joined", "trimmed"}
      BY <1>1, <1>5, <2>1, <2>3, AnswerMoves
    <3>3. s \in Rows' => s # job.id /\ s \in Rows
      BY <1>1, <3>1 DEF Rows
    <3> QED
      BY <1>1, <1>4, <1>5, <3>1, <3>2, <3>3
  <2> QED
    BY <2>2, <2>3
<1>6. CASE job.by # r
  <2>1. job.by \in Proposers /\ call'[r] = call[r]
    BY <1>1, <1>3, <1>6 DEF Clients
  <2>2. job.kind \in {"put", "delete"} /\ UNCHANGED written
    BY <1>1, <2>1, SuggestionsAssumption DEF Jobs, Land
  <2>3. s \in Rows' => s \in Rows \/ written[s] = 0
    <3>1. CASE s # job.id
      BY <1>1, <3>1 DEF Rows
    <3>2. CASE s = job.id /\ job.kind = "delete"
      BY <1>1, <1>2, <3>2 DEF Land, Rows
    <3>3. CASE s = job.id /\ job.kind = "put" /\ call[job.by].phase = "bump"
      BY <1>1, <3>3 DEF Land, Rows
    <3>4. CASE s = job.id /\ job.kind = "put" /\ call[job.by].phase = "join"
      BY <1>1, <3>4 DEF RowInv, JoinAlone
    <3> QED
      BY <1>1, <2>2, <3>1, <3>2, <3>3, <3>4 DEF AwaitedIn
  <2> QED
    BY <1>4, <2>1, <2>2, <2>3
<1> QED
  BY <1>5, <1>6

\* A row is written to memory a second time only if a proposal put it back in
\* the queue behind its own removal, as long as one reviewer decides and no
\* write fails: adoptSuggestion reads the row, writes, and only then deletes.
THEOREM YesIsWrittenOnce == Spec => []YesWrittenOnce
<1> DEFINE Alone == Cardinality(Reviewers) = 1
           Inv == RowInv /\ (Alone => OnceInv)
<1>1. Alone => \A q, r \in Reviewers : q = r
  BY FS_Singleton, SuggestionsAssumption
<1>2. Init => Inv
  <2>1. Init => RowInv
    BY InitRows
  <2>2. Init => OnceInv
    BY DEF Init, OnceInv, Rows
  <2> QED
    BY <2>1, <2>2
<1>3. Inv /\ [Next]_vars => Inv'
  <2> SUFFICES ASSUME RowInv, OnceInv, \A q, r \in Reviewers : q = r, [Next]_vars
               PROVE  OnceInv'
    BY <1>1, StepRows
  <2>1. ASSUME NEW c \in Proposers, Bump(c) \/ Join(c) \/ Trim(c) \/ TrimMore(c)
        PROVE  OnceInv'
    BY <2>1, ProposerOnce
  <2>2. ASSUME NEW c \in Reviewers,
               Adopt(c) \/ Adopted(c) \/ AdoptFails(c) \/ RejectSuggestion(c)
        PROVE  OnceInv'
    BY <2>2, ReviewerOnce
  <2>3. CASE Reject \/ Crash
    <3>1. ~ Calm'
      BY <2>3 DEF Reject, Crash, Calm, RowInv, TypeInv, DataTyped
    <3> QED
      BY <3>1 DEF OnceInv
  <2>4. CASE UNCHANGED vars
    BY <2>4 DEF vars, OnceInv, Calm, Rows
  <2> QED
    BY <2>1, <2>2, <2>3, <2>4, LandOnce DEF Next
<1>4. Inv => YesWrittenOnce
  <2> SUFFICES ASSUME Inv, Calm, Alone, NEW s \in Ids, written[s] > 1
               PROVE  s \in revived
    BY DEF YesWrittenOnce, Calm
  <2>1. PICK r : r \in Reviewers
    BY FS_Singleton, SuggestionsAssumption
  <2> QED
    BY <2>1 DEF OnceInv, RowInv, TypeInv, DataTyped
<1> QED
  BY <1>2, <1>3, <1>4, PTL DEF Spec

-----------------------------------------------------------------------------
(* Frequency is signal.                                                    *)

Bumps(n, s) ==
  chain[n].kind = "put" /\ chain[n].id = s /\ call[chain[n].by].phase = "bump"

\* This client's bump of the row, to this count, is queued.
Pending(s, p, v) ==
  \E n \in 1..Len(chain) : Bumps(n, s) /\ chain[n].by = p /\ chain[n].row.hits = v

Behind(s, g) == {p \in Proposers : Pending(s, p, g)}

\* At its present count a row has left out no more observations than there are
\* clients whose bump to that count has landed: a client that bumps it again
\* reads the count first.
Level(s, g) ==
  /\ s \in Rows => queue[s].hits = g
  /\ \A p, v : Pending(s, p, v) => v \in {g, g + 1}
  /\ seen[s] - 1 + Cardinality(Behind(s, g)) <= Cardinality(Proposers) * (g - 1)

\* Counts land in the order they were read, and a count never falls.
Ordered ==
  \A m, n \in 1..Len(chain), s \in Ids :
    m < n /\ Bumps(m, s) /\ Bumps(n, s) => chain[m].row.hits <= chain[n].row.hits

JoinsFirst ==
  \A n \in 1..Len(chain) : call[chain[n].by].phase = "join" => chain[n].row.hits = 1

SignalInv ==
  RowInv /\ Ordered /\ JoinsFirst /\ \A s \in Ids : \E g \in Nat \ {0} : Level(s, g)

LEMMA BehindFinite ==
  ASSUME NEW s, NEW g
  PROVE  /\ IsFiniteSet(Behind(s, g)) /\ Cardinality(Behind(s, g)) \in Nat
         /\ Cardinality(Proposers) \in Nat
<1>1. Behind(s, g) \in SUBSET Proposers
  BY DEF Behind
<1> QED
  BY <1>1, FS_Subset, FS_CardinalityType, SuggestionsAssumption

\* A level stays while the row keeps its count or leaves, and no bump of it is
\* queued.
LEMMA LevelStays ==
  ASSUME NEW s \in Ids, NEW g \in Nat \ {0}, Level(s, g), seen'[s] = seen[s],
         s \in Rows' => s \in Rows /\ queue'[s].hits = queue[s].hits,
         \A p, v : Pending(s, p, v)' => Pending(s, p, v),
         seen[s] \in Nat
  PROVE  Level(s, g)'
<1>1. Behind(s, g)' \in SUBSET Behind(s, g)
  BY DEF Behind
<1>2. /\ Cardinality(Behind(s, g)') <= Cardinality(Behind(s, g))
      /\ Cardinality(Behind(s, g)') \in Nat /\ Cardinality(Behind(s, g)) \in Nat
      /\ Cardinality(Proposers) * (g - 1) \in Int
  BY <1>1, BehindFinite, FS_Subset, FS_CardinalityType
<1>3. seen'[s] - 1 + Cardinality(Behind(s, g)') <= Cardinality(Proposers) * (g - 1)
  BY <1>2 DEF Level
<1> QED
  BY <1>3 DEF Level

\* What is queued before a client goes on is queued after it.
LEMMA ChainTyped ==
  ASSUME RowInv, NEW n \in 1..Len(chain)
  PROVE  /\ chain[n] \in Jobs /\ chain[n].by \in Clients /\ chain[n].id \in Ids
         /\ chain[n].kind = "put" => chain[n].row.hits \in Nat /\ chain[n].by \in Proposers
         /\ call[chain[n].by].phase \in JobPhases
<1>1. chain \in Seq(Jobs) /\ chain[n] \in Jobs
  BY DEF RowInv, TypeInv, CallInv
<1>2. chain[n].kind = "put" => chain[n].row \in Row /\ chain[n].by \in Proposers
  BY <1>1 DEF Jobs
<1>3. call[chain[n].by].phase \in AwaitedIn(chain[n].kind)
  BY DEF RowInv, TypeInv, CallInv, Waiting
<1> QED
  BY <1>1, <1>2, <1>3, JobTyped, RowTyped

\* A client that queues no bump.
LEMMA EnqueueSignal ==
  ASSUME SignalInv, RowInv', NEW c \in Clients, call[c].phase \notin JobPhases,
         NEW frame, NEW kind, NEW s \in Ids, NEW row,
         [by |-> c, kind |-> kind, id |-> s, row |-> row] \in Jobs,
         Enqueue(c, frame, kind, s, row),
         frame.phase # "bump", frame.phase = "join" => row.hits = 1,
         UNCHANGED <<queue, seen>>
  PROVE  SignalInv'
<1> DEFINE job == [by |-> c, kind |-> kind, id |-> s, row |-> row]
<1>1. chain' = Append(chain, job) /\ call'[c] = frame
      /\ \A d \in Clients \ {c} : call'[d] = call[d]
  BY EnqueueMoves DEF Enqueue, SignalInv, RowInv
<1>2. /\ 1..Len(chain') = 1..Len(chain) \cup {Len(chain) + 1}
      /\ \A n \in 1..Len(chain) : chain'[n] = chain[n]
      /\ chain'[Len(chain) + 1] = job
  BY <1>1, AppendPositions DEF SignalInv, RowInv, TypeInv, CallInv
<1>3. \A n \in 1..Len(chain) : chain[n].by \in Clients \ {c}
  BY ChainTyped DEF SignalInv
<1>4. \A n \in 1..Len(chain'), t \in Ids :
        Bumps(n, t)' => n \in 1..Len(chain) /\ Bumps(n, t)
  BY <1>1, <1>2, <1>3 DEF Bumps
<1>5. \A t, p, v : t \in Ids /\ Pending(t, p, v)' => Pending(t, p, v)
  BY <1>2, <1>4 DEF Pending
<1>6. Ordered'
  BY <1>2, <1>4 DEF Ordered, SignalInv
<1>7. JoinsFirst'
  BY <1>1, <1>2, <1>3 DEF JoinsFirst, SignalInv
<1>8. \A t \in Ids, g \in Nat \ {0} : Level(t, g) => Level(t, g)'
  BY <1>5, LevelStays DEF SignalInv, RowInv, TypeInv, DataTyped, Rows
<1> QED
  BY <1>6, <1>7, <1>8 DEF SignalInv

\* A bump is queued to one more than the count it has read.
LEMMA BumpSignal ==
  ASSUME SignalInv, RowInv', NEW c \in Proposers, Bump(c)
  PROVE  SignalInv'
<1>1. PICK s \in Rows :
        Enqueue(c, [Idle EXCEPT !.phase = "bump", !.id = s], "put", s, Bumped(queue[s]))
  BY DEF Bump, Matched
<1> DEFINE frame == [Idle EXCEPT !.phase = "bump", !.id = s]
           job == [by |-> c, kind |-> "put", id |-> s, row |-> Bumped(queue[s])]
<1>2. /\ c \in Clients /\ TypeInv /\ s \in Ids /\ queue[s] \in Row
      /\ call[c].phase \notin JobPhases /\ UNCHANGED <<queue, seen>>
  BY QueuedTyped DEF Clients, SignalInv, RowInv, TypeInv, Bump, Begins, JobPhases, history
<1>3. Bumped(queue[s]).hits = queue[s].hits + 1 /\ queue[s].hits \in Nat
  BY <1>2, RowTyped DEF Bumped, Row
<1>4. frame.phase = "bump"
  BY DEF Idle
<1>5. /\ chain' = Append(chain, job) /\ call'[c] = frame
      /\ \A d \in Clients \ {c} : call'[d] = call[d]
  BY <1>1, <1>2, EnqueueMoves DEF Enqueue
<1>6. job \in Jobs
  BY <1>2, RowTyped DEF Jobs
<1>7. job.by = c /\ job.id = s /\ job.row.hits = queue[s].hits + 1 /\ job.kind = "put"
  BY <1>3
<1> HIDE DEF frame, job
<1>8. PICK last \in Nat :
        /\ 1..Len(chain') = 1..Len(chain) \cup {last} /\ last \notin 1..Len(chain)
        /\ \A n \in 1..Len(chain) : chain'[n] = chain[n] /\ n < last
        /\ chain'[last] = job
  BY <1>2, <1>5, <1>6, AppendPositions DEF TypeInv, CallInv
<1>9. \A n \in 1..Len(chain) : chain[n].by \in Clients \ {c}
  BY <1>2, ChainTyped DEF SignalInv
<1>10. /\ \A n \in 1..Len(chain), t \in Ids : Bumps(n, t)' <=> Bumps(n, t)
       /\ \A t \in Ids : Bumps(last, t)' <=> t = s
  BY <1>4, <1>5, <1>7, <1>8, <1>9 DEF Bumps
<1>11. \A t \in Ids : \A p, v :
         Pending(t, p, v)' => \/ Pending(t, p, v)
                              \/ t = s /\ p = c /\ v = queue[s].hits + 1
  BY <1>7, <1>8, <1>10 DEF Pending
<1>12. PICK g \in Nat \ {0} : Level(s, g)
  BY <1>2 DEF SignalInv
<1>13. queue[s].hits = g
  BY <1>12 DEF Level
<1>14. Ordered'
  <2>1. \A n \in 1..Len(chain) : Bumps(n, s) => chain[n].row.hits \in {g, g + 1}
    BY <1>12 DEF Level, Pending
  <2> SUFFICES ASSUME NEW m \in 1..Len(chain'), NEW n \in 1..Len(chain'), NEW t \in Ids,
                      m < n, Bumps(m, t)', Bumps(n, t)'
               PROVE  chain'[m].row.hits <= chain'[n].row.hits
    BY DEF Ordered
  <2>2. m \in 1..Len(chain)
    <3>1. Len(chain) \in Nat /\ \A k \in 1..Len(chain) : k \in Nat
      BY <1>2 DEF TypeInv, CallInv
    <3>2. m = last => n = last \/ n < last
      BY <1>8
    <3> QED
      BY <1>8, <3>1, <3>2
  <2>3. CASE n \in 1..Len(chain)
    BY <1>8, <1>10, <2>2, <2>3 DEF SignalInv, Ordered
  <2>4. CASE n = last
    BY <1>7, <1>8, <1>10, <1>13, <2>1, <2>2, <2>4
  <2> QED
    BY <1>8, <2>3, <2>4
<1>15. JoinsFirst'
  BY <1>4, <1>5, <1>7, <1>8, <1>9 DEF JoinsFirst, SignalInv
<1>16. Level(s, g)'
  <2>1. \A p : Pending(s, p, g)' => Pending(s, p, g)
    BY <1>2, <1>11, <1>13
  <2>2. Behind(s, g)' \in SUBSET Behind(s, g)
    BY <2>1 DEF Behind
  <2>3. /\ Cardinality(Behind(s, g)') <= Cardinality(Behind(s, g))
        /\ Cardinality(Behind(s, g)') \in Nat /\ Cardinality(Behind(s, g)) \in Nat
        /\ Cardinality(Proposers) * (g - 1) \in Int
    BY <2>2, BehindFinite, FS_Subset, FS_CardinalityType
  <2>4. seen[s] \in Nat
    BY <1>2 DEF TypeInv, DataTyped
  <2>5. seen'[s] - 1 + Cardinality(Behind(s, g)') <= Cardinality(Proposers) * (g - 1)
    BY <1>2, <1>12, <2>3, <2>4 DEF Level
  <2> QED
    BY <1>2, <1>11, <1>12, <1>13, <2>5 DEF Level, Rows
<1>17. \A t \in Ids \ {s}, h \in Nat \ {0} : Level(t, h) => Level(t, h)'
  <2>1. \A t \in Ids : seen[t] \in Nat
    BY <1>2 DEF TypeInv, DataTyped
  <2> QED
    BY <1>2, <1>11, <2>1, LevelStays DEF Rows
<1> QED
  BY <1>14, <1>15, <1>16, <1>17 DEF SignalInv

\* When the head of the chain is taken, what is left keeps its callers.
LEMMA TailBumps ==
  ASSUME RowInv, chain # <<>>, chain' = Tail(chain), NEW c \in Clients,
         c = Head(chain).by, \A d \in Clients \ {c} : call'[d] = call[d]
  PROVE  \A n \in 1..Len(chain') :
           /\ n + 1 \in 1..Len(chain) /\ n + 1 # 1 /\ chain'[n] = chain[n + 1]
           /\ chain[n + 1].by \in Clients \ {c}
           /\ \A t \in Ids : Bumps(n, t)' => Bumps(n + 1, t)
<1>1. /\ c = chain[1].by /\ 1 \in 1..Len(chain)
      /\ \A n \in 1..Len(chain') :
           n + 1 \in 1..Len(chain) /\ n + 1 # 1 /\ chain'[n] = chain[n + 1]
  BY TailPositions DEF RowInv, TypeInv, CallInv
<1>2. \A n \in 1..Len(chain) : chain[n].by \in Clients /\ (n # 1 => chain[n].by # c)
  BY <1>1, ChainTyped DEF RowInv, TypeInv, CallInv, Waiting
<1>3. \A n \in 1..Len(chain') : chain[n + 1].by \in Clients \ {c}
  BY <1>1, <1>2
<1>4. \A n \in 1..Len(chain'), t \in Ids : Bumps(n, t)' => Bumps(n + 1, t)
  BY <1>1, <1>3 DEF Bumps
<1> QED
  BY <1>1, <1>3, <1>4

LEMMA TailSignal ==
  ASSUME SignalInv, chain # <<>>, chain' = Tail(chain), NEW c \in Clients,
         c = Head(chain).by, \A d \in Clients \ {c} : call'[d] = call[d]
  PROVE  /\ Ordered' /\ JoinsFirst'
         /\ \A t \in Ids : \A p, v : Pending(t, p, v)' => Pending(t, p, v) /\ p # c
<1>1. \A n \in 1..Len(chain') :
        /\ n + 1 \in 1..Len(chain) /\ chain'[n] = chain[n + 1]
        /\ chain[n + 1].by \in Clients \ {c}
        /\ \A t \in Ids : Bumps(n, t)' => Bumps(n + 1, t)
  BY TailBumps DEF SignalInv
<1>2. Ordered'
  <2> SUFFICES ASSUME NEW m \in 1..Len(chain'), NEW n \in 1..Len(chain'), NEW t \in Ids,
                      m < n, Bumps(m, t)', Bumps(n, t)'
               PROVE  chain'[m].row.hits <= chain'[n].row.hits
    BY DEF Ordered
  <2>1. m \in Int /\ n \in Int /\ m + 1 < n + 1
    BY <1>1
  <2> QED
    BY <1>1, <2>1 DEF Ordered, SignalInv
<1>3. JoinsFirst'
  BY <1>1 DEF JoinsFirst, SignalInv
<1>4. \A t \in Ids : \A p, v : Pending(t, p, v)' => Pending(t, p, v) /\ p # c
  <2> SUFFICES ASSUME NEW t \in Ids, NEW p, NEW v, Pending(t, p, v)'
               PROVE  Pending(t, p, v) /\ p # c
    OBVIOUS
  <2>1. PICK n \in 1..Len(chain') :
          Bumps(n, t)' /\ chain'[n].by = p /\ chain'[n].row.hits = v
    BY DEF Pending
  <2> QED
    BY <1>1, <2>1 DEF Pending
<1> QED
  BY <1>2, <1>3, <1>4

\* Steps that leave the queue alone and queue no bump.
LEMMA LessSignal ==
  ASSUME SignalInv, RowInv', UNCHANGED <<queue, seen>>, Ordered', JoinsFirst',
         \A t \in Ids : \A p, v : Pending(t, p, v)' => Pending(t, p, v)
  PROVE  SignalInv'
<1>1. \A t \in Ids, g \in Nat \ {0} : Level(t, g) => Level(t, g)'
  BY LevelStays DEF SignalInv, RowInv, TypeInv, DataTyped, Rows
<1> QED
  BY <1>1 DEF SignalInv

LEMMA GotoSignal ==
  ASSUME SignalInv, RowInv', NEW c \in Clients, call[c].phase \notin JobPhases,
         Goto(c, Idle), UNCHANGED <<queue, seen>>
  PROVE  SignalInv'
<1>1. chain' = chain /\ call'[c] = Idle /\ \A d \in Clients \ {c} : call'[d] = call[d]
  BY GotoMoves DEF Goto, SignalInv, RowInv
<1>2. \A n \in 1..Len(chain) : chain[n].by \in Clients \ {c}
  BY ChainTyped DEF SignalInv
<1>3. \A n \in 1..Len(chain), t \in Ids : Bumps(n, t)' => Bumps(n, t)
  BY <1>1, <1>2 DEF Bumps
<1>4. Ordered' /\ JoinsFirst'
  BY <1>1, <1>2, <1>3 DEF SignalInv, Ordered, JoinsFirst
<1>5. \A t \in Ids : \A p, v : Pending(t, p, v)' => Pending(t, p, v)
  BY <1>1, <1>3 DEF Pending
<1> QED
  BY <1>4, <1>5, LessSignal

LEMMA ClientSignal ==
  ASSUME SignalInv, RowInv', NEW c \in Clients,
         \/ Join(c) /\ c \in Proposers
         \/ (Trim(c) \/ TrimMore(c)) /\ c \in Proposers
         \/ (Adopt(c) \/ Adopted(c) \/ AdoptFails(c) \/ RejectSuggestion(c)) /\ c \in Reviewers
  PROVE  SignalInv'
<1>1. /\ TypeInv /\ call[c].phase \notin JobPhases /\ UNCHANGED <<queue, seen>>
  BY DEF SignalInv, RowInv, Join, Trim, TrimMore, Adopt, Adopted, AdoptFails,
         RejectSuggestion, Begins, JobPhases, history
<1>2. ASSUME NEW frame, NEW kind \in {"delete", "write", "adopted"}, NEW s \in Ids, NEW row,
             frame.phase \notin {"bump", "join"}, Enqueue(c, frame, kind, s, row),
             [by |-> c, kind |-> kind, id |-> s, row |-> row] \in Jobs
      PROVE  SignalInv'
  BY <1>1, <1>2, EnqueueSignal
<1>3. ASSUME NEW V \in SUBSET Ids, DropNext(c, V)
      PROVE  SignalInv'
  <2> DEFINE frame(s) == [Idle EXCEPT !.phase = "trim", !.id = s, !.todo = V \ {s}]
  <2>1. PICK s \in V : Enqueue(c, frame(s), "delete", s, None)
    BY <1>3 DEF DropNext
  <2>2. frame(s).phase = "trim" /\ [by |-> c, kind |-> "delete", id |-> s, row |-> None] \in Jobs
    BY DEF Idle, Jobs
  <2> HIDE DEF frame
  <2> QED
    BY <1>2, <2>1, <2>2
<1>4. CASE Join(c) /\ c \in Proposers
  <2> DEFINE frame(s) == [Idle EXCEPT !.phase = "join", !.id = s]
  <2>1. PICK p \in Proposal, s \in Ids : Enqueue(c, frame(s), "put", s, FirstSeen(p))
    BY <1>4 DEF Join
  <2>2. frame(s).phase = "join" /\ FirstSeen(p).hits = 1 /\ FirstSeen(p) \in Row
    BY DEF Idle, FirstSeen, Proposal, Row
  <2>3. [by |-> c, kind |-> "put", id |-> s, row |-> FirstSeen(p)] \in Jobs
    BY <1>4, <2>2 DEF Jobs
  <2> HIDE DEF frame
  <2> QED
    BY <1>1, <2>1, <2>2, <2>3, EnqueueSignal
<1>5. CASE Trim(c)
  <2>1. \A V \in Victims : V \in SUBSET Ids
    BY DEF Victims, Rows
  <2>2. Goto(c, Idle) \/ \E V \in Victims : DropNext(c, V)
    BY <1>5 DEF Trim
  <2> QED
    BY <1>1, <1>3, <2>1, <2>2, GotoSignal
<1>6. CASE TrimMore(c)
  <2>1. call[c].todo \in SUBSET Ids
    BY <1>1 DEF TypeInv, CallInv, Frames
  <2>2. Goto(c, Idle) \/ DropNext(c, call[c].todo)
    BY <1>6 DEF TrimMore
  <2> QED
    BY <1>1, <1>3, <2>1, <2>2, GotoSignal
<1>7. CASE Adopt(c) /\ c \in Reviewers
  <2> DEFINE frame(s) == [Idle EXCEPT !.phase = "write", !.id = s]
  <2>1. PICK s \in Rows : Enqueue(c, frame(s), "write", s, queue[s])
    BY <1>7 DEF Adopt
  <2>2. frame(s).phase = "write"
    BY DEF Idle
  <2>3. s \in Ids /\ [by |-> c, kind |-> "write", id |-> s, row |-> queue[s]] \in Jobs
    BY <1>1, <1>7, QueuedTyped DEF TypeInv, Jobs
  <2> HIDE DEF frame
  <2> QED
    BY <1>2, <2>1, <2>2, <2>3
<1>8. CASE RejectSuggestion(c)
  <2> DEFINE frame(s) == [Idle EXCEPT !.phase = "delete", !.id = s]
  <2>1. PICK s \in Rows : Enqueue(c, frame(s), "delete", s, None)
    BY <1>8 DEF RejectSuggestion
  <2>2. frame(s).phase = "delete"
    BY DEF Idle
  <2>3. s \in Ids /\ [by |-> c, kind |-> "delete", id |-> s, row |-> None] \in Jobs
    BY <1>1, QueuedTyped DEF TypeInv, Jobs
  <2> HIDE DEF frame
  <2> QED
    BY <1>2, <2>1, <2>2, <2>3
<1>9. CASE Adopted(c) /\ c \in Reviewers
  <2> DEFINE frame == [call[c] EXCEPT !.phase = "delete"]
  <2>1. call[c] \in Frames /\ call[c].phase = "rest" /\ call[c].id \in Ids
    BY <1>1, <1>9 DEF Adopted, TypeInv, CallInv, HasRow
  <2>2. frame.phase = "delete"
    BY <2>1 DEF Frames
  <2>3. [by |-> c, kind |-> "adopted", id |-> call[c].id, row |-> None] \in Jobs
    BY <1>9, <2>1 DEF Jobs
  <2> HIDE DEF frame
  <2>4. Enqueue(c, frame, "adopted", call[c].id, None)
    BY <1>9 DEF Adopted, frame
  <2> QED
    BY <1>2, <2>1, <2>2, <2>3, <2>4
<1>10. CASE AdoptFails(c)
  BY <1>1, <1>10, GotoSignal DEF AdoptFails
<1> QED
  BY <1>4, <1>5, <1>6, <1>7, <1>8, <1>9, <1>10

\* The row of the job that lands, when it is an observation: a row that joins
\* starts at its first level, and a bump either leaves its level or opens the
\* next one.
LEMMA JoinLands ==
  ASSUME SignalInv, NEW c \in Clients, NEW x \in Ids,
         call[c].phase = "join", call[c].id = x,
         x \in Rows' => queue'[x].hits = 1, seen'[x] = seen[x] + 1,
         \A p, v : Pending(x, p, v)' => Pending(x, p, v) /\ p # c
  PROVE  Level(x, 1)'
<1>1. seen[x] = 0 /\ \A d \in Clients \ {c} : ~ Touching(d, x)
  BY DEF SignalInv, RowInv, JoinAlone
<1>2. \A n \in 1..Len(chain) : Bumps(n, x) => chain[n].by = c
  <2> SUFFICES ASSUME NEW n \in 1..Len(chain), Bumps(n, x)
               PROVE  chain[n].by = c
    OBVIOUS
  <2>1. chain[n].by \in Clients /\ call[chain[n].by].phase = "bump"
    BY ChainTyped DEF SignalInv, Bumps
  <2>2. call[chain[n].by].id = x
    BY DEF SignalInv, RowInv, TypeInv, CallInv, Waiting, Bumps
  <2> QED
    BY <1>1, <2>1, <2>2 DEF Touching
<1>3. \A p, v : ~ Pending(x, p, v)'
  BY <1>2 DEF Pending
<1>4. Behind(x, 1)' = {}
  BY <1>3 DEF Behind
<1>5. Cardinality(Behind(x, 1)') = 0 /\ Cardinality(Proposers) \in Nat
  BY <1>4, FS_EmptySet, FS_CardinalityType, SuggestionsAssumption
<1>6. seen'[x] - 1 + Cardinality(Behind(x, 1)') <= Cardinality(Proposers) * (1 - 1)
  BY <1>1, <1>5
<1> QED
  BY <1>3, <1>6 DEF Level

LEMMA SameLevel ==
  ASSUME SignalInv, NEW c \in Proposers, NEW x \in Ids, NEW g \in Nat \ {0},
         Level(x, g), Pending(x, c, g),
         x \in Rows' => queue'[x].hits = g, seen'[x] = seen[x] + 1,
         \A p, v : Pending(x, p, v)' => Pending(x, p, v) /\ p # c
  PROVE  Level(x, g)'
<1> DEFINE B == Behind(x, g)
<1>1. c \in B /\ IsFiniteSet(B) /\ Cardinality(B) \in Nat /\ Cardinality(Proposers) \in Nat
  BY BehindFinite DEF Behind
<1>2. B' \in SUBSET (B \ {c})
  BY DEF Behind
<1>3. IsFiniteSet(B \ {c}) /\ Cardinality(B \ {c}) = Cardinality(B) - 1
  BY <1>1, FS_RemoveElement
<1>4. Cardinality(B') <= Cardinality(B) - 1 /\ Cardinality(B') \in Nat
  BY <1>2, <1>3, FS_Subset, FS_CardinalityType
<1>5. seen[x] \in Nat /\ Cardinality(Proposers) * (g - 1) \in Int
  BY <1>1 DEF SignalInv, RowInv, TypeInv, DataTyped
<1>6. seen[x] - 1 + Cardinality(B) <= Cardinality(Proposers) * (g - 1)
  BY DEF Level
<1> HIDE DEF B
<1>7. seen'[x] - 1 + Cardinality(B') <= Cardinality(Proposers) * (g - 1)
  BY <1>1, <1>4, <1>5, <1>6
<1> QED
  BY <1>7 DEF Level, B

LEMMA NextLevel ==
  ASSUME SignalInv, NEW c \in Proposers, NEW x \in Ids, NEW g \in Nat \ {0},
         Level(x, g), x \in Rows' => queue'[x].hits = g + 1, seen'[x] = seen[x] + 1,
         \A p, v : Pending(x, p, v)' => v = g + 1 /\ p # c
  PROVE  Level(x, g + 1)'
<1> DEFINE N == Cardinality(Proposers)
           B == Behind(x, g + 1)
<1>1. N \in Nat /\ IsFiniteSet(Proposers)
  BY SuggestionsAssumption, FS_CardinalityType
<1>2. B' \in SUBSET (Proposers \ {c})
  BY DEF Behind
<1>3. IsFiniteSet(Proposers \ {c}) /\ Cardinality(Proposers \ {c}) = N - 1
  BY <1>1, FS_RemoveElement
<1>4. Cardinality(B') <= N - 1 /\ Cardinality(B') \in Nat
  BY <1>2, <1>3, FS_Subset, FS_CardinalityType
<1>5. seen[x] \in Nat /\ Cardinality(Behind(x, g)) \in Nat
  BY BehindFinite DEF SignalInv, RowInv, TypeInv, DataTyped
<1>6. seen[x] - 1 + Cardinality(Behind(x, g)) <= N * (g - 1)
  BY DEF Level
<1> HIDE DEF B, N
<1>7. N * (g - 1) \in Int /\ N * ((g + 1) - 1) = N * (g - 1) + N
  BY <1>1
<1>8. seen'[x] - 1 + Cardinality(B') <= N * ((g + 1) - 1)
  BY <1>1, <1>4, <1>5, <1>6, <1>7
<1> QED
  BY <1>8 DEF Level, B, N

LEMMA LandSignal ==
  ASSUME SignalInv, RowInv', Land
  PROVE  SignalInv'
<1>1. PICK c \in Clients, x \in Ids, job \in Jobs :
        /\ job = Head(chain) /\ c = job.by /\ x = job.id /\ call[c].id = x
        /\ chain # <<>> /\ chain' = Tail(chain)
        /\ call[c].phase \in AwaitedIn(job.kind)
        /\ \A d \in Clients \ {c} : call'[d] = call[d]
        /\ \A s \in Ids \ {x} : queue'[s] = queue[s] /\ seen'[s] = seen[s]
  BY LandMoves DEF SignalInv, RowInv
<1>2. /\ Ordered' /\ JoinsFirst'
      /\ \A t \in Ids : \A p, v : Pending(t, p, v)' => Pending(t, p, v) /\ p # c
  BY <1>1, TailSignal
<1>3. /\ queue \in [Ids -> Row \cup {None}] /\ seen \in [Ids -> Nat]
      /\ 1 \in 1..Len(chain) /\ chain[1] = job
  BY <1>1, HeadTyped DEF SignalInv, RowInv, TypeInv, CallInv, DataTyped
<1>4. \A s \in Ids \ {x}, g \in Nat \ {0} : Level(s, g) => Level(s, g)'
  BY <1>1, <1>2, <1>3, LevelStays DEF Rows
<1>5. \E g \in Nat \ {0} : Level(x, g)'
  <2>0. PICK g \in Nat \ {0} : Level(x, g)
    BY DEF SignalInv
  <2>1. CASE job.kind # "put"
    <3>1. seen' = seen /\ queue'[x] \in {queue[x], None}
      BY <1>1, <1>3, <2>1 DEF Land
    <3>2. Level(x, g)'
      BY <1>2, <1>3, <2>0, <3>1, LevelStays DEF Rows
    <3> QED
      BY <3>2
  <2>2. CASE job.kind = "put"
    <3>1. queue'[x] = job.row /\ seen'[x] = seen[x] + 1
      BY <1>1, <1>3, <2>2 DEF Land
    <3>2. c \in Proposers /\ call[c].phase \in {"bump", "join"}
      BY <1>1, <2>2 DEF Jobs, AwaitedIn
    <3>3. CASE call[c].phase = "join"
      <4>1. job.row.hits = 1
        BY <1>1, <1>3, <3>3 DEF SignalInv, JoinsFirst
      <4> QED
        BY <1>1, <1>2, <3>1, <3>3, <4>1, JoinLands
    <3>4. CASE call[c].phase = "bump"
      <4>1. Bumps(1, x) /\ Pending(x, c, job.row.hits)
        BY <1>1, <1>3, <2>2, <3>4 DEF Bumps, Pending
      <4>2. CASE job.row.hits = g
        <5>1. Level(x, g)'
          BY <1>2, <2>0, <3>1, <3>2, <4>1, <4>2, SameLevel
        <5> QED
          BY <5>1
      <4>3. CASE job.row.hits # g
        <5>1. job.row.hits = g + 1
          BY <2>0, <4>1, <4>3 DEF Level
        <5>2. \A p, v : Pending(x, p, v)' => v = g + 1 /\ p # c
          <6> SUFFICES ASSUME NEW p, NEW v, Pending(x, p, v)'
                       PROVE  v = g + 1
            BY <1>2
          <6>1. PICK n \in 1..Len(chain') : Bumps(n, x)' /\ chain'[n].row.hits = v
            BY DEF Pending
          <6>2. /\ n + 1 \in 1..Len(chain) /\ n + 1 # 1 /\ chain'[n] = chain[n + 1]
                /\ Bumps(n + 1, x)
            BY <1>1, <6>1, TailBumps DEF SignalInv
          <6>3. 1 < n + 1
            BY <6>2
          <6>4. g + 1 <= v
            BY <1>3, <4>1, <5>1, <6>1, <6>2, <6>3 DEF SignalInv, Ordered
          <6>5. v \in {g, g + 1}
            BY <1>2, <2>0 DEF Level
          <6> QED
            BY <6>4, <6>5
        <5>3. Level(x, g + 1)'
          BY <2>0, <3>1, <3>2, <5>1, <5>2, NextLevel
        <5>4. g + 1 \in Nat \ {0}
          OBVIOUS
        <5> QED
          BY <5>3, <5>4
      <4> QED
        BY <4>2, <4>3
    <3> QED
      BY <3>2, <3>3, <3>4
  <2> QED
    BY <2>1, <2>2
<1>6. \A s \in Ids : \E g \in Nat \ {0} : Level(s, g)'
  BY <1>4, <1>5 DEF SignalInv
<1> QED
  BY <1>2, <1>6 DEF SignalInv

LEMMA StepSignal ==
  ASSUME SignalInv, [Next]_vars PROVE SignalInv'
<1>0. RowInv /\ RowInv' /\ TypeInv
  BY StepRows DEF SignalInv, RowInv
<1>1. ASSUME NEW c \in Proposers, Bump(c) \/ Join(c) \/ Trim(c) \/ TrimMore(c)
      PROVE  SignalInv'
  BY <1>0, <1>1, BumpSignal, ClientSignal DEF Clients
<1>2. ASSUME NEW c \in Reviewers,
             Adopt(c) \/ Adopted(c) \/ AdoptFails(c) \/ RejectSuggestion(c)
      PROVE  SignalInv'
  BY <1>0, <1>2, ClientSignal DEF Clients
<1>3. CASE Reject
  <2>1. PICK c \in Clients :
          /\ UNCHANGED <<queue, history>> /\ chain # <<>> /\ chain' = Tail(chain)
          /\ c = Head(chain).by /\ \A d \in Clients \ {c} : call'[d] = call[d]
    BY <1>0, <1>3, RejectMoves
  <2> QED
    BY <1>0, <2>1, TailSignal, LessSignal DEF history
<1>4. CASE Crash
  <2>1. chain' = <<>> /\ UNCHANGED <<queue, seen>>
    BY <1>4 DEF Crash, history
  <2>2. 1..Len(chain') = {}
    BY <2>1
  <2>3. Ordered' /\ JoinsFirst' /\ \A t, p, v : ~ Pending(t, p, v)'
    BY <2>2 DEF Ordered, JoinsFirst, Pending
  <2> QED
    BY <1>0, <2>1, <2>3, LessSignal
<1>5. CASE UNCHANGED vars
  <2>1. UNCHANGED <<queue, chain, call, seen>>
    BY <1>5 DEF vars
  <2>2. \A n, t : Bumps(n, t)' <=> Bumps(n, t)
    BY <2>1 DEF Bumps
  <2>3. Ordered' /\ JoinsFirst'
    BY <2>1, <2>2 DEF SignalInv, Ordered, JoinsFirst
  <2>4. \A t \in Ids : \A p, v : Pending(t, p, v)' => Pending(t, p, v)
    BY <2>1, <2>2 DEF Pending
  <2> QED
    BY <1>0, <2>1, <2>3, <2>4, LessSignal
<1> QED
  BY <1>1, <1>2, <1>3, <1>4, <1>5, <1>0, LandSignal DEF Next

LEMMA InitSignal ==
  ASSUME Init PROVE SignalInv
<1>1. Rows = {} /\ chain = <<>> /\ \A s \in Ids : seen[s] = 0
  BY DEF Init, Rows
<1>2. 1..Len(chain) = {}
  BY <1>1
<1>3. Ordered /\ JoinsFirst /\ \A t, p, v : ~ Pending(t, p, v)
  BY <1>2 DEF Ordered, JoinsFirst, Pending
<1>4. \A s \in Ids : Behind(s, 1) = {}
  BY <1>3 DEF Behind
<1>5. \A s \in Ids : seen[s] - 1 + Cardinality(Behind(s, 1)) <= Cardinality(Proposers) * (1 - 1)
  <2>1. Cardinality(Proposers) \in Nat
    BY SuggestionsAssumption, FS_CardinalityType
  <2>2. \A s \in Ids : Cardinality(Behind(s, 1)) = 0
    BY <1>4, FS_EmptySet
  <2>3. Cardinality(Proposers) * (1 - 1) = 0
    BY <2>1
  <2> QED
    BY <1>1, <2>2, <2>3
<1>6. \A s \in Ids : Level(s, 1)
  BY <1>1, <1>3, <1>5 DEF Level
<1> QED
  BY <1>3, <1>6, InitRows DEF SignalInv

\* However many observations of a row overlap, however many writes fail and
\* wherever the process dies, observeSuggestion loses no more of them to its
\* read-then-put than can be in flight at once: the hits of a row are a
\* proposer-th of its observations or more.
THEOREM FrequencyCounts == Spec => []FrequencyIsSignal
<1>1. Init => SignalInv
  BY InitSignal
<1>2. SignalInv /\ [Next]_vars => SignalInv'
  BY StepSignal
<1>3. SignalInv => FrequencyIsSignal
  <2> SUFFICES ASSUME SignalInv, NEW s \in Rows
               PROVE  seen[s] - 1 <= Cardinality(Proposers) * (queue[s].hits - 1)
    BY DEF FrequencyIsSignal
  <2>1. s \in Ids /\ seen[s] \in Nat
    BY DEF Rows, SignalInv, RowInv, TypeInv, DataTyped
  <2>2. PICK g \in Nat \ {0} : Level(s, g)
    BY <2>1 DEF SignalInv
  <2>3. Cardinality(Behind(s, g)) \in Nat /\ Cardinality(Proposers) * (g - 1) \in Int
    BY BehindFinite
  <2> QED
    BY <2>1, <2>2, <2>3 DEF Level
<1> QED
  BY <1>1, <1>2, <1>3, PTL DEF Spec

-----------------------------------------------------------------------------
(* The queue settles within its cap.                                       *)

Removes(n, s) == chain[n].kind \in {"delete", "adopted"} /\ chain[n].id = s

\* The rows whose delete is queued, or that a trim has still to delete.
Doomed ==
  {s \in Ids : \/ \E n \in 1..Len(chain) : Removes(n, s)
               \/ \E c \in Clients : s \in call[c].todo}

\* The rows that have joined and for which no trim has begun.
Fresh == {s \in Ids : \E c \in Clients : call[c].phase = "joined" /\ call[c].id = s}

Kept == Rows \ (Doomed \cup revived \cup Fresh)

OnlyTrimsDrop ==
  \A c \in Clients : call[c].phase \notin {"trim", "trimmed"} => call[c].todo = {}

\* The rows that no trim has seen, and those a trim is about to delete, are all
\* that the queue holds beyond its cap.
CapInv == RowInv /\ OnlyTrimsDrop /\ (Calm => Cardinality(Kept) <= Cap)

LEMMA KeptFinite ==
  ASSUME RowInv
  PROVE  IsFiniteSet(Rows) /\ IsFiniteSet(revived) /\ IsFiniteSet(Kept)
<1>1. Rows \in SUBSET minted /\ revived \in SUBSET minted /\ Kept \in SUBSET minted
  BY DEF RowInv, Handed, Kept
<1>2. IsFiniteSet(minted)
  BY DEF RowInv, Handed
<1> QED
  BY <1>1, <1>2, FS_Subset

LEMMA KeptShrinks ==
  ASSUME CapInv, RowInv', OnlyTrimsDrop', Kept' \subseteq Kept, Calm' => Calm
  PROVE  CapInv'
<1>1. Cardinality(Kept') <= Cardinality(Kept)
      /\ Cardinality(Kept') \in Nat /\ Cardinality(Kept) \in Nat
  BY KeptFinite, FS_Subset, FS_CardinalityType DEF CapInv
<1> QED
  BY <1>1, SuggestionsAssumption DEF CapInv

\* A job that is queued dooms its row, if it removes it, and spares no other.
LEMMA EnqueueDooms ==
  ASSUME TypeInv, NEW c \in Clients, NEW frame, NEW kind, NEW s \in Ids, NEW row,
         [by |-> c, kind |-> kind, id |-> s, row |-> row] \in Jobs,
         Enqueue(c, frame, kind, s, row),
         \A t \in call[c].todo : t \in frame.todo \/ (t = s /\ kind = "delete")
  PROVE  /\ Doomed \subseteq Doomed'
         /\ kind \in {"delete", "adopted"} => s \in Doomed'
         /\ \A t \in frame.todo : t \in Ids => t \in Doomed'
<1> DEFINE job == [by |-> c, kind |-> kind, id |-> s, row |-> row]
<1>1. chain' = Append(chain, job) /\ call'[c] = frame
      /\ \A d \in Clients \ {c} : call'[d] = call[d]
  BY EnqueueMoves DEF Enqueue
<1>2. PICK last \in Nat :
        /\ 1..Len(chain') = 1..Len(chain) \cup {last}
        /\ \A n \in 1..Len(chain) : chain'[n] = chain[n]
        /\ chain'[last].kind = kind /\ chain'[last].id = s
  <2>1. job.kind = kind /\ job.id = s
    OBVIOUS
  <2> HIDE DEF job
  <2> QED
    BY <1>1, <2>1, AppendPositions DEF TypeInv, CallInv, job
<1>3. kind \in {"delete", "adopted"} => s \in Doomed'
  BY <1>2 DEF Doomed, Removes
<1>4. \A t \in frame.todo : t \in Ids => t \in Doomed'
  BY <1>1 DEF Doomed
<1>5. \A n \in 1..Len(chain), t \in Ids : Removes(n, t) => t \in Doomed'
  BY <1>2 DEF Doomed, Removes
<1>6. \A d \in Clients \ {c}, t \in Ids : t \in call[d].todo => t \in Doomed'
  BY <1>1 DEF Doomed
<1>7. \A t \in Ids : t \in call[c].todo => t \in Doomed'
  BY <1>3, <1>4
<1> QED
  BY <1>3, <1>4, <1>5, <1>6, <1>7 DEF Doomed

\* A client that goes on takes no row back from its fate, unless it has joined.
LEMMA ClientCap ==
  ASSUME CapInv, RowInv', NEW c \in Clients, call[c].phase # "joined",
         UNCHANGED <<queue, revived>>, \A d \in Clients \ {c} : call'[d] = call[d],
         call'[c].phase \notin {"trim", "trimmed"} => call'[c].todo = {},
         Doomed \subseteq Doomed', Calm' => Calm
  PROVE  CapInv'
<1>1. OnlyTrimsDrop'
  BY DEF OnlyTrimsDrop, CapInv
<1>2. Fresh \subseteq Fresh'
  BY DEF Fresh
<1>3. Kept' \subseteq Kept
  BY <1>2 DEF Kept, Rows
<1> QED
  BY <1>1, <1>3, KeptShrinks

\* A client that starts a call on a row, or takes up its adoption again.
LEMMA StartCap ==
  ASSUME CapInv, RowInv', NEW c \in Clients, call[c].phase \notin JobPhases,
         call[c].phase \notin {"joined", "trimmed"},
         NEW frame, NEW kind, NEW s \in Ids, NEW row,
         frame.todo = {}, Enqueue(c, frame, kind, s, row),
         [by |-> c, kind |-> kind, id |-> s, row |-> row] \in Jobs,
         UNCHANGED <<queue, revived, faults, crashes>>
  PROVE  CapInv'
<1>1. TypeInv /\ call[c].todo = {}
  BY DEF CapInv, RowInv, OnlyTrimsDrop, JobPhases
<1>2. Doomed \subseteq Doomed'
  BY <1>1, EnqueueDooms
<1>3. call'[c] = frame /\ \A d \in Clients \ {c} : call'[d] = call[d]
  BY <1>1, EnqueueMoves
<1> QED
  BY <1>2, <1>3, ClientCap DEF Calm

LEMMA DropDooms ==
  ASSUME TypeInv, NEW c \in Clients, NEW V \in SUBSET Ids, DropNext(c, V),
         call[c].todo \subseteq V
  PROVE  /\ V \subseteq Doomed' /\ Doomed \subseteq Doomed' /\ call'[c].phase = "trim"
         /\ \A d \in Clients \ {c} : call'[d] = call[d]
<1> DEFINE frame(s) == [Idle EXCEPT !.phase = "trim", !.id = s, !.todo = V \ {s}]
<1>1. PICK s \in V : Enqueue(c, frame(s), "delete", s, None)
  BY DEF DropNext
<1>2. frame(s).phase = "trim" /\ frame(s).todo = V \ {s}
  BY DEF Idle
<1> HIDE DEF frame
<1>3. s \in Ids /\ [by |-> c, kind |-> "delete", id |-> s, row |-> None] \in Jobs
  BY DEF Jobs
<1>4. call'[c] = frame(s) /\ \A d \in Clients \ {c} : call'[d] = call[d]
  BY <1>1, EnqueueMoves
<1>5. \A t \in call[c].todo : t \in frame(s).todo \/ t = s
  BY <1>2
<1>6. /\ Doomed \subseteq Doomed' /\ s \in Doomed'
      /\ \A t \in frame(s).todo : t \in Ids => t \in Doomed'
  BY <1>1, <1>3, <1>5, EnqueueDooms
<1> QED
  BY <1>2, <1>4, <1>6

LEMMA RestDooms ==
  ASSUME TypeInv, NEW c \in Clients, Goto(c, Idle), call[c].todo = {}
  PROVE  /\ Doomed \subseteq Doomed' /\ call'[c] = Idle
         /\ \A d \in Clients \ {c} : call'[d] = call[d]
<1>1. chain' = chain /\ call'[c] = Idle /\ \A d \in Clients \ {c} : call'[d] = call[d]
  BY GotoMoves DEF Goto
<1> QED
  BY <1>1 DEF Doomed, Removes

\* A trim dooms what is over the cap, whatever else is under way.
LEMMA TrimCap ==
  ASSUME CapInv, RowInv', NEW c \in Proposers, Trim(c)
  PROVE  CapInv'
<1>1. /\ TypeInv /\ c \in Clients /\ call[c].phase = "joined" /\ call[c].todo = {}
      /\ UNCHANGED <<queue, revived, faults, crashes>> /\ Rows' = Rows
  BY DEF CapInv, RowInv, OnlyTrimsDrop, Clients, Trim, history, counters, Rows
<1>2. IsFiniteSet(Rows) /\ Cardinality(Rows) \in Nat /\ Cap \in Nat
  BY KeptFinite, FS_CardinalityType, SuggestionsAssumption DEF CapInv
<1>3. CASE OverCap
  <2>1. PICK V \in Victims : DropNext(c, V)
    BY <1>3 DEF Trim
  <2>2. V \in SUBSET Rows /\ V \in SUBSET Ids
        /\ Cardinality(V) = Cardinality(Rows) - Cap
    BY DEF Victims, Rows
  <2>3. /\ V \subseteq Doomed' /\ call'[c].phase = "trim"
        /\ \A d \in Clients \ {c} : call'[d] = call[d]
    BY <1>1, <2>1, <2>2, DropDooms
  <2>4. OnlyTrimsDrop'
    BY <2>3 DEF OnlyTrimsDrop, CapInv
  <2>5. Kept' \in SUBSET (Rows \ V)
    BY <1>1, <2>3 DEF Kept
  <2>6. IsFiniteSet(Rows \ V) /\ Cardinality(Rows \ V) = Cap
    <3>1. IsFiniteSet(V) /\ IsFiniteSet(Rows \ V) /\ Rows \cap V = V
      BY <1>2, <2>2, FS_Subset, FS_Difference
    <3>2. Cardinality(Rows \ V) = Cardinality(Rows) - Cardinality(Rows \cap V)
      BY <1>2, <3>1, FS_Difference
    <3> QED
      BY <1>2, <2>2, <3>1, <3>2
  <2>7. Cardinality(Kept') <= Cap
    BY <2>5, <2>6, FS_Subset
  <2> QED
    BY <2>4, <2>7 DEF CapInv
<1>4. CASE ~ OverCap
  <2>1. call'[c] = Idle /\ \A d \in Clients \ {c} : call'[d] = call[d]
    BY <1>1, <1>4, GotoMoves DEF Trim
  <2>2. OnlyTrimsDrop'
    BY <2>1 DEF OnlyTrimsDrop, CapInv, Idle
  <2>3. Kept' \in SUBSET Rows
    BY <1>1 DEF Kept
  <2>4. Cardinality(Kept') <= Cardinality(Rows) /\ Cardinality(Kept') \in Nat
    BY <1>2, <2>3, FS_Subset, FS_CardinalityType
  <2>5. Cardinality(Kept') <= Cap
    BY <1>2, <1>4, <2>4 DEF OverCap
  <2> QED
    BY <2>2, <2>5 DEF CapInv
<1> QED
  BY <1>3, <1>4

LEMMA ProposerCap ==
  ASSUME CapInv, RowInv', NEW c \in Proposers, Bump(c) \/ Join(c) \/ TrimMore(c)
  PROVE  CapInv'
<1>1. /\ TypeInv /\ c \in Clients
      /\ call[c].phase \notin JobPhases /\ call[c].phase # "joined"
      /\ UNCHANGED <<queue, revived, faults, crashes>>
  BY DEF CapInv, RowInv, Clients, Bump, Join, TrimMore, Begins, JobPhases, history, counters
<1>2. CASE Bump(c)
  <2> DEFINE frame(s) == [Idle EXCEPT !.phase = "bump", !.id = s]
  <2>1. PICK s \in Rows : Enqueue(c, frame(s), "put", s, Bumped(queue[s]))
    BY <1>2 DEF Bump, Matched
  <2>2. frame(s).todo = {} /\ call[c].phase = "idle"
    BY <1>2 DEF Idle, Bump, Begins
  <2>3. s \in Ids /\ Bumped(queue[s]) \in Row
    BY <1>1, QueuedTyped, RowTyped DEF TypeInv
  <2>4. [by |-> c, kind |-> "put", id |-> s, row |-> Bumped(queue[s])] \in Jobs
    BY <2>3 DEF Jobs
  <2> HIDE DEF frame
  <2> QED
    BY <1>1, <2>1, <2>2, <2>3, <2>4, StartCap
<1>3. CASE Join(c)
  <2> DEFINE frame(s) == [Idle EXCEPT !.phase = "join", !.id = s]
  <2>1. PICK p \in Proposal, s \in Ids : Enqueue(c, frame(s), "put", s, FirstSeen(p))
    BY <1>3 DEF Join
  <2>2. frame(s).todo = {} /\ call[c].phase = "idle"
    BY <1>3 DEF Idle, Join, Begins
  <2>3. FirstSeen(p) \in Row
    BY DEF FirstSeen, Proposal, Row
  <2>4. [by |-> c, kind |-> "put", id |-> s, row |-> FirstSeen(p)] \in Jobs
    BY <2>3 DEF Jobs
  <2> HIDE DEF frame
  <2> QED
    BY <1>1, <2>1, <2>2, <2>4, StartCap
<1>4. CASE TrimMore(c)
  <2>1. CASE call[c].todo = {}
    <3>1. Goto(c, Idle)
      BY <1>4, <2>1 DEF TrimMore
    <3>2. /\ Doomed \subseteq Doomed' /\ call'[c] = Idle
          /\ \A d \in Clients \ {c} : call'[d] = call[d]
      BY <1>1, <2>1, <3>1, RestDooms
    <3> QED
      BY <1>1, <3>2, ClientCap DEF Idle, Calm
  <2>2. CASE call[c].todo # {}
    <3>1. DropNext(c, call[c].todo) /\ call[c].todo \in SUBSET Ids
      BY <1>1, <1>4, <2>2 DEF TrimMore, TypeInv, CallInv, Frames
    <3>2. /\ Doomed \subseteq Doomed' /\ call'[c].phase = "trim"
          /\ \A d \in Clients \ {c} : call'[d] = call[d]
      BY <1>1, <3>1, DropDooms
    <3> QED
      BY <1>1, <3>2, ClientCap DEF Calm
  <2> QED
    BY <2>1, <2>2
<1> QED
  BY <1>2, <1>3, <1>4

LEMMA ReviewerCap ==
  ASSUME CapInv, RowInv', NEW c \in Reviewers,
         Adopt(c) \/ Adopted(c) \/ AdoptFails(c) \/ RejectSuggestion(c)
  PROVE  CapInv'
<1>1. /\ TypeInv /\ c \in Clients /\ call[c] \in Frames
      /\ call[c].phase \notin JobPhases /\ call[c].phase \notin {"joined", "trimmed"}
      /\ UNCHANGED <<queue, revived>> /\ call[c].todo = {}
  BY DEF CapInv, RowInv, TypeInv, CallInv, OnlyTrimsDrop, Clients, Adopt, Adopted, AdoptFails,
     RejectSuggestion, Begins, JobPhases, history
<1>2. CASE Adopt(c)
  <2> DEFINE frame(s) == [Idle EXCEPT !.phase = "write", !.id = s]
  <2>1. PICK s \in Rows : Enqueue(c, frame(s), "write", s, queue[s])
    BY <1>2 DEF Adopt
  <2>2. frame(s).todo = {} /\ UNCHANGED <<faults, crashes>>
    BY <1>2 DEF Idle, Adopt, Begins
  <2>3. s \in Ids /\ [by |-> c, kind |-> "write", id |-> s, row |-> queue[s]] \in Jobs
    BY <1>1, QueuedTyped DEF TypeInv, Jobs
  <2> HIDE DEF frame
  <2> QED
    BY <1>1, <2>1, <2>2, <2>3, StartCap
<1>3. CASE RejectSuggestion(c)
  <2> DEFINE frame(s) == [Idle EXCEPT !.phase = "delete", !.id = s]
  <2>1. PICK s \in Rows : Enqueue(c, frame(s), "delete", s, None)
    BY <1>3 DEF RejectSuggestion
  <2>2. frame(s).todo = {} /\ UNCHANGED <<faults, crashes>>
    BY <1>3 DEF Idle, RejectSuggestion, Begins
  <2>3. s \in Ids /\ [by |-> c, kind |-> "delete", id |-> s, row |-> None] \in Jobs
    BY <1>1, QueuedTyped DEF TypeInv, Jobs
  <2> HIDE DEF frame
  <2> QED
    BY <1>1, <2>1, <2>2, <2>3, StartCap
<1>4. CASE Adopted(c)
  <2> DEFINE frame == [call[c] EXCEPT !.phase = "delete"]
  <2>1. /\ frame.todo = {} /\ UNCHANGED <<faults, crashes>>
        /\ call[c].phase = "rest" /\ call[c].id \in Ids
    BY <1>1, <1>4 DEF Frames, Adopted, counters, TypeInv, CallInv, HasRow
  <2>2. [by |-> c, kind |-> "adopted", id |-> call[c].id, row |-> None] \in Jobs
    BY <2>1 DEF Jobs
  <2> HIDE DEF frame
  <2>3. Enqueue(c, frame, "adopted", call[c].id, None)
    BY <1>4 DEF Adopted, frame
  <2> QED
    BY <1>1, <2>1, <2>2, <2>3, StartCap
<1>5. CASE AdoptFails(c)
  <2>1. Goto(c, Idle) /\ ~ Calm'
    BY <1>1, <1>5 DEF AdoptFails, Calm, TypeInv, DataTyped
  <2>2. /\ Doomed \subseteq Doomed' /\ call'[c] = Idle
        /\ \A d \in Clients \ {c} : call'[d] = call[d]
    BY <1>1, <2>1, RestDooms
  <2> QED
    BY <1>1, <2>1, <2>2, ClientCap DEF Idle
<1> QED
  BY <1>2, <1>3, <1>4, <1>5

\* What lands has been doomed, is fresh or comes back; nobody is fresh before.
LEMMA LandCap ==
  ASSUME CapInv, RowInv', Land
  PROVE  CapInv'
<1>1. PICK c \in Clients, x \in Ids, job \in Jobs :
        /\ job = Head(chain) /\ c = job.by /\ x = job.id /\ call[c].id = x
        /\ chain # <<>> /\ chain' = Tail(chain) /\ call[c] \in Frames
        /\ call[c].phase \in AwaitedIn(job.kind) /\ call'[c] = Answer(call[c])
        /\ \A d \in Clients \ {c} : call'[d] = call[d]
        /\ \A s \in Ids \ {x} : queue'[s] = queue[s] /\ revived \subseteq revived'
        /\ UNCHANGED <<faults, crashes>>
  BY LandMoves DEF CapInv, RowInv
<1>2. /\ TypeInv /\ chain \in Seq(Jobs) /\ queue \in [Ids -> Row \cup {None}]
      /\ chain[1] = job /\ Fresh = {} /\ revived \subseteq revived'
  BY <1>1, HeadTyped DEF CapInv, RowInv, TypeInv, CallInv, DataTyped, Land, Settled, Fresh
<1>3. /\ call[c].phase \notin {"trim", "trimmed"} => call[c].todo = {}
      /\ call[c].phase \in JobPhases
  BY <1>1, JobTyped DEF CapInv, OnlyTrimsDrop
<1>4. /\ call'[c].phase \notin {"trim", "trimmed"} => call'[c].todo = {}
      /\ call[c].todo \subseteq call'[c].todo
      /\ call[c].phase = "join" => call'[c].phase = "joined" /\ call'[c].id = x
  <2>1. \A p : /\ [call[c] EXCEPT !.phase = p].phase = p
               /\ [call[c] EXCEPT !.phase = p].id = call[c].id
               /\ [call[c] EXCEPT !.phase = p].todo = call[c].todo
    BY <1>1 DEF Frames
  <2>2. Idle.todo = {} /\ Idle.phase = "idle"
    BY DEF Idle
  <2>3. CASE call[c].phase = "trim"
    <3>1. call'[c] = [call[c] EXCEPT !.phase = "trimmed"]
      BY <1>1, <2>3 DEF Answer
    <3> QED
      BY <2>1, <2>3, <3>1
  <2>4. CASE call[c].phase = "join"
    <3>1. call'[c] = [call[c] EXCEPT !.phase = "joined"]
      BY <1>1, <2>4 DEF Answer
    <3> QED
      BY <1>1, <1>3, <2>1, <2>4, <3>1
  <2>5. CASE call[c].phase = "write"
    <3>1. call'[c] = [call[c] EXCEPT !.phase = "rest"]
      BY <1>1, <2>5 DEF Answer
    <3> QED
      BY <1>3, <2>1, <2>5, <3>1
  <2>6. CASE call[c].phase \in {"bump", "delete"}
    <3>1. call'[c] = Idle
      BY <1>1, <2>6 DEF Answer
    <3> QED
      BY <1>3, <2>2, <2>6, <3>1
  <2> QED
    BY <1>3, <2>3, <2>4, <2>5, <2>6 DEF JobPhases
<1>5. OnlyTrimsDrop'
  BY <1>1, <1>4 DEF OnlyTrimsDrop, CapInv
<1>6. \A s \in Ids : s \in Doomed => s \in Doomed' \/ (s = x /\ job.kind \in {"delete", "adopted"})
  <2>1. \A n \in 1..Len(chain) : n = 1 \/ \E m \in 1..Len(chain') : chain'[m] = chain[n]
    <3> SUFFICES ASSUME NEW n \in 1..Len(chain), n # 1
                 PROVE  \E m \in 1..Len(chain') : chain'[m] = chain[n]
      OBVIOUS
    <3>1. n - 1 \in 1..Len(chain') /\ chain'[n - 1] = chain[n]
      BY <1>1, <1>2
    <3> QED
      BY <3>1
  <2>2. \A n \in 1..Len(chain), s \in Ids :
          Removes(n, s) => s \in Doomed' \/ (s = x /\ job.kind \in {"delete", "adopted"})
    BY <1>1, <1>2, <2>1 DEF Removes, Doomed
  <2>3. \A d \in Clients, s \in Ids : s \in call[d].todo => s \in Doomed'
    BY <1>1, <1>4 DEF Doomed
  <2> QED
    BY <2>2, <2>3 DEF Doomed
<1>7. \A s \in Rows' : s \in Rows \/ s \in revived' \/ s \in Fresh'
  <2> SUFFICES ASSUME NEW s \in Rows', s \notin Rows
               PROVE  s \in revived' \/ s \in Fresh'
    OBVIOUS
  <2>1. s = x /\ s \in Ids /\ queue[s] = None
    BY <1>1 DEF Rows
  <2>2. job.kind = "put"
    BY <1>1, <1>2, <2>1 DEF Land, Rows, Jobs
  <2>3. call[c].phase = "bump" \/ call[c].phase = "join"
    BY <1>1, <2>2 DEF AwaitedIn
  <2>4. call[c].phase = "join" => s \in Fresh'
    BY <1>4, <2>1 DEF Fresh
  <2>5. call[c].phase = "bump" => s \in revived'
    BY <1>1, <2>1 DEF Land
  <2> QED
    BY <2>3, <2>4, <2>5
<1>8. job.kind \in {"delete", "adopted"} => x \notin Rows'
  BY <1>1, <1>2 DEF Land, Rows
<1>9. Kept' \subseteq Kept
  <2> SUFFICES ASSUME NEW s \in Kept' PROVE s \in Kept
    OBVIOUS
  <2>1. s \in Ids /\ s \in Rows' /\ s \notin Doomed' /\ s \notin revived' /\ s \notin Fresh'
    BY DEF Kept, Rows
  <2> QED
    BY <1>2, <1>6, <1>7, <1>8, <2>1 DEF Kept
<1> QED
  BY <1>1, <1>5, <1>9, KeptShrinks DEF Calm

LEMMA StepCap ==
  ASSUME CapInv, [Next]_vars PROVE CapInv'
<1>0. RowInv /\ RowInv' /\ TypeInv
  BY StepRows DEF CapInv, RowInv
<1>1. ASSUME NEW c \in Proposers, Bump(c) \/ Join(c) \/ Trim(c) \/ TrimMore(c)
      PROVE  CapInv'
  BY <1>0, <1>1, TrimCap, ProposerCap
<1>2. ASSUME NEW c \in Reviewers,
             Adopt(c) \/ Adopted(c) \/ AdoptFails(c) \/ RejectSuggestion(c)
      PROVE  CapInv'
  BY <1>0, <1>2, ReviewerCap
<1>3. CASE Reject \/ Crash
  <2>1. ~ Calm'
    BY <1>0, <1>3 DEF Reject, Crash, Calm, TypeInv, DataTyped
  <2>2. \A d \in Clients : call'[d] = call[d] \/ call'[d] = Idle
    BY <1>0, <1>3, RejectMoves DEF Crash
  <2>3. OnlyTrimsDrop'
    BY <2>2 DEF OnlyTrimsDrop, CapInv, Idle
  <2> QED
    BY <1>0, <2>1, <2>3 DEF CapInv
<1>4. CASE UNCHANGED vars
  <2>1. UNCHANGED <<queue, chain, call, revived, faults, crashes>>
    BY <1>4 DEF vars
  <2>2. Kept' = Kept /\ OnlyTrimsDrop'
    BY <2>1 DEF Kept, Rows, Doomed, Removes, Fresh, OnlyTrimsDrop, CapInv
  <2> QED
    BY <1>0, <2>1, <2>2, KeptShrinks DEF Calm
<1> QED
  BY <1>0, <1>1, <1>2, <1>3, <1>4, LandCap DEF Next

LEMMA InitCap ==
  ASSUME Init PROVE CapInv
<1>1. Kept = {} /\ OnlyTrimsDrop
  BY DEF Init, Kept, Rows, OnlyTrimsDrop, Idle
<1>2. Cardinality(Kept) <= Cap
  BY <1>1, FS_EmptySet, SuggestionsAssumption
<1> QED
  BY <1>1, <1>2, InitRows DEF CapInv

\* When no call is under way, trimSuggestions has brought the queue within
\* suggestionCap, however many observations joined and trimmed at once: only
\* rows that a bump put back behind their own delete can be beyond it.
THEOREM CapIsKept == Spec => []CapSettles
<1>1. Init => CapInv
  BY InitCap
<1>2. CapInv /\ [Next]_vars => CapInv'
  BY StepCap
<1>3. CapInv => CapSettles
  <2> SUFFICES ASSUME CapInv, AtRest, Calm
               PROVE  Cardinality(Rows) <= Cap + Cardinality(revived)
    BY DEF CapSettles, Calm
  <2>1. RowInv /\ TypeInv /\ Cardinality(Kept) <= Cap
    BY DEF CapInv, RowInv
  <2>2. 1..Len(chain) = {}
    <3>1. \A n \in 1..Len(chain) : FALSE
      BY <2>1, ChainTyped DEF AtRest, JobPhases
    <3> QED
      BY <3>1
  <2>3. Doomed = {} /\ Fresh = {}
    BY <2>2 DEF Doomed, Fresh, AtRest, CapInv, OnlyTrimsDrop
  <2>4. Rows \subseteq (Kept \cup revived)
    BY <2>3 DEF Kept
  <2>5. /\ IsFiniteSet(Kept) /\ IsFiniteSet(revived) /\ IsFiniteSet(Kept \cup revived)
        /\ Cardinality(Kept \cup revived)
             = Cardinality(Kept) + Cardinality(revived) - Cardinality(Kept \cap revived)
    BY <2>1, KeptFinite, FS_Union
  <2>6. Kept \cap revived \in SUBSET Kept
    OBVIOUS
  <2>7. /\ Cardinality(Rows) <= Cardinality(Kept \cup revived)
        /\ Cardinality(Rows) \in Nat /\ Cardinality(Kept \cup revived) \in Nat
        /\ Cardinality(Kept) \in Nat /\ Cardinality(revived) \in Nat
        /\ Cardinality(Kept \cap revived) \in Nat
    BY <2>1, <2>4, <2>5, <2>6, KeptFinite, FS_Subset, FS_CardinalityType
  <2> QED
    BY <2>1, <2>5, <2>7, SuggestionsAssumption
<1> QED
  BY <1>1, <1>2, <1>3, PTL DEF Spec

-----------------------------------------------------------------------------
(* Twins are bounded.                                                      *)

\* This row is one of the twins of the proposal.
Like(row, p) == row.target = p.target /\ (p.target = None => row.about = p.about)

\* The put of such a row is queued.
Comes(n, s, p) == chain[n].kind = "put" /\ chain[n].id = s /\ Like(chain[n].row, p)

Coming(p) == {s \in Ids : \E n \in 1..Len(chain) : Comes(n, s, p)}

Brood(p) == Twins(p) \cup Coming(p)

\* A row joins only when the table has none like it, so the queued ones are all
\* there are then, and each of their clients waits for one of them.
TwinInv ==
  /\ TypeInv
  /\ \A p \in Proposal : IsFiniteSet(Brood(p)) /\ Cardinality(Brood(p)) <= Cardinality(Proposers)

\* Rows that are no more than before.
LEMMA BroodShrinks ==
  ASSUME TwinInv, TypeInv', \A p \in Proposal : Brood(p)' \subseteq Brood(p)
  PROVE  TwinInv'
<1>1. ASSUME NEW p \in Proposal
      PROVE  IsFiniteSet(Brood(p)') /\ Cardinality(Brood(p)') <= Cardinality(Proposers)
  <2>1. /\ IsFiniteSet(Brood(p)') /\ Cardinality(Brood(p)') <= Cardinality(Brood(p))
        /\ Cardinality(Brood(p)') \in Nat /\ Cardinality(Brood(p)) \in Nat
    BY FS_Subset, FS_CardinalityType DEF TwinInv
  <2>2. Cardinality(Proposers) \in Nat
    BY FS_CardinalityType, SuggestionsAssumption
  <2> QED
    BY <2>1, <2>2 DEF TwinInv
<1> QED
  BY <1>1 DEF TwinInv

\* A job that puts no new twin.
LEMMA EnqueueBrood ==
  ASSUME TypeInv, NEW c, NEW frame, NEW kind, NEW s, NEW row, NEW p,
         [by |-> c, kind |-> kind, id |-> s, row |-> row] \in Jobs,
         Enqueue(c, frame, kind, s, row), queue' = queue,
         kind = "put" /\ Like(row, p) => s \in Brood(p)
  PROVE  Brood(p)' \subseteq Brood(p)
<1> DEFINE job == [by |-> c, kind |-> kind, id |-> s, row |-> row]
<1>1. job.kind = kind /\ job.id = s /\ job.row = row
  OBVIOUS
<1>2. chain' = Append(chain, job)
  BY DEF Enqueue
<1> HIDE DEF job
<1>3. /\ 1..Len(chain') = 1..Len(chain) \cup {Len(chain) + 1}
      /\ \A n \in 1..Len(chain) : chain'[n] = chain[n]
      /\ chain'[Len(chain) + 1] = job
  BY <1>2, AppendPositions DEF TypeInv, CallInv, job
<1>4. Twins(p)' = Twins(p)
  BY DEF Twins, Rows
<1>5. ASSUME NEW t \in Coming(p)' PROVE t \in Brood(p)
  <2>1. PICK n \in 1..Len(chain') : Comes(n, t, p)'
    BY DEF Coming
  <2>2. CASE n \in 1..Len(chain)
    <3>1. Comes(n, t, p)
      BY <1>3, <2>1, <2>2 DEF Comes
    <3> QED
      BY <2>2, <3>1 DEF Coming, Brood
  <2>3. CASE n = Len(chain) + 1
    BY <1>1, <1>3, <2>1, <2>3 DEF Comes
  <2> QED
    BY <1>3, <2>2, <2>3
<1> QED
  BY <1>4, <1>5 DEF Brood

\* A client that goes on without a job.
LEMMA SameBrood ==
  ASSUME UNCHANGED <<queue, chain>>, NEW p PROVE Brood(p)' = Brood(p)
  BY DEF Brood, Coming, Comes, Twins, Rows

\* A bump puts the row it has read, with the target and subject it has.
LEMMA BumpBrood ==
  ASSUME TypeInv, NEW c \in Proposers, Bump(c), NEW p \in Proposal
  PROVE  Brood(p)' \subseteq Brood(p)
<1>1. PICK s \in Rows :
        Enqueue(c, [Idle EXCEPT !.phase = "bump", !.id = s], "put", s, Bumped(queue[s]))
  BY DEF Bump, Matched
<1>2. s \in Ids /\ queue[s] \in Row /\ Bumped(queue[s]) \in Row
  BY QueuedTyped, RowTyped DEF TypeInv
<1>3. [by |-> c, kind |-> "put", id |-> s, row |-> Bumped(queue[s])] \in Jobs
  BY <1>2 DEF Jobs
<1>4. Like(Bumped(queue[s]), p) => s \in Brood(p)
  BY <1>2 DEF Like, Bumped, Row, Brood, Twins
<1>5. queue' = queue
  BY DEF Bump, Begins
<1> QED
  BY <1>1, <1>3, <1>4, <1>5, EnqueueBrood

\* The twins in the queue's own writes are no more than the observations, each
\* of which waits for one write.
LEMMA ComingBounded ==
  ASSUME TypeInv, NEW p
  PROVE  IsFiniteSet(Coming(p)) /\ Cardinality(Coming(p)) <= Cardinality(Proposers)
<1> DEFINE B == {c \in Proposers : \E n \in 1..Len(chain) :
                                     chain[n].by = c /\ Comes(n, chain[n].id, p)}
           f == [c \in B |-> call[c].id]
<1>1. B \in SUBSET Proposers
  OBVIOUS
<1>2. IsFiniteSet(B) /\ Cardinality(B) <= Cardinality(Proposers)
  <2> HIDE DEF B
  <2> QED
    BY <1>1, FS_Subset, SuggestionsAssumption
<1>3. \A c \in B : f[c] \in Coming(p)
  <2> SUFFICES ASSUME NEW c \in B PROVE call[c].id \in Coming(p)
    OBVIOUS
  <2>1. PICK n \in 1..Len(chain) : chain[n].by = c /\ Comes(n, chain[n].id, p)
    OBVIOUS
  <2>2. chain[n].id \in Ids /\ call[c].id = chain[n].id
    BY <2>1, JobTyped DEF TypeInv, CallInv, Waiting
  <2> QED
    BY <2>1, <2>2 DEF Coming
<1>4. \A s \in Coming(p) : \E c \in B : f[c] = s
  <2> SUFFICES ASSUME NEW s \in Coming(p) PROVE \E c \in B : call[c].id = s
    OBVIOUS
  <2>1. PICK n \in 1..Len(chain) : Comes(n, s, p)
    BY DEF Coming
  <2>2. chain[n].id = s /\ chain[n].kind = "put" /\ chain[n] \in Jobs
    BY <2>1 DEF Comes, TypeInv, CallInv
  <2>3. chain[n].by \in Proposers
    BY <2>2 DEF Jobs
  <2>4. call[chain[n].by].id = s
    BY <2>2 DEF TypeInv, CallInv, Waiting
  <2> QED
    BY <2>1, <2>2, <2>3, <2>4
<1>5. f \in Surjection(B, Coming(p))
  BY <1>3, <1>4 DEF Surjection
<1> HIDE DEF B, f
<1>6. IsFiniteSet(Coming(p)) /\ Cardinality(Coming(p)) <= Cardinality(B)
  BY <1>2, <1>5, FS_Surjection
<1> QED
  BY <1>2, <1>6, FS_CardinalityType, SuggestionsAssumption

FewCome ==
  \A p \in Proposal : IsFiniteSet(Coming(p)) /\ Cardinality(Coming(p)) <= Cardinality(Proposers)

\* A row joins.  It is a twin only of a proposal that has none in the table.
LEMMA JoinBrood ==
  ASSUME TwinInv, TypeInv', FewCome', NEW c \in Proposers, Join(c)
  PROVE  TwinInv'
<1>1. PICK q \in Proposal, s \in Ids \ minted :
        /\ Matched(q) = {}
        /\ Enqueue(c, [Idle EXCEPT !.phase = "join", !.id = s], "put", s, FirstSeen(q))
  BY DEF Join
<1>2. FirstSeen(q) \in Row /\ FirstSeen(q).target = q.target /\ FirstSeen(q).about = q.about
  BY DEF FirstSeen, Proposal, Row
<1>3. [by |-> c, kind |-> "put", id |-> s, row |-> FirstSeen(q)] \in Jobs
  BY <1>2 DEF Jobs
<1>4. queue' = queue
  BY DEF Join, Begins
<1>5. ASSUME NEW p \in Proposal
      PROVE  IsFiniteSet(Brood(p)') /\ Cardinality(Brood(p)') <= Cardinality(Proposers)
  <2>1. CASE Like(FirstSeen(q), p)
    <3>1. q.target = p.target /\ (p.target = None => q.about = p.about)
      BY <1>2, <2>1 DEF Like
    <3>2. Twins(p) \subseteq Matched(q)
      BY <3>1 DEF Twins, Matched, Matches
    <3>3. Twins(p)' = {}
      BY <1>1, <1>4, <3>2 DEF Twins, Rows
    <3>4. Brood(p)' = Coming(p)'
      BY <3>3 DEF Brood
    <3> QED
      BY <3>4 DEF FewCome
  <2>2. CASE ~ Like(FirstSeen(q), p)
    <3>1. Brood(p)' \subseteq Brood(p)
      BY <1>1, <1>3, <1>4, <2>2, EnqueueBrood DEF TwinInv
    <3>2. /\ IsFiniteSet(Brood(p)') /\ Cardinality(Brood(p)') <= Cardinality(Brood(p))
          /\ Cardinality(Brood(p)') \in Nat /\ Cardinality(Brood(p)) \in Nat
      BY <3>1, FS_Subset, FS_CardinalityType DEF TwinInv
    <3> QED
      BY <3>2, FS_CardinalityType, SuggestionsAssumption DEF TwinInv
  <2> QED
    BY <2>1, <2>2
<1> QED
  BY <1>5 DEF TwinInv

\* A job that only deletes, or that only writes to memory.
LEMMA QuietBrood ==
  ASSUME TypeInv, NEW c \in Clients, NEW frame, NEW kind \in {"delete", "adopted", "write"},
         NEW s, NEW row, [by |-> c, kind |-> kind, id |-> s, row |-> row] \in Jobs,
         Enqueue(c, frame, kind, s, row), queue' = queue, NEW p
  PROVE  Brood(p)' \subseteq Brood(p)
  BY EnqueueBrood

LEMMA DropBrood ==
  ASSUME TypeInv, NEW c \in Proposers, NEW V \in SUBSET Ids, DropNext(c, V),
         queue' = queue, NEW p
  PROVE  Brood(p)' \subseteq Brood(p)
<1>1. PICK s \in V :
        Enqueue(c, [Idle EXCEPT !.phase = "trim", !.id = s, !.todo = V \ {s}], "delete", s, None)
  BY DEF DropNext
<1>2. c \in Clients /\ [by |-> c, kind |-> "delete", id |-> s, row |-> None] \in Jobs
  BY DEF Jobs, Clients
<1> QED
  BY <1>1, <1>2, QuietBrood

LEMMA TrimBrood ==
  ASSUME TypeInv, NEW c \in Proposers, Trim(c) \/ TrimMore(c), NEW p
  PROVE  Brood(p)' \subseteq Brood(p)
<1>1. queue' = queue
  BY DEF Trim, TrimMore
<1>2. CASE Goto(c, Idle)
  BY <1>1, <1>2, SameBrood DEF Goto
<1>3. CASE \E V \in SUBSET Ids : DropNext(c, V)
  BY <1>1, <1>3, DropBrood
<1>4. (\A V \in Victims : V \in SUBSET Ids) /\ call[c].todo \in SUBSET Ids
  BY DEF Victims, Rows, TypeInv, CallInv, Frames, Clients
<1> QED
  BY <1>2, <1>3, <1>4 DEF Trim, TrimMore

LEMMA DecisionBrood ==
  ASSUME TypeInv, NEW c \in Reviewers,
         Adopt(c) \/ Adopted(c) \/ AdoptFails(c) \/ RejectSuggestion(c), NEW p
  PROVE  Brood(p)' \subseteq Brood(p)
<1>1. queue' = queue /\ c \in Clients
  BY DEF Adopt, Adopted, AdoptFails, RejectSuggestion, Begins, Clients
<1>2. CASE Adopt(c)
  <2>1. PICK s \in Rows :
          Enqueue(c, [Idle EXCEPT !.phase = "write", !.id = s], "write", s, queue[s])
    BY <1>2 DEF Adopt
  <2>2. [by |-> c, kind |-> "write", id |-> s, row |-> queue[s]] \in Jobs
    BY QueuedTyped DEF Jobs, TypeInv
  <2> QED
    BY <1>1, <2>1, <2>2, QuietBrood
<1>3. CASE Adopted(c)
  <2>1. call[c].id \in Ids
    BY <1>1, <1>3 DEF Adopted, TypeInv, CallInv, HasRow
  <2>2. [by |-> c, kind |-> "adopted", id |-> call[c].id, row |-> None] \in Jobs
    BY <2>1 DEF Jobs
  <2> QED
    BY <1>1, <1>3, <2>2, QuietBrood DEF Adopted
<1>4. CASE AdoptFails(c)
  BY <1>1, <1>4, SameBrood DEF AdoptFails, Goto
<1>5. CASE RejectSuggestion(c)
  <2>1. PICK s \in Rows :
          Enqueue(c, [Idle EXCEPT !.phase = "delete", !.id = s], "delete", s, None)
    BY <1>5 DEF RejectSuggestion
  <2>2. [by |-> c, kind |-> "delete", id |-> s, row |-> None] \in Jobs
    BY <1>1, QueuedTyped DEF Jobs, TypeInv
  <2> QED
    BY <1>1, <2>1, <2>2, QuietBrood
<1> QED
  BY <1>2, <1>3, <1>4, <1>5

\* A put that lands, or is rejected, was queued before.
LEMMA TailBrood ==
  ASSUME TypeInv, chain # <<>>, chain' = Tail(chain), NEW p,
         \/ queue' = queue
         \/ queue' = [queue EXCEPT ![Head(chain).id] = None]
         \/ Head(chain).kind = "put" /\ queue' = [queue EXCEPT ![Head(chain).id] = Head(chain).row]
  PROVE  Brood(p)' \subseteq Brood(p)
<1>1. /\ Head(chain) = chain[1] /\ 1 \in 1..Len(chain)
      /\ \A n \in 1..Len(chain') : n + 1 \in 1..Len(chain) /\ chain'[n] = chain[n + 1]
  BY TailPositions DEF TypeInv, CallInv
<1>2. Head(chain).id \in Ids
  BY HeadTyped DEF TypeInv
<1>3. ASSUME NEW s \in Coming(p)' PROVE s \in Brood(p)
  <2>1. PICK n \in 1..Len(chain') : Comes(n, s, p)'
    BY DEF Coming
  <2>2. n + 1 \in 1..Len(chain) /\ Comes(n + 1, s, p)
    BY <1>1, <2>1 DEF Comes
  <2> QED
    BY <2>2 DEF Brood, Coming
<1>4. ASSUME NEW s \in Twins(p)' PROVE s \in Brood(p)
  <2>1. s \in Ids /\ queue'[s] # None /\ Like(queue'[s], p)
    BY DEF Twins, Rows, Like
  <2>2. queue \in [Ids -> Row \cup {None}]
    BY DEF TypeInv, DataTyped
  <2>3. CASE queue'[s] = queue[s]
    BY <2>1, <2>3 DEF Brood, Twins, Rows, Like
  <2>4. CASE queue'[s] # queue[s]
    <3>1. s = Head(chain).id /\ Head(chain).kind = "put" /\ queue'[s] = Head(chain).row
      BY <1>2, <2>1, <2>2, <2>4
    <3>2. Comes(1, s, p)
      BY <1>1, <2>1, <3>1 DEF Comes
    <3> QED
      BY <1>1, <2>1, <3>2 DEF Brood, Coming
  <2> QED
    BY <2>3, <2>4
<1> QED
  BY <1>3, <1>4 DEF Brood

LEMMA StepBrood ==
  ASSUME TwinInv, TypeInv', FewCome', [Next]_vars PROVE TwinInv'
<1>1. ASSUME NEW c \in Proposers, Join(c) PROVE TwinInv'
  BY <1>1, JoinBrood
<1>2. ASSUME NEW p \in Proposal, ~ \E c \in Proposers : Join(c)
      PROVE  Brood(p)' \subseteq Brood(p)
  <2>1. ASSUME NEW c \in Proposers, Bump(c) \/ Trim(c) \/ TrimMore(c)
        PROVE  Brood(p)' \subseteq Brood(p)
    BY <2>1, BumpBrood, TrimBrood DEF TwinInv
  <2>2. ASSUME NEW c \in Reviewers,
               Adopt(c) \/ Adopted(c) \/ AdoptFails(c) \/ RejectSuggestion(c)
        PROVE  Brood(p)' \subseteq Brood(p)
    BY <2>2, DecisionBrood DEF TwinInv
  <2>3. CASE Land
    <3>1. /\ chain # <<>> /\ chain' = Tail(chain)
          /\ queue' = CASE Head(chain).kind = "put" ->
                             [queue EXCEPT ![Head(chain).id] = Head(chain).row]
                        [] Head(chain).kind \in {"delete", "adopted"} ->
                             [queue EXCEPT ![Head(chain).id] = None]
                        [] OTHER -> queue
      BY <2>3 DEF Land
    <3> QED
      BY <3>1, TailBrood DEF TwinInv
  <2>4. CASE Reject
    BY <2>4, TailBrood DEF Reject, TwinInv
  <2>5. CASE Crash
    <3>1. queue' = queue /\ chain' = <<>>
      BY <2>5 DEF Crash
    <3>2. 1..Len(chain') = {}
      BY <3>1
    <3> QED
      BY <3>1, <3>2 DEF Brood, Coming, Twins, Rows
  <2>6. CASE UNCHANGED vars
    BY <2>6, SameBrood DEF vars
  <2> QED
    BY <1>2, <2>1, <2>2, <2>3, <2>4, <2>5, <2>6 DEF Next
<1> QED
  BY <1>1, <1>2, BroodShrinks

\* Overlapping observations of one subject, one document or one target may each
\* find no row and each mint one (observeSuggestion, observeIdentitySuggestion
\* and the put of the host table): but never more rows than observations that
\* can overlap, whatever is adopted, rejected, evicted, put back or lost in
\* between.
THEOREM TwinsAreBounded == Spec => []TwinsBounded
<1>1. Init /\ TypeInv => TwinInv
  <2> SUFFICES ASSUME Init, TypeInv, NEW p \in Proposal
               PROVE  IsFiniteSet(Brood(p)) /\ Cardinality(Brood(p)) <= Cardinality(Proposers)
    BY DEF TwinInv
  <2>1. Brood(p) = {}
    BY DEF Init, Brood, Coming, Twins, Rows
  <2> QED
    BY <2>1, FS_EmptySet, FS_CardinalityType, SuggestionsAssumption
<1>2. TypeInv => FewCome
  BY ComingBounded DEF FewCome
<1>3. TwinInv /\ TypeInv' /\ FewCome' /\ [Next]_vars => TwinInv'
  BY StepBrood
<1>4. TwinInv => TwinsBounded
  <2> SUFFICES ASSUME TwinInv, NEW p \in Proposal
               PROVE  Cardinality(Twins(p)) <= Cardinality(Proposers)
    BY DEF TwinsBounded
  <2>1. Twins(p) \subseteq Brood(p)
    BY DEF Brood
  <2>2. /\ Cardinality(Twins(p)) <= Cardinality(Brood(p))
        /\ Cardinality(Twins(p)) \in Nat /\ Cardinality(Brood(p)) \in Nat
    BY <2>1, FS_Subset, FS_CardinalityType DEF TwinInv
  <2> QED
    BY <2>2, FS_CardinalityType, SuggestionsAssumption DEF TwinInv
<1> QED
  BY <1>1, <1>2, <1>3, <1>4, TypeInvariant, PTL DEF Spec

=============================================================================
