-------------------------- MODULE MemoryStoreProofs --------------------------
(***************************************************************************)
(* Theorems about the memory store, for any number of concurrent callers,  *)
(* any entries and caps, and any number of calls, rejected writes and      *)
(* crashes.                                                                *)
(***************************************************************************)
EXTENDS MemoryStore, FiniteSetTheorems, FunctionTheorems, SequenceTheorems, TLAPS

-----------------------------------------------------------------------------
(* Positions in a write chain.                                             *)

\* A sequence after an element is appended.
LEMMA AppendPositions ==
  ASSUME NEW S, NEW s \in Seq(S), NEW x \in S
  PROVE  /\ Append(s, x) \in Seq(S)
         /\ 1..Len(Append(s, x)) = 1..Len(s) \cup {Len(s) + 1}
         /\ Len(s) + 1 \notin 1..Len(s)
         /\ \A n \in 1..Len(s) : Append(s, x)[n] = s[n]
         /\ Append(s, x)[Len(s) + 1] = x
  OBVIOUS

\* A sequence without its head.
LEMMA TailPositions ==
  ASSUME NEW S, NEW s \in Seq(S), s # <<>>
  PROVE  /\ Head(s) = s[1] /\ 1 \in 1..Len(s) /\ Head(s) \in S
         /\ Tail(s) \in Seq(S)
         /\ \A n \in 1..Len(Tail(s)) :
              n + 1 \in 1..Len(s) /\ n + 1 # 1 /\ Tail(s)[n] = s[n + 1]
         /\ \A n \in 1..Len(s) :
              n # 1 => n - 1 \in 1..Len(Tail(s)) /\ Tail(s)[n - 1] = s[n]
  OBVIOUS

\* A sequence without its n-th element.
LEMMA WithoutPositions ==
  ASSUME NEW S, NEW s \in Seq(S), NEW n \in 1..Len(s)
  PROVE  LET w == SubSeq(s, 1, n - 1) \o SubSeq(s, n + 1, Len(s))
         IN  /\ w \in Seq(S)
             /\ Len(w) = Len(s) - 1
             /\ \A m \in 1..(Len(s) - 1) : w[m] = IF m < n THEN s[m] ELSE s[m + 1]
<1> DEFINE a == SubSeq(s, 1, n - 1)
           b == SubSeq(s, n + 1, Len(s))
<1>1. a \in Seq(S) /\ Len(a) = n - 1 /\ \A m \in 1..(n - 1) : a[m] = s[m]
  BY SubSeqProperties
<1>2. /\ b \in Seq(S) /\ Len(b) = Len(s) - n
      /\ \A m \in 1..(Len(s) - n) : b[m] = s[m + n]
  BY SubSeqProperties
<1> HIDE DEF a, b
<1>3. /\ a \o b \in Seq(S) /\ Len(a \o b) = Len(a) + Len(b)
      /\ \A m \in 1..(Len(a) + Len(b)) :
           (a \o b)[m] = IF m <= Len(a) THEN a[m] ELSE b[m - Len(a)]
  BY <1>1, <1>2, ConcatProperties
<1>4. \A m \in 1..(Len(s) - 1) : (a \o b)[m] = IF m < n THEN s[m] ELSE s[m + 1]
  BY <1>1, <1>2, <1>3
<1>5. Len(a \o b) = Len(s) - 1
  BY <1>1, <1>2, <1>3
<1>6. SubSeq(s, 1, n - 1) \o SubSeq(s, n + 1, Len(s)) = a \o b
  BY DEF a, b
<1> QED
  BY <1>3, <1>4, <1>5, <1>6

-----------------------------------------------------------------------------
(* Every caller waits for its own last job, and for nothing else.          *)

Waits == {"writing", "guard", "auditing", "cutting"}

\* What the caller of a job of this kind waits for.
AwaitedAs(kind) ==
  CASE kind = "guard" -> "guard"
    [] kind = "auditPut" -> "auditing"
    [] kind = "auditDelete" -> "cutting"
    [] OTHER -> "writing"

Waiting ==
  /\ \A n \in 1..Len(chain) : call[chain[n].by].phase = AwaitedAs(chain[n].kind)
  /\ \A m, n \in 1..Len(chain) : chain[m].by = chain[n].by => m = n

\* A caller past the start of its operation, or of a turn of its loop, has
\* an entry it works on.
HasEntry(frame) == frame.phase \notin {"idle", "next"} => frame.id \in Ids

CallInv ==
  /\ chain \in Seq(Jobs)
  /\ call \in [Clients -> Frames]
  /\ \A c \in Clients : HasEntry(call[c])
  /\ Waiting

JobKinds == {"put", "delete", "tool", "fence", "hit", "guard", "decay",
             "auditPut", "auditDelete"}

LEMMA JobTyped ==
  ASSUME NEW job \in Jobs
  PROVE  /\ job.by \in Clients /\ job.id \in Ids /\ job.kind \in JobKinds
         /\ job.kind = "put" => job.val \in Entry
         /\ job.kind = "auditPut" => job.val \in AuditRecords
         /\ job.kind = "auditDelete" => job.val \in Nat
         /\ AwaitedAs(job.kind) \in Waits
  BY DEF Jobs, JobKinds, AwaitedAs, Waits

LEMMA EnqueueCalls ==
  ASSUME CallInv, NEW c \in Clients, call[c].phase \notin Waits,
         NEW frame \in Frames, frame.id \in Ids,
         NEW kind, NEW i, NEW v, [by |-> c, kind |-> kind, id |-> i, val |-> v] \in Jobs,
         frame.phase = AwaitedAs(kind),
         Enqueue(c, frame, kind, i, v)
  PROVE  CallInv'
<1> DEFINE job == [by |-> c, kind |-> kind, id |-> i, val |-> v]
<1>1. chain' = Append(chain, job) /\ call' = [call EXCEPT ![c] = frame]
  BY DEF Enqueue
<1>2. /\ chain' \in Seq(Jobs)
      /\ 1..Len(chain') = 1..Len(chain) \cup {Len(chain) + 1}
      /\ Len(chain) + 1 \notin 1..Len(chain)
      /\ \A n \in 1..Len(chain) : chain'[n] = chain[n] /\ chain[n] \in Jobs
      /\ chain'[Len(chain) + 1] = job
  BY <1>1, AppendPositions DEF CallInv
<1>3. call' \in [Clients -> Frames] /\ \A d \in Clients : HasEntry(call'[d])
  BY <1>1 DEF CallInv, HasEntry
<1>4. \A n \in 1..Len(chain) : chain[n].by # c
  BY <1>2, JobTyped DEF CallInv, Waiting
<1>5. Waiting'
  <2>1. \A n \in 1..Len(chain') : call'[chain'[n].by].phase = AwaitedAs(chain'[n].kind)
    BY <1>1, <1>2, <1>4, JobTyped DEF CallInv, Waiting
  <2>2. \A m, n \in 1..Len(chain') : chain'[m].by = chain'[n].by => m = n
    BY <1>2, <1>4 DEF CallInv, Waiting
  <2> QED
    BY <2>1, <2>2 DEF Waiting
<1> QED
  BY <1>2, <1>3, <1>5 DEF CallInv

LEMMA GotoCalls ==
  ASSUME CallInv, NEW c \in Clients, call[c].phase \notin Waits,
         NEW frame \in Frames, HasEntry(frame), Goto(c, frame)
  PROVE  CallInv'
<1>1. chain' = chain /\ call' = [call EXCEPT ![c] = frame]
  BY DEF Goto
<1>2. call' \in [Clients -> Frames] /\ \A d \in Clients : HasEntry(call'[d])
  BY <1>1 DEF CallInv
<1>3. \A n \in 1..Len(chain) : chain[n].by # c /\ chain[n].by \in Clients
  BY JobTyped DEF CallInv, Waiting
<1>4. Waiting'
  BY <1>1, <1>3 DEF CallInv, Waiting
<1> QED
  BY <1>1, <1>2, <1>4 DEF CallInv

\* The head of the chain is taken and its caller answered.
LEMMA AnswerCalls ==
  ASSUME CallInv, chain # <<>>, chain' = Tail(chain),
         NEW frame \in Frames, HasEntry(frame),
         call' = [call EXCEPT ![Head(chain).by] = frame]
  PROVE  CallInv'
<1>1. /\ chain' \in Seq(Jobs)
      /\ Head(chain) = chain[1] /\ 1 \in 1..Len(chain) /\ Head(chain) \in Jobs
      /\ \A n \in 1..Len(chain') :
           n + 1 \in 1..Len(chain) /\ n + 1 # 1 /\ chain'[n] = chain[n + 1]
  BY TailPositions DEF CallInv
<1>2. Head(chain).by \in Clients
  BY <1>1, JobTyped
<1>3. call' \in [Clients -> Frames] /\ \A d \in Clients : HasEntry(call'[d])
  BY <1>2 DEF CallInv
<1>4. \A n \in 1..Len(chain') : chain'[n].by # Head(chain).by /\ chain'[n].by \in Clients
  BY <1>1, JobTyped DEF CallInv, Waiting
<1>5. Waiting'
  <2>1. \A n \in 1..Len(chain') : call'[chain'[n].by].phase = AwaitedAs(chain'[n].kind)
    BY <1>1, <1>4 DEF CallInv, Waiting
  <2>2. \A m, n \in 1..Len(chain') : chain'[m].by = chain'[n].by => m = n
    <3> SUFFICES ASSUME NEW m \in 1..Len(chain'), NEW n \in 1..Len(chain'),
                        chain'[m].by = chain'[n].by
                 PROVE  m = n
      OBVIOUS
    <3>1. m + 1 = n + 1
      BY <1>1 DEF CallInv, Waiting
    <3> QED
      BY <3>1
  <2> QED
    BY <2>1, <2>2 DEF Waiting
<1> QED
  BY <1>1, <1>3, <1>5 DEF CallInv

\* The job at the head of the chain, and its caller.
LEMMA HeadTyped ==
  ASSUME CallInv, chain # <<>>
  PROVE  /\ Head(chain) = chain[1] /\ 1 \in 1..Len(chain) /\ Head(chain) \in Jobs
         /\ Head(chain).by \in Clients /\ Head(chain).id \in Ids
         /\ call[Head(chain).by] \in Frames
         /\ call[Head(chain).by].phase = AwaitedAs(Head(chain).kind)
         /\ call[Head(chain).by].phase \in Waits
         /\ call[Head(chain).by].id \in Ids
<1>1. Head(chain) = chain[1] /\ 1 \in 1..Len(chain) /\ Head(chain) \in Jobs
  BY TailPositions DEF CallInv
<1>2. /\ Head(chain).by \in Clients /\ Head(chain).id \in Ids
      /\ AwaitedAs(Head(chain).kind) \in Waits
  BY <1>1, JobTyped
<1>3. call[Head(chain).by].phase = AwaitedAs(Head(chain).kind)
  BY <1>1 DEF CallInv, Waiting
<1>4. call[Head(chain).by].id \in Ids
  BY <1>2, <1>3 DEF CallInv, HasEntry, Waits
<1> QED
  BY <1>1, <1>2, <1>3, <1>4 DEF CallInv

LEMMA IdleTyped == Idle \in Frames /\ Idle.phase = "idle" /\ HasEntry(Idle)
  BY DEF Idle, Frames, Phases, AllOps, HasEntry

-----------------------------------------------------------------------------
(* Type correctness of the operations.                                     *)

DataTyped ==
  /\ entries \in [Ids -> Entry \cup {Absent}]
  /\ audit \in Seq(AuditRecords)
  /\ auditSeq \in Nat
  /\ minted \subseteq Ids
  /\ calls \in Nat /\ faults \in Nat /\ crashes \in Nat
  /\ lastEdit \in [Ids -> Contents]
  /\ hitsLanded \in [Ids -> Nat] /\ hitsBeside \in [Ids -> Nat]

TypeInv == CallInv /\ DataTyped

LEMMA TypeInvIsTyped == ASSUME TypeInv PROVE TypeOK
  BY DEF TypeInv, CallInv, DataTyped, TypeOK

LEMMA LiveTyped ==
  ASSUME DataTyped, NEW i \in Live
  PROVE  i \in Ids /\ entries[i] \in Entry
  BY DEF DataTyped, Live

LEMMA FreshTyped ==
  ASSUME NEW x \in Contents PROVE Fresh(x) \in Entry
  BY DEF Fresh, Entry

LEMMA LoopTyped ==
  ASSUME NEW op \in AllOps \cup {"trim"}, NEW S \in SUBSET Ids
  PROVE  /\ Loop(op, S) \in Frames /\ HasEntry(Loop(op, S))
         /\ Loop(op, S).phase = "next"
  BY DEF Loop, Idle, Frames, Phases, HasEntry

LEMMA WritingTyped ==
  ASSUME NEW frame \in Frames, NEW i \in Ids
  PROVE  /\ Writing(frame, i) \in Frames
         /\ Writing(frame, i).phase = "writing" /\ Writing(frame, i).id = i
         /\ Writing(frame, i).op = frame.op
  BY DEF Writing, Frames, Phases

\* The job a caller queues for the entry it works on.
LEMMA JobIsTyped ==
  ASSUME NEW c \in Clients, NEW i \in Ids, NEW kind, NEW v,
         \/ kind = "put" /\ v \in Entry
         \/ kind \in {"delete", "tool", "fence", "hit", "guard", "decay"} /\ v = Absent
         \/ kind = "auditPut" /\ v \in AuditRecords
         \/ kind = "auditDelete" /\ v \in Nat
  PROVE  [by |-> c, kind |-> kind, id |-> i, val |-> v] \in Jobs
  BY DEF Jobs

LEMMA PutBackTyped ==
  ASSUME TypeInv, NEW c \in Clients, NEW op \in AllOps, NEW i \in Ids,
         NEW e \in Entry, PutBack(c, op, i, e)
  PROVE  TypeInv'
<1> DEFINE frame == Writing([Idle EXCEPT !.op = op], i)
<1>1. [Idle EXCEPT !.op = op] \in Frames
  BY DEF Idle, Frames, Phases
<1>2. frame \in Frames /\ frame.phase = "writing" /\ frame.id = i
  BY <1>1, WritingTyped
<1>3. call[c].phase = "idle" /\ Enqueue(c, frame, "put", i, e)
  BY DEF PutBack, Begins
<1>4. CallInv'
  BY <1>2, <1>3, JobIsTyped, EnqueueCalls DEF TypeInv, Waits, AwaitedAs
<1> QED
  BY <1>4 DEF TypeInv, DataTyped, PutBack, Begins, history

LEMMA UpdateTyped ==
  ASSUME TypeInv, NEW c \in Clients,
         \/ Update(c) \/ Pin(c) \/ Unpin(c) \/ Archive(c) \/ Unarchive(c) \/ Supersede(c)
  PROVE  TypeInv'
<1>1. \A i \in Live : i \in Ids /\ entries[i] \in Entry
  BY LiveTyped DEF TypeInv
<1>2. ASSUME NEW e \in Entry
      PROVE  /\ \A x \in Contents : [e EXCEPT !.content = x] \in Entry
             /\ \A b \in BOOLEAN : /\ [e EXCEPT !.pinned = b] \in Entry
                                   /\ [e EXCEPT !.stale = b] \in Entry
                                   /\ [e EXCEPT !.superseded = b] \in Entry
  BY DEF Entry
<1>3. {"update", "pin", "unpin", "archive", "unarchive", "supersede"} \subseteq AllOps
  BY DEF AllOps
<1>4. CASE Update(c)
  BY <1>1, <1>2, <1>3, <1>4, PutBackTyped DEF Update
<1>5. CASE Pin(c)
  BY <1>1, <1>2, <1>3, <1>5, PutBackTyped DEF Pin
<1>6. CASE Unpin(c)
  BY <1>1, <1>2, <1>3, <1>6, PutBackTyped DEF Unpin
<1>7. CASE Archive(c)
  BY <1>1, <1>2, <1>3, <1>7, PutBackTyped DEF Archive
<1>8. CASE Unarchive(c)
  BY <1>1, <1>2, <1>3, <1>8, PutBackTyped DEF Unarchive
<1>9. CASE Supersede(c)
  BY <1>1, <1>2, <1>3, <1>9, PutBackTyped DEF Supersede
<1> QED
  BY <1>4, <1>5, <1>6, <1>7, <1>8, <1>9

LEMMA AddTyped ==
  ASSUME TypeInv, NEW c \in Clients, Add(c)
  PROVE  TypeInv'
<1>1. PICK i \in Ids \ minted, x \in Contents :
        /\ minted' = minted \cup {i}
        /\ Enqueue(c, Writing([Idle EXCEPT !.op = "add"], i), "put", i, Fresh(x))
  BY DEF Add
<1> DEFINE frame == Writing([Idle EXCEPT !.op = "add"], i)
<1>2. [Idle EXCEPT !.op = "add"] \in Frames
  BY DEF Idle, Frames, Phases, AllOps
<1>3. frame \in Frames /\ frame.phase = "writing" /\ frame.id = i
  BY <1>2, WritingTyped
<1>4. call[c].phase = "idle" /\ Fresh(x) \in Entry
  BY FreshTyped DEF Add, Begins
<1>5. CallInv'
  BY <1>1, <1>3, <1>4, JobIsTyped, EnqueueCalls DEF TypeInv, Waits, AwaitedAs
<1> QED
  BY <1>1, <1>5 DEF TypeInv, DataTyped, Add, Begins, history

LEMMA RemoveTyped ==
  ASSUME TypeInv, NEW c \in Clients, Remove(c)
  PROVE  TypeInv'
<1>1. PICK i \in Live :
        Enqueue(c, Writing([Idle EXCEPT !.op = "remove"], i), "delete", i, Absent)
  BY DEF Remove
<1> DEFINE frame == Writing([Idle EXCEPT !.op = "remove"], i)
<1>2. [Idle EXCEPT !.op = "remove"] \in Frames /\ i \in Ids
  BY LiveTyped DEF Idle, Frames, Phases, AllOps, TypeInv
<1>3. frame \in Frames /\ frame.phase = "writing" /\ frame.id = i
  BY <1>2, WritingTyped
<1>4. call[c].phase = "idle"
  BY DEF Remove, Begins
<1>5. CallInv'
  BY <1>1, <1>2, <1>3, <1>4, JobIsTyped, EnqueueCalls DEF TypeInv, Waits, AwaitedAs
<1> QED
  BY <1>5 DEF TypeInv, DataTyped, Remove, Begins, history

LEMMA LoopStartTyped ==
  ASSUME TypeInv, NEW c \in Clients,
         Janitor(c) \/ \E op \in Ops : Signal(c, op)
  PROVE  TypeInv'
<1>1. Live \subseteq Ids
  BY DEF Live
<1>2. CASE Janitor(c)
  <2> DEFINE overdue == {i \in Live : ~entries[i].pinned /\ entries[i].age >= 1}
             frame == Loop("janitor", overdue)
  <2>1. call[c].phase = "idle" /\ Goto(c, frame)
    BY <1>2 DEF Janitor, Begins
  <2>2. frame \in Frames /\ HasEntry(frame)
    BY <1>1, LoopTyped DEF AllOps
  <2>3. CallInv'
    BY <2>1, <2>2, GotoCalls DEF TypeInv, Waits
  <2> QED
    BY <1>2, <2>3 DEF TypeInv, DataTyped, Janitor, Begins, history
<1>3. ASSUME NEW op \in Ops, Signal(c, op) PROVE TypeInv'
  <2>1. PICK S \in SUBSET Live : Goto(c, Loop(op, S))
    BY <1>3 DEF Signal
  <2>2. call[c].phase = "idle" /\ op \in AllOps
    BY <1>3, StoreAssumption DEF Signal, Begins
  <2>3. CallInv'
    BY <1>1, <2>1, <2>2, LoopTyped, GotoCalls DEF TypeInv, Waits
  <2> QED
    BY <1>3, <2>3 DEF TypeInv, DataTyped, Signal, Begins, history
<1> QED
  BY <1>2, <1>3

LEMMA AppendAuditTyped ==
  ASSUME TypeInv, NEW c \in Clients, call[c].phase \notin Waits,
         NEW frame \in Frames, frame.id \in Ids, AppendAudit(c, frame)
  PROVE  CallInv' /\ auditSeq' \in Nat
<1> DEFINE record == [seq |-> NextSeq, id |-> frame.id, op |-> AuditOp(frame)]
           next == [frame EXCEPT !.phase = "auditing"]
<1>1. AuditOp(frame) \in {"add", "update", "remove", "readRaw"}
  BY DEF AuditOp
<1>2. NextSeq \in Nat
  BY DEF NextSeq, TypeInv, DataTyped
<1>3. record \in AuditRecords
  BY <1>1, <1>2 DEF AuditRecords
<1>4. next \in Frames /\ next.phase = "auditing" /\ next.id = frame.id
  BY DEF Frames, Phases
<1>5. Enqueue(c, next, "auditPut", frame.id, record) /\ auditSeq' = NextSeq
  BY DEF AppendAudit
<1>6. CallInv'
  BY <1>3, <1>4, <1>5, JobIsTyped, EnqueueCalls DEF TypeInv, AwaitedAs
<1> QED
  BY <1>2, <1>5, <1>6

LEMMA ReadRawTyped ==
  ASSUME TypeInv, NEW c \in Clients, ReadRaw(c)
  PROVE  TypeInv'
<1>1. PICK i \in Live : AppendAudit(c, [Idle EXCEPT !.op = "readRaw", !.id = i])
  BY DEF ReadRaw
<1>2. i \in Ids /\ call[c].phase = "idle"
  BY LiveTyped DEF ReadRaw, Begins, TypeInv
<1>3. [Idle EXCEPT !.op = "readRaw", !.id = i] \in Frames
  BY <1>2 DEF Idle, Frames, Phases, AllOps
<1>4. CallInv' /\ auditSeq' \in Nat
  BY <1>1, <1>2, <1>3, AppendAuditTyped DEF Waits, Idle
<1> QED
  BY <1>4 DEF TypeInv, DataTyped, ReadRaw, Begins, history

LEMMA FrameMoves ==
  ASSUME NEW f \in Frames, NEW p \in Phases
  PROVE  [f EXCEPT !.phase = p] \in Frames
         /\ [f EXCEPT !.phase = p].phase = p /\ [f EXCEPT !.phase = p].id = f.id
  BY DEF Frames

LEMMA ResumeTyped ==
  ASSUME TypeInv, NEW c \in Clients, Resume(c)
  PROVE  TypeInv'
<1> DEFINE f == call[c]
<1>1. f \in Frames /\ f.phase = "written" /\ f.phase \notin Waits /\ f.id \in Ids
  BY DEF Resume, TypeInv, CallInv, HasEntry, Waits
<1>2. CASE AppendAudit(c, f)
  BY <1>1, <1>2, AppendAuditTyped DEF TypeInv, DataTyped, Resume, history
<1>3. CASE /\ Goto(c, IF f.op \in Loops THEN [f EXCEPT !.phase = "next"] ELSE Idle)
           /\ UNCHANGED auditSeq
  <2> DEFINE g == IF f.op \in Loops THEN [f EXCEPT !.phase = "next"] ELSE Idle
  <2>1. g \in Frames /\ HasEntry(g)
    BY <1>1, FrameMoves, IdleTyped DEF HasEntry, Phases
  <2>2. CallInv'
    BY <1>1, <1>3, <2>1, GotoCalls DEF TypeInv
  <2> QED
    BY <1>3, <2>2 DEF TypeInv, DataTyped, Resume, history
<1> QED
  BY <1>2, <1>3 DEF Resume

LEMMA AuditSeqsTyped ==
  ASSUME audit \in Seq(AuditRecords)
  PROVE  /\ DOMAIN audit = 1..Len(audit) /\ Len(audit) \in Nat
         /\ \A n \in 1..Len(audit) : audit[n] \in AuditRecords /\ audit[n].seq \in Nat
         /\ AuditSeqs \subseteq Nat
<1>1. DOMAIN audit = 1..Len(audit) /\ Len(audit) \in Nat
  OBVIOUS
<1>2. \A n \in 1..Len(audit) : audit[n] \in AuditRecords
  OBVIOUS
<1>3. \A n \in 1..Len(audit) : audit[n].seq \in Nat
  BY <1>2 DEF AuditRecords
<1> QED
  BY <1>1, <1>2, <1>3 DEF AuditSeqs

LEMMA AuditedTyped ==
  ASSUME TypeInv, NEW c \in Clients, Audited(c)
  PROVE  TypeInv'
<1> DEFINE f == call[c]
           cut == IF f.ok /\ Len(audit) > AuditCap
                  THEN Oldest(AuditSeqs, Len(audit) - AuditCap) ELSE {}
           g == [f EXCEPT !.phase = "cut", !.cut = cut]
<1>1. f \in Frames /\ f.phase = "audited" /\ f.phase \notin Waits /\ f.id \in Ids
  BY DEF Audited, TypeInv, CallInv, HasEntry, Waits
<1>2. AuditSeqs \subseteq Nat
  BY AuditSeqsTyped DEF TypeInv, DataTyped
<1>3. cut \subseteq Nat
  BY <1>2 DEF Oldest
<1>4. g \in Frames /\ g.id = f.id
  BY <1>1, <1>3 DEF Frames, Phases
<1>5. Goto(c, g)
  BY DEF Audited
<1>6. CallInv'
  BY <1>1, <1>4, <1>5, GotoCalls DEF TypeInv, HasEntry
<1> QED
  BY <1>6 DEF TypeInv, DataTyped, Audited, history

LEMMA TrimAuditTyped ==
  ASSUME TypeInv, NEW c \in Clients, TrimAudit(c)
  PROVE  TypeInv'
<1> DEFINE f == call[c]
<1>1. f \in Frames /\ f.phase = "cut" /\ f.phase \notin Waits /\ f.id \in Ids
  BY DEF TrimAudit, TypeInv, CallInv, HasEntry, Waits
<1>2. CASE Goto(c, IF f.op \in Loops \cup {"add"}
                   THEN [f EXCEPT !.phase = "next"] ELSE Idle)
  <2> DEFINE g == IF f.op \in Loops \cup {"add"}
                  THEN [f EXCEPT !.phase = "next"] ELSE Idle
  <2>1. g \in Frames /\ HasEntry(g)
    BY <1>1, FrameMoves, IdleTyped DEF HasEntry, Phases
  <2>2. CallInv'
    BY <1>1, <1>2, <2>1, GotoCalls DEF TypeInv
  <2> QED
    BY <2>2 DEF TypeInv, DataTyped, TrimAudit, history
<1>3. ASSUME NEW q \in f.cut,
             Enqueue(c, [f EXCEPT !.phase = "cutting", !.cut = f.cut \ {q}],
                     "auditDelete", f.id, q)
      PROVE  TypeInv'
  <2> DEFINE g == [f EXCEPT !.phase = "cutting", !.cut = f.cut \ {q}]
  <2>1. g \in Frames /\ g.id = f.id /\ g.phase = "cutting" /\ q \in Nat
    BY <1>1 DEF Frames, Phases
  <2>2. [by |-> c, kind |-> "auditDelete", id |-> f.id, val |-> q] \in Jobs
    BY <1>1, <2>1, JobIsTyped
  <2>3. CallInv'
    BY <1>1, <1>3, <2>1, <2>2, EnqueueCalls DEF TypeInv, AwaitedAs
  <2> QED
    BY <2>3 DEF TypeInv, DataTyped, TrimAudit, history
<1> QED
  BY <1>2, <1>3 DEF TrimAudit

LEMMA TrimEntriesTyped ==
  ASSUME TypeInv, NEW c \in Clients, TrimEntries(c)
  PROVE  TypeInv'
<1>1. call[c].phase = "next" /\ call[c].phase \notin Waits
  BY DEF TrimEntries, Waits
<1>2. \A V \in Victims : V \in SUBSET Ids
  BY DEF Victims, Unpinned, Live
<1>3. CallInv'
  BY <1>1, <1>2, IdleTyped, LoopTyped, GotoCalls DEF TrimEntries, TypeInv
<1> QED
  BY <1>3 DEF TypeInv, DataTyped, TrimEntries, history

\* The job of one turn of a loop, and the frame its caller waits in.
Turn(c, frame, kind, i) ==
  /\ Enqueue(c, frame, kind, i, Absent)
  /\ kind \in {"delete", "tool", "fence", "hit", "guard", "decay"}
  /\ frame \in Frames /\ frame.op = call[c].op
  /\ frame.cut = call[c].cut /\ frame.todo = call[c].todo \ {i}
  /\ frame.id = i /\ frame.phase = AwaitedAs(kind)
  /\ kind = "delete" => frame.op = "trim"
  /\ kind \in {"tool", "fence", "hit"} => frame.op = kind
  /\ kind \in {"guard", "decay"} =>
       frame.op = "janitor" /\ (i \in frame.shield => Spared(i))
  /\ kind = "guard" => i \in Project
  /\ kind = "decay" => i \notin Project

LEMMA StepTurns ==
  ASSUME NEW c \in Clients, call[c] \in Frames, Step(c)
  PROVE  \/ call[c].todo = {} /\ Goto(c, Idle)
         \/ \E i \in call[c].todo :
              \/ call[c].op = "hit" /\ Goto(c, [call[c] EXCEPT !.todo = call[c].todo \ {i}])
              \/ \E frame, kind : Turn(c, frame, kind, i)
<1> DEFINE f == call[c]
           g(i) == [Writing(f, i) EXCEPT !.todo = f.todo \ {i}]
           h(i) == [g(i) EXCEPT !.shield = {j \in {i} : Spared(j)}]
           k(i) == [h(i) EXCEPT !.phase = "guard"]
<1>1. ASSUME NEW i \in f.todo
      PROVE  /\ g(i) \in Frames /\ g(i).phase = "writing" /\ g(i).id = i /\ g(i).op = f.op
             /\ g(i).cut = f.cut /\ g(i).todo = f.todo \ {i}
             /\ h(i) \in Frames /\ h(i).phase = "writing" /\ h(i).id = i /\ h(i).op = f.op
             /\ h(i).cut = f.cut /\ h(i).todo = f.todo \ {i}
             /\ h(i).shield = {j \in {i} : Spared(j)}
             /\ k(i) \in Frames /\ k(i).phase = "guard" /\ k(i).id = i /\ k(i).op = f.op
             /\ k(i).cut = f.cut /\ k(i).todo = f.todo \ {i}
             /\ k(i).shield = {j \in {i} : Spared(j)}
  <2>1. i \in Ids
    BY DEF Frames
  <2> QED
    BY <2>1 DEF Writing, Frames, Phases
<1>2. \/ f.todo = {} /\ Goto(c, Idle)
      \/ \E i \in f.todo :
           \/ f.op = "trim" /\ Enqueue(c, g(i), "delete", i, Absent)
           \/ f.op \in {"tool", "fence", "hit"} /\ Enqueue(c, g(i), f.op, i, Absent)
           \/ f.op = "hit" /\ Goto(c, [f EXCEPT !.todo = f.todo \ {i}])
           \/ f.op = "janitor" /\ i \in Project /\ Enqueue(c, k(i), "guard", i, Absent)
           \/ f.op = "janitor" /\ i \notin Project /\ Enqueue(c, h(i), "decay", i, Absent)
  <2> HIDE DEF g, h, k
  <2>1. ASSUME NEW i \in f.todo, f.op \in {"tool", "fence", "hit"}, QueueSignal(c, g(i), i)
        PROVE  Enqueue(c, g(i), f.op, i, Absent)
    BY <1>1, <2>1 DEF QueueSignal
  <2> USE DEF g, h, k
  <2> QED
    BY <2>1 DEF Step
<1> HIDE DEF g, h, k
<1>3. ASSUME NEW i \in f.todo,
             \/ f.op = "trim" /\ Enqueue(c, g(i), "delete", i, Absent)
             \/ f.op \in {"tool", "fence", "hit"} /\ Enqueue(c, g(i), f.op, i, Absent)
             \/ f.op = "janitor" /\ i \in Project /\ Enqueue(c, k(i), "guard", i, Absent)
             \/ f.op = "janitor" /\ i \notin Project /\ Enqueue(c, h(i), "decay", i, Absent)
      PROVE  \E frame, kind : Turn(c, frame, kind, i)
  <2>1. CASE f.op = "trim" /\ Enqueue(c, g(i), "delete", i, Absent)
    <3>1. Turn(c, g(i), "delete", i)
      BY <1>1, <2>1 DEF Turn, AwaitedAs
    <3> QED
      BY <3>1
  <2>2. CASE f.op \in {"tool", "fence", "hit"} /\ Enqueue(c, g(i), f.op, i, Absent)
    <3>1. Turn(c, g(i), f.op, i)
      BY <1>1, <2>2 DEF Turn, AwaitedAs
    <3> QED
      BY <3>1
  <2>3. CASE f.op = "janitor" /\ i \in Project /\ Enqueue(c, k(i), "guard", i, Absent)
    <3>1. Turn(c, k(i), "guard", i)
      BY <1>1, <2>3 DEF Turn, AwaitedAs
    <3> QED
      BY <3>1
  <2>4. CASE f.op = "janitor" /\ i \notin Project /\ Enqueue(c, h(i), "decay", i, Absent)
    <3>1. Turn(c, h(i), "decay", i)
      BY <1>1, <2>4 DEF Turn, AwaitedAs
    <3> QED
      BY <3>1
  <2> QED
    BY <1>3, <2>1, <2>2, <2>3, <2>4
<1> QED
  BY <1>2, <1>3

LEMMA StepOfLoopTyped ==
  ASSUME TypeInv, NEW c \in Clients, Step(c)
  PROVE  TypeInv'
<1>1. /\ call[c] \in Frames /\ call[c].phase = "next" /\ call[c].phase \notin Waits
      /\ call[c].todo \subseteq Ids
  BY DEF Step, TypeInv, CallInv, Frames, Waits
<1>2. ASSUME NEW frame \in Frames, frame.phase = "next", Goto(c, frame) PROVE CallInv'
  BY <1>1, <1>2, GotoCalls DEF TypeInv, HasEntry
<1>3. ASSUME NEW i \in call[c].todo PROVE
        LET frame == [call[c] EXCEPT !.todo = call[c].todo \ {i}]
        IN  frame \in Frames /\ frame.phase = "next"
  BY <1>1 DEF Frames
<1>4. ASSUME NEW i \in call[c].todo, NEW frame, NEW kind, Turn(c, frame, kind, i)
      PROVE  CallInv'
  <2>1. i \in Ids /\ [by |-> c, kind |-> kind, id |-> i, val |-> Absent] \in Jobs
    BY <1>1, <1>4, JobIsTyped DEF Turn
  <2> QED
    BY <1>1, <1>4, <2>1, EnqueueCalls DEF Turn, TypeInv
<1>5. CallInv'
  BY <1>1, <1>2, <1>3, <1>4, StepTurns, IdleTyped, GotoCalls DEF TypeInv
<1> QED
  BY <1>5 DEF TypeInv, DataTyped, Step, history

LEMMA GuardedTyped ==
  ASSUME TypeInv, NEW c \in Clients, Guarded(c)
  PROVE  TypeInv'
<1> DEFINE f == call[c]
<1>1. f \in Frames /\ f.phase = "guarded" /\ f.phase \notin Waits /\ f.id \in Ids
  BY DEF Guarded, TypeInv, CallInv, HasEntry, Waits
<1>2. CASE Enqueue(c, Writing(f, f.id), "delete", f.id, Absent)
  <2>1. /\ Writing(f, f.id) \in Frames /\ Writing(f, f.id).phase = "writing"
        /\ Writing(f, f.id).id = f.id
    BY <1>1, WritingTyped
  <2>2. CallInv'
    BY <1>1, <1>2, <2>1, JobIsTyped, EnqueueCalls DEF TypeInv, AwaitedAs
  <2> QED
    BY <2>2 DEF TypeInv, DataTyped, Guarded, history
<1>3. CASE Goto(c, [f EXCEPT !.phase = "next"])
  <2>1. [f EXCEPT !.phase = "next"] \in Frames /\ HasEntry([f EXCEPT !.phase = "next"])
    BY <1>1, FrameMoves DEF HasEntry, Phases
  <2>2. CallInv'
    BY <1>1, <1>3, <2>1, GotoCalls DEF TypeInv
  <2> QED
    BY <2>2 DEF TypeInv, DataTyped, Guarded, history
<1> QED
  BY <1>2, <1>3 DEF Guarded

-----------------------------------------------------------------------------
(* Type correctness of landings, rejections and the environment.           *)

LEMMA AnswerTyped ==
  ASSUME NEW phase \in Waits
  PROVE  Answer(phase) \in Phases \ {"idle"}
  BY DEF Waits, Answer, Phases

LEMMA TookTyped ==
  ASSUME NEW job \in Jobs, DataTyped
  PROVE  Took(job) \in BOOLEAN
<1>1. job.kind \in JobKinds /\ job.id \in Ids
  BY JobTyped
<1>2. entries[job.id] # Absent => entries[job.id].pinned \in BOOLEAN
  BY <1>1 DEF DataTyped, Entry
<1> QED
  BY <1>1, <1>2 DEF Took, JobKinds, Removed

LEMMA WrittenTyped ==
  ASSUME NEW job \in Jobs, DataTyped
  PROVE  /\ Written(job) \in Entry \cup {Absent}
         /\ job.kind # "delete" /\ (job.kind = "put" \/ entries[job.id] # Absent) =>
              Written(job) \in Entry
<1> DEFINE e == entries[job.id]
<1>1. /\ job.kind \in JobKinds /\ job.id \in Ids
      /\ job.kind = "put" => job.val \in Entry
  BY JobTyped
<1>2. e \in Entry \cup {Absent}
  BY <1>1 DEF DataTyped
<1>3. ASSUME NEW r \in Entry
      PROVE  Recalled(r) \in Entry
  <2>1. \A b \in BOOLEAN, n \in 0..2 : [r EXCEPT !.stale = b, !.age = n] \in Entry
    BY DEF Entry
  <2>2. 0 \in 0..2
    OBVIOUS
  <2> QED
    BY <2>1, <2>2 DEF Recalled
<1>4. ASSUME NEW r \in Entry
      PROVE  [r EXCEPT !.access = @ + 1] \in Entry /\ Hit(r) \in Entry
  <2>1. r.access + 1 \in Nat /\ r.hits + 1 \in Nat
    BY DEF Entry
  <2> QED
    BY <2>1 DEF Entry, Hit
<1>5. ASSUME NEW r \in Entry, NEW b \in BOOLEAN
      PROVE  [r EXCEPT !.stale = b] \in Entry
  BY DEF Entry
<1>6. ASSUME NEW r \in Entry, NEW b
      PROVE  (r.stale \/ b) \in BOOLEAN
  BY Zenon
<1>7. ASSUME e \in Entry
      PROVE  /\ Recalled(e) \in Entry
             /\ [Recalled(e) EXCEPT !.access = @ + 1] \in Entry
             /\ Hit(e) \in Entry
             /\ [e EXCEPT !.stale = @ \/ DecayDue(job.id)] \in Entry
  <2>1. Recalled(e) \in Entry
    BY <1>3, <1>7
  <2>2. PICK r \in Entry : r = Recalled(e)
    BY <2>1
  <2>3. [r EXCEPT !.access = @ + 1] \in Entry
    BY <1>4
  <2>4. PICK b \in BOOLEAN : b = (e.stale \/ DecayDue(job.id))
    BY <1>6, <1>7
  <2>5. [e EXCEPT !.stale = b] \in Entry
    BY <1>5, <1>7
  <2>6. Hit(e) \in Entry
    BY <1>4, <1>7
  <2> QED
    BY <2>1, <2>2, <2>3, <2>4, <2>5, <2>6, Zenon
<1> QED
  BY <1>1, <1>2, <1>7 DEF Written

LEMMA AuditAfterLanding ==
  ASSUME TypeInv, NEW job \in Jobs,
         audit' = CASE job.kind = "auditPut" -> Append(audit, job.val)
                    [] job.kind = "auditDelete" /\ job.val \in AuditSeqs ->
                         Without(audit, PositionOf(job.val))
                    [] OTHER -> audit
  PROVE  \/ job.kind = "auditPut" /\ audit' = Append(audit, job.val)
         \/ /\ job.kind # "auditPut"
            /\ \E n \in 1..Len(audit) : audit' = Without(audit, n)
         \/ job.kind # "auditPut" /\ audit' = audit
<1>1. ASSUME job.val \in AuditSeqs
      PROVE  PositionOf(job.val) \in 1..Len(audit)
  <2>1. \E n \in DOMAIN audit : audit[n].seq = job.val
    BY <1>1 DEF AuditSeqs
  <2>2. DOMAIN audit = 1..Len(audit)
    BY AuditSeqsTyped DEF TypeInv, DataTyped
  <2> QED
    BY <2>1, <2>2, Zenon DEF PositionOf
<1>2. CASE job.kind = "auditPut"
  BY <1>2
<1>3. CASE job.kind = "auditDelete" /\ job.val \in AuditSeqs
  <2>1. job.kind # "auditPut" /\ audit' = Without(audit, PositionOf(job.val))
    BY <1>3
  <2> QED
    BY <1>1, <1>3, <2>1
<1>4. CASE job.kind # "auditPut" /\ ~(job.kind = "auditDelete" /\ job.val \in AuditSeqs)
  BY <1>4
<1> QED
  BY <1>2, <1>3, <1>4

LEMMA LandTyped ==
  ASSUME TypeInv, Land
  PROVE  TypeInv'
<1> DEFINE job == Head(chain)
           f == call[job.by]
           g == [f EXCEPT !.phase = Answer(f.phase), !.ok = Took(job)]
<1>1. chain # <<>> /\ chain' = Tail(chain) /\ call' = [call EXCEPT ![job.by] = g]
  BY DEF Land
<1>2. /\ job \in Jobs /\ job.by \in Clients /\ job.id \in Ids
      /\ f \in Frames /\ f.phase \in Waits /\ f.id \in Ids
  BY <1>1, HeadTyped DEF TypeInv
<1>3. Answer(f.phase) \in Phases /\ Took(job) \in BOOLEAN
  BY <1>2, AnswerTyped, TookTyped DEF TypeInv
<1>4. g \in Frames /\ HasEntry(g)
  BY <1>2, <1>3 DEF Frames, HasEntry
<1>5. CallInv'
  <2>1. PICK frame : frame = g
    OBVIOUS
  <2>2. frame \in Frames /\ HasEntry(frame)
    BY <1>4, <2>1
  <2>3. call' = [call EXCEPT ![Head(chain).by] = frame]
    BY <1>1, <2>1
  <2> HIDE DEF job, f, g
  <2> QED
    BY <1>1, <2>2, <2>3, AnswerCalls DEF TypeInv
<1>6. entries' \in [Ids -> Entry \cup {Absent}]
  BY <1>2, WrittenTyped DEF Land, TypeInv, DataTyped
<1>7. audit' \in Seq(AuditRecords)
  <2>1. audit \in Seq(AuditRecords)
    BY DEF TypeInv, DataTyped
  <2>2. \/ job.kind = "auditPut" /\ audit' = Append(audit, job.val)
        \/ \E n \in 1..Len(audit) : audit' = Without(audit, n)
        \/ audit' = audit
    BY <1>2, AuditAfterLanding DEF Land
  <2>3. CASE job.kind = "auditPut" /\ audit' = Append(audit, job.val)
    BY <1>2, <2>1, <2>3, JobTyped
  <2>4. CASE \E n \in 1..Len(audit) : audit' = Without(audit, n)
    BY <2>1, <2>4, WithoutPositions DEF Without
  <2> QED
    BY <2>1, <2>2, <2>3, <2>4
<1>8. lastEdit' \in [Ids -> Contents]
  <2>1. job.kind = "put" => job.val.content \in Contents
    BY <1>2, JobTyped DEF Entry
  <2>2. \/ lastEdit' = lastEdit
        \/ job.kind = "put" /\ lastEdit' = [lastEdit EXCEPT ![job.id] = job.val.content]
    BY DEF Land
  <2> QED
    BY <2>1, <2>2 DEF TypeInv, DataTyped
<1>9. hitsLanded' \in [Ids -> Nat] /\ hitsBeside' \in [Ids -> Nat]
  <2>1. \/ hitsLanded' = hitsLanded
        \/ hitsLanded' = [hitsLanded EXCEPT ![job.id] = hitsLanded[job.id] + 1]
    BY DEF Land
  <2>2. \/ hitsBeside' = hitsBeside
        \/ hitsBeside' = [hitsBeside EXCEPT ![job.id] = hitsBeside[job.id] + 1]
    BY DEF Land
  <2>3. hitsLanded' \in [Ids -> Nat]
    BY <1>2, <2>1 DEF TypeInv, DataTyped
  <2>4. hitsBeside' \in [Ids -> Nat]
    BY <1>2, <2>2 DEF TypeInv, DataTyped
  <2> QED
    BY <2>3, <2>4
<1> QED
  BY <1>5, <1>6, <1>7, <1>8, <1>9 DEF TypeInv, DataTyped, Land

LEMMA RejectTyped ==
  ASSUME TypeInv, Reject
  PROVE  TypeInv'
<1> DEFINE job == Head(chain)
           f == call[job.by]
           ok == job.kind = "guard" /\ Took(job)
           g == [f EXCEPT !.phase = Answer(f.phase), !.ok = ok]
           h == CASE job.kind = "delete" -> [g EXCEPT !.todo = {}]
                  [] job.kind = "auditDelete" -> [g EXCEPT !.cut = {}]
                  [] OTHER -> g
<1>1. chain # <<>> /\ chain' = Tail(chain) /\ call' = [call EXCEPT ![job.by] = h]
  BY DEF Reject
<1>2. /\ job \in Jobs /\ f \in Frames /\ f.phase \in Waits /\ f.id \in Ids
  BY <1>1, HeadTyped DEF TypeInv
<1>3. Answer(f.phase) \in Phases
  BY <1>2, AnswerTyped
<1>4. ok \in BOOLEAN
  BY Zenon
<1>5. g \in Frames /\ g.id = f.id
  <2> HIDE DEF ok, job
  <2> QED
    BY <1>2, <1>3, <1>4 DEF Frames
<1>6. h \in Frames /\ HasEntry(h)
  <2> HIDE DEF ok
  <2>1. [g EXCEPT !.todo = {}] \in Frames /\ [g EXCEPT !.todo = {}].id = f.id
    BY <1>5 DEF Frames
  <2>2. [g EXCEPT !.cut = {}] \in Frames /\ [g EXCEPT !.cut = {}].id = f.id
    BY <1>5 DEF Frames
  <2>3. h \in Frames /\ h.id = f.id
    <3> HIDE DEF g
    <3> QED
      BY <1>5, <2>1, <2>2
  <2> QED
    BY <1>2, <2>3 DEF HasEntry
<1>7. CallInv'
  <2>1. PICK frame : frame = h
    OBVIOUS
  <2>2. frame \in Frames /\ HasEntry(frame)
    BY <1>6, <2>1
  <2>3. call' = [call EXCEPT ![Head(chain).by] = frame]
    BY <1>1, <2>1
  <2> HIDE DEF job, f, g, h, ok
  <2> QED
    BY <1>1, <2>2, <2>3, AnswerCalls DEF TypeInv
<1> QED
  BY <1>7 DEF TypeInv, DataTyped, Reject, history

LEMMA AgeingTyped ==
  ASSUME TypeInv, NEW i \in Ids, Ageing(i)
  PROVE  TypeInv'
<1>1. entries[i] \in Entry /\ entries[i].age < 2
  BY LiveTyped DEF Ageing, TypeInv
<1>2. entries[i].age + 1 \in 0..2
  BY <1>1 DEF Entry
<1>3. [entries[i] EXCEPT !.age = entries[i].age + 1] \in Entry
  BY <1>1, <1>2 DEF Entry
<1>4. entries' = [entries EXCEPT ![i] = [entries[i] EXCEPT !.age = entries[i].age + 1]]
  BY DEF Ageing
<1>5. entries' \in [Ids -> Entry \cup {Absent}]
  BY <1>3, <1>4 DEF TypeInv, DataTyped
<1>6. CallInv'
  BY DEF TypeInv, CallInv, Waiting, Ageing
<1> QED
  BY <1>5, <1>6 DEF TypeInv, DataTyped, Ageing, history

LEMMA InitTyped == Init => TypeInv
<1> SUFFICES ASSUME Init PROVE TypeInv
  OBVIOUS
<1>1. PICK x \in Contents, P \in SUBSET Stored :
        /\ lastEdit = [i \in Ids |-> x]
        /\ entries = [i \in Ids |-> IF i \in Stored
                                    THEN [Fresh(x) EXCEPT !.pinned = i \in P]
                                    ELSE Absent]
  BY DEF Init
<1>2. \A r \in Entry, b \in BOOLEAN : [r EXCEPT !.pinned = b] \in Entry
  BY DEF Entry
<1>3. \A i \in Ids : [Fresh(x) EXCEPT !.pinned = i \in P] \in Entry
  <2>1. Fresh(x) \in Entry
    BY FreshTyped
  <2> TAKE i \in Ids
  <2>2. (i \in P) \in BOOLEAN
    OBVIOUS
  <2> QED
    BY <1>2, <2>1, <2>2
<1>4. entries \in [Ids -> Entry \cup {Absent}]
  BY <1>1, <1>3
<1>5. DataTyped
  BY <1>1, <1>4, StoreAssumption DEF Init, DataTyped
<1>6. CallInv
  BY IdleTyped DEF Init, CallInv, Waiting
<1> QED
  BY <1>5, <1>6 DEF TypeInv

-----------------------------------------------------------------------------
(* What the steps of a caller have in common: they leave the tables alone  *)
(* and queue at most one job.                                              *)

\* An entry is put only by a caller that has just read it or just minted its
\* id, and a put repeats the counters it has read.
PutIsRead(i, v) ==
  \/ i \in Live /\ v.hits = entries[i].hits
  \/ i \in minted' \ minted /\ v.hits = 0

\* Audit records are numbered as they are queued.
Queues(job) ==
  /\ chain' = Append(chain, job)
  /\ job.kind = "auditPut" => auditSeq' = auditSeq + 1 /\ job.val.seq = auditSeq + 1
  /\ job.kind # "auditPut" => auditSeq' = auditSeq
  /\ job.kind = "put" => PutIsRead(job.id, job.val)

CallerMoves ==
  /\ UNCHANGED <<entries, audit, faults, crashes, history>>
  /\ minted \subseteq minted'
  /\ \/ UNCHANGED <<chain, auditSeq>>
     \/ \E job : Queues(job)

LEMMA EnqueueMoves ==
  ASSUME NEW c, NEW frame, NEW kind, NEW i, NEW v,
         Enqueue(c, frame, kind, i, v), auditSeq' = auditSeq, kind # "auditPut",
         kind = "put" => PutIsRead(i, v)
  PROVE  \E job : Queues(job)
<1> DEFINE job == [by |-> c, kind |-> kind, id |-> i, val |-> v]
<1>1. chain' = Append(chain, job) /\ job.kind = kind /\ job.id = i /\ job.val = v
  BY DEF Enqueue
<1>2. Queues(job)
  BY <1>1 DEF Queues
<1> QED
  BY <1>2

LEMMA AppendAuditMoves ==
  ASSUME NEW c, NEW frame, AppendAudit(c, frame)
  PROVE  \E job : Queues(job)
<1> DEFINE record == [seq |-> NextSeq, id |-> frame.id, op |-> AuditOp(frame)]
           job == [by |-> c, kind |-> "auditPut", id |-> frame.id, val |-> record]
<1>1. chain' = Append(chain, job) /\ auditSeq' = auditSeq + 1
  BY DEF AppendAudit, Enqueue, NextSeq
<1>2. job.kind = "auditPut" /\ job.val.seq = auditSeq + 1
  BY DEF NextSeq
<1>3. Queues(job)
  BY <1>1, <1>2 DEF Queues
<1> QED
  BY <1>3

LEMMA StartMoves ==
  ASSUME TypeInv, NEW c \in Clients, Start(c)
  PROVE  CallerMoves
<1>0. \A i \in Live : entries[i] \in Entry
  BY LiveTyped DEF TypeInv
<1>1. ASSUME NEW op, NEW i \in Live, NEW e, e.hits = entries[i].hits, PutBack(c, op, i, e)
      PROVE  CallerMoves
  <2>1. \E job : Queues(job)
    BY <1>1, EnqueueMoves DEF PutBack, PutIsRead
  <2> QED
    BY <1>1, <2>1 DEF CallerMoves, PutBack, Begins, history
<1>2. CASE Add(c)
  <2>1. PICK i \in Ids \ minted, x \in Contents :
          /\ minted' = minted \cup {i}
          /\ Enqueue(c, Writing([Idle EXCEPT !.op = "add"], i), "put", i, Fresh(x))
    BY <1>2 DEF Add
  <2>2. \E job : Queues(job)
    BY <1>2, <2>1, EnqueueMoves DEF Add, PutIsRead, Fresh
  <2> QED
    BY <1>2, <2>1, <2>2 DEF CallerMoves, Add, Begins, history
<1>3. CASE Update(c)
  BY <1>0, <1>1, <1>3 DEF Update, Entry
<1>4. CASE Pin(c)
  BY <1>0, <1>1, <1>4 DEF Pin, Entry
<1>5. CASE Unpin(c)
  BY <1>0, <1>1, <1>5 DEF Unpin, Entry
<1>6. CASE Archive(c)
  BY <1>0, <1>1, <1>6 DEF Archive, Entry
<1>7. CASE Unarchive(c)
  BY <1>0, <1>1, <1>7 DEF Unarchive, Entry
<1>8. CASE Supersede(c)
  BY <1>0, <1>1, <1>8 DEF Supersede, Entry
<1>9. CASE Remove(c)
  <2>1. PICK i \in Live :
          Enqueue(c, Writing([Idle EXCEPT !.op = "remove"], i), "delete", i, Absent)
    BY <1>9 DEF Remove
  <2>2. \E job : Queues(job)
    BY <1>9, <2>1, EnqueueMoves DEF Remove
  <2> QED
    BY <1>9, <2>2 DEF CallerMoves, Remove, Begins, history
<1>10. CASE ReadRaw(c)
  <2>1. \E job : Queues(job)
    BY <1>10, AppendAuditMoves DEF ReadRaw
  <2> QED
    BY <1>10, <2>1 DEF CallerMoves, ReadRaw, Begins, history
<1>11. CASE Janitor(c)
  BY <1>11 DEF CallerMoves, Janitor, Begins, Goto, history
<1>12. CASE \E op \in Ops : Signal(c, op)
  BY <1>12 DEF CallerMoves, Signal, Begins, Goto, history
<1> QED
  BY <1>2, <1>3, <1>4, <1>5, <1>6, <1>7, <1>8, <1>9, <1>10, <1>11, <1>12 DEF Start

LEMMA StepMoves ==
  ASSUME TypeInv, NEW c \in Clients, Step(c)
  PROVE  CallerMoves
<1>1. /\ UNCHANGED <<entries, audit, auditSeq, minted, faults, crashes, history>>
      /\ call[c] \in Frames
  BY DEF Step, history, TypeInv, CallInv
<1>2. ASSUME NEW i, NEW frame, NEW kind, Turn(c, frame, kind, i)
      PROVE  CallerMoves
  <2>1. \E job : Queues(job)
    BY <1>1, <1>2, EnqueueMoves DEF Turn
  <2> QED
    BY <1>1, <2>1 DEF CallerMoves
<1>3. ASSUME NEW frame, Goto(c, frame) PROVE CallerMoves
  BY <1>1, <1>3 DEF CallerMoves, Goto
<1> QED
  BY <1>1, <1>2, <1>3, StepTurns

LEMMA ProceedMoves ==
  ASSUME TypeInv, NEW c \in Clients, Proceed(c)
  PROVE  CallerMoves
<1>1. CASE Resume(c)
  <2>1. CASE AppendAudit(c, call[c])
    BY <1>1, <2>1, AppendAuditMoves DEF CallerMoves, Resume, history
  <2>2. CASE UNCHANGED <<chain, auditSeq>>
    BY <1>1, <2>2 DEF CallerMoves, Resume, history
  <2> QED
    BY <1>1, <2>1, <2>2 DEF Resume, Goto
<1>2. CASE Audited(c)
  BY <1>2 DEF CallerMoves, Audited, Goto, history
<1>3. CASE TrimAudit(c)
  <2>1. UNCHANGED <<entries, audit, auditSeq, minted, faults, crashes, history>>
    BY <1>3 DEF TrimAudit, history
  <2>2. \/ UNCHANGED chain
        \/ \E frame, i, q : Enqueue(c, frame, "auditDelete", i, q)
    BY <1>3 DEF TrimAudit, Goto
  <2>3. UNCHANGED chain \/ \E job : Queues(job)
    BY <2>1, <2>2, EnqueueMoves
  <2> QED
    BY <2>1, <2>3 DEF CallerMoves
<1>4. CASE TrimEntries(c)
  <2>1. UNCHANGED chain
    BY <1>4 DEF TrimEntries, Goto
  <2> QED
    BY <1>4, <2>1 DEF CallerMoves, TrimEntries, history
<1>5. CASE Step(c)
  BY <1>5, StepMoves
<1>6. CASE Guarded(c)
  <2>1. UNCHANGED <<entries, audit, auditSeq, minted, faults, crashes, history>>
    BY <1>6 DEF Guarded, history
  <2>2. UNCHANGED chain \/ \E frame, i : Enqueue(c, frame, "delete", i, Absent)
    BY <1>6 DEF Guarded, Goto
  <2>3. UNCHANGED chain \/ \E job : Queues(job)
    BY <2>1, <2>2, EnqueueMoves
  <2> QED
    BY <2>1, <2>3 DEF CallerMoves
<1> QED
  BY <1>1, <1>2, <1>3, <1>4, <1>5, <1>6 DEF Proceed

-----------------------------------------------------------------------------
(* Audit records are numbered in the order they are queued, and the number *)
(* in hand is never below one on the table or on its way there.            *)

Numbered(n) == n \in 1..Len(chain) /\ chain[n].kind = "auditPut"

OrderInv ==
  /\ \A n \in 1..Len(audit) : audit[n].seq <= auditSeq
  /\ \A m, n \in 1..Len(audit) : m < n => audit[m].seq < audit[n].seq
  /\ \A n \in 1..Len(chain) : Numbered(n) =>
       /\ chain[n].val.seq <= auditSeq
       /\ \A m \in 1..Len(audit) : audit[m].seq < chain[n].val.seq
  /\ \A m, n \in 1..Len(chain) :
       Numbered(m) /\ Numbered(n) /\ m < n => chain[m].val.seq < chain[n].val.seq

LEMMA ChainTyped ==
  ASSUME TypeInv
  PROVE  /\ Len(chain) \in Nat /\ Len(audit) \in Nat /\ auditSeq \in Nat
         /\ \A n \in 1..Len(chain) :
              chain[n] \in Jobs /\ (Numbered(n) => chain[n].val.seq \in Nat)
         /\ \A n \in 1..Len(audit) : audit[n] \in AuditRecords /\ audit[n].seq \in Nat
<1>1. chain \in Seq(Jobs) /\ audit \in Seq(AuditRecords) /\ auditSeq \in Nat
  BY DEF TypeInv, CallInv, DataTyped
<1>2. \A n \in 1..Len(chain) : chain[n] \in Jobs
  BY <1>1
<1>3. \A n \in 1..Len(chain) : Numbered(n) => chain[n].val \in AuditRecords
  BY <1>2, JobTyped DEF Numbered
<1>4. \A r \in AuditRecords : r.seq \in Nat
  BY DEF AuditRecords
<1> QED
  BY <1>1, <1>2, <1>3, <1>4, AuditSeqsTyped

\* What queuing a job leaves of the positions of the chain.
LEMMA QueuedPositions ==
  ASSUME TypeInv, TypeInv', NEW job, chain' = Append(chain, job)
  PROVE  /\ job \in Jobs
         /\ 1..Len(chain') = 1..Len(chain) \cup {Len(chain) + 1}
         /\ \A n \in 1..Len(chain) : chain'[n] = chain[n] /\ n < Len(chain) + 1
         /\ chain'[Len(chain) + 1] = job
<1>1. chain \in Seq(Jobs) /\ chain' \in Seq(Jobs)
  BY DEF TypeInv, CallInv
<1>2. job \in Jobs
  <2>1. Len(chain') = Len(chain) + 1 /\ chain'[Len(chain) + 1] = job
    BY <1>1
  <2>2. Len(chain) + 1 \in 1..Len(chain')
    BY <1>1, <2>1
  <2> QED
    BY <1>1, <2>1, <2>2
<1> QED
  BY <1>1, <1>2, AppendPositions

LEMMA CallerKeepsOrder ==
  ASSUME TypeInv, OrderInv, TypeInv', CallerMoves
  PROVE  OrderInv'
<1>1. audit' = audit
  BY DEF CallerMoves
<1>2. CASE UNCHANGED <<chain, auditSeq>>
  BY <1>1, <1>2 DEF OrderInv, Numbered
<1>3. ASSUME NEW job, Queues(job) PROVE OrderInv'
  <2>1. /\ 1..Len(chain') = 1..Len(chain) \cup {Len(chain) + 1}
        /\ \A n \in 1..Len(chain) : chain'[n] = chain[n] /\ n < Len(chain) + 1
        /\ chain'[Len(chain) + 1] = job
    BY <1>3, QueuedPositions DEF Queues
  <2>2. auditSeq \in Nat /\ auditSeq' \in Nat /\ auditSeq <= auditSeq'
    BY <1>3, ChainTyped DEF Queues
  <2>3. \A n \in 1..Len(audit') : audit'[n].seq <= auditSeq'
    BY <1>1, <2>2, ChainTyped DEF OrderInv
  <2>4. job.kind = "auditPut" => /\ job.val.seq = auditSeq + 1
                                 /\ auditSeq' = auditSeq + 1
    BY <1>3 DEF Queues
  <2>5. ASSUME NEW n \in 1..Len(chain'), Numbered(n)'
        PROVE  /\ chain'[n].val.seq <= auditSeq'
               /\ \A m \in 1..Len(audit) : audit[m].seq < chain'[n].val.seq
    <3>1. CASE n \in 1..Len(chain)
      <4>1. chain'[n] = chain[n] /\ Numbered(n)
        BY <2>1, <2>5, <3>1 DEF Numbered
      <4> QED
        BY <2>2, <3>1, <4>1, ChainTyped DEF OrderInv
    <3>2. CASE n = Len(chain) + 1
      <4>1. chain'[n] = job /\ job.kind = "auditPut"
        BY <2>1, <2>5, <3>2 DEF Numbered
      <4> QED
        BY <2>2, <2>4, <4>1, ChainTyped DEF OrderInv
    <3> QED
      BY <2>1, <3>1, <3>2
  <2>6. ASSUME NEW m \in 1..Len(chain'), NEW n \in 1..Len(chain'),
               Numbered(m)', Numbered(n)', m < n
        PROVE  chain'[m].val.seq < chain'[n].val.seq
    <3>1. m \in 1..Len(chain) /\ chain'[m] = chain[m] /\ Numbered(m)
      <4>1. m # Len(chain) + 1
        BY <2>1, <2>6, ChainTyped
      <4>2. m \in 1..Len(chain)
        BY <2>1, <4>1
      <4> QED
        BY <2>1, <2>6, <4>2 DEF Numbered
    <3>2. CASE n \in 1..Len(chain)
      <4>1. chain'[n] = chain[n] /\ Numbered(n)
        BY <2>1, <2>6, <3>2 DEF Numbered
      <4> QED
        BY <2>6, <3>1, <3>2, <4>1 DEF OrderInv
    <3>3. CASE n = Len(chain) + 1
      <4>1. chain'[n] = job /\ job.kind = "auditPut"
        BY <2>1, <2>6, <3>3 DEF Numbered
      <4> QED
        BY <2>2, <2>4, <3>1, <4>1, ChainTyped DEF OrderInv
    <3> QED
      BY <2>1, <3>2, <3>3
  <2>7. \A m, n \in 1..Len(audit') : m < n => audit'[m].seq < audit'[n].seq
    BY <1>1 DEF OrderInv
  <2> QED
    BY <1>1, <2>3, <2>5, <2>6, <2>7 DEF OrderInv
<1> QED
  BY <1>2, <1>3 DEF CallerMoves

\* What a landing leaves of the numbered jobs.
LEMMA TailKeepsOrder ==
  ASSUME TypeInv, OrderInv, chain # <<>>, chain' = Tail(chain)
  PROVE  /\ \A n \in 1..Len(chain') : Numbered(n)' =>
              /\ n + 1 \in 1..Len(chain) /\ chain'[n] = chain[n + 1]
              /\ Numbered(n + 1) /\ chain'[n].val.seq \in Nat
              /\ chain'[n].val.seq <= auditSeq
              /\ \A m \in 1..Len(audit) : audit[m].seq < chain'[n].val.seq
              /\ Numbered(1) => chain[1].val.seq < chain'[n].val.seq
         /\ \A m, n \in 1..Len(chain') :
              Numbered(m)' /\ Numbered(n)' /\ m < n => chain'[m].val.seq < chain'[n].val.seq
<1>1. chain \in Seq(Jobs)
  BY DEF TypeInv, CallInv
<1>2. /\ 1 \in 1..Len(chain)
      /\ \A n \in 1..Len(chain') :
           n + 1 \in 1..Len(chain) /\ n + 1 # 1 /\ chain'[n] = chain[n + 1]
  BY <1>1, TailPositions
<1>3. \A n \in 1..Len(chain') : Numbered(n)' => Numbered(n + 1)
  BY <1>2 DEF Numbered
<1>4. \A n \in 1..Len(chain') : 1 < n + 1
  OBVIOUS
<1>5. \A m, n \in 1..Len(chain') : m < n => m + 1 < n + 1
  OBVIOUS
<1>6. ASSUME NEW n \in 1..Len(chain'), Numbered(n)'
      PROVE  /\ n + 1 \in 1..Len(chain) /\ chain'[n] = chain[n + 1]
             /\ Numbered(n + 1) /\ chain'[n].val.seq \in Nat
             /\ chain'[n].val.seq <= auditSeq
             /\ \A m \in 1..Len(audit) : audit[m].seq < chain'[n].val.seq
             /\ Numbered(1) => chain[1].val.seq < chain'[n].val.seq
  BY <1>2, <1>3, <1>4, <1>6, ChainTyped DEF OrderInv
<1>7. ASSUME NEW m \in 1..Len(chain'), NEW n \in 1..Len(chain'),
             Numbered(m)', Numbered(n)', m < n
      PROVE  chain'[m].val.seq < chain'[n].val.seq
  BY <1>2, <1>3, <1>5, <1>7 DEF OrderInv
<1> QED
  BY <1>6, <1>7

LEMMA LandKeepsOrder ==
  ASSUME TypeInv, OrderInv, Land
  PROVE  OrderInv'
<1> DEFINE job == Head(chain)
<1>1. chain # <<>> /\ chain' = Tail(chain) /\ auditSeq' = auditSeq
  BY DEF Land
<1>2. /\ job \in Jobs /\ job = chain[1] /\ 1 \in 1..Len(chain)
      /\ audit \in Seq(AuditRecords)
  BY <1>1, HeadTyped DEF TypeInv, DataTyped
<1>3. \/ job.kind = "auditPut" /\ audit' = Append(audit, job.val)
      \/ /\ job.kind # "auditPut"
         /\ \E n \in 1..Len(audit) : audit' = Without(audit, n)
      \/ job.kind # "auditPut" /\ audit' = audit
  BY <1>2, AuditAfterLanding DEF Land
<1>4. CASE job.kind = "auditPut" /\ audit' = Append(audit, job.val)
  <2>1. job.val \in AuditRecords /\ Numbered(1)
    BY <1>2, <1>4, JobTyped DEF Numbered
  <2>2. /\ 1..Len(audit') = 1..Len(audit) \cup {Len(audit) + 1}
        /\ \A n \in 1..Len(audit) : audit'[n] = audit[n]
        /\ audit'[Len(audit) + 1] = job.val
    BY <1>2, <1>4, <2>1, AppendPositions
  <2>3. /\ job.val.seq <= auditSeq
        /\ \A m \in 1..Len(audit) : audit[m].seq < job.val.seq
    BY <1>2, <2>1 DEF OrderInv
  <2>4. \A n \in 1..Len(audit') : audit'[n].seq <= auditSeq'
    BY <1>1, <2>2, <2>3 DEF OrderInv
  <2>5. ASSUME NEW m \in 1..Len(audit'), NEW n \in 1..Len(audit'), m < n
        PROVE  audit'[m].seq < audit'[n].seq
    <3>1. m \in 1..Len(audit)
      BY <2>2, <2>5, ChainTyped
    <3> QED
      BY <2>2, <2>3, <2>5, <3>1 DEF OrderInv
  <2>6. ASSUME NEW n \in 1..Len(chain'), Numbered(n)'
        PROVE  /\ chain'[n].val.seq <= auditSeq'
               /\ \A m \in 1..Len(audit') : audit'[m].seq < chain'[n].val.seq
    BY <1>1, <1>2, <2>1, <2>2, <2>6, TailKeepsOrder
  <2> QED
    BY <1>1, <2>4, <2>5, <2>6, TailKeepsOrder DEF OrderInv
<1>5. ASSUME NEW n \in 1..Len(audit), audit' = Without(audit, n)
      PROVE  OrderInv'
  <2>1. /\ Len(audit') = Len(audit) - 1 /\ Len(audit) \in Nat
        /\ \A m \in 1..(Len(audit) - 1) :
             audit'[m] = IF m < n THEN audit[m] ELSE audit[m + 1]
    <3>1. Len(audit) \in Nat
      BY <1>2
    <3>2. PICK w : w = SubSeq(audit, 1, n - 1) \o SubSeq(audit, n + 1, Len(audit))
      OBVIOUS
    <3>3. /\ Len(w) = Len(audit) - 1
          /\ \A m \in 1..(Len(audit) - 1) : w[m] = IF m < n THEN audit[m] ELSE audit[m + 1]
      BY <1>2, <3>2, WithoutPositions
    <3>4. audit' = w
      BY <1>5, <3>2 DEF Without
    <3> QED
      BY <3>1, <3>3, <3>4
  <2> DEFINE old(m) == IF m < n THEN m ELSE m + 1
  <2>2. \A m \in 1..Len(audit') : old(m) \in 1..Len(audit) /\ audit'[m] = audit[old(m)]
    BY <2>1
  <2>3. \A m, k \in 1..Len(audit') : m < k => old(m) < old(k)
    BY <2>1
  <2> HIDE DEF old
  <2>4. \A m \in 1..Len(audit') : audit'[m].seq <= auditSeq'
    BY <1>1, <2>2 DEF OrderInv
  <2>5. \A m, k \in 1..Len(audit') : m < k => audit'[m].seq < audit'[k].seq
    BY <2>2, <2>3 DEF OrderInv
  <2>6. ASSUME NEW k \in 1..Len(chain'), Numbered(k)'
        PROVE  /\ chain'[k].val.seq <= auditSeq'
               /\ \A m \in 1..Len(audit') : audit'[m].seq < chain'[k].val.seq
    BY <1>1, <2>2, <2>6, TailKeepsOrder
  <2> QED
    BY <1>1, <2>4, <2>5, <2>6, TailKeepsOrder DEF OrderInv
<1>6. CASE audit' = audit
  BY <1>1, <1>6, TailKeepsOrder DEF OrderInv
<1> QED
  BY <1>3, <1>4, <1>5, <1>6

LEMMA RejectKeepsOrder ==
  ASSUME TypeInv, OrderInv, Reject
  PROVE  OrderInv'
<1>1. chain # <<>> /\ chain' = Tail(chain) /\ auditSeq' = auditSeq /\ audit' = audit
  BY DEF Reject
<1> QED
  BY <1>1, TailKeepsOrder DEF OrderInv

\* The number a boot reads from the table is one no record exceeds.
LEMMA BootSeqIsMax ==
  ASSUME TypeInv, OrderInv
  PROVE  BootSeq \in Nat /\ \A q \in AuditSeqs : q <= BootSeq
<1>1. /\ DOMAIN audit = 1..Len(audit) /\ Len(audit) \in Nat /\ AuditSeqs \subseteq Nat
      /\ \A n \in 1..Len(audit) : audit[n].seq \in Nat
  BY AuditSeqsTyped DEF TypeInv, DataTyped
<1>2. CASE AuditSeqs = {}
  BY <1>2 DEF BootSeq, SeqMax
<1>3. CASE AuditSeqs # {}
  <2> DEFINE last == Len(audit)
  <2>0. last \in Nat /\ DOMAIN audit = 1..last
    BY <1>1
  <2> HIDE DEF last
  <2>1. last \in 1..last
    <3>1. PICK n \in 1..last : TRUE
      BY <1>3, <2>0 DEF AuditSeqs
    <3> QED
      BY <2>0, <3>1
  <2>2. \A n \in 1..last : n = last \/ n < last
    BY <2>0
  <2> USE DEF last
  <2>3. ASSUME NEW n \in 1..Len(audit)
        PROVE  audit[n].seq <= audit[Len(audit)].seq
    <3>1. /\ audit[n].seq \in Nat /\ audit[Len(audit)].seq \in Nat
          /\ n = Len(audit) \/ n < Len(audit)
      BY <1>1, <2>1, <2>2
    <3>2. n < Len(audit) => audit[n].seq < audit[Len(audit)].seq
      BY <2>1 DEF OrderInv
    <3>3. n = Len(audit) => audit[n].seq = audit[Len(audit)].seq
      OBVIOUS
    <3>4. \A a, b \in Nat : a < b \/ a = b => a <= b
      OBVIOUS
    <3> QED
      BY <3>1, <3>2, <3>3, <3>4
  <2>4. /\ audit[Len(audit)].seq \in AuditSeqs
        /\ \A q \in AuditSeqs : q <= audit[Len(audit)].seq
    BY <1>1, <2>1, <2>3 DEF AuditSeqs
  <2>5. \E m \in AuditSeqs : \A q \in AuditSeqs : q <= m
    BY <2>4
  <2>6. BootSeq \in AuditSeqs /\ \A q \in AuditSeqs : q <= BootSeq
    BY <1>3, <2>5, Zenon DEF BootSeq, SeqMax
  <2> QED
    BY <1>1, <2>6
<1> QED
  BY <1>2, <1>3

LEMMA CrashKeepsInv ==
  ASSUME TypeInv, OrderInv, Crash
  PROVE  TypeInv' /\ OrderInv'
<1>1. /\ chain' = <<>> /\ call' = [c \in Clients |-> Idle] /\ audit' = audit
      /\ auditSeq' = BootSeq
  BY DEF Crash
<1>2. CallInv'
  BY <1>1, IdleTyped DEF CallInv, Waiting
<1>3. BootSeq \in Nat /\ \A q \in AuditSeqs : q <= BootSeq
  BY BootSeqIsMax
<1>4. DOMAIN audit = 1..Len(audit)
  BY AuditSeqsTyped DEF TypeInv, DataTyped
<1>5. TypeInv'
  BY <1>1, <1>2, <1>3 DEF TypeInv, DataTyped, Crash, history
<1>6. \A n \in 1..Len(audit) : audit[n].seq <= BootSeq
  BY <1>3, <1>4 DEF AuditSeqs
<1>7. OrderInv'
  BY <1>1, <1>6 DEF OrderInv, Numbered
<1> QED
  BY <1>5, <1>7

-----------------------------------------------------------------------------
(* The inductive invariant and what follows from it.                       *)

StoreInv == TypeInv /\ OrderInv

LEMMA StepKeepsInv ==
  ASSUME StoreInv, [Next]_vars PROVE StoreInv'
<1>1. ASSUME NEW c \in Clients, Start(c) PROVE StoreInv'
  <2>1. TypeInv'
    BY <1>1, AddTyped, UpdateTyped, RemoveTyped, LoopStartTyped, ReadRawTyped
       DEF Start, StoreInv
  <2> QED
    BY <1>1, <2>1, StartMoves, CallerKeepsOrder DEF StoreInv
<1>2. ASSUME NEW c \in Clients, Proceed(c) PROVE StoreInv'
  <2>1. TypeInv'
    BY <1>2, ResumeTyped, AuditedTyped, TrimAuditTyped, TrimEntriesTyped,
       StepOfLoopTyped, GuardedTyped DEF Proceed, StoreInv
  <2> QED
    BY <1>2, <2>1, ProceedMoves, CallerKeepsOrder DEF StoreInv
<1>3. CASE Land
  BY <1>3, LandTyped, LandKeepsOrder DEF StoreInv
<1>4. CASE Reject
  BY <1>4, RejectTyped, RejectKeepsOrder DEF StoreInv
<1>5. CASE Crash
  BY <1>5, CrashKeepsInv DEF StoreInv
<1>6. ASSUME NEW i \in Ids, Ageing(i) PROVE StoreInv'
  BY <1>6, AgeingTyped DEF StoreInv, OrderInv, Numbered, Ageing
<1>7. CASE UNCHANGED vars
  <2>1. TypeInv'
    BY <1>7 DEF vars, StoreInv, TypeInv, CallInv, Waiting, DataTyped
  <2> QED
    BY <1>7, <2>1 DEF vars, StoreInv, OrderInv, Numbered
<1> QED
  BY <1>1, <1>2, <1>3, <1>4, <1>5, <1>6, <1>7 DEF Next

LEMMA InvStarts == ASSUME Init PROVE StoreInv
<1>1. chain = <<>> /\ audit = <<>>
  BY DEF Init
<1>2. 1..Len(chain) = {} /\ 1..Len(audit) = {}
  BY <1>1
<1> QED
  BY <1>2, InitTyped DEF StoreInv, OrderInv

LEMMA InvHolds == Spec => []StoreInv
<1>1. Init => StoreInv
  BY InvStarts
<1>2. StoreInv /\ [Next]_vars => StoreInv'
  BY StepKeepsInv
<1> QED
  BY <1>1, <1>2, PTL DEF Spec

\* Every variable keeps its type, for any number of callers, faults and
\* crashes; with it, every caller waits for exactly its own job on the chain.
THEOREM TypeCorrect == Spec => []TypeOK
<1>1. StoreInv => TypeOK
  BY TypeInvIsTyped DEF StoreInv
<1> QED
  BY <1>1, InvHolds, PTL

\* The audit table is in append order by its sequence numbers although calls
\* overlap, writes are rejected, old records are trimmed from stale snapshots
\* and the process dies: a boot that takes the largest number of the table
\* never hands out one that is still in use.
THEOREM AuditStaysInOrder == Spec => []AuditInAppendOrder
<1>1. StoreInv => AuditInAppendOrder
  <2> SUFFICES ASSUME StoreInv PROVE AuditInAppendOrder
    OBVIOUS
  <2>1. DOMAIN audit = 1..Len(audit)
    BY AuditSeqsTyped DEF StoreInv, TypeInv, DataTyped
  <2> QED
    BY <2>1 DEF StoreInv, OrderInv, AuditInAppendOrder
<1> QED
  BY <1>1, InvHolds, PTL

LEMMA CallerKeepsGone ==
  ASSUME TypeInv, TypeInv', CallerMoves, NEW i \in Ids, Gone(i)
  PROVE  Gone(i)'
<1>1. /\ entries' = entries /\ minted \subseteq minted'
      /\ chain' \in Seq(Jobs) /\ chain \in Seq(Jobs)
  BY DEF CallerMoves, TypeInv, CallInv
<1>2. i \notin Live /\ i \in minted
  BY DEF Gone, Live
<1>3. ASSUME NEW job, Queues(job), NEW n \in DOMAIN chain'
      PROVE  ~(chain'[n].kind = "put" /\ chain'[n].id = i)
  <2>1. /\ chain' = Append(chain, job)
        /\ job.kind = "put" => job.id # i
    BY <1>2, <1>3 DEF Queues, PutIsRead
  <2>2. CASE n \in DOMAIN chain
    <3>1. chain'[n] = chain[n]
      BY <1>1, <2>1, <2>2
    <3> QED
      BY <2>2, <3>1 DEF Gone
  <2>3. CASE n \notin DOMAIN chain
    <3>1. chain'[n] = job
      BY <1>1, <1>3, <2>1, <2>3
    <3> QED
      BY <2>1, <3>1
  <2> QED
    BY <2>2, <2>3
<1> QED
  BY <1>1, <1>3 DEF Gone, CallerMoves

\* The head of the chain is not a put of the entry, and no other job writes
\* an entry that is not there.
LEMMA LandKeepsGone ==
  ASSUME TypeInv, Land, NEW i \in Ids, Gone(i)
  PROVE  Gone(i)'
<1> DEFINE job == Head(chain)
<1>1. chain # <<>> /\ chain' = Tail(chain) /\ minted' = minted
  BY DEF Land
<1>2. chain \in Seq(Jobs) /\ entries \in [Ids -> Entry \cup {Absent}]
  BY DEF TypeInv, CallInv, DataTyped
<1>3. job = chain[1] /\ 1 \in DOMAIN chain /\ job.kind \in JobKinds
  BY <1>1, <1>2, HeadTyped, JobTyped DEF TypeInv
<1>4. ~(job.kind = "put" /\ job.id = i) /\ entries[i] = Absent
  BY <1>3 DEF Gone
<1>5. entries'[i] = Absent
  <2>1. entries' = [entries EXCEPT ![job.id] = Written(job)]
    BY DEF Land
  <2>2. CASE job.id = i
    <3>1. Written(job) = Absent
      BY <1>3, <1>4, <2>2 DEF Written, JobKinds
    <3> QED
      BY <1>2, <2>1, <2>2, <3>1
  <2>3. CASE job.id # i
    BY <1>2, <1>4, <2>1, <2>3
  <2> QED
    BY <2>2, <2>3
<1>6. ASSUME NEW n \in DOMAIN chain'
      PROVE  ~(chain'[n].kind = "put" /\ chain'[n].id = i)
  BY <1>1, <1>2, TailPositions DEF Gone
<1> QED
  BY <1>1, <1>5, <1>6 DEF Gone

\* An entry that is gone, with no put of it queued, stays gone: no recall, hit
\* or decay that lands late, no writer and no later add brings it back.
THEOREM RemovalIsFinal == Spec => GoneForGood
<1>1. ASSUME StoreInv, StoreInv', [Next]_vars, NEW i \in Ids, Gone(i)
      PROVE  Gone(i)'
  <2>1. ASSUME NEW c \in Clients, Start(c) \/ Proceed(c) PROVE Gone(i)'
    BY <1>1, <2>1, StartMoves, ProceedMoves, CallerKeepsGone DEF StoreInv
  <2>2. CASE Land
    BY <1>1, <2>2, LandKeepsGone DEF StoreInv
  <2>3. CASE Reject
    <3>1. /\ chain # <<>> /\ chain' = Tail(chain) /\ chain \in Seq(Jobs)
          /\ minted' = minted /\ entries' = entries
      BY <1>1, <2>3 DEF Reject, StoreInv, TypeInv, CallInv
    <3>2. \A n \in DOMAIN chain' : ~(chain'[n].kind = "put" /\ chain'[n].id = i)
      BY <1>1, <3>1, TailPositions DEF Gone
    <3> QED
      BY <1>1, <3>1, <3>2 DEF Gone
  <2>4. CASE Crash
    <3>1. chain' = <<>> /\ minted' = minted /\ entries' = entries
      BY <2>4 DEF Crash
    <3>2. DOMAIN chain' = {}
      BY <3>1
    <3> QED
      BY <1>1, <3>1, <3>2 DEF Gone
  <2>5. ASSUME NEW j \in Ids, Ageing(j) PROVE Gone(i)'
    <3>1. i # j
      BY <1>1, <2>5 DEF Ageing, Gone, Live
    <3> QED
      BY <1>1, <2>5, <3>1 DEF Ageing, Gone, StoreInv, TypeInv, DataTyped
  <2>6. CASE UNCHANGED vars
    BY <1>1, <2>6 DEF vars, Gone
  <2> QED
    BY <1>1, <2>1, <2>2, <2>3, <2>4, <2>5, <2>6 DEF Next
<1>2. StoreInv /\ StoreInv' /\ [Next]_vars => [\A i \in Ids : Gone(i) => Gone(i)']_vars
  BY <1>1
<1> QED
  BY <1>2, InvHolds, PTL DEF Spec, GoneForGood

-----------------------------------------------------------------------------
(* The hit counter.  A put repeats the counter its caller has read; hits   *)
(* that land later than that land beside the put.                          *)

Accounted(hits, i) == hits <= hitsLanded[i] /\ hitsLanded[i] <= hits + hitsBeside[i]

CountsAccounted ==
  /\ \A i \in Ids : entries[i] # Absent => i \in minted /\ Accounted(entries[i].hits, i)
  /\ \A n \in 1..Len(chain) :
       chain[n].kind = "put" =>
         chain[n].id \in minted /\ Accounted(chain[n].val.hits, chain[n].id)
  /\ \A i \in Ids \ minted : hitsLanded[i] = 0

LEMMA CountsTyped ==
  ASSUME TypeInv
  PROVE  /\ \A i \in Ids : hitsLanded[i] \in Nat /\ hitsBeside[i] \in Nat
         /\ \A i \in Ids : entries[i] # Absent => entries[i].hits \in Nat
         /\ \A job \in Jobs : job.kind = "put" => job.val.hits \in Nat
<1>1. \A r \in Entry : r.hits \in Nat
  BY DEF Entry
<1> QED
  BY <1>1, JobTyped DEF TypeInv, DataTyped

LEMMA CallerKeepsCounts ==
  ASSUME TypeInv, TypeInv', CountsAccounted, CallerMoves
  PROVE  CountsAccounted'
<1>1. /\ entries' = entries /\ hitsLanded' = hitsLanded /\ hitsBeside' = hitsBeside
      /\ minted \subseteq minted' /\ chain \in Seq(Jobs) /\ chain' \in Seq(Jobs)
  BY DEF CallerMoves, TypeInv, CallInv, history
<1>2. CASE chain' = chain
  BY <1>1, <1>2 DEF CountsAccounted, Accounted
<1>3. ASSUME NEW job, Queues(job) PROVE CountsAccounted'
  <2>1. chain' = Append(chain, job) /\ (job.kind = "put" => PutIsRead(job.id, job.val))
    BY <1>3 DEF Queues
  <2>2. job \in Jobs
    BY <2>1, QueuedPositions
  <2>3. /\ 1..Len(chain') = 1..Len(chain) \cup {Len(chain) + 1}
        /\ \A n \in 1..Len(chain) : chain'[n] = chain[n]
        /\ chain'[Len(chain) + 1] = job
    BY <2>1, QueuedPositions
  <2>4. job.kind = "put" => job.id \in minted' /\ Accounted(job.val.hits, job.id)
    <3>1. job.id \in Ids
      BY <2>2, JobTyped
    <3>2. CASE job.id \in Live /\ job.val.hits = entries[job.id].hits
      BY <1>1, <3>1, <3>2 DEF CountsAccounted, Live
    <3>3. CASE job.id \in minted' \ minted /\ job.val.hits = 0
      <4>1. hitsLanded[job.id] = 0 /\ hitsBeside[job.id] \in Nat
        BY <3>1, <3>3, CountsTyped DEF CountsAccounted
      <4> QED
        BY <3>3, <4>1 DEF Accounted
    <3> QED
      BY <2>1, <3>2, <3>3 DEF PutIsRead
  <2> QED
    BY <1>1, <2>3, <2>4 DEF CountsAccounted, Accounted
<1> QED
  BY <1>2, <1>3 DEF CallerMoves

\* What a write keeps of the record at its slot.
LEMMA WrittenKeeps ==
  ASSUME TypeInv, NEW job \in Jobs, Written(job) # Absent
  PROVE  /\ job.kind = "put" => Written(job) = job.val
         /\ job.kind # "put" =>
              /\ entries[job.id] # Absent
              /\ Written(job).content = entries[job.id].content
              /\ Written(job).pinned = entries[job.id].pinned
              /\ job.kind # "hit" => Written(job).hits = entries[job.id].hits
              /\ job.kind = "hit" => /\ Took(job)
                                    /\ Written(job).hits = entries[job.id].hits + 1
<1> DEFINE e == entries[job.id]
<1>1. job.kind \in JobKinds /\ e \in Entry \cup {Absent}
  BY JobTyped DEF TypeInv, DataTyped
<1>2. CASE job.kind = "put"
  BY <1>2 DEF Written
<1>3. CASE job.kind = "delete"
  BY <1>3 DEF Written
<1>4. CASE job.kind \in {"auditPut", "auditDelete", "guard"}
  BY <1>4 DEF Written
<1>5. CASE job.kind \in {"tool", "fence", "hit", "decay"} /\ e = Absent
  BY <1>5 DEF Written
<1>6. ASSUME NEW r \in Entry
      PROVE  /\ Recalled(r) \in Entry /\ Recalled(r).hits = r.hits
             /\ Recalled(r).content = r.content /\ Recalled(r).pinned = r.pinned
             /\ Hit(r).hits = r.hits + 1
             /\ Hit(r).content = r.content /\ Hit(r).pinned = r.pinned
  <2>1. 0 \in 0..2
    OBVIOUS
  <2>2. /\ Recalled(r) \in Entry /\ Recalled(r).hits = r.hits
        /\ Recalled(r).content = r.content /\ Recalled(r).pinned = r.pinned
    BY <2>1 DEF Recalled, Entry
  <2>3. /\ Hit(r).hits = r.hits + 1
        /\ Hit(r).content = r.content /\ Hit(r).pinned = r.pinned
    BY DEF Hit, Entry
  <2> QED
    BY <2>2, <2>3
<1>7. \A r \in Entry : LET w == [r EXCEPT !.access = @ + 1]
                       IN  w.hits = r.hits /\ w.content = r.content /\ w.pinned = r.pinned
  BY DEF Entry
<1>8. CASE job.kind = "tool" /\ e # Absent
  BY <1>1, <1>6, <1>7, <1>8 DEF Written
<1>9. CASE job.kind = "fence" /\ e # Absent
  BY <1>1, <1>6, <1>9 DEF Written
<1>10. CASE job.kind = "hit" /\ e # Absent
  BY <1>1, <1>6, <1>10 DEF Written, Took
<1>11. CASE job.kind = "decay" /\ e # Absent
  <2>1. Written(job) = [e EXCEPT !.stale = e.stale \/ DecayDue(job.id)]
    BY <1>11 DEF Written
  <2>2. \A b : LET w == [e EXCEPT !.stale = b]
              IN  w.hits = e.hits /\ w.content = e.content /\ w.pinned = e.pinned
    BY <1>1, <1>11 DEF Entry
  <2> QED
    BY <1>11, <2>1, <2>2
<1> QED
  BY <1>1, <1>2, <1>3, <1>4, <1>5, <1>8, <1>9, <1>10, <1>11 DEF JobKinds

\* What stands for a counter goes on doing so when a hit lands beside it.
LEMMA AccountedGrows ==
  ASSUME NEW h \in Nat, NEW l \in Nat, NEW b \in Nat, NEW m \in Nat, NEW d \in Nat,
         h <= l, l <= h + b,
         \/ m = l /\ d = b
         \/ m = l + 1 /\ d = b + 1
  PROVE  h <= m /\ m <= h + d
  OBVIOUS

LEMMA LandKeepsCounts ==
  ASSUME TypeInv, CountsAccounted, Land
  PROVE  CountsAccounted'
<1> DEFINE job == Head(chain)
<1>1. /\ chain # <<>> /\ chain' = Tail(chain) /\ minted' = minted
      /\ entries' = [entries EXCEPT ![job.id] = Written(job)]
      /\ hitsLanded' = IF job.kind = "hit" /\ Took(job)
                       THEN [hitsLanded EXCEPT ![job.id] = hitsLanded[job.id] + 1]
                       ELSE hitsLanded
      /\ hitsBeside' = IF job.kind = "hit" /\ Took(job) /\ EditQueued(job.id)
                       THEN [hitsBeside EXCEPT ![job.id] = hitsBeside[job.id] + 1]
                       ELSE hitsBeside
  BY DEF Land
<1>2. /\ job = chain[1] /\ 1 \in 1..Len(chain) /\ job \in Jobs /\ job.id \in Ids
      /\ chain \in Seq(Jobs) /\ entries \in [Ids -> Entry \cup {Absent}]
      /\ hitsLanded \in [Ids -> Nat] /\ hitsBeside \in [Ids -> Nat]
  BY <1>1, HeadTyped DEF TypeInv, CallInv, DataTyped
<1>3. \A i \in Ids : /\ hitsLanded[i] \in Nat /\ hitsBeside[i] \in Nat
                     /\ hitsLanded'[i] \in Nat /\ hitsBeside'[i] \in Nat
  BY <1>1, <1>2
<1>4. \A k \in Jobs : k.kind = "put" => k.val.hits \in Nat /\ k.id \in Ids
  BY CountsTyped, JobTyped
<1>5. ASSUME NEW i \in Ids, i # job.id \/ job.kind # "hit"
      PROVE  hitsLanded'[i] = hitsLanded[i] /\ hitsBeside'[i] = hitsBeside[i]
  BY <1>1, <1>2, <1>5
<1>6. ASSUME NEW n \in 1..Len(chain'), chain'[n].kind = "put"
      PROVE  /\ chain'[n].id \in minted'
             /\ chain'[n].val.hits <= hitsLanded'[chain'[n].id]
             /\ hitsLanded'[chain'[n].id] <= chain'[n].val.hits + hitsBeside'[chain'[n].id]
  <2>1. PICK k : k = chain[n + 1]
    OBVIOUS
  <2>2. n + 1 \in 1..Len(chain) /\ chain'[n] = k /\ k \in Jobs /\ k.kind = "put"
    BY <1>1, <1>2, <1>6, <2>1, TailPositions
  <2>3. PICK h, i : h = k.val.hits /\ i = k.id
    OBVIOUS
  <2>4. /\ h \in Nat /\ i \in Ids /\ i \in minted
        /\ h <= hitsLanded[i] /\ hitsLanded[i] <= h + hitsBeside[i]
    BY <1>4, <2>1, <2>2, <2>3 DEF CountsAccounted, Accounted
  <2>5. EditQueued(i)
    <3>1. n + 1 \in DOMAIN chain
      BY <1>2, <2>2
    <3> QED
      BY <2>1, <2>2, <2>3, <3>1 DEF EditQueued
  <2>6. \/ hitsLanded'[i] = hitsLanded[i] /\ hitsBeside'[i] = hitsBeside[i]
        \/ hitsLanded'[i] = hitsLanded[i] + 1 /\ hitsBeside'[i] = hitsBeside[i] + 1
    BY <1>1, <1>2, <2>4, <2>5
  <2>7. h <= hitsLanded'[i] /\ hitsLanded'[i] <= h + hitsBeside'[i]
    BY <1>3, <2>4, <2>6, AccountedGrows
  <2> QED
    BY <1>1, <2>2, <2>3, <2>4, <2>7
<1>7. ASSUME NEW i \in Ids, entries'[i] # Absent
      PROVE  /\ i \in minted' /\ entries'[i].hits <= hitsLanded'[i]
             /\ hitsLanded'[i] <= entries'[i].hits + hitsBeside'[i]
  <2>1. CASE i # job.id
    BY <1>1, <1>2, <1>5, <1>7, <2>1 DEF CountsAccounted, Accounted
  <2>2. CASE i = job.id
    <3>1. entries'[i] = Written(job) /\ Written(job) # Absent
      BY <1>1, <1>2, <1>7, <2>2
    <3>2. CASE job.kind = "put" /\ Written(job) = job.val
      <4>1. job.id \in minted /\ Accounted(job.val.hits, job.id)
        BY <1>2, <3>2 DEF CountsAccounted
      <4> QED
        BY <1>1, <1>5, <2>2, <3>1, <3>2, <4>1 DEF Accounted
    <3>3. CASE /\ entries[job.id] # Absent /\ job.kind # "hit"
               /\ Written(job).hits = entries[job.id].hits
      <4>1. job.id \in minted /\ Accounted(entries[job.id].hits, job.id)
        BY <1>2, <3>3 DEF CountsAccounted
      <4> QED
        BY <1>1, <1>5, <2>2, <3>1, <3>3, <4>1 DEF Accounted
    <3>4. CASE /\ job.kind = "hit" /\ Took(job) /\ entries[job.id] # Absent
               /\ Written(job).hits = entries[job.id].hits + 1
      <4>1. PICK h \in Nat : h = entries[i].hits
        BY <2>2, <3>4, CountsTyped
      <4>2. i \in minted /\ h <= hitsLanded[i] /\ hitsLanded[i] <= h + hitsBeside[i]
        BY <2>2, <3>4, <4>1 DEF CountsAccounted, Accounted
      <4>3. /\ hitsLanded'[i] = hitsLanded[i] + 1
            /\ hitsBeside'[i] = hitsBeside[i] \/ hitsBeside'[i] = hitsBeside[i] + 1
        BY <1>1, <1>2, <2>2, <3>4
      <4>4. h + 1 <= hitsLanded'[i] /\ hitsLanded'[i] <= h + 1 + hitsBeside'[i]
        BY <1>3, <4>2, <4>3
      <4> QED
        BY <1>1, <2>2, <3>1, <3>4, <4>1, <4>2, <4>4
    <3> QED
      BY <1>2, <3>1, <3>2, <3>3, <3>4, WrittenKeeps
  <2> QED
    BY <2>1, <2>2
<1>8. ASSUME NEW i \in Ids \ minted' PROVE hitsLanded'[i] = 0
  <2>1. i \in Ids /\ i \notin minted /\ hitsLanded[i] = 0
    BY <1>1, <1>8 DEF CountsAccounted
  <2>2. ~(job.kind = "hit" /\ Took(job) /\ i = job.id)
    BY <1>2, <2>1 DEF Took, CountsAccounted
  <2> QED
    BY <1>1, <1>2, <2>1, <2>2
<1> QED
  BY <1>6, <1>7, <1>8 DEF CountsAccounted, Accounted

HitsInv == StoreInv /\ CountsAccounted

LEMMA HitsInvHolds == Spec => []HitsInv
<1>1. Init => HitsInv
  <2> SUFFICES ASSUME Init PROVE CountsAccounted
    BY InvStarts DEF HitsInv
  <2>1. PICK x \in Contents, P \in SUBSET Stored :
          entries = [i \in Ids |-> IF i \in Stored
                                   THEN [Fresh(x) EXCEPT !.pinned = i \in P]
                                   ELSE Absent]
    BY DEF Init
  <2>2. \A b : [Fresh(x) EXCEPT !.pinned = b].hits = 0
    BY DEF Fresh
  <2>3. /\ 1..Len(chain) = {} /\ minted = Stored
        /\ \A i \in Ids : hitsLanded[i] = 0 /\ hitsBeside[i] = 0
    BY DEF Init
  <2>4. \A i \in Ids : entries[i] # Absent => i \in Stored /\ entries[i].hits = 0
    BY <2>1, <2>2
  <2> QED
    BY <2>3, <2>4 DEF CountsAccounted, Accounted
<1>2. HitsInv /\ [Next]_vars => HitsInv'
  <2> SUFFICES ASSUME HitsInv, [Next]_vars PROVE CountsAccounted'
    BY StepKeepsInv DEF HitsInv
  <2>1. StoreInv /\ StoreInv' /\ TypeInv /\ TypeInv' /\ CountsAccounted
    BY StepKeepsInv DEF HitsInv, StoreInv
  <2>2. ASSUME NEW c \in Clients, Start(c) \/ Proceed(c) PROVE CountsAccounted'
    BY <2>1, <2>2, StartMoves, ProceedMoves, CallerKeepsCounts
  <2>3. CASE Land
    BY <2>1, <2>3, LandKeepsCounts
  <2>4. CASE Reject
    <3>1. /\ chain # <<>> /\ chain' = Tail(chain) /\ chain \in Seq(Jobs)
          /\ UNCHANGED <<entries, minted, hitsLanded, hitsBeside>>
      BY <2>1, <2>4 DEF Reject, TypeInv, CallInv, history
    <3> QED
      BY <2>1, <3>1, TailPositions DEF CountsAccounted, Accounted
  <2>5. CASE Crash
    <3>1. chain' = <<>> /\ UNCHANGED <<entries, minted, hitsLanded, hitsBeside>>
      BY <2>5 DEF Crash, history
    <3>2. 1..Len(chain') = {}
      BY <3>1
    <3> QED
      BY <2>1, <3>1, <3>2 DEF CountsAccounted, Accounted
  <2>6. ASSUME NEW i \in Ids, Ageing(i) PROVE CountsAccounted'
    <3>1. /\ entries' = [entries EXCEPT ![i] = [entries[i] EXCEPT !.age = entries[i].age + 1]]
          /\ UNCHANGED <<chain, minted, hitsLanded, hitsBeside>> /\ entries[i] \in Entry
      BY <2>1, <2>6, LiveTyped DEF Ageing, history, TypeInv
    <3>2. [entries[i] EXCEPT !.age = entries[i].age + 1].hits = entries[i].hits
      BY <3>1 DEF Entry
    <3>3. entries[i] # Absent
      BY <2>6 DEF Ageing, Live
    <3> QED
      BY <2>1, <3>1, <3>2, <3>3 DEF CountsAccounted, Accounted, TypeInv, DataTyped
  <2>7. CASE UNCHANGED vars
    BY <2>1, <2>7 DEF vars, CountsAccounted, Accounted, history
  <2> QED
    BY <2>2, <2>3, <2>4, <2>5, <2>6, <2>7 DEF Next
<1> QED
  BY <1>1, <1>2, PTL DEF Spec

\* The hit counter of an entry never exceeds the hits that landed on it, and
\* falls short of them by no more than landed while an edit of the entry was
\* queued, through any recalls, decays, rejected writes, removals and crashes
\* (markHits and the put of a whole record share the chain).
THEOREM HitsAreCountedOnce == Spec => []HitsAccountedFor
<1>1. HitsInv => HitsAccountedFor
  BY DEF HitsInv, CountsAccounted, Accounted, HitsAccountedFor, Live
<1> QED
  BY <1>1, HitsInvHolds, PTL

-----------------------------------------------------------------------------
(* The janitor.  What spares an entry when the pass reaches it still spares *)
(* it when the pass's own update has come to the head of the chain.        *)

Decays(n) == chain[n].kind \in {"guard", "decay"}

\* The update at position n will find the entry pinned or recalled, if at all.
SafeBefore(i, n) ==
  \/ /\ i \in Live => Resting(i)
     /\ \A m \in 1..Len(chain) : m < n => ~Unpins(m, i)
  \/ \E k \in 1..Len(chain) :
       /\ k < n /\ Signals(k, i)
       /\ \A m \in 1..Len(chain) : k < m /\ m < n => ~Unpins(m, i)

Honored ==
  \A n \in 1..Len(chain), i \in Ids : Decays(n) /\ chain[n].id = i =>
    /\ chain[n].kind = "guard" => i \in Project
    /\ chain[n].kind = "decay" => i \notin Project
    /\ i \in call[chain[n].by].shield => SafeBefore(i, n)

\* The numbers a caller has left to trim: it keeps them, or is done with them.
KeepsCut(c) == call'[c].cut \in {call[c].cut, {}}

\* The operations that put a record back whole.
Writers == {"add", "update", "pin", "unpin", "archive", "unarchive", "supersede"}

\* A caller queues a job of its own, a decay only after it looked for signals,
\* the deletion of an old audit record when it is the oldest it has left.
QueuesOwn(c, job) ==
  /\ chain' = Append(chain, job) /\ job.by = c
  /\ job.kind \in {"guard", "decay"} =>
       (job.id \in call'[c].shield => Spared(job.id))
  /\ job.kind = "guard" => job.id \in Project
  /\ job.kind = "decay" => job.id \notin Project
  /\ job.kind = "put" => call'[c].op \in Ops \cap Writers
  /\ job.kind # "auditDelete" => KeepsCut(c)
  /\ job.kind = "auditDelete" =>
       /\ job.val \in call[c].cut /\ \A t \in call[c].cut : job.val <= t
       /\ call'[c].cut = call[c].cut \ {job.val}

TakesSnapshot(c) ==
  /\ Len(audit) > AuditCap
  /\ call'[c].cut = Oldest(AuditSeqs, Len(audit) - AuditCap)

OwnMove(c) ==
  /\ call[c].phase \notin Waits
  /\ \A d \in Clients : d # c => call'[d] = call[d]
  /\ \/ chain' = chain /\ (KeepsCut(c) \/ TakesSnapshot(c))
     \/ \E job : QueuesOwn(c, job)

LEMMA GotoOwn ==
  ASSUME TypeInv, NEW c \in Clients, call[c].phase \notin Waits,
         NEW frame, frame.cut \in {call[c].cut, {}}, Goto(c, frame)
  PROVE  OwnMove(c)
  BY DEF Goto, OwnMove, KeepsCut, TypeInv, CallInv

LEMMA EnqueueOwn ==
  ASSUME TypeInv, NEW c \in Clients, call[c].phase \notin Waits,
         NEW frame, NEW kind, NEW i, NEW v, Enqueue(c, frame, kind, i, v),
         kind \in {"guard", "decay"} =>
           /\ i \in frame.shield => Spared(i)
           /\ kind = "guard" => i \in Project
           /\ kind = "decay" => i \notin Project,
         kind = "put" => frame.op \in Ops \cap Writers,
         kind # "auditDelete" => frame.cut \in {call[c].cut, {}},
         kind = "auditDelete" =>
           /\ v \in call[c].cut /\ \A t \in call[c].cut : v <= t
           /\ frame.cut = call[c].cut \ {v}
  PROVE  OwnMove(c)
<1> DEFINE job == [by |-> c, kind |-> kind, id |-> i, val |-> v]
<1>1. /\ chain' = Append(chain, job) /\ call' = [call EXCEPT ![c] = frame]
      /\ job.by = c /\ job.kind = kind /\ job.id = i /\ job.val = v
  BY DEF Enqueue
<1>2. call'[c] = frame /\ \A d \in Clients : d # c => call'[d] = call[d]
  BY <1>1 DEF TypeInv, CallInv
<1> HIDE DEF job
<1>3. QueuesOwn(c, job)
  BY <1>1, <1>2 DEF QueuesOwn, KeepsCut
<1> QED
  BY <1>2, <1>3 DEF OwnMove

\* A new operation has nothing to trim, and only the trim changes what is left.
LEMMA CutMoves ==
  /\ Idle.cut = {}
  /\ \A op, S : Loop(op, S).cut = {}
  /\ \A op : [Idle EXCEPT !.op = op].cut = {}
  /\ \A op, i : /\ Writing([Idle EXCEPT !.op = op], i).cut = {}
               /\ Writing([Idle EXCEPT !.op = op], i).op = op
               /\ [Idle EXCEPT !.op = op, !.id = i].cut = {}
  /\ \A f \in Frames : /\ \A p : [f EXCEPT !.phase = p].cut = f.cut
                       /\ \A S : [f EXCEPT !.todo = S].cut = f.cut
                       /\ \A i : Writing(f, i).cut = f.cut
                       /\ \A p, S : [f EXCEPT !.phase = p, !.cut = S].cut = S
  BY DEF Idle, Loop, Writing, Frames

LEMMA StartOwn ==
  ASSUME TypeInv, NEW c \in Clients, Start(c)
  PROVE  OwnMove(c)
<1>1. ASSUME call[c].phase = "idle" PROVE call[c].phase \notin Waits
  BY <1>1 DEF Waits
<1>2. ASSUME NEW op \in Writers, NEW i, NEW e, PutBack(c, op, i, e) PROVE OwnMove(c)
  BY <1>1, <1>2, CutMoves, EnqueueOwn DEF PutBack, Begins
<1>3. CASE Add(c)
  <2>1. PICK i, frame : /\ frame = Writing([Idle EXCEPT !.op = "add"], i)
                        /\ \E x : Enqueue(c, frame, "put", i, Fresh(x))
    BY <1>3 DEF Add
  <2>2. frame.cut = {} /\ frame.op \in Ops \cap Writers
    BY <1>3, <2>1, CutMoves DEF Add, Begins, Writers
  <2> QED
    BY <1>1, <1>3, <2>1, <2>2, EnqueueOwn DEF Add, Begins
<1>4. CASE \/ Update(c) \/ Pin(c) \/ Unpin(c) \/ Archive(c)
           \/ Unarchive(c) \/ Supersede(c)
  <2>1. CASE Update(c)
    BY <1>2, <2>1 DEF Update, Writers
  <2>2. CASE Pin(c)
    BY <1>2, <2>2 DEF Pin, Writers
  <2>3. CASE Unpin(c)
    BY <1>2, <2>3 DEF Unpin, Writers
  <2>4. CASE Archive(c)
    BY <1>2, <2>4 DEF Archive, Writers
  <2>5. CASE Unarchive(c)
    BY <1>2, <2>5 DEF Unarchive, Writers
  <2>6. CASE Supersede(c)
    BY <1>2, <2>6 DEF Supersede, Writers
  <2> QED
    BY <1>4, <2>1, <2>2, <2>3, <2>4, <2>5, <2>6
<1>5. CASE Remove(c)
  BY <1>1, <1>5, CutMoves, EnqueueOwn DEF Remove, Begins
<1>6. CASE ReadRaw(c)
  <2>1. PICK i \in Live : AppendAudit(c, [Idle EXCEPT !.op = "readRaw", !.id = i])
    BY <1>6 DEF ReadRaw
  <2> DEFINE f == [Idle EXCEPT !.op = "readRaw", !.id = i]
             g == [f EXCEPT !.phase = "auditing"]
  <2>2. g.cut = {}
    BY DEF Idle
  <2>3. PICK r : Enqueue(c, g, "auditPut", f.id, r)
    BY <2>1 DEF AppendAudit
  <2> HIDE DEF f, g
  <2> QED
    BY <1>1, <1>6, <2>2, <2>3, EnqueueOwn DEF ReadRaw, Begins
<1>7. CASE Janitor(c)
  BY <1>1, <1>7, CutMoves, GotoOwn DEF Janitor, Begins
<1>8. CASE \E op \in Ops : Signal(c, op)
  BY <1>1, <1>8, CutMoves, GotoOwn DEF Signal, Begins
<1> QED
  BY <1>3, <1>4, <1>5, <1>6, <1>7, <1>8 DEF Start

LEMMA ProceedOwn ==
  ASSUME TypeInv, NEW c \in Clients, Proceed(c)
  PROVE  OwnMove(c)
<1>1. call[c].phase \notin Waits /\ call[c] \in Frames
  BY DEF Proceed, Resume, Audited, TrimAudit, TrimEntries, Step, Guarded, Waits,
         TypeInv, CallInv
<1>2. CASE Resume(c)
  <2>1. CASE AppendAudit(c, call[c])
    <3>1. PICK frame, i, r : /\ Enqueue(c, frame, "auditPut", i, r)
                             /\ frame = [call[c] EXCEPT !.phase = "auditing"]
      BY <2>1 DEF AppendAudit
    <3> QED
      BY <1>1, <3>1, CutMoves, EnqueueOwn
  <2>2. CASE Goto(c, IF call[c].op \in Loops THEN [call[c] EXCEPT !.phase = "next"] ELSE Idle)
    <3>1. PICK frame : frame = IF call[c].op \in Loops
                               THEN [call[c] EXCEPT !.phase = "next"] ELSE Idle
      OBVIOUS
    <3>2. frame.cut \in {call[c].cut, {}}
      BY <1>1, <3>1, CutMoves
    <3>3. Goto(c, frame)
      BY <2>2, <3>1
    <3> QED
      BY <1>1, <3>2, <3>3, GotoOwn
  <2> QED
    BY <1>2, <2>1, <2>2 DEF Resume
<1>3. CASE Audited(c)
  <2> DEFINE cut == IF call[c].ok /\ Len(audit) > AuditCap
                    THEN Oldest(AuditSeqs, Len(audit) - AuditCap) ELSE {}
             g == [call[c] EXCEPT !.phase = "cut", !.cut = cut]
  <2>1. Goto(c, g) /\ g.cut = cut
    BY <1>1, <1>3, CutMoves DEF Audited
  <2> HIDE DEF g
  <2>2. CASE cut = {}
    BY <1>1, <2>1, <2>2, GotoOwn
  <2>3. CASE Len(audit) > AuditCap /\ cut = Oldest(AuditSeqs, Len(audit) - AuditCap)
    BY <1>1, <2>1, <2>3 DEF Goto, OwnMove, TakesSnapshot, TypeInv, CallInv
  <2> QED
    BY <2>2, <2>3
<1>4. CASE TrimAudit(c)
  <2>1. CASE Goto(c, IF call[c].op \in Loops \cup {"add"}
                     THEN [call[c] EXCEPT !.phase = "next"] ELSE Idle)
    <3>1. PICK frame : frame = IF call[c].op \in Loops \cup {"add"}
                               THEN [call[c] EXCEPT !.phase = "next"] ELSE Idle
      OBVIOUS
    <3>2. frame.cut \in {call[c].cut, {}}
      BY <1>1, <3>1, CutMoves
    <3>3. Goto(c, frame)
      BY <2>1, <3>1
    <3> QED
      BY <1>1, <3>2, <3>3, GotoOwn
  <2>2. ASSUME NEW q \in call[c].cut, \A t \in call[c].cut : q <= t, NEW frame,
               frame = [call[c] EXCEPT !.phase = "cutting", !.cut = call[c].cut \ {q}],
               Enqueue(c, frame, "auditDelete", call[c].id, q)
        PROVE  OwnMove(c)
    <3>1. frame.cut = call[c].cut \ {q}
      BY <1>1, <2>2, CutMoves
    <3> QED
      BY <1>1, <2>2, <3>1, EnqueueOwn
  <2> QED
    BY <1>4, <2>1, <2>2 DEF TrimAudit
<1>5. CASE TrimEntries(c)
  BY <1>1, <1>5, CutMoves, GotoOwn DEF TrimEntries
<1>6. CASE Step(c)
  <2>1. ASSUME NEW i, NEW frame, NEW kind, Turn(c, frame, kind, i)
        PROVE  OwnMove(c)
    BY <1>1, <2>1, EnqueueOwn DEF Turn
  <2>2. CASE Goto(c, Idle)
    BY <1>1, <2>2, CutMoves, GotoOwn
  <2>3. ASSUME NEW i, Goto(c, [call[c] EXCEPT !.todo = call[c].todo \ {i}])
        PROVE  OwnMove(c)
    <3>1. PICK frame : frame = [call[c] EXCEPT !.todo = call[c].todo \ {i}]
      OBVIOUS
    <3>2. Goto(c, frame) /\ frame.cut = call[c].cut
      BY <1>1, <2>3, <3>1, CutMoves
    <3> QED
      BY <1>1, <3>2, GotoOwn
  <2> QED
    BY <1>1, <1>6, <2>1, <2>2, <2>3, StepTurns
<1>7. CASE Guarded(c)
  <2>1. CASE Enqueue(c, Writing(call[c], call[c].id), "delete", call[c].id, Absent)
    <3>1. PICK frame : frame = Writing(call[c], call[c].id)
      OBVIOUS
    <3> QED
      BY <1>1, <2>1, <3>1, CutMoves, EnqueueOwn
  <2>2. CASE Goto(c, [call[c] EXCEPT !.phase = "next"])
    <3>1. PICK frame : frame = [call[c] EXCEPT !.phase = "next"]
      OBVIOUS
    <3>2. Goto(c, frame) /\ frame.cut = call[c].cut
      BY <1>1, <2>2, <3>1, CutMoves
    <3> QED
      BY <1>1, <3>2, GotoOwn
  <2> QED
    BY <1>7, <2>1, <2>2 DEF Guarded
<1> QED
  BY <1>2, <1>3, <1>4, <1>5, <1>6, <1>7 DEF Proceed

\* Queuing a job moves nothing in front of those already queued.
LEMMA CallerKeepsSafe ==
  ASSUME TypeInv, TypeInv', CallerMoves, NEW c \in Clients, OwnMove(c),
         NEW i, NEW n \in 1..Len(chain), SafeBefore(i, n)
  PROVE  SafeBefore(i, n)'
<1>1. /\ Len(chain) \in Nat /\ Len(chain') \in Nat
      /\ \A m \in 1..Len(chain) : m \in 1..Len(chain') /\ chain'[m] = chain[m]
      /\ \A m \in 1..Len(chain') : m < n => m \in 1..Len(chain)
  <2>1. Len(chain) \in Nat /\ Len(chain') \in Nat
    BY ChainTyped DEF TypeInv, CallInv
  <2>2. CASE chain' = chain
    BY <2>1, <2>2
  <2>3. ASSUME NEW job, chain' = Append(chain, job)
        PROVE  /\ \A m \in 1..Len(chain) : m \in 1..Len(chain') /\ chain'[m] = chain[m]
               /\ \A m \in 1..Len(chain') : m < n => m \in 1..Len(chain)
    BY <2>1, <2>3, QueuedPositions
  <2> QED
    BY <2>1, <2>2, <2>3 DEF OwnMove, QueuesOwn
<1>2. entries' = entries
  BY DEF CallerMoves
<1>3. /\ (i \in Live)' <=> i \in Live
      /\ Resting(i)' <=> Resting(i)
      /\ \A m \in 1..Len(chain) : /\ Unpins(m, i)' <=> Unpins(m, i)
                                  /\ Signals(m, i)' <=> Signals(m, i)
  BY <1>1, <1>2 DEF Live, Resting, Unpins, Signals
<1>4. CASE /\ i \in Live => Resting(i)
           /\ \A m \in 1..Len(chain) : m < n => ~Unpins(m, i)
  BY <1>1, <1>3, <1>4 DEF SafeBefore
<1>5. ASSUME NEW k \in 1..Len(chain), k < n, Signals(k, i),
             \A m \in 1..Len(chain) : k < m /\ m < n => ~Unpins(m, i)
      PROVE  SafeBefore(i, n)'
  BY <1>1, <1>3, <1>5 DEF SafeBefore
<1> QED
  BY <1>4, <1>5 DEF SafeBefore

LEMMA CallerKeepsHonored ==
  ASSUME TypeInv, TypeInv', Honored, CallerMoves, NEW c \in Clients, OwnMove(c)
  PROVE  Honored'
<1>1. \A n \in 1..Len(chain) : chain[n].by \in Clients /\ chain[n].by # c
  BY ChainTyped, JobTyped DEF OwnMove, TypeInv, CallInv, Waiting
<1>2. ASSUME NEW n \in 1..Len(chain), chain'[n] = chain[n], NEW i \in Ids,
             Decays(n)', chain'[n].id = i
      PROVE  /\ chain'[n].kind = "guard" => i \in Project
             /\ chain'[n].kind = "decay" => i \notin Project
             /\ i \in call'[chain'[n].by].shield => SafeBefore(i, n)'
  <2>1. Decays(n) /\ chain[n].id = i /\ call'[chain'[n].by] = call[chain[n].by]
    BY <1>1, <1>2 DEF Decays, OwnMove
  <2>2. SafeBefore(i, n) => SafeBefore(i, n)'
    BY CallerKeepsSafe
  <2> QED
    BY <1>2, <2>1, <2>2 DEF Honored
<1>3. CASE chain' = chain
  BY <1>2, <1>3 DEF Honored
<1>4. ASSUME NEW job, QueuesOwn(c, job) PROVE Honored'
  <2>1. /\ 1..Len(chain') = 1..Len(chain) \cup {Len(chain) + 1}
        /\ \A m \in 1..Len(chain) : chain'[m] = chain[m] /\ m < Len(chain) + 1
        /\ chain'[Len(chain) + 1] = job
    BY <1>4, QueuedPositions DEF QueuesOwn
  <2>2. ASSUME NEW n, n = Len(chain) + 1, NEW i \in Ids, Spared(i)
        PROVE  SafeBefore(i, n)'
    <3>1. /\ entries' = entries /\ DOMAIN chain = 1..Len(chain) /\ Len(chain) \in Nat
          /\ \A m \in 1..Len(chain') : m < n => m \in 1..Len(chain)
      BY <2>1, <2>2, ChainTyped DEF CallerMoves, TypeInv, CallInv
    <3>2. /\ (i \in Live)' <=> i \in Live
          /\ Resting(i)' <=> Resting(i)
          /\ \A m \in 1..Len(chain) : /\ Unpins(m, i)' <=> Unpins(m, i)
                                      /\ Signals(m, i)' <=> Signals(m, i)
      BY <2>1, <3>1 DEF Live, Resting, Unpins, Signals
    <3>3. CASE i \in Live /\ Resting(i) /\ \A m \in DOMAIN chain : ~Unpins(m, i)
      BY <3>1, <3>2, <3>3 DEF SafeBefore
    <3>4. ASSUME NEW k \in DOMAIN chain, Signals(k, i),
                 \A m \in DOMAIN chain : m > k => ~Unpins(m, i)
          PROVE  SafeBefore(i, n)'
      <4>1. k \in 1..Len(chain) /\ k \in 1..Len(chain') /\ k < n /\ Signals(k, i)'
        BY <2>1, <2>2, <3>1, <3>2, <3>4
      <4>2. \A m \in 1..Len(chain') : k < m /\ m < n => ~Unpins(m, i)'
        BY <3>1, <3>2, <3>4, <4>1
      <4> QED
        BY <4>1, <4>2 DEF SafeBefore
    <3> QED
      BY <2>2, <3>3, <3>4 DEF Spared
  <2>3. ASSUME NEW n, n = Len(chain) + 1, NEW i \in Ids, Decays(n)', chain'[n].id = i
        PROVE  /\ chain'[n].kind = "guard" => i \in Project
               /\ chain'[n].kind = "decay" => i \notin Project
               /\ i \in call'[chain'[n].by].shield => SafeBefore(i, n)'
    <3>1. /\ chain'[n] = job /\ job.by = c /\ job.id = i
          /\ job.kind \in {"guard", "decay"}
      BY <1>4, <2>1, <2>3 DEF QueuesOwn, Decays
    <3>2. Spared(i) => SafeBefore(i, n)'
      BY <2>2, <2>3
    <3> QED
      BY <1>4, <3>1, <3>2 DEF QueuesOwn
  <2> QED
    BY <1>2, <2>1, <2>3 DEF Honored
<1> QED
  BY <1>3, <1>4 DEF OwnMove

LEMMA PinDoesNotUnpin ==
  ASSUME NEW i, NEW n, Signals(n, i)
  PROVE  ~Unpins(n, i)
  BY DEF Signals, Unpins

\* A write that does not take the pin off leaves a resting entry at rest.
LEMMA LandKeepsResting ==
  ASSUME TypeInv, Land, NEW i \in Ids,
         ~Unpins(1, i),
         (i \in Live => Resting(i)) \/ Signals(1, i)
  PROVE  (i \in Live)' => Resting(i)'
<1> DEFINE job == Head(chain)
           e == entries[i]
<1>1. /\ chain # <<>> /\ entries' = [entries EXCEPT ![job.id] = Written(job)]
      /\ entries \in [Ids -> Entry \cup {Absent}]
  BY DEF Land, TypeInv, DataTyped
<1>2. /\ job = chain[1] /\ job \in Jobs /\ job.id \in Ids /\ job.kind \in JobKinds
      /\ job.kind = "put" => job.val \in Entry
  BY <1>1, HeadTyped, JobTyped DEF TypeInv
<1>3. CASE job.id # i
  <2>1. entries'[i] = e /\ ~Signals(1, i)
    BY <1>1, <1>2, <1>3 DEF Signals
  <2> QED
    BY <2>1 DEF Live, Resting
<1>4. ASSUME job.id = i, entries'[i] # Absent PROVE Resting(i)'
  <2>1. entries'[i] = Written(job) /\ Written(job) # Absent /\ e \in Entry \cup {Absent}
    BY <1>1, <1>4
  <2> DEFINE w == Written(job)
  <2>2. CASE job.kind = "put"
    <3>1. w = job.val /\ job.val.pinned
      BY <1>2, <1>4, <2>2 DEF Written, Unpins
    <3> QED
      BY <2>1, <3>1 DEF Resting
  <2>3. CASE job.kind = "delete"
    BY <2>1, <2>3 DEF Written
  <2>4. CASE job.kind \in {"tool", "fence"}
    <3>1. e \in Entry
      BY <1>4, <2>1, <2>4 DEF Written
    <3>2. /\ Recalled(e) \in Entry /\ Recalled(e).age = 0
          /\ Recalled(e).pinned = e.pinned
      <4>1. 0 \in 0..2
        OBVIOUS
      <4> QED
        BY <3>1, <4>1 DEF Recalled, Entry
    <3>3. \A r \in Entry, n \in Nat :
            /\ [r EXCEPT !.access = n].age = r.age
            /\ [r EXCEPT !.access = n].pinned = r.pinned
      BY DEF Entry
    <3>4. w.age = 0 /\ w.pinned = e.pinned
      <4>1. Recalled(e).access + 1 \in Nat /\ e # Absent
        BY <3>1, <3>2, AbsentAssumption DEF Entry
      <4>2. CASE job.kind = "tool"
        BY <1>4, <3>2, <3>3, <4>1, <4>2 DEF Written
      <4>3. CASE job.kind = "fence"
        BY <1>4, <3>2, <4>1, <4>3 DEF Written
      <4> QED
        BY <2>4, <4>2, <4>3
    <3>5. i \in Project => e.pinned
      <4>1. i \in Live
        BY <3>1, AbsentAssumption DEF Live
      <4>2. i \in Project => ~Signals(1, i)
        BY <1>2, <2>4 DEF Signals
      <4> QED
        BY <4>1, <4>2 DEF Resting
    <3> QED
      BY <2>1, <3>4, <3>5 DEF Resting
  <2>5. CASE job.kind \in {"hit", "decay", "guard", "auditPut", "auditDelete"}
    <3>1. e \in Entry
      BY <1>4, <2>1, <2>5 DEF Written
    <3>2. w.age = e.age /\ w.pinned = e.pinned
      <4>1. \A b : [e EXCEPT !.stale = b].age = e.age /\ [e EXCEPT !.stale = b].pinned = e.pinned
        BY <3>1 DEF Entry
      <4>2. Hit(e).age = e.age /\ Hit(e).pinned = e.pinned
        BY <3>1 DEF Entry, Hit
      <4>3. CASE job.kind = "decay"
        <5>1. w = [e EXCEPT !.stale = e.stale \/ DecayDue(job.id)]
          BY <1>4, <3>1, <4>3, AbsentAssumption DEF Written
        <5> QED
          BY <4>1, <5>1
      <4>4. CASE job.kind = "hit"
        BY <1>4, <3>1, <4>2, <4>4, AbsentAssumption DEF Written
      <4>5. CASE job.kind \in {"guard", "auditPut", "auditDelete"}
        BY <1>4, <4>5 DEF Written
      <4> QED
        BY <2>5, <4>3, <4>4, <4>5
    <3>3. Resting(i)
      <4>1. i \in Live /\ ~Signals(1, i)
        BY <1>2, <2>5, <3>1, AbsentAssumption DEF Live, Signals
      <4> QED
        BY <4>1
    <3> QED
      BY <2>1, <3>2, <3>3 DEF Resting
  <2> QED
    BY <1>2, <2>2, <2>3, <2>4, <2>5 DEF JobKinds
<1> QED
  BY <1>3, <1>4 DEF Live

\* The head of the chain lands: what stood before position n + 1 now stands
\* before position n, the signal that was at the head in the table.
LEMMA LandKeepsSafe ==
  ASSUME TypeInv, Land, NEW i \in Ids, NEW n \in 1..Len(chain'), NEW p, p = n + 1,
         SafeBefore(i, p)
  PROVE  SafeBefore(i, n)'
<1>1. chain # <<>> /\ chain' = Tail(chain) /\ chain \in Seq(Jobs)
  BY DEF Land, TypeInv, CallInv
<1>2. /\ 1 \in 1..Len(chain) /\ Len(chain) \in Nat /\ Len(chain') \in Nat
      /\ \A m \in 1..Len(chain') : m + 1 \in 1..Len(chain) /\ chain'[m] = chain[m + 1]
      /\ \A m \in 1..Len(chain) :
           m # 1 => m - 1 \in 1..Len(chain') /\ chain'[m - 1] = chain[m]
  BY <1>1, TailPositions
<1>3. ASSUME NEW m \in 1..Len(chain'), NEW k, k = m + 1
      PROVE  /\ k \in 1..Len(chain)
             /\ Unpins(m, i)' <=> Unpins(k, i)
             /\ Signals(m, i)' <=> Signals(k, i)
  BY <1>2, <1>3 DEF Unpins, Signals
<1>4. ASSUME \A m \in 1..Len(chain) : m < p => ~Unpins(m, i),
             (i \in Live => Resting(i)) \/ Signals(1, i)
      PROVE  SafeBefore(i, n)'
  <2>1. ~Unpins(1, i)
    <3>1. n \in Nat /\ 1 <= n /\ p = n + 1
      BY <1>2
    <3>2. 1 \in 1..Len(chain) /\ 1 < p
      BY <1>2, <3>1
    <3> QED
      BY <1>4, <3>2, Zenon
  <2>2. (i \in Live)' => Resting(i)'
    BY <1>4, <2>1, LandKeepsResting
  <2>3. ASSUME NEW m \in 1..Len(chain'), m < n PROVE ~Unpins(m, i)'
    <3>1. PICK k : k = m + 1
      OBVIOUS
    <3>2. k \in 1..Len(chain) /\ k < p
      BY <1>2, <2>3, <3>1
    <3> QED
      BY <1>3, <1>4, <3>1, <3>2
  <2> QED
    BY <2>2, <2>3 DEF SafeBefore
<1>5. ASSUME NEW k \in 1..Len(chain), k < p, Signals(k, i),
             \A m \in 1..Len(chain) : k < m /\ m < p => ~Unpins(m, i)
      PROVE  SafeBefore(i, n)'
  <2>1. CASE k = 1
    <3>1. ~Unpins(1, i)
      BY <1>5, <2>1, PinDoesNotUnpin DEF TypeInv
    <3>2. \A m \in 1..Len(chain) : m < p => ~Unpins(m, i)
      BY <1>2, <1>5, <2>1, <3>1
    <3> QED
      BY <1>4, <1>5, <2>1, <3>2
  <2>2. CASE k # 1
    <3>1. PICK j : j = k - 1
      OBVIOUS
    <3>2. j \in 1..Len(chain') /\ k = j + 1 /\ j < n
      BY <1>2, <1>5, <2>2, <3>1
    <3>3. Signals(j, i)'
      BY <1>3, <1>5, <3>2
    <3>4. ASSUME NEW m \in 1..Len(chain'), j < m, m < n PROVE ~Unpins(m, i)'
      <4>1. PICK q : q = m + 1
        OBVIOUS
      <4>2. q \in 1..Len(chain) /\ k < q /\ q < p
        BY <1>2, <3>2, <3>4, <4>1
      <4> QED
        BY <1>3, <1>5, <4>1, <4>2
    <3> QED
      BY <3>2, <3>3, <3>4 DEF SafeBefore
  <2> QED
    BY <2>1, <2>2
<1>6. ASSUME i \in Live => Resting(i), \A m \in 1..Len(chain) : m < p => ~Unpins(m, i)
      PROVE  SafeBefore(i, n)'
  BY <1>4, <1>6
<1> QED
  BY <1>5, <1>6 DEF SafeBefore

LEMMA LandKeepsHonored ==
  ASSUME TypeInv, Honored, Land
  PROVE  Honored'
<1>1. chain # <<>> /\ chain' = Tail(chain) /\ chain \in Seq(Jobs)
  BY DEF Land, TypeInv, CallInv
<1>2. /\ Head(chain) = chain[1] /\ 1 \in 1..Len(chain)
      /\ \A m \in 1..Len(chain') :
           m + 1 \in 1..Len(chain) /\ m + 1 # 1 /\ chain'[m] = chain[m + 1]
  BY <1>1, TailPositions
<1>3. \A d \in Clients : d # Head(chain).by => call'[d] = call[d]
  BY DEF Land, TypeInv, CallInv
<1>4. ASSUME NEW n \in 1..Len(chain'), NEW i \in Ids, Decays(n)', chain'[n].id = i
      PROVE  /\ chain'[n].kind = "guard" => i \in Project
             /\ chain'[n].kind = "decay" => i \notin Project
             /\ i \in call'[chain'[n].by].shield => SafeBefore(i, n)'
  <2>1. PICK p : p = n + 1
    OBVIOUS
  <2>2. p \in 1..Len(chain) /\ p # 1 /\ chain'[n] = chain[p] /\ Decays(p) /\ chain[p].id = i
    BY <1>2, <1>4, <2>1 DEF Decays
  <2>3. chain[p].by # Head(chain).by /\ chain[p].by \in Clients
    BY <1>2, <2>2, ChainTyped, JobTyped DEF TypeInv, CallInv, Waiting
  <2>4. call'[chain'[n].by] = call[chain[p].by]
    BY <1>3, <2>2, <2>3
  <2>5. SafeBefore(i, p) => SafeBefore(i, n)'
    BY <2>1, LandKeepsSafe
  <2> QED
    BY <2>2, <2>4, <2>5 DEF Honored
<1> QED
  BY <1>4 DEF Honored

\* Days pass only while nothing is queued.
LEMMA RestIsEmpty ==
  ASSUME TypeInv, \A c \in Clients : call[c].phase = "idle"
  PROVE  chain = <<>>
<1>1. chain \in Seq(Jobs)
  BY DEF TypeInv, CallInv
<1>2. ASSUME chain # <<>> PROVE FALSE
  BY <1>2, HeadTyped DEF TypeInv, Waits
<1> QED
  BY <1>2

HonorInv == StoreInv /\ (faults = 0 => Honored)

LEMMA HonorInvHolds == Spec => []HonorInv
<1>1. Init => HonorInv
  <2> SUFFICES ASSUME Init PROVE Honored
    BY InvStarts DEF HonorInv
  <2>1. 1..Len(chain) = {}
    BY DEF Init
  <2> QED
    BY <2>1 DEF Honored
<1>2. HonorInv /\ [Next]_vars => HonorInv'
  <2> SUFFICES ASSUME HonorInv, [Next]_vars, faults' = 0 PROVE Honored'
    BY StepKeepsInv DEF HonorInv
  <2>1. StoreInv /\ StoreInv' /\ TypeInv /\ TypeInv'
    BY StepKeepsInv DEF HonorInv, StoreInv
  <2>2. faults \in Nat
    BY <2>1 DEF TypeInv, DataTyped
  <2>3. ASSUME NEW c \in Clients, Start(c) \/ Proceed(c) PROVE Honored'
    <3>1. CallerMoves /\ OwnMove(c)
      BY <2>1, <2>3, StartMoves, ProceedMoves, StartOwn, ProceedOwn
    <3>2. faults = 0
      BY <3>1 DEF CallerMoves
    <3> QED
      BY <2>1, <3>1, <3>2, CallerKeepsHonored DEF HonorInv
  <2>4. CASE Land
    <3>1. faults = 0
      BY <2>4 DEF Land
    <3> QED
      BY <2>1, <2>4, <3>1, LandKeepsHonored DEF HonorInv
  <2>5. CASE Reject
    BY <2>2, <2>5 DEF Reject
  <2>6. CASE Crash \/ \E i \in Ids : Ageing(i)
    <3>1. chain' = <<>>
      BY <2>1, <2>6, RestIsEmpty DEF Crash, Ageing
    <3>2. 1..Len(chain') = {}
      BY <3>1
    <3> QED
      BY <3>2 DEF Honored
  <2>7. CASE UNCHANGED vars
    <3>1. entries' = entries /\ chain' = chain /\ call' = call /\ faults' = faults
      BY <2>7 DEF vars
    <3> QED
      BY <3>1 DEF HonorInv, Honored, SafeBefore, Decays, Resting, Live, Unpins, Signals
  <2> QED
    BY <2>3, <2>4, <2>5, <2>6, <2>7 DEF Next
<1> QED
  BY <1>1, <1>2, PTL DEF Spec

\* The janitor decides again behind the chain: of an entry that was pinned, or
\* recalled where decay is soft, when the pass reached it, or that a write
\* queued before the pass's own makes so, it never decides that it may decay,
\* however old the snapshot the pass runs on is.
THEOREM SignalsAreHonored == Spec => EarlierSignalHonored
<1>1. ASSUME HonorInv, Land, faults = 0, Decided(Head(chain))
      PROVE  Head(chain).id \notin call[Head(chain).by].shield
  <2> DEFINE job == Head(chain)
  <2>1. chain # <<>> /\ TypeInv /\ Honored
    BY <1>1 DEF Land, HonorInv, StoreInv
  <2>2. PICK i \in Ids : i = job.id
    BY <2>1, HeadTyped DEF TypeInv
  <2>3. /\ job = chain[1] /\ 1 \in 1..Len(chain) /\ job.kind \in {"guard", "decay"}
        /\ i \in Live /\ entries[i] \in Entry /\ Took(job)
    <3>1. job = chain[1] /\ 1 \in 1..Len(chain)
      BY <2>1, HeadTyped DEF TypeInv
    <3>2. job.kind \in {"guard", "decay"} /\ i \in Live /\ Took(job)
      BY <1>1, <2>2 DEF Decided, Live
    <3> QED
      BY <2>1, <3>1, <3>2, LiveTyped DEF TypeInv
  <2>4. /\ job.kind = "guard" => i \in Project
        /\ job.kind = "decay" => i \notin Project
        /\ i \in call[job.by].shield => SafeBefore(i, 1)
    BY <2>1, <2>2, <2>3 DEF Honored, Decays
  <2>5. ~Resting(i)
    <3>1. CASE job.kind = "guard"
      <4>1. entries[i] # Absent /\ (entries[i] = Absent \/ ~entries[i].pinned)
        BY <2>2, <2>3, <3>1 DEF Took, Live
      <4> QED
        BY <2>4, <3>1, <4>1 DEF Resting
    <3>2. CASE job.kind = "decay"
      <4>1. DecayDue(i)
        BY <2>2, <2>3, <3>2 DEF Took
      <4>2. ~entries[i].pinned /\ entries[i].age # 0
        BY <4>1 DEF DecayDue
      <4> QED
        BY <4>2 DEF Resting
    <3> QED
      BY <2>3, <3>1, <3>2
  <2>6. SafeBefore(i, 1) => Resting(i)
    <3>1. Len(chain) \in Nat
      BY <2>1, ChainTyped
    <3>2. \A k \in 1..Len(chain) : ~(k < 1)
      BY <3>1
    <3> QED
      BY <2>3, <3>2 DEF SafeBefore
  <2> QED
    BY <2>2, <2>4, <2>5, <2>6
<1>2. HonorInv /\ [Next]_vars =>
        [Land /\ Decided(Head(chain)) /\ faults = 0
           => Head(chain).id \notin call[Head(chain).by].shield]_vars
  BY <1>1
<1> QED
  BY <1>2, HonorInvHolds, PTL DEF Spec, EarlierSignalHonored

-----------------------------------------------------------------------------
(* The trim of the audit table.  A caller has numbers to delete from a      *)
(* snapshot of the table that may be old; what is left of them is always a  *)
(* prefix of the table, at least AuditCap records before its end.          *)

Deletes(c) == {n \in 1..Len(chain) : chain[n].by = c /\ chain[n].kind = "auditDelete"}

\* The numbers a caller still means to delete.
Doomed(c) == call[c].cut \cup {chain[n].val : n \in Deletes(c)}

\* The records at and before a number that is to be deleted.
PrefixDoomed(c, k) ==
  \A n \in 1..Len(audit) : audit[n].seq = k =>
    /\ n + AuditCap <= Len(audit)
    /\ \A m \in 1..Len(audit) : m < n => audit[m].seq \in Doomed(c)

TrimInv ==
  /\ \A c \in Clients : \A k \in Doomed(c) :
       /\ k \in Nat /\ k <= auditSeq /\ PrefixDoomed(c, k)
       /\ \A n \in 1..Len(chain) : Numbered(n) => chain[n].val.seq # k
  /\ \A c \in Clients : \A n \in Deletes(c) : \A k \in call[c].cut : chain[n].val < k

\* In a table in append order, n - 1 numbers are smaller than the n-th.
LEMMA SmallerSeqs ==
  ASSUME TypeInv, OrderInv, NEW n \in 1..Len(audit)
  PROVE  Cardinality({t \in AuditSeqs : t < audit[n].seq}) = n - 1
<1> DEFINE S == {t \in AuditSeqs : t < audit[n].seq}
           f == [m \in 1..(n - 1) |-> audit[m].seq]
<1>1. /\ Len(audit) \in Nat /\ DOMAIN audit = 1..Len(audit)
      /\ \A m \in 1..Len(audit) : audit[m].seq \in Nat
  BY AuditSeqsTyped DEF TypeInv, DataTyped
<1>2. \A m \in 1..(n - 1) : m \in 1..Len(audit) /\ m < n
  BY <1>1
<1>3. \A m \in 1..(n - 1) : f[m] \in S
  BY <1>1, <1>2 DEF OrderInv, AuditSeqs
<1>4. \A a, b \in 1..(n - 1) : f[a] = f[b] => a = b
  <2> SUFFICES ASSUME NEW a \in 1..(n - 1), NEW b \in 1..(n - 1),
                      audit[a].seq = audit[b].seq
               PROVE  a = b
    OBVIOUS
  <2>1. a \in 1..Len(audit) /\ b \in 1..Len(audit)
    BY <1>2
  <2>2. ~(a < b) /\ ~(b < a)
    BY <1>1, <2>1 DEF OrderInv
  <2> QED
    BY <2>1, <2>2
<1>5. \A t \in S : \E m \in 1..(n - 1) : f[m] = t
  <2> SUFFICES ASSUME NEW t \in S PROVE \E m \in 1..(n - 1) : f[m] = t
    OBVIOUS
  <2>1. PICK m \in 1..Len(audit) : audit[m].seq = t
    BY <1>1 DEF AuditSeqs
  <2>2. m # n /\ ~(n < m)
    BY <1>1, <2>1 DEF OrderInv
  <2>3. m \in 1..(n - 1)
    BY <1>1, <2>2
  <2> QED
    BY <2>1, <2>3
<1>6. f \in Bijection(1..(n - 1), S)
  <2>1. f \in [1..(n - 1) -> S]
    BY <1>3
  <2> HIDE DEF f, S
  <2> QED
    BY <1>4, <1>5, <2>1, Fun_IsBij
<1>7. ExistsBijection(1..(n - 1), S)
  BY <1>6 DEF ExistsBijection
<1>8. IsFiniteSet(1..(n - 1)) /\ Cardinality(1..(n - 1)) = n - 1
  <2>1. n - 1 \in Int /\ 1 \in Int /\ (1 > n - 1 => n - 1 = 0)
    OBVIOUS
  <2> QED
    BY <2>1, FS_Interval
<1> HIDE DEF S
<1>9. Cardinality(S) = n - 1
  BY <1>7, <1>8, FS_Bijection
<1> QED
  BY <1>9 DEF S

\* The snapshot of a trim is the front of the table down to the cap.
LEMMA SnapshotIsPrefix ==
  ASSUME TypeInv, OrderInv, NEW excess \in Int
  PROVE  /\ Oldest(AuditSeqs, excess) \subseteq AuditSeqs
         /\ \A n \in 1..Len(audit) :
              audit[n].seq \in Oldest(AuditSeqs, excess) <=> n - 1 < excess
<1>1. DOMAIN audit = 1..Len(audit)
  BY AuditSeqsTyped DEF TypeInv, DataTyped
<1>2. \A n \in 1..Len(audit) : audit[n].seq \in AuditSeqs
  BY <1>1 DEF AuditSeqs
<1> QED
  BY <1>2, SmallerSeqs DEF Oldest

LEMMA DoomedTyped ==
  ASSUME TypeInv, NEW c \in Clients
  PROVE  /\ call[c].cut \subseteq Nat
         /\ \A n \in Deletes(c) : chain[n] \in Jobs /\ chain[n].val \in Nat
         /\ call[c].phase \notin Waits => Deletes(c) = {}
<1>1. call[c].cut \subseteq Nat
  BY DEF TypeInv, CallInv, Frames
<1>2. \A n \in Deletes(c) : chain[n] \in Jobs /\ chain[n].val \in Nat
  BY ChainTyped, JobTyped DEF Deletes
<1>3. \A n \in 1..Len(chain) : chain[n].by = c => call[c].phase \in Waits
  BY ChainTyped, JobTyped DEF TypeInv, CallInv, Waiting
<1> QED
  BY <1>1, <1>2, <1>3 DEF Deletes

\* A step of one caller leaves alone what the others mean to delete, and its
\* own as it was, unless it is done or takes a new snapshot.
LEMMA CallerDoomed ==
  ASSUME TypeInv, TypeInv', NEW c \in Clients, OwnMove(c)
  PROVE  /\ \A d \in Clients : d # c => Doomed(d)' = Doomed(d)
         /\ \/ Doomed(c)' = Doomed(c) \/ Doomed(c)' = {}
            \/ TakesSnapshot(c) /\ Doomed(c)' = Oldest(AuditSeqs, Len(audit) - AuditCap)
         /\ \A d \in Clients : d # c => Deletes(d)' = Deletes(d)
         /\ \A n \in 1..Len(chain) : n \in 1..Len(chain') /\ chain'[n] = chain[n]
         /\ \A n \in Deletes(c)' : \A k \in call'[c].cut : chain'[n].val < k
<1>1. Deletes(c) = {} /\ Doomed(c) = call[c].cut /\ call[c].cut \subseteq Nat
  BY DoomedTyped DEF OwnMove, Doomed
<1>2. \A d \in Clients : d # c => call'[d] = call[d]
  BY DEF OwnMove
<1>3. CASE chain' = chain
  <2>1. \A d \in Clients : Deletes(d)' = Deletes(d)
    BY <1>3 DEF Deletes
  <2>2. KeepsCut(c) \/ TakesSnapshot(c)
    <3>1. \A job : chain' # Append(chain, job)
      <4>1. chain \in Seq(Jobs) /\ Len(chain) \in Nat
        BY DEF TypeInv, CallInv
      <4> QED
        BY <1>3, <4>1, QueuedPositions
    <3> QED
      BY <3>1 DEF OwnMove, QueuesOwn
  <2>3. \A d \in Clients : d # c => Doomed(d)' = Doomed(d)
    BY <1>2, <1>3, <2>1 DEF Doomed
  <2>4. Doomed(c)' = call'[c].cut
    BY <1>1, <2>1 DEF Doomed
  <2> QED
    BY <1>1, <1>3, <2>1, <2>2, <2>3, <2>4 DEF KeepsCut, TakesSnapshot
<1>4. ASSUME NEW job, QueuesOwn(c, job)
      PROVE  /\ \A d \in Clients : d # c => Doomed(d)' = Doomed(d)
             /\ Doomed(c)' = Doomed(c) \/ Doomed(c)' = {}
             /\ \A d \in Clients : d # c => Deletes(d)' = Deletes(d)
             /\ \A n \in 1..Len(chain) : n \in 1..Len(chain') /\ chain'[n] = chain[n]
             /\ \A n \in Deletes(c)' : \A k \in call'[c].cut : chain'[n].val < k
  <2>1. /\ 1..Len(chain') = 1..Len(chain) \cup {Len(chain) + 1}
        /\ \A n \in 1..Len(chain) : chain'[n] = chain[n] /\ n < Len(chain) + 1
        /\ chain'[Len(chain) + 1] = job /\ job \in Jobs /\ job.by = c
    BY <1>4, QueuedPositions DEF QueuesOwn
  <2>2. \A d \in Clients : d # c => Deletes(d)' = Deletes(d)
    BY <2>1 DEF Deletes
  <2>3. \A d \in Clients : d # c => Doomed(d)' = Doomed(d)
    <3> SUFFICES ASSUME NEW d \in Clients, d # c PROVE Doomed(d)' = Doomed(d)
      OBVIOUS
    <3>1. Deletes(d)' = Deletes(d) /\ Deletes(d) \subseteq 1..Len(chain)
      BY <2>2 DEF Deletes
    <3>2. \A n \in Deletes(d) : chain'[n].val = chain[n].val
      BY <2>1, <3>1
    <3> QED
      BY <1>2, <3>1, <3>2 DEF Doomed
  <2>4. CASE job.kind # "auditDelete"
    <3>1. Deletes(c)' = {}
      BY <1>1, <2>1, <2>4 DEF Deletes
    <3>2. Doomed(c)' = call'[c].cut
      BY <3>1 DEF Doomed
    <3> QED
      BY <1>1, <1>4, <2>1, <2>2, <2>3, <2>4, <3>1, <3>2 DEF QueuesOwn, KeepsCut
  <2>5. CASE job.kind = "auditDelete"
    <3>1. Deletes(c)' = {Len(chain) + 1}
      BY <1>1, <2>1, <2>5 DEF Deletes
    <3>2. Doomed(c)' = call'[c].cut \cup {job.val}
      BY <2>1, <3>1 DEF Doomed
    <3>3. /\ job.val \in call[c].cut /\ \A t \in call[c].cut : job.val <= t
          /\ call'[c].cut = call[c].cut \ {job.val}
      BY <1>4, <2>5 DEF QueuesOwn
    <3>4. \A k \in call'[c].cut : job.val < k
      BY <1>1, <3>3
    <3> QED
      BY <1>1, <2>1, <2>2, <2>3, <3>1, <3>2, <3>3, <3>4
  <2> QED
    BY <2>4, <2>5
<1> QED
  BY <1>3, <1>4 DEF OwnMove

LEMMA CallerKeepsTrim ==
  ASSUME TypeInv, TypeInv', OrderInv, OrderInv', TrimInv, CallerMoves,
         NEW c \in Clients, OwnMove(c)
  PROVE  TrimInv'
<1>1. audit' = audit /\ auditSeq \in Nat /\ auditSeq' \in Nat /\ auditSeq <= auditSeq'
  BY ChainTyped DEF CallerMoves, Queues
<1>2. /\ \A d \in Clients : d # c => Doomed(d)' = Doomed(d) /\ Deletes(d)' = Deletes(d)
      /\ \A n \in 1..Len(chain) : n \in 1..Len(chain') /\ chain'[n] = chain[n]
      /\ \A n \in Deletes(c)' : \A k \in call'[c].cut : chain'[n].val < k
  BY CallerDoomed
<1>3. ASSUME NEW n \in 1..Len(chain'), Numbered(n)'
      PROVE  \/ n \in 1..Len(chain) /\ Numbered(n) /\ chain'[n] = chain[n]
             \/ chain'[n].val.seq = auditSeq + 1
  <2>1. CASE chain' = chain
    BY <1>3, <2>1 DEF Numbered
  <2>2. ASSUME NEW job, Queues(job)
        PROVE  \/ n \in 1..Len(chain) /\ Numbered(n) /\ chain'[n] = chain[n]
               \/ chain'[n].val.seq = auditSeq + 1
    <3>1. /\ 1..Len(chain') = 1..Len(chain) \cup {Len(chain) + 1}
          /\ chain'[Len(chain) + 1] = job
      BY <2>2, QueuedPositions DEF Queues
    <3> QED
      BY <1>2, <1>3, <2>2, <3>1 DEF Numbered, Queues
  <2> QED
    BY <2>1, <2>2 DEF CallerMoves
<1>4. ASSUME NEW d \in Clients, NEW k \in Nat, k <= auditSeq,
             \A n \in 1..Len(chain) : Numbered(n) => chain[n].val.seq # k
      PROVE  /\ k <= auditSeq'
             /\ \A n \in 1..Len(chain') : Numbered(n)' => chain'[n].val.seq # k
  BY <1>1, <1>3, <1>4
<1>5. ASSUME NEW d \in Clients, Doomed(d)' = Doomed(d), NEW k \in Doomed(d)'
      PROVE  /\ k \in Nat /\ k <= auditSeq' /\ PrefixDoomed(d, k)'
             /\ \A n \in 1..Len(chain') : Numbered(n)' => chain'[n].val.seq # k
  <2>1. /\ k \in Nat /\ k <= auditSeq /\ PrefixDoomed(d, k)
        /\ \A n \in 1..Len(chain) : Numbered(n) => chain[n].val.seq # k
    BY <1>5 DEF TrimInv
  <2>2. PrefixDoomed(d, k)'
    BY <1>1, <1>5, <2>1 DEF PrefixDoomed
  <2> QED
    BY <1>4, <2>1, <2>2
<1>6. ASSUME TakesSnapshot(c), Doomed(c)' = Oldest(AuditSeqs, Len(audit) - AuditCap),
             NEW k \in Doomed(c)'
      PROVE  /\ k \in Nat /\ k <= auditSeq' /\ PrefixDoomed(c, k)'
             /\ \A n \in 1..Len(chain') : Numbered(n)' => chain'[n].val.seq # k
  <2>1. /\ Len(audit) \in Nat /\ AuditCap \in Nat /\ Len(audit) - AuditCap \in Int
        /\ \A n \in 1..Len(audit) : audit[n].seq \in Nat
    BY ChainTyped, StoreAssumption
  <2>2. /\ k \in AuditSeqs
        /\ \A n \in 1..Len(audit) :
             audit[n].seq \in Doomed(c)' <=> n - 1 < Len(audit) - AuditCap
    BY <1>6, <2>1, SnapshotIsPrefix
  <2>3. PICK n \in 1..Len(audit) : audit[n].seq = k
    BY <2>2, AuditSeqsTyped DEF AuditSeqs, TypeInv, DataTyped
  <2>4. k \in Nat /\ k <= auditSeq
    BY <2>1, <2>3 DEF OrderInv
  <2>5. ASSUME NEW m \in 1..Len(chain), Numbered(m) PROVE chain[m].val.seq # k
    BY <2>1, <2>3, <2>5, ChainTyped DEF OrderInv
  <2>6. PrefixDoomed(c, k)'
    <3>1. ASSUME NEW j \in 1..Len(audit), audit[j].seq = k
          PROVE  /\ j + AuditCap <= Len(audit)
                 /\ \A m \in 1..Len(audit) : m < j => audit[m].seq \in Doomed(c)'
      <4>1. j - 1 < Len(audit) - AuditCap
        BY <1>6, <2>2, <3>1
      <4>2. \A m \in 1..Len(audit) : m < j => m - 1 < Len(audit) - AuditCap
        BY <2>1, <4>1
      <4> QED
        BY <2>1, <2>2, <4>1, <4>2
    <3> QED
      BY <1>1, <3>1 DEF PrefixDoomed
  <2> QED
    BY <1>4, <2>4, <2>5, <2>6
<1>7. ASSUME NEW d \in Clients, NEW k \in Doomed(d)'
      PROVE  /\ k \in Nat /\ k <= auditSeq' /\ PrefixDoomed(d, k)'
             /\ \A n \in 1..Len(chain') : Numbered(n)' => chain'[n].val.seq # k
  <2>1. CASE d # c
    BY <1>2, <1>5, <1>7, <2>1
  <2>2. CASE d = c
    <3>1. \/ Doomed(c)' = Doomed(c) \/ Doomed(c)' = {}
          \/ TakesSnapshot(c) /\ Doomed(c)' = Oldest(AuditSeqs, Len(audit) - AuditCap)
      BY CallerDoomed
    <3> QED
      BY <1>5, <1>6, <1>7, <2>2, <3>1
  <2> QED
    BY <2>1, <2>2
<1>8. ASSUME NEW d \in Clients, NEW n \in Deletes(d)', NEW k \in call'[d].cut
      PROVE  chain'[n].val < k
  <2>1. CASE d # c
    <3>1. n \in Deletes(d) /\ call'[d] = call[d] /\ chain'[n] = chain[n]
      BY <1>2, <1>8, <2>1 DEF Deletes, OwnMove
    <3> QED
      BY <1>8, <3>1 DEF TrimInv
  <2> QED
    BY <1>2, <1>8, <2>1
<1> QED
  BY <1>7, <1>8 DEF TrimInv

\* The job at the head is taken: only the caller of a deletion has one number
\* less in hand, if it keeps the rest of its cut.
LEMMA HeadDoomed ==
  ASSUME TypeInv, TrimInv, chain # <<>>, chain' = Tail(chain), NEW frame,
         NEW c, c = Head(chain).by, NEW v, v = Head(chain).val,
         call' = [call EXCEPT ![c] = frame],
         frame.cut = call[c].cut \/ (frame.cut = {} /\ Head(chain).kind = "auditDelete")
  PROVE  /\ \A d \in Clients : d # c => Doomed(d)' = Doomed(d)
         /\ Head(chain).kind # "auditDelete" => Doomed(c)' = Doomed(c)
         /\ Head(chain).kind = "auditDelete" =>
              Doomed(c)' = IF frame.cut = {} THEN {} ELSE Doomed(c) \ {v}
         /\ \A d \in Clients : \A n \in Deletes(d)' : \A k \in call'[d].cut :
              chain'[n].val < k
<1> DEFINE job == Head(chain)
<1>1. /\ job = chain[1] /\ 1 \in 1..Len(chain) /\ job \in Jobs /\ c \in Clients
      /\ \A n \in 1..Len(chain') :
           n + 1 \in 1..Len(chain) /\ n + 1 # 1 /\ chain'[n] = chain[n + 1]
      /\ \A n \in 1..Len(chain) :
           n # 1 => n - 1 \in 1..Len(chain') /\ chain'[n - 1] = chain[n]
  BY HeadTyped, TailPositions DEF TypeInv, CallInv
<1>2. /\ call'[c] = frame
      /\ \A d \in Clients : d # c => call'[d] = call[d]
  BY <1>1 DEF TypeInv, CallInv
<1>3. \A n \in 1..Len(chain) : chain[n].by = c => n = 1
  BY <1>1 DEF TypeInv, CallInv, Waiting
<1>4. Deletes(c)' = {}
  BY <1>1, <1>3 DEF Deletes
<1>5. ASSUME NEW d \in Clients, d # c
      PROVE  /\ Doomed(d)' = Doomed(d)
             /\ \A n \in Deletes(d)' : \E m \in Deletes(d) : chain'[n] = chain[m]
  <2>1. \A n \in Deletes(d)' : \E m \in Deletes(d) : chain'[n] = chain[m]
    BY <1>1, <1>5 DEF Deletes
  <2>2. \A m \in Deletes(d) : \E n \in Deletes(d)' : chain'[n] = chain[m]
    <3> SUFFICES ASSUME NEW m \in Deletes(d)
                 PROVE  \E n \in Deletes(d)' : chain'[n] = chain[m]
      OBVIOUS
    <3>1. m \in 1..Len(chain) /\ m # 1
      BY <1>1, <1>5 DEF Deletes
    <3>2. m - 1 \in Deletes(d)' /\ chain'[m - 1] = chain[m]
      BY <1>1, <3>1 DEF Deletes
    <3> QED
      BY <3>2
  <2>3. Doomed(d)' = call[d].cut \cup {chain'[n].val : n \in Deletes(d)'}
    BY <1>2, <1>5 DEF Doomed
  <2>4. {chain'[n].val : n \in Deletes(d)'} = {chain[m].val : m \in Deletes(d)}
    <3>1. PICK A, B : A = Deletes(d)' /\ B = Deletes(d)
      OBVIOUS
    <3>2. \A n \in A : \E m \in B : chain'[n].val = chain[m].val
      BY <2>1, <3>1
    <3>3. \A m \in B : \E n \in A : chain'[n].val = chain[m].val
      BY <2>2, <3>1
    <3>4. {chain'[n].val : n \in A} = {chain[m].val : m \in B}
      <4> DEFINE f(n) == chain'[n].val
                 g(m) == chain[m].val
      <4>1. /\ \A n \in A : \E m \in B : f(n) = g(m)
            /\ \A m \in B : \E n \in A : f(n) = g(m)
        BY <3>2, <3>3
      <4> HIDE DEF f, g
      <4>2. {f(n) : n \in A} = {g(m) : m \in B}
        BY <4>1
      <4> QED
        BY <4>2 DEF f, g
    <3> QED
      BY <3>1, <3>4
  <2> QED
    BY <2>1, <2>3, <2>4 DEF Doomed
<1>6. Doomed(c)' = frame.cut
  BY <1>2, <1>4 DEF Doomed
<1>7. CASE job.kind # "auditDelete"
  <2>1. Deletes(c) = {}
    BY <1>1, <1>3, <1>7 DEF Deletes
  <2>2. Doomed(c)' = Doomed(c)
    BY <1>6, <1>7, <2>1 DEF Doomed
  <2>3. \A d \in Clients : \A n \in Deletes(d)' : \A k \in call'[d].cut : chain'[n].val < k
    BY <1>2, <1>4, <1>5 DEF TrimInv
  <2> QED
    BY <1>5, <1>7, <2>2, <2>3
<1>8. CASE job.kind = "auditDelete"
  <2>1. Deletes(c) = {1}
    BY <1>1, <1>3, <1>8 DEF Deletes
  <2>2. Doomed(c) = call[c].cut \cup {v}
    BY <1>1, <2>1 DEF Doomed
  <2>3. v \notin call[c].cut
    <3>1. \A k \in call[c].cut : k \in Nat /\ v < k
      BY <1>1, <2>1, DoomedTyped DEF TrimInv
    <3>2. \A k \in Nat : ~(k < k)
      OBVIOUS
    <3> QED
      BY <3>1, <3>2
  <2>4. Doomed(c)' = IF frame.cut = {} THEN {} ELSE Doomed(c) \ {v}
    BY <1>6, <2>2, <2>3
  <2>5. \A d \in Clients : \A n \in Deletes(d)' : \A k \in call'[d].cut : chain'[n].val < k
    BY <1>2, <1>4, <1>5 DEF TrimInv
  <2> QED
    BY <1>5, <1>8, <2>4, <2>5
<1> QED
  BY <1>7, <1>8

\* A number that is to be deleted and is still in the table when its job is at
\* the head of the chain is the oldest one, of more than AuditCap.
LEMMA DeletesOldest ==
  ASSUME TypeInv, OrderInv, TrimInv, chain # <<>>,
         Head(chain).kind = "auditDelete", Head(chain).val \in AuditSeqs
  PROVE  /\ Len(audit) > AuditCap /\ 1 \in 1..Len(audit)
         /\ PositionOf(Head(chain).val) = 1
<1> DEFINE job == Head(chain)
           c == job.by
           k == job.val
<1>1. /\ job = chain[1] /\ 1 \in 1..Len(chain) /\ c \in Clients /\ job \in Jobs
  BY HeadTyped DEF TypeInv
<1>2. /\ Len(audit) \in Nat /\ DOMAIN audit = 1..Len(audit) /\ AuditCap \in Nat
      /\ \A n \in 1..Len(audit) : audit[n].seq \in Nat
  BY AuditSeqsTyped, StoreAssumption DEF TypeInv, DataTyped
<1>3. 1 \in Deletes(c) /\ k \in Doomed(c) /\ Deletes(c) = {1}
  BY <1>1 DEF Deletes, Doomed, TypeInv, CallInv, Waiting
<1>4. PICK n \in 1..Len(audit) : audit[n].seq = k
  BY <1>2 DEF AuditSeqs
<1>5. /\ n + AuditCap <= Len(audit)
      /\ \A m \in 1..Len(audit) : m < n => audit[m].seq \in Doomed(c)
  BY <1>1, <1>3, <1>4 DEF TrimInv, PrefixDoomed
<1>6. \A q \in Doomed(c) : q \in Nat /\ (q = k \/ k < q)
  BY <1>1, <1>3, DoomedTyped DEF Doomed, TrimInv
<1>7. n = 1
  <2> SUFFICES ASSUME n # 1 PROVE FALSE
    OBVIOUS
  <2>1. 1 \in 1..Len(audit) /\ 1 < n
    BY <1>2
  <2>2. audit[1].seq < audit[n].seq /\ audit[1].seq \in Doomed(c)
    BY <1>5, <2>1 DEF OrderInv
  <2> QED
    BY <1>2, <1>4, <1>6, <2>1, <2>2
<1>8. \A m \in DOMAIN audit : audit[m].seq = k => m = 1
  BY <1>2, <1>4, <1>7 DEF OrderInv
<1>9. PositionOf(k) = 1
  BY <1>2, <1>4, <1>7, <1>8 DEF PositionOf
<1> QED
  BY <1>2, <1>4, <1>5, <1>7, <1>9

LEMMA WithoutFirst ==
  ASSUME NEW S, NEW t \in Seq(S), 1 \in 1..Len(t)
  PROVE  Without(t, 1) = Tail(t)
<1>1. PICK w : w = SubSeq(t, 1, 1 - 1) \o SubSeq(t, 1 + 1, Len(t))
  OBVIOUS
<1>2. /\ w \in Seq(S) /\ Len(w) = Len(t) - 1
      /\ \A m \in 1..(Len(t) - 1) : w[m] = IF m < 1 THEN t[m] ELSE t[m + 1]
  BY <1>1, WithoutPositions
<1>3. t # <<>>
  OBVIOUS
<1>4. /\ Tail(t) \in Seq(S) /\ Len(Tail(t)) = Len(t) - 1
      /\ \A m \in 1..(Len(t) - 1) : Tail(t)[m] = t[m + 1]
  BY <1>3
<1>5. \A m \in 1..(Len(t) - 1) : w[m] = Tail(t)[m]
  BY <1>2, <1>4
<1>6. w = Tail(t)
  BY <1>2, <1>4, <1>5, SeqEqual
<1> QED
  BY <1>1, <1>6 DEF Without

\* What a landing does to the audit table.
LEMMA LandedAudit ==
  ASSUME TypeInv, OrderInv, TrimInv, Land
  PROVE  \/ Head(chain).kind = "auditPut" /\ audit' = Append(audit, Head(chain).val)
         \/ /\ Head(chain).kind = "auditDelete" /\ Len(audit) > AuditCap
            /\ audit # <<>> /\ audit[1].seq = Head(chain).val /\ audit' = Tail(audit)
         \/ /\ Head(chain).kind = "auditDelete" /\ Head(chain).val \notin AuditSeqs
            /\ audit' = audit
         \/ Head(chain).kind \notin {"auditPut", "auditDelete"} /\ audit' = audit
<1> DEFINE job == Head(chain)
<1>1. /\ chain # <<>>
      /\ audit' = CASE job.kind = "auditPut" -> Append(audit, job.val)
                    [] job.kind = "auditDelete" /\ job.val \in AuditSeqs ->
                         Without(audit, PositionOf(job.val))
                    [] OTHER -> audit
  BY DEF Land
<1>2. audit \in Seq(AuditRecords) /\ DOMAIN audit = 1..Len(audit)
  BY AuditSeqsTyped DEF TypeInv, DataTyped
<1>3. CASE job.kind = "auditDelete" /\ job.val \in AuditSeqs
  <2>1. Len(audit) > AuditCap /\ 1 \in 1..Len(audit) /\ PositionOf(job.val) = 1
    BY <1>1, <1>3, DeletesOldest
  <2>2. audit' = Without(audit, 1)
    <3>1. audit' = Without(audit, PositionOf(job.val))
      BY <1>1, <1>3
    <3> QED
      BY <2>1, <3>1
  <2>3. audit' = Tail(audit)
    BY <1>2, <2>1, <2>2, WithoutFirst
  <2>4. audit[1].seq = job.val
    <3>1. \E n \in DOMAIN audit : audit[n].seq = job.val
      BY <1>3 DEF AuditSeqs
    <3>2. audit[PositionOf(job.val)].seq = job.val
      BY <3>1, Zenon DEF PositionOf
    <3> QED
      BY <2>1, <3>2
  <2>5. audit # <<>>
    BY <2>1
  <2> QED
    BY <1>3, <2>1, <2>3, <2>4, <2>5
<1>4. CASE job.kind = "auditPut"
  BY <1>1, <1>4
<1>5. CASE job.kind = "auditDelete" /\ job.val \notin AuditSeqs
  BY <1>1, <1>5
<1>6. CASE job.kind \notin {"auditPut", "auditDelete"}
  BY <1>1, <1>6
<1> HIDE DEF job
<1>7. \/ job.kind = "auditDelete" /\ job.val \in AuditSeqs
      \/ job.kind = "auditPut"
      \/ job.kind = "auditDelete" /\ job.val \notin AuditSeqs
      \/ job.kind \notin {"auditPut", "auditDelete"}
  OBVIOUS
<1> QED
  BY <1>3, <1>4, <1>5, <1>6, <1>7, Zenon DEF job

\* The numbered jobs and the numbers to be deleted after the head is taken.
LEMMA LandKeepsTrim ==
  ASSUME TypeInv, TypeInv', OrderInv, OrderInv', TrimInv, Land
  PROVE  TrimInv'
<1> DEFINE job == Head(chain)
<1>1. chain # <<>> /\ chain' = Tail(chain) /\ auditSeq' = auditSeq
  BY DEF Land
<1>2. /\ job = chain[1] /\ 1 \in 1..Len(chain) /\ job \in Jobs /\ job.by \in Clients
      /\ call[job.by] \in Frames
      /\ \A n \in 1..Len(chain') : n + 1 \in 1..Len(chain) /\ chain'[n] = chain[n + 1]
  BY <1>1, HeadTyped, TailPositions DEF TypeInv, CallInv
<1>3. PICK c, v : c = job.by /\ v = job.val
  OBVIOUS
<1>4. /\ \A d \in Clients :
           \/ Doomed(d)' = Doomed(d)
           \/ /\ d = c /\ job.kind = "auditDelete"
              /\ Doomed(d)' = {} \/ Doomed(d)' = Doomed(d) \ {v}
      /\ \A d \in Clients : \A n \in Deletes(d)' : \A k \in call'[d].cut :
           chain'[n].val < k
  <2>1. PICK frame : frame = [call[job.by] EXCEPT !.phase = Answer(call[job.by].phase),
                                                  !.ok = Took(job)]
    OBVIOUS
  <2>2. frame.cut = call[c].cut
    BY <1>2, <1>3, <2>1 DEF Frames
  <2>3. call' = [call EXCEPT ![c] = frame]
    BY <1>3, <2>1 DEF Land
  <2> QED
    BY <1>1, <1>3, <2>2, <2>3, HeadDoomed
<1>5. ASSUME NEW d \in Clients, NEW k \in Doomed(d)'
      PROVE  /\ k \in Nat /\ k <= auditSeq' /\ k \in Doomed(d)
             /\ \A n \in 1..Len(chain') : Numbered(n)' => chain'[n].val.seq # k
             /\ PrefixDoomed(d, k)
             /\ Numbered(1) => job.val.seq # k
  <2>1. k \in Doomed(d)
    BY <1>4, <1>5
  <2>2. /\ k \in Nat /\ k <= auditSeq /\ PrefixDoomed(d, k)
        /\ \A n \in 1..Len(chain) : Numbered(n) => chain[n].val.seq # k
    BY <2>1 DEF TrimInv
  <2>3. \A n \in 1..Len(chain') : Numbered(n)' => Numbered(n + 1)
    BY <1>2 DEF Numbered
  <2> QED
    BY <1>1, <1>2, <2>1, <2>2, <2>3
<1>6. Len(audit) \in Nat /\ AuditCap \in Nat /\ audit \in Seq(AuditRecords)
  BY ChainTyped, StoreAssumption DEF TypeInv, DataTyped
<1>7. ASSUME NEW d \in Clients, NEW k \in Doomed(d)'
      PROVE  PrefixDoomed(d, k)'
  <2>1. \A n \in 1..Len(audit) : audit[n].seq = k =>
          /\ n + AuditCap <= Len(audit)
          /\ \A m \in 1..Len(audit) : m < n => audit[m].seq \in Doomed(d)
    BY <1>5, <1>7 DEF PrefixDoomed
  <2>2. CASE job.kind = "auditPut" /\ audit' = Append(audit, job.val)
    <3>1. job.val \in AuditRecords /\ Numbered(1)
      BY <1>2, <2>2, JobTyped DEF Numbered
    <3>2. /\ 1..Len(audit') = 1..Len(audit) \cup {Len(audit) + 1}
          /\ \A n \in 1..Len(audit) : audit'[n] = audit[n]
          /\ audit'[Len(audit) + 1] = job.val /\ Len(audit') = Len(audit) + 1
      BY <1>6, <2>2, <3>1, AppendPositions
    <3>3. job.val.seq # k /\ Doomed(d)' = Doomed(d)
      BY <1>4, <1>5, <1>7, <2>2, <3>1
    <3>4. ASSUME NEW n \in 1..Len(audit'), audit'[n].seq = k
          PROVE  /\ n + AuditCap <= Len(audit')
                 /\ \A m \in 1..Len(audit') : m < n => audit'[m].seq \in Doomed(d)'
      <4>1. n \in 1..Len(audit) /\ audit[n].seq = k
        BY <3>2, <3>3, <3>4
      <4>2. \A m \in 1..Len(audit') : m < n => m \in 1..Len(audit)
        BY <1>6, <3>2, <4>1
      <4> QED
        BY <1>6, <2>1, <3>2, <3>3, <4>1, <4>2
    <3> QED
      BY <3>4 DEF PrefixDoomed
  <2>3. CASE /\ job.kind = "auditDelete" /\ audit # <<>> /\ audit[1].seq = job.val
             /\ audit' = Tail(audit)
    <3>1. /\ Len(audit') = Len(audit) - 1
          /\ \A n \in 1..Len(audit') :
               n + 1 \in 1..Len(audit) /\ n + 1 # 1 /\ audit'[n] = audit[n + 1]
          /\ 1 \in 1..Len(audit)
      BY <1>6, <2>3, TailPositions
    <3>2. \A q : q \in Doomed(d) /\ q # job.val => q \in Doomed(d)'
      BY <1>3, <1>4, <1>7
    <3>3. ASSUME NEW n \in 1..Len(audit'), audit'[n].seq = k
          PROVE  /\ n + AuditCap <= Len(audit')
                 /\ \A m \in 1..Len(audit') : m < n => audit'[m].seq \in Doomed(d)'
      <4>1. n + 1 \in 1..Len(audit) /\ audit[n + 1].seq = k
        BY <3>1, <3>3
      <4>2. n + 1 + AuditCap <= Len(audit)
        BY <2>1, <4>1
      <4>3. ASSUME NEW m \in 1..Len(audit'), m < n
            PROVE  audit'[m].seq \in Doomed(d)'
        <5>1. m + 1 \in 1..Len(audit) /\ m + 1 < n + 1 /\ 1 < m + 1
          BY <3>1, <4>3
        <5>2. audit[m + 1].seq \in Doomed(d)
          BY <2>1, <4>1, <5>1
        <5>3. audit[m + 1].seq # job.val
          BY <2>3, <3>1, <5>1, ChainTyped DEF OrderInv
        <5> QED
          BY <3>1, <3>2, <4>3, <5>2, <5>3
      <4>4. n + AuditCap <= Len(audit')
        <5>1. n \in Nat /\ Len(audit') \in Nat
          BY <1>6, <3>1
        <5> QED
          BY <1>6, <3>1, <4>2, <5>1
      <4> QED
        BY <4>3, <4>4
    <3> QED
      BY <3>3 DEF PrefixDoomed
  <2>4. CASE audit' = audit /\ (job.kind = "auditDelete" => job.val \notin AuditSeqs)
    <3>1. \A n \in 1..Len(audit) : audit[n].seq \in AuditSeqs
      BY <1>6 DEF AuditSeqs
    <3>2. \A n \in 1..Len(audit) : audit[n].seq \in Doomed(d) => audit[n].seq \in Doomed(d)'
      BY <1>3, <1>4, <1>7, <2>4, <3>1
    <3> QED
      BY <2>1, <2>4, <3>2 DEF PrefixDoomed
  <2> QED
    BY <2>2, <2>3, <2>4, LandedAudit
<1> QED
  BY <1>4, <1>5, <1>7 DEF TrimInv

LEMMA RejectKeepsTrim ==
  ASSUME TypeInv, OrderInv, TrimInv, Reject
  PROVE  TrimInv'
<1> DEFINE job == Head(chain)
           f == call[job.by]
<1>1. chain # <<>> /\ chain' = Tail(chain) /\ auditSeq' = auditSeq /\ audit' = audit
  BY DEF Reject
<1>2. /\ job = chain[1] /\ 1 \in 1..Len(chain) /\ job \in Jobs /\ job.by \in Clients
      /\ f \in Frames
      /\ \A n \in 1..Len(chain') : n + 1 \in 1..Len(chain) /\ chain'[n] = chain[n + 1]
  BY <1>1, HeadTyped, TailPositions DEF TypeInv, CallInv
<1>3. /\ \A d \in Clients : \A k \in Doomed(d)' : k \in Doomed(d) /\ Doomed(d)' # {}
      /\ \A d \in Clients : Doomed(d)' = Doomed(d) \/ Doomed(d)' = {}
      /\ \A d \in Clients : \A n \in Deletes(d)' : \A k \in call'[d].cut :
           chain'[n].val < k
  <2>1. PICK g : g = [f EXCEPT !.phase = Answer(f.phase),
                               !.ok = (job.kind = "guard" /\ Took(job))]
    OBVIOUS
  <2>2. g \in [op : {f.op}, phase : {Answer(f.phase)}, id : {f.id}, todo : {f.todo},
              ok : {job.kind = "guard" /\ Took(job)}, cut : {f.cut}, shield : {f.shield}]
    <3>1. PICK b, p : b = (job.kind = "guard" /\ Took(job)) /\ p = Answer(f.phase)
      OBVIOUS
    <3>2. g = [f EXCEPT !.phase = p, !.ok = b]
      BY <2>1, <3>1
    <3> HIDE DEF f, job
    <3>3. [f EXCEPT !.phase = p, !.ok = b] \in
            [op : {f.op}, phase : {p}, id : {f.id}, todo : {f.todo}, ok : {b},
             cut : {f.cut}, shield : {f.shield}]
      BY <1>2 DEF Frames
    <3> QED
      BY <3>1, <3>2, <3>3
  <2>3. PICK frame : frame = CASE job.kind = "delete" -> [g EXCEPT !.todo = {}]
                               [] job.kind = "auditDelete" -> [g EXCEPT !.cut = {}]
                               [] OTHER -> g
    OBVIOUS
  <2>4. PICK c, v : c = job.by /\ v = job.val
    OBVIOUS
  <2>5. call' = [call EXCEPT ![c] = frame]
    BY <2>1, <2>3, <2>4 DEF Reject
  <2>6. IF job.kind = "auditDelete" THEN frame.cut = {} ELSE frame.cut = f.cut
    <3>1. [g EXCEPT !.todo = {}].cut = f.cut /\ [g EXCEPT !.cut = {}].cut = {} /\ g.cut = f.cut
      BY <2>2
    <3>2. CASE job.kind = "delete"
      BY <2>3, <3>1, <3>2
    <3>3. CASE job.kind = "auditDelete"
      BY <2>3, <3>1, <3>3
    <3>4. CASE job.kind \notin {"delete", "auditDelete"}
      BY <2>3, <3>1, <3>4
    <3> QED
      BY <3>2, <3>3, <3>4
  <2>7. /\ \A d \in Clients : d # c => Doomed(d)' = Doomed(d)
        /\ Doomed(c)' = Doomed(c) \/ Doomed(c)' = {}
        /\ \A d \in Clients : \A n \in Deletes(d)' : \A k \in call'[d].cut :
             chain'[n].val < k
    <3>1. frame.cut = call[c].cut \/ (frame.cut = {} /\ Head(chain).kind = "auditDelete")
      BY <2>4, <2>6
    <3>2. Head(chain).kind = "auditDelete" => frame.cut = {}
      BY <2>6
    <3> QED
      BY <1>1, <2>4, <2>5, <3>1, <3>2, HeadDoomed
  <2> QED
    BY <2>4, <2>7
<1>4. ASSUME NEW d \in Clients, NEW k \in Doomed(d)'
      PROVE  /\ k \in Nat /\ k <= auditSeq' /\ PrefixDoomed(d, k)'
             /\ \A n \in 1..Len(chain') : Numbered(n)' => chain'[n].val.seq # k
  <2>1. k \in Doomed(d) /\ Doomed(d)' = Doomed(d)
    BY <1>3, <1>4
  <2>2. /\ k \in Nat /\ k <= auditSeq /\ PrefixDoomed(d, k)
        /\ \A n \in 1..Len(chain) : Numbered(n) => chain[n].val.seq # k
    BY <2>1 DEF TrimInv
  <2>3. \A n \in 1..Len(chain') : Numbered(n)' => Numbered(n + 1)
    BY <1>2 DEF Numbered
  <2>4. PrefixDoomed(d, k)'
    BY <1>1, <2>1, <2>2 DEF PrefixDoomed
  <2> QED
    BY <1>1, <1>2, <2>2, <2>3, <2>4
<1> QED
  BY <1>3, <1>4 DEF TrimInv

KeptInv == StoreInv /\ TrimInv

\* Nobody has anything to trim.
LEMMA NothingDoomed ==
  ASSUME chain = <<>>, \A c \in Clients : call[c].cut = {}
  PROVE  TrimInv
<1>1. 1..Len(chain) = {}
  OBVIOUS
<1>2. \A c \in Clients : Deletes(c) = {} /\ Doomed(c) = {}
  BY <1>1 DEF Deletes, Doomed
<1> QED
  BY <1>2 DEF TrimInv

LEMMA KeptInvHolds == Spec => []KeptInv
<1>1. Init => KeptInv
  <2> SUFFICES ASSUME Init PROVE TrimInv
    BY InvStarts DEF KeptInv
  <2> QED
    BY NothingDoomed DEF Init, Idle
<1>2. KeptInv /\ [Next]_vars => KeptInv'
  <2> SUFFICES ASSUME KeptInv, [Next]_vars PROVE TrimInv'
    BY StepKeepsInv DEF KeptInv
  <2>1. /\ TypeInv /\ TypeInv' /\ OrderInv /\ OrderInv' /\ TrimInv
    BY StepKeepsInv DEF KeptInv, StoreInv
  <2>2. ASSUME NEW c \in Clients, Start(c) \/ Proceed(c) PROVE TrimInv'
    <3>1. CallerMoves /\ OwnMove(c)
      BY <2>1, <2>2, StartMoves, ProceedMoves, StartOwn, ProceedOwn
    <3> QED
      BY <2>1, <3>1, CallerKeepsTrim
  <2>3. CASE Land
    BY <2>1, <2>3, LandKeepsTrim
  <2>4. CASE Reject
    BY <2>1, <2>4, RejectKeepsTrim
  <2>5. CASE Crash
    <3>1. chain' = <<>> /\ \A c \in Clients : call'[c].cut = {}
      BY <2>5 DEF Crash, Idle
    <3>2. 1..Len(chain') = {}
      BY <3>1
    <3>3. \A c \in Clients : Deletes(c)' = {} /\ Doomed(c)' = {}
      BY <3>1, <3>2 DEF Deletes, Doomed
    <3> QED
      BY <3>3 DEF TrimInv
  <2>6. CASE UNCHANGED <<chain, call, audit, auditSeq>>
    BY <2>1, <2>6 DEF TrimInv, Deletes, Doomed, PrefixDoomed, Numbered
  <2>7. CASE \/ \E i \in Ids : Ageing(i)
             \/ UNCHANGED vars
    BY <2>6, <2>7 DEF Ageing, vars
  <2> QED
    BY <2>2, <2>3, <2>4, <2>5, <2>7 DEF Next
<1> QED
  BY <1>1, <1>2, PTL DEF Spec

\* Trims of the audit table overlap and run on snapshots of different age, may
\* fail half way or be cut short by a crash: whatever they delete is the oldest
\* record of a table above its cap, one record at a time.
THEOREM NewestAuditKept == Spec => AuditKeepsNewest
<1>1. ASSUME KeptInv, [Next]_vars
      PROVE  [\/ Len(audit') > Len(audit)
              \/ Len(audit) > AuditCap /\ audit' = Tail(audit)]_audit
  <2>1. TypeInv /\ OrderInv /\ TrimInv
    BY <1>1 DEF KeptInv, StoreInv
  <2>2. CASE Land
    <3>1. /\ chain # <<>> /\ audit \in Seq(AuditRecords) /\ Len(audit) \in Nat
      BY <2>1, <2>2 DEF Land, TypeInv, DataTyped
    <3>2. CASE Head(chain).kind = "auditPut" /\ audit' = Append(audit, Head(chain).val)
      <4>1. Len(audit') = Len(audit) + 1
        BY <3>1, <3>2
      <4> QED
        BY <3>1, <4>1
    <3> QED
      BY <2>1, <2>2, <3>2, LandedAudit
  <2>3. ASSUME NEW c \in Clients, Start(c) \/ Proceed(c) PROVE audit' = audit
    BY <2>1, <2>3, StartMoves, ProceedMoves DEF CallerMoves
  <2>4. CASE \/ Reject \/ Crash \/ UNCHANGED vars
             \/ \E i \in Ids : Ageing(i)
    BY <2>4 DEF Reject, Crash, Ageing, vars
  <2> QED
    BY <1>1, <2>2, <2>3, <2>4 DEF Next
<1>2. KeptInv /\ [Next]_vars =>
        [\/ Len(audit') > Len(audit)
         \/ Len(audit) > AuditCap /\ audit' = Tail(audit)]_audit
  BY <1>1
<1> QED
  BY <1>2, KeptInvHolds, PTL DEF Spec, AuditKeepsNewest

-----------------------------------------------------------------------------
(* Edits.  Without the operations that put back the whole of a record they  *)
(* have read to change its status, only an add or an update puts one.       *)

StatusEdits == {"pin", "unpin", "archive", "unarchive", "supersede"}

PutsAreEdits ==
  \A n \in 1..Len(chain) :
    chain[n].kind = "put" => call[chain[n].by].op \in Ops \cap Writers

EditInv == StoreInv /\ PutsAreEdits

LEMMA CallerKeepsEdits ==
  ASSUME TypeInv, TypeInv', PutsAreEdits, NEW c \in Clients, OwnMove(c)
  PROVE  PutsAreEdits'
<1>1. \A n \in 1..Len(chain) : chain[n].by \in Clients /\ chain[n].by # c
  BY ChainTyped, JobTyped DEF OwnMove, TypeInv, CallInv, Waiting
<1>2. \A n \in 1..Len(chain) : call'[chain[n].by] = call[chain[n].by]
  BY <1>1 DEF OwnMove
<1>3. CASE chain' = chain
  BY <1>2, <1>3 DEF PutsAreEdits
<1>4. ASSUME NEW job, QueuesOwn(c, job) PROVE PutsAreEdits'
  <2>1. /\ 1..Len(chain') = 1..Len(chain) \cup {Len(chain) + 1}
        /\ \A n \in 1..Len(chain) : chain'[n] = chain[n]
        /\ chain'[Len(chain) + 1] = job
    BY <1>4, QueuedPositions DEF QueuesOwn
  <2> QED
    BY <1>2, <1>4, <2>1 DEF QueuesOwn, PutsAreEdits
<1> QED
  BY <1>3, <1>4 DEF OwnMove

LEMMA HeadKeepsEdits ==
  ASSUME TypeInv, PutsAreEdits, Land \/ Reject
  PROVE  PutsAreEdits'
<1>1. chain # <<>> /\ chain' = Tail(chain) /\ chain \in Seq(Jobs)
  BY DEF Land, Reject, TypeInv, CallInv
<1>2. /\ Head(chain) = chain[1] /\ 1 \in 1..Len(chain)
      /\ \A m \in 1..Len(chain') :
           m + 1 \in 1..Len(chain) /\ m + 1 # 1 /\ chain'[m] = chain[m + 1]
  BY <1>1, TailPositions
<1>3. \A d \in Clients : d # Head(chain).by => call'[d] = call[d]
  BY DEF Land, Reject, TypeInv, CallInv
<1>4. \A m \in 1..Len(chain') : chain'[m].by \in Clients /\ chain'[m].by # Head(chain).by
  BY <1>2, ChainTyped, JobTyped DEF TypeInv, CallInv, Waiting
<1> QED
  BY <1>2, <1>3, <1>4 DEF PutsAreEdits

LEMMA EditInvHolds == Spec => []EditInv
<1>1. Init => EditInv
  <2> SUFFICES ASSUME Init PROVE PutsAreEdits
    BY InvStarts DEF EditInv
  <2>1. 1..Len(chain) = {}
    BY DEF Init
  <2> QED
    BY <2>1 DEF PutsAreEdits
<1>2. EditInv /\ [Next]_vars => EditInv'
  <2> SUFFICES ASSUME EditInv, [Next]_vars PROVE PutsAreEdits'
    BY StepKeepsInv DEF EditInv
  <2>1. TypeInv /\ TypeInv' /\ PutsAreEdits
    BY StepKeepsInv DEF EditInv, StoreInv
  <2>2. ASSUME NEW c \in Clients, Start(c) \/ Proceed(c) PROVE PutsAreEdits'
    BY <2>1, <2>2, StartOwn, ProceedOwn, CallerKeepsEdits
  <2>3. CASE Land \/ Reject
    BY <2>1, <2>3, HeadKeepsEdits
  <2>4. CASE Crash
    <3>1. chain' = <<>>
      BY <2>4 DEF Crash
    <3>2. 1..Len(chain') = {}
      BY <3>1
    <3> QED
      BY <3>2 DEF PutsAreEdits
  <2>5. CASE UNCHANGED vars \/ \E i \in Ids : Ageing(i)
    BY <2>1, <2>5 DEF vars, Ageing, PutsAreEdits
  <2> QED
    BY <2>2, <2>3, <2>4, <2>5 DEF Next
<1> QED
  BY <1>1, <1>2, PTL DEF Spec

LEMMA LandKeepsContent ==
  ASSUME TypeInv, PutsAreEdits, Ops \cap StatusEdits = {}, ContentIsLastEdit, Land
  PROVE  ContentIsLastEdit'
<1> DEFINE job == Head(chain)
<1>1. /\ chain # <<>> /\ entries' = [entries EXCEPT ![job.id] = Written(job)]
      /\ lastEdit' = IF job.kind = "put" /\ call[job.by].op \in {"add", "update"}
                     THEN [lastEdit EXCEPT ![job.id] = job.val.content]
                     ELSE lastEdit
  BY DEF Land
<1>2. /\ job \in Jobs /\ job = chain[1] /\ 1 \in 1..Len(chain) /\ job.id \in Ids
      /\ entries \in [Ids -> Entry \cup {Absent}] /\ lastEdit \in [Ids -> Contents]
  BY <1>1, HeadTyped DEF TypeInv, DataTyped
<1>3. job.kind = "put" => call[job.by].op \in {"add", "update"}
  <2>1. job.kind = "put" => call[job.by].op \in Ops \cap Writers
    BY <1>2 DEF PutsAreEdits
  <2> QED
    BY <2>1 DEF Writers, StatusEdits
<1>4. ASSUME NEW i \in Ids, entries'[i] # Absent
      PROVE  entries'[i].content = lastEdit'[i]
  <2>1. CASE i # job.id
    BY <1>1, <1>2, <1>4, <2>1 DEF ContentIsLastEdit, Live
  <2>2. CASE i = job.id
    <3>1. entries'[i] = Written(job) /\ Written(job) # Absent
      BY <1>1, <1>2, <1>4, <2>2
    <3>2. CASE job.kind = "put"
      BY <1>1, <1>2, <1>3, <2>2, <3>1, <3>2, WrittenKeeps
    <3>3. CASE job.kind # "put"
      <4>1. entries[i] # Absent /\ entries'[i].content = entries[i].content
        BY <1>2, <2>2, <3>1, <3>3, WrittenKeeps
      <4> QED
        BY <1>1, <3>3, <4>1 DEF ContentIsLastEdit, Live
    <3> QED
      BY <3>2, <3>3
  <2> QED
    BY <2>1, <2>2
<1> QED
  BY <1>4 DEF ContentIsLastEdit, Live

\* However late recall stamps, usage hits and janitor decay land, and whatever
\* adds, updates and removals they overlap with, an entry carries the content
\* of the last edit that landed, for any store whose callers do not also change
\* the status of entries: a pin or an archive puts back the record it read.
THEOREM SignalsKeepContent ==
  ASSUME Ops \cap StatusEdits = {}
  PROVE  Spec => []ContentIsLastEdit
<1>1. Init => ContentIsLastEdit
  <2> SUFFICES ASSUME Init PROVE ContentIsLastEdit
    OBVIOUS
  <2>1. PICK x \in Contents, P \in SUBSET Stored :
          /\ lastEdit = [i \in Ids |-> x]
          /\ entries = [i \in Ids |-> IF i \in Stored
                                      THEN [Fresh(x) EXCEPT !.pinned = i \in P]
                                      ELSE Absent]
    BY DEF Init
  <2>2. \A b : [Fresh(x) EXCEPT !.pinned = b].content = x
    BY DEF Fresh
  <2> QED
    BY <2>1, <2>2 DEF ContentIsLastEdit, Live
<1>2. EditInv /\ EditInv' /\ ContentIsLastEdit /\ [Next]_vars => ContentIsLastEdit'
  <2> SUFFICES ASSUME EditInv, EditInv', ContentIsLastEdit, [Next]_vars
               PROVE  ContentIsLastEdit'
    OBVIOUS
  <2>1. TypeInv /\ PutsAreEdits
    BY DEF EditInv, StoreInv
  <2>2. CASE UNCHANGED <<entries, lastEdit>>
    BY <2>2 DEF ContentIsLastEdit, Live
  <2>3. ASSUME NEW c \in Clients, Start(c) \/ Proceed(c) PROVE ContentIsLastEdit'
    BY <2>1, <2>2, <2>3, StartMoves, ProceedMoves DEF CallerMoves, history
  <2>4. CASE Land
    BY <2>1, <2>4, LandKeepsContent
  <2>5. ASSUME NEW i \in Ids, Ageing(i) PROVE ContentIsLastEdit'
    <3>1. /\ entries' = [entries EXCEPT ![i] = [entries[i] EXCEPT !.age = entries[i].age + 1]]
          /\ lastEdit' = lastEdit /\ entries[i] \in Entry /\ entries[i] # Absent
      BY <2>1, <2>5, LiveTyped DEF Ageing, history, TypeInv, Live
    <3>2. [entries[i] EXCEPT !.age = entries[i].age + 1].content = entries[i].content
      BY <3>1 DEF Entry
    <3> QED
      BY <2>1, <3>1, <3>2 DEF ContentIsLastEdit, Live, TypeInv, DataTyped
  <2>6. CASE Reject \/ Crash \/ UNCHANGED vars
    BY <2>2, <2>6 DEF Reject, Crash, vars, history
  <2> QED
    BY <2>3, <2>4, <2>5, <2>6 DEF Next
<1> QED
  BY <1>1, <1>2, EditInvHolds, PTL DEF Spec

-----------------------------------------------------------------------------
(* Callers that never put back a record they have read.  An entry is then   *)
(* put once, by the add that minted it, and once removed it stays removed:  *)
(* this is what the cap and the count of removals rest on.                  *)

NoPutBack == Ops \cap Writers \subseteq {"add"}

Calm == faults = 0 /\ crashes = 0

DataKinds == {"put", "delete", "tool", "fence", "hit", "decay"}

\* The caller has removed an entry and has the removal still to record.
Owes(frame) == frame.phase = "written" /\ frame.ok /\ AuditOp(frame) = "remove"

\* What a caller that waits for an entry write will record of it.
Fits(frame, job) ==
  job.kind \in DataKinds =>
    /\ frame.id = job.id
    /\ job.kind = "delete" <=> AuditOp(frame) = "remove"
    /\ job.kind = "put" <=> frame.op = "add"

InPlace(frame) ==
  /\ frame.phase = "idle" => frame.op = "none"
  /\ frame.phase \in {"guard", "guarded"} => frame.op = "janitor" /\ frame.id \in Project

FrameInv ==
  /\ \A c \in Clients : InPlace(call[c])
  /\ \A n \in 1..Len(chain) : Fits(call[chain[n].by], chain[n])
  /\ Calm => \A c \in Clients : call[c].op = "add" /\ call[c].phase = "written" => call[c].ok

\* A step of a caller that queues nothing.
Quiet(c) ==
  /\ UNCHANGED <<chain, auditSeq, minted>>
  /\ ~Owes(call[c])

\* A step that queues a job, other than an audit record.
QueuesWrite(c, job) ==
  /\ chain' = Append(chain, job) /\ job.by = c
  /\ job.kind # "auditPut" /\ auditSeq' = auditSeq
  /\ ~Owes(call[c])
  /\ Fits(call'[c], job)
  /\ job.kind = "put" => job.id \notin minted /\ minted' = minted \cup {job.id}
  /\ job.kind # "put" => minted' = minted

\* A step that queues an audit record: of a removal, if that is what it owes.
QueuesRecord(c, job) ==
  /\ chain' = Append(chain, job) /\ job.by = c
  /\ job.kind = "auditPut" /\ auditSeq' = auditSeq + 1 /\ minted' = minted
  /\ job.val.seq = auditSeq + 1
  /\ job.val.op = "remove" <=> Owes(call[c])
  /\ job.val.id = call'[c].id
  /\ Owes(call[c]) => job.val.id = call[c].id

\* The eviction at the end of an add has found room, or takes what it must.
MakesRoom(c) ==
  /\ chain' = chain
  /\ \/ Cardinality(Live) <= EntriesCap
     \/ call'[c].op = "trim" /\ call'[c].todo \in Victims

\* An add ends in an eviction, and an eviction deletes what it has to do.
KeepsRoom(c) ==
  /\ call[c].op = "add" => call'[c].op = "add" \/ MakesRoom(c)
  /\ call[c].op = "trim" => \A i \in call[c].todo :
       \/ call'[c].op = "trim" /\ i \in call'[c].todo
       \/ \E job : chain' = Append(chain, job) /\ job.kind = "delete" /\ job.id = i

RuledMove(c) ==
  /\ call[c].phase \notin Waits
  /\ \A d \in Clients : d # c => call'[d] = call[d]
  /\ call'[c].phase \notin {"written", "guarded"}
  /\ InPlace(call'[c])
  /\ \/ Quiet(c)
     \/ \E job : QueuesWrite(c, job) \/ QueuesRecord(c, job)

LEMMA GotoRuled ==
  ASSUME TypeInv, NEW c \in Clients, call[c].phase \notin Waits, ~Owes(call[c]),
         NEW frame, frame.phase \notin {"written", "guarded"}, InPlace(frame),
         Goto(c, frame), UNCHANGED <<auditSeq, minted>>
  PROVE  RuledMove(c) /\ call'[c] = frame /\ chain' = chain
<1>1. call' = [call EXCEPT ![c] = frame] /\ chain' = chain
  BY DEF Goto
<1>2. call'[c] = frame /\ \A d \in Clients : d # c => call'[d] = call[d]
  BY <1>1 DEF TypeInv, CallInv
<1> QED
  BY <1>1, <1>2 DEF RuledMove, Quiet

LEMMA EnqueueRuled ==
  ASSUME TypeInv, NEW c \in Clients, call[c].phase \notin Waits, ~Owes(call[c]),
         NEW frame, frame.phase \notin {"written", "guarded"}, InPlace(frame),
         NEW kind, NEW i, NEW v, Enqueue(c, frame, kind, i, v), kind # "auditPut",
         UNCHANGED auditSeq,
         kind \in DataKinds =>
           /\ frame.id = i
           /\ kind = "delete" <=> AuditOp(frame) = "remove"
           /\ kind = "put" <=> frame.op = "add",
         kind = "put" => i \notin minted /\ minted' = minted \cup {i},
         kind # "put" => minted' = minted
  PROVE  /\ RuledMove(c) /\ call'[c] = frame
         /\ \E job : chain' = Append(chain, job) /\ job.kind = kind /\ job.id = i
<1>1. PICK job : job = [by |-> c, kind |-> kind, id |-> i, val |-> v]
  OBVIOUS
<1>2. call' = [call EXCEPT ![c] = frame] /\ chain' = Append(chain, job)
  BY <1>1 DEF Enqueue
<1>3. job.by = c /\ job.kind = kind /\ job.id = i
  BY <1>1
<1>4. call'[c] = frame /\ \A d \in Clients : d # c => call'[d] = call[d]
  BY <1>2 DEF TypeInv, CallInv
<1>5. QueuesWrite(c, job)
  BY <1>2, <1>3, <1>4 DEF QueuesWrite, Fits
<1> QED
  BY <1>2, <1>3, <1>4, <1>5 DEF RuledMove

LEMMA AppendAuditRuled ==
  ASSUME TypeInv, NEW c \in Clients, call[c].phase \notin Waits,
         NEW frame \in Frames, AppendAudit(c, frame), UNCHANGED minted,
         AuditOp(frame) = "remove" <=> Owes(call[c]),
         Owes(call[c]) => frame.id = call[c].id
  PROVE  /\ RuledMove(c)
         /\ call'[c].op = frame.op /\ call'[c].todo = frame.todo
<1> DEFINE g == [frame EXCEPT !.phase = "auditing"]
           r == [seq |-> NextSeq, id |-> frame.id, op |-> AuditOp(frame)]
<1>1. PICK job : job = [by |-> c, kind |-> "auditPut", id |-> frame.id, val |-> r]
  OBVIOUS
<1>2. /\ call' = [call EXCEPT ![c] = g] /\ chain' = Append(chain, job)
      /\ auditSeq' = auditSeq + 1
  BY <1>1 DEF AppendAudit, Enqueue, NextSeq
<1>3. /\ job.by = c /\ job.kind = "auditPut" /\ job.val.seq = auditSeq + 1
      /\ job.val.id = frame.id /\ job.val.op = AuditOp(frame)
  BY <1>1 DEF NextSeq
<1>4. g.phase = "auditing" /\ g.id = frame.id /\ g.op = frame.op /\ g.todo = frame.todo
  BY DEF Frames
<1>5. call'[c] = g /\ \A d \in Clients : d # c => call'[d] = call[d]
  BY <1>2 DEF TypeInv, CallInv
<1> HIDE DEF g
<1>6. QueuesRecord(c, job)
  BY <1>2, <1>3, <1>4, <1>5 DEF QueuesRecord
<1>7. InPlace(g)
  BY <1>4 DEF InPlace
<1> QED
  BY <1>4, <1>5, <1>6, <1>7 DEF RuledMove

\* The frames callers move to.
LEMMA FrameFields ==
  /\ Idle.phase = "idle" /\ Idle.op = "none"
  /\ \A op, S : Loop(op, S).phase = "next" /\ Loop(op, S).op = op /\ Loop(op, S).todo = S
  /\ \A op, i : LET w == Writing([Idle EXCEPT !.op = op], i)
               IN  w.phase = "writing" /\ w.op = op /\ w.id = i
  /\ \A f \in Frames :
       /\ \A p : LET g == [f EXCEPT !.phase = p]
                 IN  g.phase = p /\ g.op = f.op /\ g.id = f.id /\ g.todo = f.todo
       /\ \A p, S : LET g == [f EXCEPT !.phase = p, !.cut = S]
                    IN  g.phase = p /\ g.op = f.op /\ g.id = f.id /\ g.todo = f.todo
       /\ \A S : LET g == [f EXCEPT !.todo = S]
                 IN  g.phase = f.phase /\ g.op = f.op /\ g.todo = S
       /\ \A i : LET g == Writing(f, i)
                 IN  g.phase = "writing" /\ g.op = f.op /\ g.id = i /\ g.todo = f.todo
<1>1. /\ Idle.phase = "idle" /\ Idle.op = "none"
      /\ \A op, S : Loop(op, S).phase = "next" /\ Loop(op, S).op = op /\ Loop(op, S).todo = S
      /\ \A op, i : LET w == Writing([Idle EXCEPT !.op = op], i)
                   IN  w.phase = "writing" /\ w.op = op /\ w.id = i
  BY DEF Idle, Loop, Writing
<1>2. ASSUME NEW f \in Frames
      PROVE  /\ \A p : LET g == [f EXCEPT !.phase = p]
                       IN  g.phase = p /\ g.op = f.op /\ g.id = f.id /\ g.todo = f.todo
             /\ \A p, S : LET g == [f EXCEPT !.phase = p, !.cut = S]
                          IN  g.phase = p /\ g.op = f.op /\ g.id = f.id /\ g.todo = f.todo
             /\ \A S : LET g == [f EXCEPT !.todo = S]
                       IN  g.phase = f.phase /\ g.op = f.op /\ g.todo = S
             /\ \A i : LET g == Writing(f, i)
                       IN  g.phase = "writing" /\ g.op = f.op /\ g.id = i /\ g.todo = f.todo
  BY <1>2 DEF Frames, Writing
<1> QED
  BY <1>1, <1>2

\* What is recorded depends on the operation and the entry.
LEMMA AuditOpOf ==
  /\ \A f, g : f.op = g.op /\ f.id = g.id => AuditOp(f) = AuditOp(g)
  /\ \A f : f.op \in {"add", "readRaw", "pin", "unpin", "tool", "fence", "hit"} =>
       AuditOp(f) # "remove"
  /\ \A f : f.op \in {"remove", "trim"} => AuditOp(f) = "remove"
  /\ \A f : f.op = "janitor" => (AuditOp(f) = "remove" <=> f.id \in Project)
  BY DEF AuditOp

LEMMA StartRules ==
  ASSUME TypeInv, FrameInv, NoPutBack, NEW c \in Clients, Start(c)
  PROVE  RuledMove(c) /\ KeepsRoom(c)
<1>1. ASSUME call[c].phase = "idle"
      PROVE  /\ call[c].phase \notin Waits /\ ~Owes(call[c])
             /\ KeepsRoom(c)
  BY <1>1 DEF Waits, Owes, KeepsRoom, FrameInv, InPlace
<1>2. ASSUME NEW op \in Writers \ {"add"}, NEW i, NEW e, PutBack(c, op, i, e)
      PROVE  FALSE
  BY <1>2 DEF PutBack, Begins, NoPutBack
<1>3. CASE Add(c)
  <2>1. PICK i \in Ids \ minted, x \in Contents :
          /\ minted' = minted \cup {i}
          /\ Enqueue(c, Writing([Idle EXCEPT !.op = "add"], i), "put", i, Fresh(x))
    BY <1>3 DEF Add
  <2>2. PICK g : g = Writing([Idle EXCEPT !.op = "add"], i)
    OBVIOUS
  <2>3. g.phase = "writing" /\ g.op = "add" /\ g.id = i /\ AuditOp(g) # "remove"
    BY <2>2, FrameFields, AuditOpOf
  <2>4. InPlace(g) /\ g.phase \notin {"written", "guarded"}
    BY <2>3 DEF InPlace
  <2>5. Enqueue(c, g, "put", i, Fresh(x))
    BY <2>1, <2>2
  <2>6. call[c].phase = "idle" /\ auditSeq' = auditSeq
    BY <1>3 DEF Add, Begins
  <2> QED
    BY <1>1, <2>1, <2>3, <2>4, <2>5, <2>6, EnqueueRuled
<1>4. CASE Remove(c)
  <2>1. PICK i \in Live :
          Enqueue(c, Writing([Idle EXCEPT !.op = "remove"], i), "delete", i, Absent)
    BY <1>4 DEF Remove
  <2>2. PICK g : g = Writing([Idle EXCEPT !.op = "remove"], i)
    OBVIOUS
  <2>3. g.phase = "writing" /\ g.op = "remove" /\ g.id = i /\ AuditOp(g) = "remove"
    BY <2>2, FrameFields, AuditOpOf
  <2>4. InPlace(g) /\ g.phase \notin {"written", "guarded"}
    BY <2>3 DEF InPlace
  <2>5. Enqueue(c, g, "delete", i, Absent)
    BY <2>1, <2>2
  <2>6. call[c].phase = "idle" /\ auditSeq' = auditSeq /\ minted' = minted
    BY <1>4 DEF Remove, Begins
  <2> QED
    BY <1>1, <2>3, <2>4, <2>5, <2>6, EnqueueRuled
<1>5. CASE ReadRaw(c)
  <2>1. PICK i \in Live : AppendAudit(c, [Idle EXCEPT !.op = "readRaw", !.id = i])
    BY <1>5 DEF ReadRaw
  <2>2. PICK f : f = [Idle EXCEPT !.op = "readRaw", !.id = i]
    OBVIOUS
  <2>3. call[c].phase = "idle" /\ minted' = minted /\ i \in Ids
    BY <1>5, LiveTyped DEF ReadRaw, Begins, TypeInv
  <2>4. f \in Frames
    BY <2>2, <2>3 DEF Idle, Frames, Phases, AllOps
  <2>5. f.op = "readRaw"
    BY <2>2 DEF Idle
  <2>6. AuditOp(f) # "remove"
    BY <2>5, AuditOpOf
  <2>7. AppendAudit(c, f)
    BY <2>1, <2>2
  <2> QED
    BY <1>1, <2>3, <2>4, <2>6, <2>7, AppendAuditRuled
<1>6. ASSUME NEW op \in AllOps, NEW S, Goto(c, Loop(op, S)), call[c].phase = "idle",
             UNCHANGED <<auditSeq, minted>>
      PROVE  RuledMove(c) /\ KeepsRoom(c)
  <2>1. PICK g : g = Loop(op, S)
    OBVIOUS
  <2>2. g.phase = "next"
    BY <2>1, FrameFields
  <2>3. InPlace(g) /\ g.phase \notin {"written", "guarded"}
    BY <2>2 DEF InPlace
  <2>4. Goto(c, g)
    BY <1>6, <2>1
  <2> QED
    BY <1>1, <1>6, <2>3, <2>4, GotoRuled
<1>7. CASE Janitor(c)
  BY <1>6, <1>7 DEF Janitor, Begins, AllOps
<1>8. CASE \E op \in Ops : Signal(c, op)
  BY <1>6, <1>8 DEF Signal, Begins, AllOps
<1>9. CASE \/ Update(c) \/ Pin(c) \/ Unpin(c) \/ Archive(c)
           \/ Unarchive(c) \/ Supersede(c)
  BY <1>2, <1>9 DEF Update, Pin, Unpin, Archive, Unarchive, Supersede, Writers
<1> QED
  BY <1>3, <1>4, <1>5, <1>7, <1>8, <1>9 DEF Start

LEMMA ResumeRules ==
  ASSUME TypeInv, FrameInv, NEW c \in Clients, Resume(c)
  PROVE  RuledMove(c) /\ (Calm => KeepsRoom(c))
<1>1. /\ call[c] \in Frames /\ call[c].phase = "written" /\ call[c].phase \notin Waits
      /\ minted' = minted
  BY DEF Resume, Waits, TypeInv, CallInv
<1>2. CASE call[c].ok /\ call[c].op \notin Unaudited /\ AppendAudit(c, call[c])
  <2>1. AuditOp(call[c]) = "remove" <=> Owes(call[c])
    BY <1>1, <1>2 DEF Owes
  <2>2. RuledMove(c) /\ call'[c].op = call[c].op /\ call'[c].todo = call[c].todo
    BY <1>1, <1>2, <2>1, AppendAuditRuled
  <2> QED
    BY <2>2 DEF KeepsRoom
<1>3. CASE /\ ~(call[c].ok /\ call[c].op \notin Unaudited)
           /\ Goto(c, IF call[c].op \in Loops THEN [call[c] EXCEPT !.phase = "next"] ELSE Idle)
           /\ UNCHANGED auditSeq
  <2>1. PICK g : g = IF call[c].op \in Loops THEN [call[c] EXCEPT !.phase = "next"] ELSE Idle
    OBVIOUS
  <2>2. ~Owes(call[c])
    BY <1>3, AuditOpOf DEF Owes, Unaudited
  <2>3. CASE call[c].op \in Loops /\ g = [call[c] EXCEPT !.phase = "next"]
    <3>1. g.phase = "next" /\ g.op = call[c].op /\ g.todo = call[c].todo
      BY <1>1, <2>3, FrameFields
    <3>2. InPlace(g) /\ g.phase \notin {"written", "guarded"}
      BY <3>1 DEF InPlace
    <3>3. RuledMove(c) /\ call'[c] = g
      BY <1>1, <1>3, <2>1, <2>2, <3>2, GotoRuled
    <3> QED
      BY <3>1, <3>3 DEF KeepsRoom
  <2>4. CASE call[c].op \notin Loops /\ g = Idle
    <3>1. InPlace(g) /\ g.phase \notin {"written", "guarded"}
      BY <2>4, FrameFields DEF InPlace
    <3>2. RuledMove(c)
      BY <1>1, <1>3, <2>1, <2>2, <3>1, GotoRuled
    <3>3. Calm => call[c].op # "add" /\ call[c].op # "trim"
      BY <1>1, <1>3, <2>4 DEF FrameInv, Loops, Unaudited
    <3> QED
      BY <3>2, <3>3 DEF KeepsRoom
  <2> QED
    BY <2>1, <2>3, <2>4
<1> QED
  BY <1>2, <1>3 DEF Resume

LEMMA TrimRules ==
  ASSUME TypeInv, NEW c \in Clients, Audited(c) \/ TrimAudit(c) \/ TrimEntries(c)
  PROVE  RuledMove(c) /\ KeepsRoom(c)
<1>1. /\ call[c] \in Frames /\ call[c].phase \in {"audited", "cut", "next"}
      /\ UNCHANGED <<auditSeq, minted>>
  BY DEF Audited, TrimAudit, TrimEntries, TypeInv, CallInv
<1>2. call[c].phase \notin Waits /\ ~Owes(call[c])
  BY <1>1 DEF Waits, Owes
<1>3. ASSUME NEW g, g.phase \in {"next", "cut"}, g.op = call[c].op, g.todo = call[c].todo,
             Goto(c, g)
      PROVE  RuledMove(c) /\ KeepsRoom(c)
  <2>1. InPlace(g) /\ g.phase \notin {"written", "guarded"}
    BY <1>3 DEF InPlace
  <2>2. RuledMove(c) /\ call'[c] = g
    BY <1>1, <1>2, <1>3, <2>1, GotoRuled
  <2> QED
    BY <1>3, <2>2 DEF KeepsRoom
<1>4. ASSUME Goto(c, Idle) PROVE RuledMove(c) /\ chain' = chain
  <2>1. InPlace(Idle) /\ Idle.phase \notin {"written", "guarded"}
    BY FrameFields DEF InPlace
  <2> QED
    BY <1>1, <1>2, <1>4, <2>1, GotoRuled
<1>5. CASE Audited(c)
  <2> DEFINE cut == IF call[c].ok /\ Len(audit) > AuditCap
                    THEN Oldest(AuditSeqs, Len(audit) - AuditCap) ELSE {}
  <2>1. PICK g : g = [call[c] EXCEPT !.phase = "cut", !.cut = cut]
    OBVIOUS
  <2>2. Goto(c, g)
    BY <1>5, <2>1 DEF Audited
  <2> HIDE DEF cut
  <2>3. g.phase = "cut" /\ g.op = call[c].op /\ g.todo = call[c].todo
    BY <1>1, <2>1, FrameFields
  <2> QED
    BY <1>3, <2>2, <2>3
<1>6. CASE TrimAudit(c)
  <2>1. CASE Goto(c, IF call[c].op \in Loops \cup {"add"}
                     THEN [call[c] EXCEPT !.phase = "next"] ELSE Idle)
    <3>1. CASE call[c].op \in Loops \cup {"add"}
      <4>1. PICK g : g = [call[c] EXCEPT !.phase = "next"]
        OBVIOUS
      <4>2. g.phase = "next" /\ g.op = call[c].op /\ g.todo = call[c].todo
        BY <1>1, <4>1, FrameFields
      <4>3. Goto(c, g)
        BY <2>1, <3>1, <4>1
      <4> QED
        BY <1>3, <4>2, <4>3
    <3>2. CASE call[c].op \notin Loops \cup {"add"}
      <4>1. Goto(c, Idle)
        BY <2>1, <3>2
      <4>2. call[c].op # "add" /\ call[c].op # "trim"
        BY <3>2 DEF Loops
      <4> QED
        BY <1>4, <4>1, <4>2 DEF KeepsRoom
    <3> QED
      BY <3>1, <3>2
  <2>2. ASSUME NEW q,
               Enqueue(c, [call[c] EXCEPT !.phase = "cutting", !.cut = call[c].cut \ {q}],
                       "auditDelete", call[c].id, q)
        PROVE  RuledMove(c) /\ KeepsRoom(c)
    <3>1. PICK g : g = [call[c] EXCEPT !.phase = "cutting", !.cut = call[c].cut \ {q}]
      OBVIOUS
    <3>2. g.phase = "cutting" /\ g.op = call[c].op /\ g.todo = call[c].todo
      BY <1>1, <3>1, FrameFields
    <3>3. InPlace(g) /\ g.phase \notin {"written", "guarded"}
      BY <3>2 DEF InPlace
    <3>4. Enqueue(c, g, "auditDelete", call[c].id, q)
      BY <2>2, <3>1
    <3>5. RuledMove(c) /\ call'[c] = g
      BY <1>1, <1>2, <3>3, <3>4, EnqueueRuled DEF DataKinds
    <3> QED
      BY <3>2, <3>5 DEF KeepsRoom
  <2> QED
    BY <1>6, <2>1, <2>2 DEF TrimAudit
<1>7. CASE TrimEntries(c)
  <2>1. call[c].op = "add"
    BY <1>7 DEF TrimEntries
  <2>2. CASE Cardinality(Live) <= EntriesCap /\ Goto(c, Idle)
    BY <1>4, <2>1, <2>2 DEF KeepsRoom, MakesRoom
  <2>3. ASSUME NEW V \in Victims, Goto(c, Loop("trim", V))
        PROVE  RuledMove(c) /\ KeepsRoom(c)
    <3>1. PICK g : g = Loop("trim", V)
      OBVIOUS
    <3>2. g.phase = "next" /\ g.op = "trim" /\ g.todo = V
      BY <3>1, FrameFields
    <3>3. InPlace(g) /\ g.phase \notin {"written", "guarded"}
      BY <3>2 DEF InPlace
    <3>4. RuledMove(c) /\ call'[c] = g /\ chain' = chain
      BY <1>1, <1>2, <2>3, <3>1, <3>3, GotoRuled
    <3> QED
      BY <2>1, <2>3, <3>2, <3>4 DEF KeepsRoom, MakesRoom
  <2> QED
    BY <1>7, <2>2, <2>3 DEF TrimEntries
<1> QED
  BY <1>5, <1>6, <1>7

LEMMA StepRules ==
  ASSUME TypeInv, NEW c \in Clients, Step(c)
  PROVE  RuledMove(c) /\ KeepsRoom(c)
<1>1. /\ call[c] \in Frames /\ call[c].phase = "next" /\ call[c].op \in Loops
      /\ UNCHANGED <<auditSeq, minted>>
  BY DEF Step, TypeInv, CallInv
<1>2. call[c].phase \notin Waits /\ ~Owes(call[c]) /\ call[c].op # "add"
  BY <1>1 DEF Waits, Owes, Loops
<1>3. CASE call[c].todo = {} /\ Goto(c, Idle)
  <2>1. InPlace(Idle) /\ Idle.phase \notin {"written", "guarded"}
    BY FrameFields DEF InPlace
  <2>2. RuledMove(c)
    BY <1>1, <1>2, <1>3, <2>1, GotoRuled
  <2> QED
    BY <1>2, <1>3, <2>2 DEF KeepsRoom
<1>4. ASSUME NEW i, call[c].op = "hit",
             Goto(c, [call[c] EXCEPT !.todo = call[c].todo \ {i}])
      PROVE  RuledMove(c) /\ KeepsRoom(c)
  <2>1. PICK g : g = [call[c] EXCEPT !.todo = call[c].todo \ {i}]
    OBVIOUS
  <2>2. g.phase = "next"
    BY <1>1, <2>1, FrameFields
  <2>3. InPlace(g) /\ g.phase \notin {"written", "guarded"}
    BY <2>2 DEF InPlace
  <2>4. RuledMove(c)
    BY <1>1, <1>2, <1>4, <2>1, <2>3, GotoRuled
  <2> QED
    BY <1>4, <2>4 DEF KeepsRoom
<1>5. ASSUME NEW i \in call[c].todo, NEW g, NEW kind, Turn(c, g, kind, i)
      PROVE  RuledMove(c) /\ KeepsRoom(c)
  <2>1. /\ Enqueue(c, g, kind, i, Absent) /\ g.op = call[c].op /\ g.id = i
        /\ g.todo = call[c].todo \ {i}
        /\ kind \in {"delete", "tool", "fence", "hit", "guard", "decay"}
        /\ g.phase = AwaitedAs(kind)
    BY <1>5 DEF Turn
  <2>2. /\ kind = "delete" => g.op = "trim"
        /\ kind \in {"tool", "fence", "hit"} => g.op = kind
        /\ kind \in {"guard", "decay"} => g.op = "janitor"
        /\ kind = "guard" => i \in Project
        /\ kind = "decay" => i \notin Project
    BY <1>5 DEF Turn
  <2>3. g.phase \notin {"written", "guarded"} /\ InPlace(g)
    BY <2>1, <2>2 DEF InPlace, AwaitedAs
  <2>4. kind \in DataKinds => /\ g.id = i
                              /\ kind = "delete" <=> AuditOp(g) = "remove"
                              /\ kind = "put" <=> g.op = "add"
    <3>1. kind \in DataKinds => kind \in {"delete", "tool", "fence", "hit", "decay"}
      BY <2>1 DEF DataKinds
    <3>2. kind = "delete" => AuditOp(g) = "remove"
      BY <2>2, AuditOpOf
    <3>3. kind \in {"tool", "fence", "hit", "decay"} => AuditOp(g) # "remove"
      BY <2>1, <2>2, AuditOpOf
    <3> QED
      BY <1>2, <2>1, <3>1, <3>2, <3>3
  <2>5. kind # "put" /\ kind # "auditPut"
    BY <2>1
  <2>6. /\ RuledMove(c) /\ call'[c] = g
        /\ \E job : chain' = Append(chain, job) /\ job.kind = kind /\ job.id = i
    BY <1>1, <1>2, <2>1, <2>3, <2>4, <2>5, EnqueueRuled
  <2>7. call[c].op = "trim" => kind = "delete"
    BY <2>1, <2>2
  <2>8. KeepsRoom(c)
    BY <1>2, <2>1, <2>6, <2>7 DEF KeepsRoom
  <2> QED
    BY <2>6, <2>8
<1> QED
  BY <1>1, <1>3, <1>4, <1>5, StepTurns

LEMMA GuardedRules ==
  ASSUME TypeInv, FrameInv, NEW c \in Clients, Guarded(c)
  PROVE  RuledMove(c) /\ KeepsRoom(c)
<1>1. /\ call[c] \in Frames /\ call[c].phase = "guarded"
      /\ UNCHANGED <<auditSeq, minted>>
  BY DEF Guarded, TypeInv, CallInv
<1>2. /\ call[c].phase \notin Waits /\ ~Owes(call[c])
      /\ call[c].op = "janitor" /\ call[c].id \in Project
  BY <1>1 DEF Waits, Owes, FrameInv, InPlace
<1>3. CASE Enqueue(c, Writing(call[c], call[c].id), "delete", call[c].id, Absent)
  <2>1. PICK g : g = Writing(call[c], call[c].id)
    OBVIOUS
  <2>2. g.phase = "writing" /\ g.op = "janitor" /\ g.id = call[c].id
    BY <1>1, <1>2, <2>1, FrameFields
  <2>3. AuditOp(g) = "remove" /\ InPlace(g) /\ g.phase \notin {"written", "guarded"}
    BY <1>2, <2>2, AuditOpOf DEF InPlace
  <2>4. Enqueue(c, g, "delete", call[c].id, Absent)
    BY <1>3, <2>1
  <2>5. RuledMove(c)
    BY <1>1, <1>2, <2>2, <2>3, <2>4, EnqueueRuled
  <2> QED
    BY <1>2, <2>5 DEF KeepsRoom
<1>4. CASE Goto(c, [call[c] EXCEPT !.phase = "next"])
  <2>1. PICK g : g = [call[c] EXCEPT !.phase = "next"]
    OBVIOUS
  <2>2. g.phase = "next"
    BY <1>1, <2>1, FrameFields
  <2>3. InPlace(g) /\ g.phase \notin {"written", "guarded"}
    BY <2>2 DEF InPlace
  <2>4. RuledMove(c)
    BY <1>1, <1>2, <1>4, <2>1, <2>3, GotoRuled
  <2> QED
    BY <1>2, <2>4 DEF KeepsRoom
<1> QED
  BY <1>3, <1>4 DEF Guarded

LEMMA CallerRules ==
  ASSUME TypeInv, FrameInv, NoPutBack, NEW c \in Clients, Start(c) \/ Proceed(c)
  PROVE  RuledMove(c) /\ (Calm => KeepsRoom(c))
  BY StartRules, ResumeRules, TrimRules, StepRules, GuardedRules DEF Proceed

\* How the caller at the head of the chain is answered.
LEMMA HeadAnswered ==
  ASSUME TypeInv, Land \/ Reject
  PROVE  LET c == Head(chain).by
         IN  /\ c \in Clients
             /\ \A d \in Clients : d # c => call'[d] = call[d]
             /\ call'[c].phase = Answer(call[c].phase)
             /\ call'[c].op = call[c].op /\ call'[c].id = call[c].id
             /\ Land => /\ call'[c].ok = Took(Head(chain))
                        /\ call'[c].todo = call[c].todo
<1> DEFINE job == Head(chain)
           f == call[job.by]
<1>1. chain # <<>>
  BY DEF Land, Reject
<1>2. /\ job.by \in Clients /\ f \in Frames /\ call \in [Clients -> Frames]
      /\ job \in Jobs /\ DataTyped
  BY <1>1, HeadTyped DEF TypeInv, CallInv
<1>3. \A p, b : LET g == [f EXCEPT !.phase = p, !.ok = b]
                IN  /\ g.phase = p /\ g.op = f.op /\ g.id = f.id /\ g.ok = b
                    /\ g.todo = f.todo
                    /\ [g EXCEPT !.todo = {}].phase = p
                    /\ [g EXCEPT !.todo = {}].op = f.op /\ [g EXCEPT !.todo = {}].id = f.id
                    /\ [g EXCEPT !.cut = {}].phase = p
                    /\ [g EXCEPT !.cut = {}].op = f.op /\ [g EXCEPT !.cut = {}].id = f.id
  BY <1>2 DEF Frames
<1>4. CASE Land
  <2>1. PICK p, b : p = Answer(f.phase) /\ b = Took(job)
    OBVIOUS
  <2>2. call' = [call EXCEPT ![job.by] = [f EXCEPT !.phase = p, !.ok = b]]
    BY <1>4, <2>1 DEF Land
  <2> HIDE DEF job, f
  <2>3. call'[job.by] = [f EXCEPT !.phase = p, !.ok = b]
    BY <1>2, <2>2 DEF f
  <2>4. \A d \in Clients : d # job.by => call'[d] = call[d]
    BY <1>2, <2>2
  <2> QED
    BY <1>2, <1>3, <2>1, <2>3, <2>4 DEF job, f
<1>5. CASE Reject
  <2>1. PICK p, b : p = Answer(f.phase) /\ b = (job.kind = "guard" /\ Took(job))
    OBVIOUS
  <2>2. PICK g : g = [f EXCEPT !.phase = p, !.ok = b]
    OBVIOUS
  <2>3. PICK h : h = CASE job.kind = "delete" -> [g EXCEPT !.todo = {}]
                       [] job.kind = "auditDelete" -> [g EXCEPT !.cut = {}]
                       [] OTHER -> g
    OBVIOUS
  <2>4. call' = [call EXCEPT ![job.by] = h]
    BY <1>5, <2>1, <2>2, <2>3 DEF Reject
  <2>5. h.phase = p /\ h.op = f.op /\ h.id = f.id
    BY <1>3, <2>2, <2>3
  <2>6. ~Land
    BY <1>2, <1>5 DEF Land, Reject, DataTyped
  <2> HIDE DEF job, f
  <2> QED
    BY <1>2, <2>1, <2>4, <2>5, <2>6 DEF job, f
<1> QED
  BY <1>4, <1>5

\* What a landing does to the entries.
LEMMA LandLive ==
  ASSUME TypeInv, Land
  PROVE  LET job == Head(chain)
         IN  /\ job.id \in Ids
             /\ job.kind = "put" => Live' = Live \cup {job.id}
             /\ job.kind = "delete" => Live' = Live \ {job.id}
             /\ job.kind \notin {"put", "delete"} => Live' = Live
             /\ job.kind # "put" =>
                  \A i \in Live' : i \in Live /\ entries'[i].pinned = entries[i].pinned
<1> DEFINE job == Head(chain)
<1>1. /\ chain # <<>> /\ entries' = [entries EXCEPT ![job.id] = Written(job)]
      /\ entries \in [Ids -> Entry \cup {Absent}] /\ DataTyped
  BY DEF Land, TypeInv, DataTyped
<1>2. job \in Jobs /\ job.id \in Ids /\ job.kind \in JobKinds
  BY <1>1, HeadTyped, JobTyped DEF TypeInv
<1>3. /\ job.kind = "put" => Written(job) # Absent
      /\ job.kind = "delete" => Written(job) = Absent
      /\ job.kind \notin {"put", "delete"} =>
           (Written(job) = Absent <=> entries[job.id] = Absent)
  <2>1. job.kind = "put" => Written(job) # Absent
    BY <1>1, <1>2, WrittenTyped, AbsentAssumption
  <2>2. job.kind = "delete" => Written(job) = Absent
    BY DEF Written
  <2>3. ASSUME job.kind \notin {"put", "delete"}, entries[job.id] # Absent
        PROVE  Written(job) # Absent
    BY <1>1, <1>2, <2>3, WrittenTyped, AbsentAssumption
  <2>4. ASSUME job.kind \notin {"put", "delete"}, entries[job.id] = Absent
        PROVE  Written(job) = Absent
    BY <1>2, <2>4 DEF Written, JobKinds
  <2> QED
    BY <2>1, <2>2, <2>3, <2>4
<1>4. /\ entries'[job.id] = Written(job)
      /\ \A i \in Ids : i # job.id => entries'[i] = entries[i]
  BY <1>1, <1>2
<1>5. /\ job.kind = "put" => Live' = Live \cup {job.id}
      /\ job.kind = "delete" => Live' = Live \ {job.id}
      /\ job.kind \notin {"put", "delete"} => Live' = Live
  <2> HIDE DEF job
  <2>1. \A i \in Ids : i \in Live' <=> entries'[i] # Absent
    BY DEF Live
  <2>2. Live' \subseteq Ids /\ Live \subseteq Ids
    BY DEF Live
  <2>3. \A i \in Ids : i \in Live <=> entries[i] # Absent
    BY DEF Live
  <2> QED
    BY <1>2, <1>3, <1>4, <2>1, <2>2, <2>3
<1>6. ASSUME job.kind # "put", NEW i \in Live'
      PROVE  i \in Live /\ entries'[i].pinned = entries[i].pinned
  <2>1. i \in Live
    BY <1>2, <1>5, <1>6
  <2>2. CASE i # job.id
    BY <1>4, <2>1, <2>2 DEF Live
  <2>3. CASE i = job.id
    <3>1. Written(job) # Absent
      BY <1>4, <1>6, <2>3 DEF Live
    <3>2. Written(job).pinned = entries[job.id].pinned
      BY <1>2, <1>6, <3>1, WrittenKeeps
    <3>3. entries'[i] = Written(job) /\ entries[i] = entries[job.id]
      BY <1>4, <2>3
    <3> QED
      BY <2>1, <3>2, <3>3
  <2> QED
    BY <2>1, <2>2, <2>3
<1> QED
  BY <1>2, <1>5, <1>6

LEMMA CallerKeepsFrames ==
  ASSUME TypeInv, TypeInv', FrameInv, CallerMoves, NEW c \in Clients, RuledMove(c)
  PROVE  FrameInv'
<1>1. \A n \in 1..Len(chain) : chain[n].by \in Clients /\ chain[n].by # c
  BY ChainTyped, JobTyped DEF RuledMove, TypeInv, CallInv, Waiting
<1>2. \A n \in 1..Len(chain) : call'[chain[n].by] = call[chain[n].by]
  BY <1>1 DEF RuledMove
<1>3. \A d \in Clients : InPlace(call'[d])
  BY DEF RuledMove, FrameInv
<1>4. Calm' => \A d \in Clients :
        call'[d].op = "add" /\ call'[d].phase = "written" => call'[d].ok
  BY DEF CallerMoves, Calm, RuledMove, FrameInv
<1>5. \A n \in 1..Len(chain') : Fits(call'[chain'[n].by], chain'[n])
  <2>1. CASE chain' = chain
    BY <1>2, <2>1 DEF FrameInv
  <2>2. ASSUME NEW job, chain' = Append(chain, job), Fits(call'[job.by], job)
        PROVE  \A n \in 1..Len(chain') : Fits(call'[chain'[n].by], chain'[n])
    BY <1>2, <2>2, QueuedPositions DEF FrameInv
  <2>3. \A job : QueuesRecord(c, job) => Fits(call'[job.by], job)
    BY DEF QueuesRecord, Fits, DataKinds
  <2>4. \A job : QueuesWrite(c, job) => Fits(call'[job.by], job)
    BY DEF QueuesWrite
  <2> QED
    BY <2>1, <2>2, <2>3, <2>4 DEF RuledMove, Quiet, QueuesWrite, QueuesRecord
<1> QED
  BY <1>3, <1>4, <1>5 DEF FrameInv

LEMMA HeadKeepsFrames ==
  ASSUME TypeInv, FrameInv, Land \/ Reject
  PROVE  FrameInv'
<1> DEFINE job == Head(chain)
<1>1. chain # <<>> /\ chain' = Tail(chain) /\ chain \in Seq(Jobs)
  BY DEF Land, Reject, TypeInv, CallInv
<1>2. /\ job = chain[1] /\ 1 \in 1..Len(chain)
      /\ \A m \in 1..Len(chain') :
           m + 1 \in 1..Len(chain) /\ m + 1 # 1 /\ chain'[m] = chain[m + 1]
  BY <1>1, TailPositions
<1>3. /\ job.by \in Clients
      /\ \A d \in Clients : d # job.by => call'[d] = call[d]
      /\ call'[job.by].phase = Answer(call[job.by].phase)
      /\ call'[job.by].op = call[job.by].op /\ call'[job.by].id = call[job.by].id
      /\ Land => call'[job.by].ok = Took(job)
  BY HeadAnswered
<1>4. \A m \in 1..Len(chain') : chain'[m].by \in Clients /\ chain'[m].by # job.by
  BY <1>2, ChainTyped, JobTyped DEF TypeInv, CallInv, Waiting
<1>5. call[job.by].phase = AwaitedAs(job.kind) /\ job.kind \in JobKinds
  BY <1>1, HeadTyped, JobTyped DEF TypeInv
<1>6. InPlace(call'[job.by])
  BY <1>3, <1>5 DEF FrameInv, InPlace, AwaitedAs, Answer, JobKinds
<1>7. ASSUME Calm', call'[job.by].op = "add", call'[job.by].phase = "written"
      PROVE  call'[job.by].ok
  <2>1. Land
    BY <1>7 DEF Reject, Calm, TypeInv, DataTyped
  <2>2. job.kind \in DataKinds
    BY <1>3, <1>5, <1>7 DEF AwaitedAs, Answer, JobKinds, DataKinds
  <2>3. job.kind = "put"
    BY <1>2, <1>3, <1>7, <2>2 DEF FrameInv, Fits
  <2>4. Took(job) = TRUE
    BY <2>3 DEF Took
  <2> QED
    BY <1>3, <2>1, <2>4
<1>8. Calm' => Calm
  BY DEF Land, Reject, Calm, TypeInv, DataTyped
<1> HIDE DEF job
<1>9. \A m \in 1..Len(chain') : Fits(call'[chain'[m].by], chain'[m])
  BY <1>2, <1>3, <1>4 DEF FrameInv
<1>10. \A d \in Clients : InPlace(call'[d])
  BY <1>3, <1>6 DEF FrameInv
<1>11. Calm' => \A d \in Clients :
        call'[d].op = "add" /\ call'[d].phase = "written" => call'[d].ok
  BY <1>3, <1>7, <1>8 DEF FrameInv
<1> QED
  BY <1>9, <1>10, <1>11 DEF FrameInv

\* An entry that waits to be put has never been there, and waits once.
PutsNew ==
  /\ Live \subseteq minted
  /\ \A n \in 1..Len(chain) : chain[n].kind = "put" => chain[n].id \in minted \ Live
  /\ \A m, n \in 1..Len(chain) :
       chain[m].kind = "put" /\ chain[n].kind = "put" /\ chain[m].id = chain[n].id => m = n

LEMMA CallerKeepsPuts ==
  ASSUME TypeInv, TypeInv', PutsNew, CallerMoves, NEW c \in Clients, RuledMove(c)
  PROVE  PutsNew'
<1>1. entries' = entries /\ minted \subseteq minted' /\ Live' = Live
  BY DEF CallerMoves, Live
<1>2. CASE chain' = chain
  BY <1>1, <1>2 DEF PutsNew
<1>3. ASSUME NEW job, chain' = Append(chain, job),
             job.kind = "put" => job.id \notin minted /\ job.id \in minted'
      PROVE  PutsNew'
  <2>1. /\ 1..Len(chain') = 1..Len(chain) \cup {Len(chain) + 1}
        /\ \A n \in 1..Len(chain) : chain'[n] = chain[n]
        /\ chain'[Len(chain) + 1] = job
    BY <1>3, QueuedPositions
  <2>2. Live' \subseteq minted'
    BY <1>1 DEF PutsNew
  <2>3. \A n \in 1..Len(chain') : chain'[n].kind = "put" => chain'[n].id \in minted' \ Live'
    BY <1>1, <1>3, <2>1 DEF PutsNew
  <2>4. ASSUME NEW m \in 1..Len(chain'), NEW n \in 1..Len(chain'),
               chain'[m].kind = "put", chain'[n].kind = "put", chain'[m].id = chain'[n].id
        PROVE  m = n
    <3>1. CASE m \in 1..Len(chain) /\ n \in 1..Len(chain)
      BY <2>1, <2>4, <3>1 DEF PutsNew
    <3>2. CASE m \in 1..Len(chain) /\ n = Len(chain) + 1
      <4>1. chain[m].id \in minted /\ chain'[m] = chain[m] /\ chain'[n] = job
        BY <2>1, <2>4, <3>2 DEF PutsNew
      <4> QED
        BY <1>3, <2>4, <4>1
    <3>3. CASE m = Len(chain) + 1 /\ n \in 1..Len(chain)
      <4>1. chain[n].id \in minted /\ chain'[n] = chain[n] /\ chain'[m] = job
        BY <2>1, <2>4, <3>3 DEF PutsNew
      <4> QED
        BY <1>3, <2>4, <4>1
    <3> QED
      BY <2>1, <3>1, <3>2, <3>3
  <2> QED
    BY <2>2, <2>3, <2>4 DEF PutsNew
<1> QED
  BY <1>2, <1>3 DEF RuledMove, Quiet, QueuesWrite, QueuesRecord

LEMMA HeadKeepsPuts ==
  ASSUME TypeInv, PutsNew, Land \/ Reject
  PROVE  PutsNew'
<1> DEFINE job == Head(chain)
<1>1. chain # <<>> /\ chain' = Tail(chain) /\ chain \in Seq(Jobs) /\ minted' = minted
  BY DEF Land, Reject, TypeInv, CallInv
<1>2. /\ job = chain[1] /\ 1 \in 1..Len(chain)
      /\ \A m \in 1..Len(chain') :
           m + 1 \in 1..Len(chain) /\ m + 1 # 1 /\ chain'[m] = chain[m + 1]
  BY <1>1, TailPositions
<1>3. Live' \subseteq IF job.kind = "put" THEN Live \cup {job.id} ELSE Live
  <2>1. CASE Reject
    BY <2>1 DEF Reject, Live
  <2>2. CASE Land
    BY <2>2, LandLive
  <2> QED
    BY <2>1, <2>2
<1> HIDE DEF job
<1>4. Live' \subseteq minted'
  BY <1>1, <1>2, <1>3 DEF PutsNew
<1>5. ASSUME NEW m \in 1..Len(chain'), chain'[m].kind = "put"
      PROVE  chain'[m].id \in minted' \ Live'
  <2>1. PICK k \in 1..Len(chain) : k # 1 /\ chain'[m] = chain[k]
    BY <1>2
  <2>2. chain[k].id \in minted \ Live
    BY <1>5, <2>1 DEF PutsNew
  <2>3. job.kind = "put" => job.id # chain[k].id
    BY <1>2, <1>5, <2>1 DEF PutsNew
  <2> QED
    BY <1>1, <1>3, <2>1, <2>2, <2>3
<1>6. ASSUME NEW m \in 1..Len(chain'), NEW n \in 1..Len(chain'),
             chain'[m].kind = "put", chain'[n].kind = "put", chain'[m].id = chain'[n].id
      PROVE  m = n
  <2>1. m + 1 = n + 1
    BY <1>2, <1>6 DEF PutsNew
  <2> QED
    BY <2>1
<1> QED
  BY <1>4, <1>5, <1>6 DEF PutsNew

AddInv == StoreInv /\ FrameInv /\ PutsNew

LEMMA AddInvHolds ==
  ASSUME NoPutBack
  PROVE  Spec => []AddInv
<1>1. Init => AddInv
  <2> SUFFICES ASSUME Init PROVE FrameInv /\ PutsNew
    BY InvStarts DEF AddInv
  <2>1. /\ 1..Len(chain) = {} /\ call = [c \in Clients |-> Idle] /\ minted = Stored
    BY DEF Init
  <2>2. FrameInv
    BY <2>1, FrameFields DEF FrameInv, InPlace
  <2>3. Live \subseteq minted
    <3>1. PICK x \in Contents, P \in SUBSET Stored :
            entries = [i \in Ids |-> IF i \in Stored
                                     THEN [Fresh(x) EXCEPT !.pinned = i \in P]
                                     ELSE Absent]
      BY DEF Init
    <3> QED
      BY <2>1, <3>1 DEF Live
  <2> QED
    BY <2>1, <2>2, <2>3 DEF PutsNew
<1>2. AddInv /\ [Next]_vars => AddInv'
  <2> SUFFICES ASSUME AddInv, [Next]_vars PROVE FrameInv' /\ PutsNew'
    BY StepKeepsInv DEF AddInv
  <2>1. TypeInv /\ TypeInv' /\ FrameInv /\ PutsNew
    BY StepKeepsInv DEF AddInv, StoreInv
  <2>2. ASSUME NEW c \in Clients, Start(c) \/ Proceed(c) PROVE FrameInv' /\ PutsNew'
    <3>1. CallerMoves /\ RuledMove(c)
      BY <2>1, <2>2, StartMoves, ProceedMoves, CallerRules
    <3> QED
      BY <2>1, <3>1, CallerKeepsFrames, CallerKeepsPuts
  <2>3. CASE Land \/ Reject
    BY <2>1, <2>3, HeadKeepsFrames, HeadKeepsPuts
  <2>4. CASE Crash
    <3>1. /\ chain' = <<>> /\ call' = [c \in Clients |-> Idle]
          /\ entries' = entries /\ minted' = minted
      BY <2>4 DEF Crash
    <3>2. 1..Len(chain') = {}
      BY <3>1
    <3>3. FrameInv'
      BY <3>1, <3>2, FrameFields DEF FrameInv, InPlace
    <3> QED
      BY <2>1, <3>1, <3>2, <3>3 DEF PutsNew, Live
  <2>5. ASSUME NEW i \in Ids, Ageing(i) PROVE FrameInv' /\ PutsNew'
    <3>1. UNCHANGED <<chain, call, minted, faults, crashes>>
      BY <2>5 DEF Ageing
    <3>2. Live' \subseteq Live
      <4>1. i \in Live /\ \A j \in Ids : j # i => entries'[j] = entries[j]
        BY <2>1, <2>5 DEF Ageing, TypeInv, DataTyped
      <4> QED
        BY <4>1 DEF Live
    <3>3. FrameInv'
      BY <2>1, <3>1 DEF FrameInv, Calm
    <3> QED
      BY <2>1, <3>1, <3>2, <3>3 DEF PutsNew
  <2>6. CASE UNCHANGED vars
    BY <2>1, <2>6 DEF vars, FrameInv, PutsNew, Calm, Live
  <2> QED
    BY <2>2, <2>3, <2>4, <2>5, <2>6 DEF Next
<1> QED
  BY <1>1, <1>2, PTL DEF Spec

-----------------------------------------------------------------------------
(* The audit trail: the records of the table and those on their way to it.  *)
(* An entry that stands has no removal in it and no caller that has still   *)
(* to record one; one that is gone has exactly one removal, recorded or     *)
(* still to record, as long as no record of the trail has been trimmed.     *)

Trail == {audit[n] : n \in 1..Len(audit)}
         \cup {chain[n].val : n \in {m \in 1..Len(chain) : Numbered(m)}}

RemovalsOf(i) == {r \in Trail : r.id = i /\ r.op = "remove"}

Owe(i) == {c \in Clients : Owes(call[c]) /\ call[c].id = i}

Untrimmed == \A k \in 1..auditSeq : \E r \in Trail : r.seq = k

Once(i) ==
  /\ ~Gone(i) => RemovalsOf(i) = {} /\ Owe(i) = {}
  /\ \A r, s \in RemovalsOf(i) : r = s
  /\ \A c, d \in Owe(i) : c = d
  /\ Owe(i) # {} => RemovalsOf(i) = {}
  /\ Untrimmed /\ Gone(i) => RemovalsOf(i) # {} \/ Owe(i) # {}

OnceInv ==
  /\ \A r \in Trail : r.seq \in 1..auditSeq
  /\ Calm => \A i \in Ids : Once(i)

\* The records of the trail are told apart by their numbers.
LEMMA TrailDistinct ==
  ASSUME StoreInv
  PROVE  /\ \A r \in Trail : r.seq \in Nat /\ r.seq <= auditSeq
         /\ \A r, s \in Trail : r.seq = s.seq => r = s
<1> USE DEF StoreInv
<1>1. \A r \in Trail : r.seq \in Nat /\ r.seq <= auditSeq
  BY ChainTyped DEF Trail, OrderInv
<1>2. \A m, n \in 1..Len(audit) : audit[m].seq = audit[n].seq => audit[m] = audit[n]
  <2> SUFFICES ASSUME NEW m \in 1..Len(audit), NEW n \in 1..Len(audit),
                      audit[m].seq = audit[n].seq
               PROVE  m = n
    OBVIOUS
  <2>1. ~(m < n) /\ ~(n < m)
    BY ChainTyped DEF OrderInv
  <2> QED
    BY <2>1, ChainTyped
<1>3. \A m, n \in 1..Len(chain) :
        Numbered(m) /\ Numbered(n) /\ chain[m].val.seq = chain[n].val.seq
          => chain[m].val = chain[n].val
  <2> SUFFICES ASSUME NEW m \in 1..Len(chain), NEW n \in 1..Len(chain),
                      Numbered(m), Numbered(n), chain[m].val.seq = chain[n].val.seq
               PROVE  m = n
    OBVIOUS
  <2>1. ~(m < n) /\ ~(n < m)
    BY ChainTyped DEF OrderInv
  <2> QED
    BY <2>1, ChainTyped
<1>4. \A m \in 1..Len(audit), n \in 1..Len(chain) :
        Numbered(n) => audit[m].seq # chain[n].val.seq
  BY ChainTyped DEF OrderInv
<1> QED
  BY <1>1, <1>2, <1>3, <1>4 DEF Trail

\* What is in the trail, before and after a step.
LEMMA TrailMembers ==
  /\ \A r : r \in Trail <=>
       \/ \E n \in 1..Len(audit) : r = audit[n]
       \/ \E n \in 1..Len(chain) : chain[n].kind = "auditPut" /\ r = chain[n].val
  /\ \A r : r \in Trail' <=>
       \/ \E n \in 1..Len(audit') : r = audit'[n]
       \/ \E n \in 1..Len(chain') : chain'[n].kind = "auditPut" /\ r = chain'[n].val
  BY DEF Trail, Numbered

LEMMA CallerTrail ==
  ASSUME TypeInv, TypeInv', CallerMoves
  PROVE  /\ chain' = chain => Trail' = Trail
         /\ \A job : chain' = Append(chain, job) =>
              Trail' = IF job.kind = "auditPut" THEN Trail \cup {job.val} ELSE Trail
<1>1. audit' = audit
  BY DEF CallerMoves
<1>2. ASSUME NEW job, chain' = Append(chain, job)
      PROVE  Trail' = IF job.kind = "auditPut" THEN Trail \cup {job.val} ELSE Trail
  <2>1. /\ 1..Len(chain') = 1..Len(chain) \cup {Len(chain) + 1}
        /\ \A n \in 1..Len(chain) : chain'[n] = chain[n]
        /\ chain'[Len(chain) + 1] = job
    BY <1>2, QueuedPositions
  <2>2. ASSUME NEW r
        PROVE  r \in Trail' <=> r \in Trail \/ (job.kind = "auditPut" /\ r = job.val)
    BY <1>1, <2>1, TrailMembers
  <2> QED
    BY <2>2
<1>3. ASSUME chain' = chain PROVE Trail' = Trail
  BY <1>1, <1>3 DEF Trail, Numbered
<1> QED
  BY <1>2, <1>3

\* A landing moves a record from the chain to the table, or takes one away.
LEMMA HeadTrail ==
  ASSUME TypeInv, Land \/ Reject
  PROVE  Trail' \subseteq Trail /\ auditSeq' = auditSeq
<1> DEFINE job == Head(chain)
<1>1. /\ chain # <<>> /\ chain' = Tail(chain) /\ chain \in Seq(Jobs)
      /\ audit \in Seq(AuditRecords) /\ auditSeq' = auditSeq
  BY DEF Land, Reject, TypeInv, CallInv, DataTyped
<1>2. /\ job = chain[1] /\ 1 \in 1..Len(chain) /\ job \in Jobs
      /\ \A m \in 1..Len(chain') :
           m + 1 \in 1..Len(chain) /\ m + 1 # 1 /\ chain'[m] = chain[m + 1]
  BY <1>1, TailPositions
<1>3. ASSUME NEW m \in 1..Len(chain'), chain'[m].kind = "auditPut"
      PROVE  chain'[m].val \in Trail
  BY <1>2, <1>3, TrailMembers
<1>4. ASSUME NEW n \in 1..Len(audit') PROVE audit'[n] \in Trail
  <2>1. CASE job.kind = "auditPut" /\ audit' = Append(audit, job.val)
    <3>1. Numbered(1)
      BY <1>2, <2>1 DEF Numbered
    <3>2. audit'[n] = job.val \/ (n \in 1..Len(audit) /\ audit'[n] = audit[n])
      BY <1>1, <1>4, <2>1
    <3> QED
      BY <1>2, <3>1, <3>2 DEF Trail
  <2>2. CASE \E k \in 1..Len(audit) : audit' = Without(audit, k)
    <3>1. PICK k \in 1..Len(audit) : audit' = Without(audit, k)
      BY <2>2
    <3>2. /\ Len(audit') = Len(audit) - 1
          /\ \A m \in 1..(Len(audit) - 1) :
               audit'[m] = IF m < k THEN audit[m] ELSE audit[m + 1]
      BY <1>1, <3>1, WithoutPositions DEF Without
    <3>3. \E m \in 1..Len(audit) : audit'[n] = audit[m]
      BY <1>1, <1>4, <3>2
    <3> QED
      BY <3>3 DEF Trail
  <2>3. CASE audit' = audit
    BY <1>4, <2>3 DEF Trail
  <2> QED
    BY <1>2, <2>1, <2>2, <2>3, AuditAfterLanding DEF Land, Reject
<1> HIDE DEF job
<1>5. \A r \in Trail' : r \in Trail
  BY <1>3, <1>4, TrailMembers
<1> QED
  BY <1>1, <1>5

\* If nothing is missing after a step that adds nothing, nothing was before it.
LEMMA NothingMissing ==
  ASSUME StoreInv, \A r \in Trail : r.seq \in 1..auditSeq,
         Trail' \subseteq Trail, auditSeq' = auditSeq, Untrimmed'
  PROVE  Trail' = Trail /\ Untrimmed
<1>1. \A r, s \in Trail : r.seq = s.seq => r = s
  BY TrailDistinct
<1>2. ASSUME NEW r \in Trail PROVE r \in Trail'
  <2>1. \E s \in Trail' : s.seq = r.seq
    BY <1>2 DEF Untrimmed
  <2> QED
    BY <1>1, <1>2, <2>1
<1>3. Trail' = Trail
  BY <1>2
<1> QED
  BY <1>3 DEF Untrimmed

\* A step of a caller brings an entry back, or loses one, in no case.
LEMMA CallerGone ==
  ASSUME TypeInv, TypeInv', CallerMoves, NEW c \in Clients, RuledMove(c), NEW i \in Ids
  PROVE  Gone(i)' <=> Gone(i)
<1>1. Gone(i) => Gone(i)'
  BY CallerKeepsGone
<1>2. ASSUME Gone(i)' PROVE Gone(i)
  <2>1. /\ entries'[i] = Absent /\ entries' = entries /\ i \in minted'
        /\ chain \in Seq(Jobs) /\ chain' \in Seq(Jobs)
    BY <1>2 DEF Gone, CallerMoves, TypeInv, CallInv
  <2>2. DOMAIN chain = 1..Len(chain) /\ DOMAIN chain' = 1..Len(chain')
    BY <2>1
  <2>3. CASE chain' = chain /\ minted' = minted
    BY <1>2, <2>1, <2>3 DEF Gone
  <2>4. ASSUME NEW job, chain' = Append(chain, job),
               job.kind # "put" => minted' = minted,
               job.kind = "put" => minted' = minted \cup {job.id}
        PROVE  Gone(i)
    <3>1. /\ 1..Len(chain') = 1..Len(chain) \cup {Len(chain) + 1}
          /\ \A n \in 1..Len(chain) : chain'[n] = chain[n]
          /\ chain'[Len(chain) + 1] = job
      BY <2>4, QueuedPositions
    <3>2. /\ \A n \in 1..Len(chain) : ~(chain[n].kind = "put" /\ chain[n].id = i)
          /\ ~(job.kind = "put" /\ job.id = i)
      BY <1>2, <2>2, <3>1 DEF Gone
    <3> QED
      BY <2>1, <2>2, <2>4, <3>2 DEF Gone
  <2> QED
    BY <2>3, <2>4 DEF RuledMove, Quiet, QueuesWrite, QueuesRecord
<1> QED
  BY <1>1, <1>2

LEMMA CallerKeepsOnce ==
  ASSUME StoreInv, TypeInv', OnceInv, Calm, CallerMoves,
         NEW c \in Clients, RuledMove(c), NEW i \in Ids
  PROVE  Once(i)'
<1>0. TypeInv /\ Once(i) /\ \A r \in Trail : r.seq \in 1..auditSeq
  BY DEF StoreInv, OnceInv
<1>1. Gone(i)' <=> Gone(i)
  BY <1>0, CallerGone
<1>2. c \notin Owe(i)' /\ \A d \in Clients : d # c => (d \in Owe(i)' <=> d \in Owe(i))
  BY DEF RuledMove, Owe, Owes
<1>3. Owe(i) \subseteq Clients /\ Owe(i)' \subseteq Clients
  BY DEF Owe
<1>4. ASSUME Trail' = Trail, auditSeq' = auditSeq, ~Owes(call[c]) PROVE Once(i)'
  <2>1. Owe(i)' = Owe(i)
    BY <1>2, <1>3, <1>4 DEF Owe
  <2>2. RemovalsOf(i)' = RemovalsOf(i) /\ (Untrimmed' <=> Untrimmed)
    BY <1>4 DEF RemovalsOf, Untrimmed
  <2> QED
    BY <1>0, <1>1, <2>1, <2>2 DEF Once
<1>5. ASSUME NEW job, QueuesRecord(c, job) PROVE Once(i)'
  <2>1. PICK r : r = job.val
    OBVIOUS
  <2>2. /\ Trail' = Trail \cup {r} /\ r.seq = auditSeq + 1 /\ auditSeq' = auditSeq + 1
        /\ r.op = "remove" <=> Owes(call[c])
        /\ Owes(call[c]) => r.id = call[c].id
    BY <1>0, <1>5, <2>1, CallerTrail DEF QueuesRecord
  <2>3. Untrimmed' => Untrimmed
    <3> SUFFICES ASSUME Untrimmed', NEW k \in 1..auditSeq PROVE \E q \in Trail : q.seq = k
      BY DEF Untrimmed
    <3>1. k \in 1..auditSeq' /\ k # auditSeq + 1
      BY <1>0, <2>2, ChainTyped
    <3>2. \E q \in Trail' : q.seq = k
      BY <3>1 DEF Untrimmed
    <3> QED
      BY <2>2, <3>1, <3>2
  <2>4. CASE c \in Owe(i)
    <3>1. r.op = "remove" /\ r.id = i /\ Gone(i) /\ RemovalsOf(i) = {}
      BY <1>0, <2>2, <2>4 DEF Owe, Once
    <3>2. RemovalsOf(i)' = {r}
      BY <2>2, <3>1 DEF RemovalsOf
    <3>3. Owe(i)' = {}
      BY <1>0, <1>2, <1>3, <2>4 DEF Once
    <3> QED
      BY <1>1, <3>1, <3>2, <3>3 DEF Once
  <2>5. CASE c \notin Owe(i)
    <3>1. ~(r.op = "remove" /\ r.id = i)
      BY <2>2, <2>5 DEF Owe
    <3>2. RemovalsOf(i)' = RemovalsOf(i)
      BY <2>2, <3>1 DEF RemovalsOf
    <3>3. Owe(i)' = Owe(i)
      BY <1>2, <1>3, <2>5
    <3> QED
      BY <1>0, <1>1, <2>3, <3>2, <3>3 DEF Once
  <2> QED
    BY <2>4, <2>5
<1>6. ASSUME NEW job, QueuesWrite(c, job) PROVE Once(i)'
  BY <1>0, <1>4, <1>6, CallerTrail DEF QueuesWrite
<1>7. CASE Quiet(c)
  BY <1>0, <1>4, <1>7, CallerTrail DEF Quiet
<1> QED
  BY <1>5, <1>6, <1>7 DEF RuledMove

LEMMA LandKeepsOnce ==
  ASSUME AddInv, OnceInv, Calm, Land, NEW i \in Ids
  PROVE  Once(i)'
<1> DEFINE job == Head(chain)
           c == job.by
<1>0. /\ StoreInv /\ TypeInv /\ FrameInv /\ PutsNew /\ Once(i)
      /\ \A r \in Trail : r.seq \in 1..auditSeq
  BY DEF AddInv, StoreInv, OnceInv
<1>1. /\ chain # <<>> /\ chain' = Tail(chain) /\ chain \in Seq(Jobs) /\ minted' = minted
      /\ chain' \in Seq(Jobs)
  BY <1>0, TailPositions DEF Land, TypeInv, CallInv
<1>2. /\ job = chain[1] /\ 1 \in 1..Len(chain) /\ job \in Jobs /\ job.kind \in JobKinds
      /\ c \in Clients /\ call[c].phase = AwaitedAs(job.kind) /\ call[c].phase \in Waits
  BY <1>0, <1>1, HeadTyped, JobTyped DEF TypeInv
<1>3. /\ \A d \in Clients : d # c => call'[d] = call[d]
      /\ call'[c].phase = Answer(call[c].phase)
      /\ call'[c].op = call[c].op /\ call'[c].id = call[c].id
      /\ call'[c].ok = Took(job)
  BY <1>0, HeadAnswered
<1>4. /\ job.id \in Ids
      /\ job.kind = "put" => Live' = Live \cup {job.id}
      /\ job.kind = "delete" => Live' = Live \ {job.id}
      /\ job.kind \notin {"put", "delete"} => Live' = Live
  BY <1>0, LandLive
<1>5. Fits(call[c], job)
  BY <1>0, <1>2 DEF FrameInv
<1>6. c \notin Owe(i)
  BY <1>2 DEF Owe, Owes, Waits
<1>7. c \in Owe(i)' <=> job.kind = "delete" /\ job.id = i /\ i \in Live
  <2>1. call'[c].phase = "written" <=> job.kind \in DataKinds
    BY <1>2, <1>3 DEF Answer, AwaitedAs, JobKinds, DataKinds
  <2>2. AuditOp(call'[c]) = AuditOp(call[c])
    BY <1>3, AuditOpOf
  <2>3. job.kind = "delete" => (Took(job) <=> job.id \in Live)
    BY <1>4 DEF Took, Removed, Live
  <2>4. job.kind \in DataKinds => /\ call'[c].id = job.id
                                  /\ AuditOp(call'[c]) = "remove" <=> job.kind = "delete"
    BY <1>3, <1>5, <2>2 DEF Fits
  <2>5. c \in Owe(i)' <=> /\ call'[c].phase = "written" /\ Took(job)
                          /\ AuditOp(call'[c]) = "remove" /\ call'[c].id = i
    BY <1>2, <1>3 DEF Owe, Owes
  <2>6. "delete" \in DataKinds
    BY DEF DataKinds
  <2> HIDE DEF job, c
  <2> QED
    BY <2>1, <2>3, <2>4, <2>5, <2>6
<1>8. \A d \in Clients : d # c => (d \in Owe(i)' <=> d \in Owe(i))
  BY <1>3 DEF Owe, Owes
<1>9. Owe(i) \subseteq Clients /\ Owe(i)' \subseteq Clients
  BY DEF Owe
<1>10. /\ \A j \in Ids : j \in Live <=> entries[j] # Absent
       /\ \A j \in Ids : j \in Live' <=> entries'[j] # Absent
  BY DEF Live
<1>11. Trail' \subseteq Trail /\ auditSeq' = auditSeq
  BY <1>0, HeadTrail
<1>12. RemovalsOf(i)' \subseteq RemovalsOf(i)
  BY <1>11 DEF RemovalsOf
<1>13. Untrimmed' => Untrimmed /\ RemovalsOf(i)' = RemovalsOf(i)
  <2> SUFFICES ASSUME Untrimmed' PROVE Untrimmed /\ RemovalsOf(i)' = RemovalsOf(i)
    OBVIOUS
  <2>1. Trail' = Trail /\ Untrimmed
    BY <1>0, <1>11, NothingMissing
  <2> QED
    BY <2>1 DEF RemovalsOf
<1>14. /\ DOMAIN chain = 1..Len(chain) /\ DOMAIN chain' = 1..Len(chain')
       /\ \A n \in 1..Len(chain') : \E m \in 1..Len(chain) : chain'[n] = chain[m]
       /\ \A m \in 1..Len(chain) : m # 1 => \E n \in 1..Len(chain') : chain'[n] = chain[m]
  <2>1. /\ \A n \in 1..Len(chain') : n + 1 \in 1..Len(chain) /\ chain'[n] = chain[n + 1]
        /\ \A m \in 1..Len(chain) :
             m # 1 => m - 1 \in 1..Len(chain') /\ chain'[m - 1] = chain[m]
    BY <1>1, TailPositions
  <2>2. DOMAIN chain = 1..Len(chain) /\ DOMAIN chain' = 1..Len(chain')
    BY <1>1
  <2> QED
    BY <2>1, <2>2
<1> HIDE DEF job, c
<1>15. CASE job.kind = "delete" /\ job.id = i /\ i \in Live
  <2>1. ~Gone(i)
    BY <1>10, <1>15 DEF Gone
  <2>2. RemovalsOf(i) = {} /\ Owe(i) = {}
    BY <1>0, <2>1 DEF Once
  <2>3. RemovalsOf(i)' = {} /\ Owe(i)' = {c}
    BY <1>2, <1>7, <1>8, <1>9, <1>12, <1>15, <2>2
  <2>4. Gone(i)'
    <3>1. i \in minted' /\ entries'[i] = Absent
      BY <1>0, <1>1, <1>4, <1>10, <1>15 DEF PutsNew
    <3>2. \A n \in 1..Len(chain) : ~(chain[n].kind = "put" /\ chain[n].id = i)
      BY <1>0, <1>15 DEF PutsNew
    <3> QED
      BY <1>14, <3>1, <3>2 DEF Gone
  <2> QED
    BY <2>3, <2>4 DEF Once
<1>16. CASE ~(job.kind = "delete" /\ job.id = i /\ i \in Live)
  <2>1. Owe(i)' = Owe(i)
    BY <1>6, <1>7, <1>8, <1>9, <1>16
  <2>2. Gone(i) => Gone(i)'
    BY <1>0, LandKeepsGone
  <2>3. ASSUME Gone(i)' PROVE Gone(i)
    <3>1. i \in minted /\ i \notin Live'
      BY <1>1, <1>10, <2>3 DEF Gone
    <3>2. i \notin Live /\ ~(job.kind = "put" /\ job.id = i)
      BY <1>4, <1>16, <3>1
    <3>3. \A n \in 1..Len(chain) : ~(chain[n].kind = "put" /\ chain[n].id = i)
      BY <1>2, <1>14, <2>3, <3>2 DEF Gone
    <3> QED
      BY <1>10, <1>14, <3>1, <3>2, <3>3 DEF Gone
  <2> QED
    BY <1>0, <1>12, <1>13, <2>1, <2>2, <2>3 DEF Once
<1> QED
  BY <1>15, <1>16

LEMMA OnceInvHolds ==
  ASSUME NoPutBack
  PROVE  Spec => [](AddInv /\ OnceInv)
<1>1. Init => OnceInv
  <2> SUFFICES ASSUME Init PROVE OnceInv
    OBVIOUS
  <2>1. /\ 1..Len(chain) = {} /\ 1..Len(audit) = {} /\ auditSeq = 0
        /\ call = [c \in Clients |-> Idle] /\ minted = Stored
    BY DEF Init
  <2>2. Trail = {}
    BY <2>1 DEF Trail
  <2>3. \A i \in Ids : RemovalsOf(i) = {} /\ Owe(i) = {}
    BY <2>1, <2>2, FrameFields DEF RemovalsOf, Owe, Owes
  <2>4. \A i \in Stored : entries[i] # Absent
    <3>1. PICK x \in Contents, P \in SUBSET Stored :
            entries = [i \in Ids |-> IF i \in Stored
                                     THEN [Fresh(x) EXCEPT !.pinned = i \in P]
                                     ELSE Absent]
      BY DEF Init
    <3>2. \A e \in Entry, b \in BOOLEAN : [e EXCEPT !.pinned = b] \in Entry
      BY DEF Entry
    <3>3. Fresh(x) \in Entry
      BY FreshTyped
    <3> SUFFICES ASSUME NEW i \in Stored PROVE entries[i] # Absent
      OBVIOUS
    <3>4. (i \in P) \in BOOLEAN
      OBVIOUS
    <3>5. [Fresh(x) EXCEPT !.pinned = i \in P] \in Entry
      BY <3>2, <3>3, <3>4
    <3>6. entries[i] = [Fresh(x) EXCEPT !.pinned = i \in P]
      BY <3>1, StoreAssumption
    <3> QED
      BY <3>5, <3>6, AbsentAssumption
  <2>5. \A i \in Ids : ~Gone(i)
    BY <2>1, <2>4 DEF Gone
  <2> QED
    BY <2>2, <2>3, <2>5 DEF OnceInv, Once
<1>2. AddInv /\ AddInv' /\ OnceInv /\ [Next]_vars => OnceInv'
  <2> SUFFICES ASSUME AddInv, AddInv', OnceInv, [Next]_vars PROVE OnceInv'
    OBVIOUS
  <2>1. StoreInv /\ TypeInv /\ TypeInv' /\ FrameInv
    BY DEF AddInv, StoreInv
  <2>2. ASSUME NEW c \in Clients, Start(c) \/ Proceed(c) PROVE OnceInv'
    <3>1. CallerMoves /\ RuledMove(c)
      BY <2>1, <2>2, StartMoves, ProceedMoves, CallerRules
    <3>2. Calm' => Calm
      BY <3>1 DEF CallerMoves, Calm
    <3>3. \A r \in Trail' : r.seq \in 1..auditSeq'
      <4>1. auditSeq \in Nat /\ \A r \in Trail : r.seq \in 1..auditSeq
        BY <2>1, ChainTyped DEF OnceInv
      <4>2. CASE Quiet(c)
        BY <2>1, <3>1, <4>1, <4>2, CallerTrail DEF Quiet
      <4>3. ASSUME NEW job, QueuesWrite(c, job)
            PROVE  \A r \in Trail' : r.seq \in 1..auditSeq'
        BY <2>1, <3>1, <4>1, <4>3, CallerTrail DEF QueuesWrite
      <4>4. ASSUME NEW job, QueuesRecord(c, job)
            PROVE  \A r \in Trail' : r.seq \in 1..auditSeq'
        <5>1. /\ Trail' = Trail \cup {job.val} /\ job.val.seq = auditSeq + 1
              /\ auditSeq' = auditSeq + 1
          BY <2>1, <3>1, <4>4, CallerTrail DEF QueuesRecord
        <5> QED
          BY <4>1, <5>1
      <4> QED
        BY <3>1, <4>2, <4>3, <4>4 DEF RuledMove
    <3> QED
      BY <2>1, <3>1, <3>2, <3>3, CallerKeepsOnce DEF OnceInv
  <2>3. CASE Land
    <3>1. Calm' => Calm
      BY <2>3 DEF Land, Calm
    <3>2. \A r \in Trail' : r.seq \in 1..auditSeq'
      BY <2>1, <2>3, HeadTrail DEF OnceInv
    <3> QED
      BY <2>3, <3>1, <3>2, LandKeepsOnce DEF OnceInv
  <2>4. CASE Reject
    <3>1. ~Calm'
      BY <2>1, <2>4 DEF Reject, Calm, TypeInv, DataTyped
    <3> QED
      BY <2>1, <2>4, <3>1, HeadTrail DEF OnceInv
  <2>5. CASE Crash
    <3>1. ~Calm'
      BY <2>1, <2>5 DEF Crash, Calm, TypeInv, DataTyped
    <3>2. chain' = <<>> /\ audit' = audit /\ auditSeq' = BootSeq
      BY <2>5 DEF Crash
    <3>3. 1..Len(chain') = {}
      BY <3>2
    <3>4. \A n \in 1..Len(audit') : audit'[n].seq \in 1..auditSeq
      BY <3>2 DEF OnceInv, Trail
    <3>5. \A n \in 1..Len(audit') : audit'[n].seq <= auditSeq'
      BY DEF AddInv, StoreInv, OrderInv
    <3>6. \A n \in 1..Len(audit') : audit'[n].seq \in 1..auditSeq'
      BY <2>1, <3>4, <3>5, ChainTyped DEF TypeInv, DataTyped
    <3> QED
      BY <3>1, <3>3, <3>6, TrailMembers DEF OnceInv
  <2>6. ASSUME NEW j \in Ids, Ageing(j) PROVE OnceInv'
    <3>1. /\ UNCHANGED <<audit, auditSeq, chain, call, minted, faults, crashes>>
          /\ \A i \in Ids : entries'[i] = Absent <=> entries[i] = Absent
      <4>1. /\ j \in Live
            /\ entries' = [entries EXCEPT ![j] = [entries[j] EXCEPT !.age = entries[j].age + 1]]
            /\ UNCHANGED <<audit, auditSeq, chain, call, minted, faults, crashes>>
        BY <2>6 DEF Ageing
      <4>2. entries'[j] # Absent
        <5>1. entries[j] \in Entry /\ entries[j].age < 2
          BY <2>1, <2>6, <4>1, LiveTyped DEF Ageing, TypeInv
        <5>2. entries[j].age + 1 \in 0..2
          BY <5>1 DEF Entry
        <5>3. [entries[j] EXCEPT !.age = entries[j].age + 1] \in Entry
          BY <5>1, <5>2 DEF Entry
        <5>4. entries'[j] = [entries[j] EXCEPT !.age = entries[j].age + 1]
          BY <2>1, <4>1 DEF TypeInv, DataTyped
        <5> QED
          BY <5>3, <5>4, AbsentAssumption
      <4>3. \A i \in Ids : i # j => entries'[i] = entries[i]
        BY <2>1, <4>1 DEF TypeInv, DataTyped
      <4> QED
        BY <4>1, <4>2, <4>3 DEF Live
    <3>2. \A i \in Ids : Gone(i)' <=> Gone(i)
      BY <3>1 DEF Gone
    <3>3. Trail' = Trail
      BY <3>1 DEF Trail, Numbered
    <3>4. \A i \in Ids : Owe(i)' = Owe(i) /\ RemovalsOf(i)' = RemovalsOf(i)
      BY <3>1, <3>3 DEF Owe, Owes, RemovalsOf
    <3>5. (Untrimmed' <=> Untrimmed) /\ (Calm' <=> Calm)
      BY <3>1, <3>3 DEF Untrimmed, Calm
    <3> QED
      BY <3>1, <3>2, <3>3, <3>4, <3>5 DEF OnceInv, Once
  <2>7. CASE UNCHANGED vars
    <3>1. UNCHANGED <<audit, auditSeq, chain, call, minted, faults, crashes, entries>>
      BY <2>7 DEF vars
    <3>2. Trail' = Trail
      BY <3>1 DEF Trail, Numbered
    <3>3. \A i \in Ids : /\ Owe(i)' = Owe(i) /\ RemovalsOf(i)' = RemovalsOf(i)
                         /\ Gone(i)' <=> Gone(i)
      BY <3>1, <3>2 DEF Owe, Owes, RemovalsOf, Gone
    <3>4. (Untrimmed' <=> Untrimmed) /\ (Calm' <=> Calm)
      BY <3>1, <3>2 DEF Untrimmed, Calm
    <3> QED
      BY <3>1, <3>2, <3>3, <3>4 DEF OnceInv, Once
  <2> QED
    BY <2>2, <2>3, <2>4, <2>5, <2>6, <2>7 DEF Next
<1>3. Spec => []AddInv
  BY AddInvHolds
<1> QED
  BY <1>1, <1>2, <1>3, PTL DEF Spec

\* A table that has as many records as numbers were handed out has them all.
LEMMA FullTable ==
  ASSUME StoreInv, \A n \in 1..Len(audit) : audit[n].seq \in 1..auditSeq,
         Len(audit) = auditSeq
  PROVE  \A k \in 1..auditSeq : \E n \in 1..Len(audit) : audit[n].seq = k
<1> DEFINE L == auditSeq
           f == [n \in 1..L |-> audit[n].seq]
<1>1. L \in Nat /\ Len(audit) = L
  BY ChainTyped DEF StoreInv
<1>2. f \in [1..L -> 1..L]
  BY <1>1
<1>3. ASSUME NEW m \in 1..L, NEW n \in 1..L, f[m] = f[n] PROVE m = n
  <2>1. ~(m < n) /\ ~(n < m)
    BY <1>1, <1>3, ChainTyped DEF StoreInv, OrderInv
  <2> QED
    BY <1>1, <2>1
<1>4. f \in Injection(1..L, 1..L)
  BY <1>2, <1>3, Fun_IsInj
<1>5. IsFiniteSet(1..L)
  BY <1>1, FS_Interval
<1>6. f \in Surjection(1..L, 1..L)
  BY <1>4, <1>5, FS_Injection
<1>7. \A k \in 1..L : \E n \in 1..L : f[n] = k
  <2> HIDE DEF f, L
  <2> QED
    BY <1>6, Fun_SurjectionProperties
<1> QED
  BY <1>1, <1>7

\* However removals of one entry overlap, by hand, by eviction and by decay,
\* the first to land records it and the others find nothing: once all is over
\* the trail has one removal of an entry that is gone and none of one that
\* stands, for any number of callers that do not put back records they read.
THEOREM RemovalsAreRecordedOnce ==
  ASSUME NoPutBack
  PROVE  Spec => []RemovalAuditedOnce
<1>1. AddInv /\ OnceInv => RemovalAuditedOnce
  <2> SUFFICES ASSUME AddInv, OnceInv, AtRest, Calm, Len(audit) = auditSeq, NEW i \in minted
               PROVE  Cardinality(Removals(i)) = IF entries[i] = Absent THEN 1 ELSE 0
    BY DEF RemovalAuditedOnce, Calm
  <2>1. StoreInv /\ TypeInv /\ i \in Ids /\ Once(i)
    BY DEF AddInv, StoreInv, TypeInv, DataTyped, OnceInv
  <2>2. chain = <<>> /\ Owe(i) = {}
    BY <2>1, RestIsEmpty DEF AtRest, Owe, Owes
  <2>3. 1..Len(chain) = {} /\ DOMAIN chain = {} /\ DOMAIN audit = 1..Len(audit)
    BY <2>1, <2>2, AuditSeqsTyped DEF TypeInv, DataTyped
  <2>4. Trail = {audit[n] : n \in 1..Len(audit)}
    BY <2>3 DEF Trail
  <2>5. Untrimmed
    <3>1. \A n \in 1..Len(audit) : audit[n].seq \in 1..auditSeq
      BY <2>4 DEF OnceInv
    <3>2. \A k \in 1..auditSeq : \E n \in 1..Len(audit) : audit[n].seq = k
      BY <2>1, <3>1, FullTable
    <3> QED
      BY <2>4, <3>2 DEF Untrimmed
  <2>6. CASE entries[i] = Absent
    <3>1. Gone(i)
      BY <2>3, <2>6 DEF Gone
    <3>2. PICK r \in RemovalsOf(i) : TRUE
      BY <2>1, <2>2, <2>5, <3>1 DEF Once
    <3>3. PICK n \in 1..Len(audit) : audit[n] = r
      BY <2>4, <3>2 DEF RemovalsOf
    <3>4. \A m \in Removals(i) : m = n
      <4> SUFFICES ASSUME NEW m \in Removals(i) PROVE m = n
        OBVIOUS
      <4>1. m \in 1..Len(audit) /\ audit[m] \in RemovalsOf(i)
        BY <2>3, <2>4 DEF Removals, RemovalsOf
      <4>2. audit[m].seq = audit[n].seq
        BY <2>1, <3>2, <3>3, <4>1 DEF Once
      <4>3. ~(m < n) /\ ~(n < m)
        BY <2>1, <4>1, <4>2, ChainTyped DEF StoreInv, OrderInv
      <4> QED
        BY <2>1, <4>1, <4>3, ChainTyped
    <3>5. n \in Removals(i)
      BY <2>3, <3>2, <3>3 DEF Removals, RemovalsOf
    <3>6. Removals(i) = {n}
      BY <3>4, <3>5
    <3> QED
      BY <2>6, <3>6, FS_Singleton
  <2>7. CASE entries[i] # Absent
    <3>1. RemovalsOf(i) = {}
      BY <2>1, <2>7 DEF Once, Gone
    <3>2. Removals(i) = {}
      BY <2>3, <2>4, <3>1 DEF Removals, RemovalsOf
    <3> QED
      BY <2>7, <3>2, FS_EmptySet
  <2> QED
    BY <2>6, <2>7
<1> QED
  BY <1>1, OnceInvHolds, PTL

-----------------------------------------------------------------------------
(* The cap on the entries.  While an add is under way its eviction is still *)
(* to come; otherwise what stands and is not on its way out fits under the  *)
(* cap, or everything that may be evicted is on its way out.                *)

\* Entries on their way out: a delete is queued, or an eviction has still to
\* get to them.
Leaving ==
  {chain[n].id : n \in {m \in 1..Len(chain) : chain[m].kind = "delete"}}
    \cup UNION {call[c].todo : c \in {d \in Clients : call[d].op = "trim"}}

RoomInv ==
  \/ \E c \in Clients : call[c].op = "add"
  \/ Cardinality(Live \ Leaving) <= EntriesCap
  \/ Unpinned \subseteq Leaving

LEMMA AppendTo ==
  ASSUME NEW S, NEW s \in Seq(S), NEW x
  PROVE  /\ \A n \in 1..Len(s) : n \in 1..Len(Append(s, x)) /\ Append(s, x)[n] = s[n]
         /\ \E n \in 1..Len(Append(s, x)) : Append(s, x)[n] = x
<1>1. s \in Seq(S \cup {x})
  OBVIOUS
<1>2. /\ 1..Len(Append(s, x)) = 1..Len(s) \cup {Len(s) + 1}
      /\ \A n \in 1..Len(s) : Append(s, x)[n] = s[n]
      /\ Append(s, x)[Len(s) + 1] = x
  BY <1>1, AppendPositions
<1> QED
  BY <1>2

\* A set that fits under the cap leaves room for each of its parts.
LEMMA RoomOf ==
  ASSUME NEW A, IsFiniteSet(A), Cardinality(A) <= EntriesCap, NEW B, B \subseteq A
  PROVE  Cardinality(B) <= EntriesCap
<1>1. IsFiniteSet(B) /\ Cardinality(B) <= Cardinality(A)
  BY FS_Subset
<1>2. Cardinality(A) \in Nat /\ Cardinality(B) \in Nat /\ EntriesCap \in Nat
  BY <1>1, FS_CardinalityType, StoreAssumption
<1> QED
  BY <1>1, <1>2

LEMMA LeavingMembers ==
  \A i : i \in Leaving <=>
    \/ \E n \in 1..Len(chain) : chain[n].kind = "delete" /\ chain[n].id = i
    \/ \E c \in Clients : call[c].op = "trim" /\ i \in call[c].todo
  BY DEF Leaving

\* An eviction takes as many entries as there are too many, or all it may.
LEMMA VictimsSuffice ==
  ASSUME IsFiniteSet(Live), ~(Cardinality(Live) <= EntriesCap), NEW V \in Victims
  PROVE  Cardinality(Live \ V) <= EntriesCap \/ V = Unpinned
<1>1. CASE V = Unpinned
  BY <1>1
<1>2. CASE Cardinality(V) = Excess
  <2>1. V \subseteq Live /\ Live \cap V = V
    BY DEF Victims, Unpinned
  <2>2. Cardinality(Live \ V) = Cardinality(Live) - Cardinality(V)
    BY <2>1, FS_Difference
  <2>3. Cardinality(Live) \in Nat /\ EntriesCap \in Nat
    BY FS_CardinalityType, StoreAssumption
  <2> QED
    BY <1>2, <2>2, <2>3 DEF Excess
<1> QED
  BY <1>1, <1>2 DEF Victims

LEMMA CallerKeepsRoom ==
  ASSUME TypeInv, CallerMoves, NEW c \in Clients, RuledMove(c), KeepsRoom(c),
         IsFiniteSet(Live), RoomInv
  PROVE  RoomInv'
<1>1. entries' = entries /\ Live' = Live /\ Unpinned' = Unpinned
  BY DEF CallerMoves, Live, Unpinned
<1>2. \A d \in Clients : d # c => call'[d] = call[d]
  BY DEF RuledMove
<1>3. \/ chain' = chain
      \/ \E job : chain' = Append(chain, job)
  BY DEF RuledMove, Quiet, QueuesWrite, QueuesRecord
<1>4. \A n \in 1..Len(chain) : n \in 1..Len(chain') /\ chain'[n] = chain[n]
  BY <1>3, AppendTo DEF TypeInv, CallInv
<1>5. Leaving \subseteq Leaving'
  <2> SUFFICES ASSUME NEW i \in Leaving PROVE i \in Leaving'
    OBVIOUS
  <2>1. CASE \E n \in 1..Len(chain) : chain[n].kind = "delete" /\ chain[n].id = i
    BY <1>4, <2>1 DEF Leaving
  <2>2. ASSUME NEW d \in Clients, d # c, call[d].op = "trim", i \in call[d].todo
        PROVE  i \in Leaving'
    BY <1>2, <2>2 DEF Leaving
  <2>3. CASE call[c].op = "trim" /\ i \in call[c].todo
    <3>1. CASE call'[c].op = "trim" /\ i \in call'[c].todo
      BY <3>1 DEF Leaving
    <3>2. ASSUME NEW job, chain' = Append(chain, job), job.kind = "delete", job.id = i
          PROVE  i \in Leaving'
      <4>1. PICK n \in 1..Len(chain') : chain'[n] = job
        BY <3>2, AppendTo DEF TypeInv, CallInv
      <4> QED
        BY <3>2, <4>1 DEF Leaving
    <3> QED
      BY <2>3, <3>1, <3>2 DEF KeepsRoom
  <2> QED
    BY <2>1, <2>2, <2>3, LeavingMembers
<1>6. CASE \E d \in Clients : d # c /\ call[d].op = "add"
  BY <1>2, <1>6 DEF RoomInv
<1>7. CASE call[c].op = "add" /\ call'[c].op = "add"
  BY <1>7 DEF RoomInv
<1>8. CASE Cardinality(Live) <= EntriesCap
  <2>1. Live' \ Leaving' \subseteq Live
    BY <1>1
  <2> QED
    BY <1>8, <2>1, RoomOf DEF RoomInv
<1>9. CASE ~(Cardinality(Live) <= EntriesCap) /\ call'[c].op = "trim" /\ call'[c].todo \in Victims
  <2> DEFINE V == call'[c].todo
  <2>1. V \subseteq Leaving'
    BY <1>9 DEF Leaving
  <2>2. CASE V = Unpinned
    BY <1>1, <2>1, <2>2 DEF RoomInv
  <2>3. CASE Cardinality(Live \ V) <= EntriesCap
    <3>1. Live' \ Leaving' \subseteq Live \ V
      BY <1>1, <2>1
    <3>2. IsFiniteSet(Live \ V)
      BY FS_Difference
    <3> QED
      BY <2>3, <3>1, <3>2, RoomOf DEF RoomInv
  <2> QED
    BY <1>9, <2>2, <2>3, VictimsSuffice
<1>10. CASE RoomInv /\ \A d \in Clients : call[d].op # "add"
  <2>1. CASE Cardinality(Live \ Leaving) <= EntriesCap
    <3>1. Live' \ Leaving' \subseteq Live \ Leaving
      BY <1>1, <1>5
    <3>2. IsFiniteSet(Live \ Leaving)
      BY FS_Difference
    <3> QED
      BY <2>1, <3>1, <3>2, RoomOf DEF RoomInv
  <2>2. CASE Unpinned \subseteq Leaving
    BY <1>1, <1>5, <2>2 DEF RoomInv
  <2> QED
    BY <1>10, <2>1, <2>2 DEF RoomInv
<1> QED
  BY <1>6, <1>7, <1>8, <1>9, <1>10 DEF KeepsRoom, MakesRoom

LEMMA LandKeepsRoom ==
  ASSUME TypeInv, FrameInv, IsFiniteSet(Live), RoomInv, Land
  PROVE  RoomInv'
<1> DEFINE job == Head(chain)
<1>1. chain # <<>> /\ chain' = Tail(chain) /\ chain \in Seq(Jobs)
  BY DEF Land, TypeInv, CallInv
<1>2. /\ job = chain[1] /\ 1 \in 1..Len(chain)
      /\ \A n \in 1..Len(chain) :
           n # 1 => n - 1 \in 1..Len(chain') /\ chain'[n - 1] = chain[n]
  BY <1>1, TailPositions
<1>3. /\ job.by \in Clients
      /\ \A d \in Clients : call'[d].op = call[d].op /\ call'[d].todo = call[d].todo
  BY HeadAnswered
<1>4. CASE \E d \in Clients : call[d].op = "add"
  BY <1>3, <1>4 DEF RoomInv
<1>5. CASE job.kind = "put"
  BY <1>2, <1>3, <1>4, <1>5 DEF FrameInv, Fits, DataKinds
<1>6. CASE job.kind # "put"
  <2>1. /\ job.kind = "delete" => job.id \notin Live'
        /\ \A i \in Live' : i \in Live /\ entries'[i].pinned = entries[i].pinned
    BY <1>6, LandLive
  <2>2. \A i \in Live' : i \in Leaving => i \in Leaving'
    <3> SUFFICES ASSUME NEW i \in Live', i \in Leaving PROVE i \in Leaving'
      OBVIOUS
    <3>1. ASSUME NEW n \in 1..Len(chain), chain[n].kind = "delete", chain[n].id = i
          PROVE  i \in Leaving'
      <4>1. n # 1
        BY <1>2, <2>1, <3>1
      <4>2. n - 1 \in 1..Len(chain') /\ chain'[n - 1] = chain[n]
        BY <1>2, <4>1
      <4> QED
        BY <3>1, <4>2 DEF Leaving
    <3>2. ASSUME NEW d \in Clients, call[d].op = "trim", i \in call[d].todo
          PROVE  i \in Leaving'
      BY <1>3, <3>2 DEF Leaving
    <3> QED
      BY <3>1, <3>2, LeavingMembers
  <2>3. CASE Cardinality(Live \ Leaving) <= EntriesCap
    <3>1. Live' \ Leaving' \subseteq Live \ Leaving
      BY <2>1, <2>2
    <3>2. IsFiniteSet(Live \ Leaving)
      BY FS_Difference
    <3> QED
      BY <2>3, <3>1, <3>2, RoomOf DEF RoomInv
  <2>4. CASE Unpinned \subseteq Leaving
    <3>1. Unpinned' \subseteq Leaving'
      BY <2>1, <2>2, <2>4 DEF Unpinned
    <3> QED
      BY <3>1 DEF RoomInv
  <2> QED
    BY <1>4, <2>3, <2>4 DEF RoomInv
<1> QED
  BY <1>5, <1>6

\* A day that passes lifts no pin and takes no entry away.
LEMMA AgeingKeeps ==
  ASSUME TypeInv, NEW j \in Ids, Ageing(j)
  PROVE  Live' = Live /\ Unpinned' = Unpinned
<1>1. /\ j \in Live
      /\ entries' = [entries EXCEPT ![j] = [entries[j] EXCEPT !.age = entries[j].age + 1]]
  BY DEF Ageing
<1>2. entries'[j] # Absent /\ entries'[j].pinned = entries[j].pinned
  <2>1. entries[j] \in Entry /\ entries[j].age < 2
    BY <1>1, LiveTyped DEF Ageing, TypeInv
  <2>2. entries[j].age + 1 \in 0..2
    BY <2>1 DEF Entry
  <2>3. /\ [entries[j] EXCEPT !.age = entries[j].age + 1] \in Entry
        /\ [entries[j] EXCEPT !.age = entries[j].age + 1].pinned = entries[j].pinned
    BY <2>1, <2>2 DEF Entry
  <2>4. entries'[j] = [entries[j] EXCEPT !.age = entries[j].age + 1]
    BY <1>1 DEF TypeInv, DataTyped
  <2> QED
    BY <2>3, <2>4, AbsentAssumption
<1>3. \A i \in Ids : i # j => entries'[i] = entries[i]
  BY <1>1 DEF TypeInv, DataTyped
<1>4. Live' = Live
  BY <1>1, <1>2, <1>3 DEF Live
<1> QED
  BY <1>2, <1>3, <1>4 DEF Unpinned, Live

CapInv == IsFiniteSet(Live) /\ (Calm => RoomInv)

LEMMA CapInvHolds ==
  ASSUME NoPutBack, IsFiniteSet(Stored), Cardinality(Stored) <= EntriesCap
  PROVE  Spec => [](AddInv /\ CapInv)
<1>1. Init => CapInv
  <2> SUFFICES ASSUME Init PROVE CapInv
    OBVIOUS
  <2>1. Live \subseteq Stored
    <3>1. PICK x \in Contents, P \in SUBSET Stored :
            entries = [i \in Ids |-> IF i \in Stored
                                     THEN [Fresh(x) EXCEPT !.pinned = i \in P]
                                     ELSE Absent]
      BY DEF Init
    <3> QED
      BY <3>1 DEF Live
  <2>2. IsFiniteSet(Live)
    BY <2>1, FS_Subset
  <2>3. Cardinality(Live \ Leaving) <= EntriesCap
    BY <2>1, RoomOf
  <2> QED
    BY <2>2, <2>3 DEF CapInv, RoomInv
<1>2. AddInv /\ CapInv /\ [Next]_vars => CapInv'
  <2> SUFFICES ASSUME AddInv, CapInv, [Next]_vars PROVE CapInv'
    OBVIOUS
  <2>1. TypeInv /\ FrameInv
    BY DEF AddInv, StoreInv
  <2>2. ASSUME NEW c \in Clients, Start(c) \/ Proceed(c) PROVE CapInv'
    <3>1. CallerMoves /\ RuledMove(c) /\ (Calm => KeepsRoom(c))
      BY <2>1, <2>2, StartMoves, ProceedMoves, CallerRules
    <3>2. (Calm' => Calm) /\ Live' = Live
      BY <3>1 DEF CallerMoves, Calm, Live
    <3> QED
      BY <2>1, <3>1, <3>2, CallerKeepsRoom DEF CapInv
  <2>3. CASE Land
    <3>1. Calm' => Calm
      BY <2>3 DEF Land, Calm
    <3>2. IsFiniteSet(Live')
      <4>1. Live' \subseteq Live \cup {Head(chain).id}
        BY <2>1, <2>3, LandLive
      <4>2. IsFiniteSet(Live \cup {Head(chain).id})
        BY FS_AddElement DEF CapInv
      <4> QED
        BY <4>1, <4>2, FS_Subset
    <3> QED
      BY <2>1, <2>3, <3>1, <3>2, LandKeepsRoom DEF CapInv
  <2>4. CASE Reject \/ Crash
    <3>1. ~Calm'
      BY <2>1, <2>4 DEF Reject, Crash, Calm, TypeInv, DataTyped
    <3>2. Live' = Live
      BY <2>4 DEF Reject, Crash, Live
    <3> QED
      BY <3>1, <3>2 DEF CapInv
  <2>5. ASSUME NEW j \in Ids, Ageing(j) PROVE CapInv'
    <3>1. UNCHANGED <<chain, call, faults, crashes>>
      BY <2>5 DEF Ageing
    <3>2. Live' = Live /\ Unpinned' = Unpinned
      BY <2>1, <2>5, AgeingKeeps
    <3>3. Leaving' = Leaving /\ (Calm' <=> Calm)
      BY <3>1 DEF Leaving, Calm
    <3> QED
      BY <3>1, <3>2, <3>3 DEF CapInv, RoomInv
  <2>6. CASE UNCHANGED vars
    <3>1. UNCHANGED <<chain, call, faults, crashes, entries>>
      BY <2>6 DEF vars
    <3>2. Live' = Live /\ Unpinned' = Unpinned
      BY <3>1 DEF Live, Unpinned
    <3>3. Leaving' = Leaving /\ (Calm' <=> Calm)
      BY <3>1 DEF Leaving, Calm
    <3> QED
      BY <3>1, <3>2, <3>3 DEF CapInv, RoomInv
  <2> QED
    BY <2>2, <2>3, <2>4, <2>5, <2>6 DEF Next
<1>3. Spec => []AddInv
  BY AddInvHolds
<1> QED
  BY <1>1, <1>2, <1>3, PTL DEF Spec

\* The cap on the table: at the end of an add trimEntries evicts, least
\* accessed first, what is too much, over a snapshot and one delete at a time,
\* beside recalls, removals and the janitor of any number of other callers;
\* once all of them are done the table is within its cap, or all that is left
\* is pinned, provided it was opened within it and nothing puts back a record
\* it had read: such a put restores an entry evicted meanwhile.
THEOREM CapIsHeld ==
  ASSUME NoPutBack, IsFiniteSet(Stored), Cardinality(Stored) <= EntriesCap
  PROVE  Spec => []CapHoldsAtRest
<1>1. AddInv /\ CapInv => CapHoldsAtRest
  <2> SUFFICES ASSUME AddInv, CapInv, AtRest, Calm
               PROVE  Cardinality(Live) <= EntriesCap \/ Unpinned = {}
    BY DEF CapHoldsAtRest, Calm
  <2>1. TypeInv /\ FrameInv /\ RoomInv
    BY DEF AddInv, StoreInv, CapInv
  <2>2. \A c \in Clients : call[c].op = "none"
    BY <2>1 DEF FrameInv, InPlace, AtRest
  <2>3. chain = <<>>
    BY <2>1, RestIsEmpty DEF AtRest
  <2>4. 1..Len(chain) = {}
    BY <2>3
  <2>5. Leaving = {}
    BY <2>2, <2>4, LeavingMembers
  <2>6. Live \ Leaving = Live
    BY <2>5
  <2> QED
    BY <2>1, <2>2, <2>5, <2>6 DEF RoomInv
<1> QED
  BY <1>1, CapInvHolds, PTL

-----------------------------------------------------------------------------
(* Nobody waits for nothing: what CallsReturn rests on.                    *)

OwnJob ==
  \A c \in Clients : call[c].phase \in Waits => \E n \in 1..Len(chain) : chain[n].by = c

\* The continuation of a settled promise has not run yet.
Due(frame) == frame.phase \in Phases \ (Waits \cup {"idle"})

NeverStalls ==
  (\E c \in Clients : call[c].phase # "idle")
    => (chain # <<>> /\ Settled) \/ \E c \in Clients : Due(call[c])

\* A caller queues a job of its own, or goes on without waiting.
OwnSteps(c) ==
  \/ \E frame, kind, i, v : Enqueue(c, frame, kind, i, v)
  \/ \E frame : frame.phase \notin Waits /\ Goto(c, frame)

LEMMA OwnStepsKeepJobs ==
  ASSUME CallInv, OwnJob, NEW c \in Clients, OwnSteps(c)
  PROVE  OwnJob'
<1>1. CASE \E frame, kind, i, v : Enqueue(c, frame, kind, i, v)
  <2>1. PICK frame, kind, i, v : Enqueue(c, frame, kind, i, v)
    BY <1>1
  <2> DEFINE job == [by |-> c, kind |-> kind, id |-> i, val |-> v]
  <2>2. chain' = Append(chain, job) /\ job.by = c /\ call' = [call EXCEPT ![c] = frame]
    BY <2>1 DEF Enqueue
  <2> HIDE DEF job
  <2>3. /\ Len(chain) \in Nat /\ Len(chain') = Len(chain) + 1
        /\ \A n \in 1..Len(chain) : chain'[n] = chain[n]
        /\ chain'[Len(chain) + 1] = job
    BY <2>2 DEF CallInv
  <2>4. 1..Len(chain) \subseteq 1..Len(chain') /\ Len(chain) + 1 \in 1..Len(chain')
    BY <2>3
  <2>5. ASSUME NEW d \in Clients, call'[d].phase \in Waits
        PROVE  \E n \in 1..Len(chain') : chain'[n].by = d
    <3>1. CASE d = c
      BY <2>2, <2>3, <2>4, <3>1
    <3>2. CASE d # c
      <4>1. call'[d] = call[d]
        BY <2>2, <3>2 DEF CallInv
      <4> QED
        BY <2>3, <2>4, <2>5, <4>1 DEF OwnJob
    <3> QED
      BY <3>1, <3>2
  <2> QED
    BY <2>5 DEF OwnJob
<1>2. CASE \E frame : frame.phase \notin Waits /\ Goto(c, frame)
  BY <1>2 DEF OwnJob, CallInv, Goto
<1> QED
  BY <1>1, <1>2 DEF OwnSteps

LEMMA StartOwnsJob ==
  ASSUME NEW c \in Clients, Start(c)
  PROVE  OwnSteps(c)
<1>1. \A op, S : Loop(op, S).phase \notin Waits
  BY DEF Loop, Idle, Waits
<1>2. ASSUME NEW op, NEW i, NEW e, PutBack(c, op, i, e) PROVE OwnSteps(c)
  BY <1>2 DEF PutBack, OwnSteps
<1>3. CASE Add(c)
  BY <1>3 DEF Add, OwnSteps
<1>4. CASE Update(c) \/ Pin(c) \/ Unpin(c) \/ Archive(c) \/ Unarchive(c) \/ Supersede(c)
  BY <1>2, <1>4 DEF Update, Pin, Unpin, Archive, Unarchive, Supersede
<1>5. CASE Remove(c)
  BY <1>5 DEF Remove, OwnSteps
<1>6. CASE ReadRaw(c)
  BY <1>6 DEF ReadRaw, AppendAudit, OwnSteps
<1>7. CASE Janitor(c)
  BY <1>1, <1>7 DEF Janitor, OwnSteps
<1>8. CASE \E op \in Ops : Signal(c, op)
  BY <1>1, <1>8 DEF Signal, OwnSteps
<1> QED
  BY <1>3, <1>4, <1>5, <1>6, <1>7, <1>8 DEF Start

LEMMA ProceedOwnsJob ==
  ASSUME CallInv, NEW c \in Clients, Proceed(c)
  PROVE  OwnSteps(c)
<1>1. call[c] \in Frames
  BY DEF CallInv
<1>2. Idle.phase \notin Waits /\ \A op, S : Loop(op, S).phase \notin Waits
  BY DEF Loop, Idle, Waits
<1>3. [call[c] EXCEPT !.phase = "next"].phase \notin Waits
  BY <1>1 DEF Frames, Waits
<1>4. CASE Resume(c)
  BY <1>2, <1>3, <1>4 DEF Resume, AppendAudit, OwnSteps
<1>5. CASE Audited(c)
  <2>1. PICK cut : Goto(c, [call[c] EXCEPT !.phase = "cut", !.cut = cut])
    BY <1>5 DEF Audited
  <2>2. [call[c] EXCEPT !.phase = "cut", !.cut = cut].phase \notin Waits
    BY <1>1 DEF Frames, Waits
  <2> QED
    BY <2>1, <2>2 DEF OwnSteps
<1>6. CASE TrimAudit(c)
  BY <1>2, <1>3, <1>6 DEF TrimAudit, OwnSteps
<1>7. CASE TrimEntries(c)
  BY <1>2, <1>7 DEF TrimEntries, OwnSteps
<1>8. CASE Step(c)
  <2>1. \A i : [call[c] EXCEPT !.todo = call[c].todo \ {i}].phase \notin Waits
    BY <1>1, <1>8 DEF Frames, Waits, Step
  <2> QED
    BY <1>1, <1>2, <1>8, <2>1, StepTurns DEF Turn, OwnSteps
<1>9. CASE Guarded(c)
  BY <1>3, <1>9 DEF Guarded, OwnSteps
<1> QED
  BY <1>4, <1>5, <1>6, <1>7, <1>8, <1>9 DEF Proceed

\* Whose job is taken from the chain waits no longer.
LEMMA AnswerKeepsJobs ==
  ASSUME CallInv, OwnJob, chain # <<>>, chain' = Tail(chain),
         NEW frame, frame.phase \notin Waits, call' = [call EXCEPT ![Head(chain).by] = frame]
  PROVE  OwnJob'
<1>1. /\ Head(chain) = chain[1] /\ Head(chain).by \in Clients
      /\ Len(chain) \in Nat /\ Len(chain') = Len(chain) - 1
      /\ \A n \in 1..Len(chain') : chain'[n] = chain[n + 1]
  BY HeadTyped DEF CallInv
<1>2. ASSUME NEW d \in Clients, call'[d].phase \in Waits
      PROVE  \E n \in 1..Len(chain') : chain'[n].by = d
  <2>1. d # Head(chain).by
    BY <1>1, <1>2 DEF CallInv
  <2>2. call'[d] = call[d]
    BY <2>1 DEF CallInv
  <2>3. PICK n \in 1..Len(chain) : chain[n].by = d
    BY <1>2, <2>2 DEF OwnJob
  <2>4. n # 1
    BY <1>1, <2>1, <2>3
  <2>5. n - 1 \in 1..Len(chain') /\ n - 1 + 1 = n
    BY <1>1, <2>4
  <2> QED
    BY <1>1, <2>3, <2>5
<1> QED
  BY <1>2 DEF OwnJob

LEMMA AnswerIsDue ==
  ASSUME NEW phase \in Waits
  PROVE  Answer(phase) \notin Waits
BY DEF Answer, Waits

LEMMA LandingKeepsJobs ==
  ASSUME CallInv, OwnJob, Land \/ Reject
  PROVE  OwnJob'
<1> DEFINE f == call[Head(chain).by]
<1>1. chain # <<>> /\ chain' = Tail(chain)
  BY DEF Land, Reject
<1>2. f \in Frames /\ Answer(f.phase) \notin Waits
  BY <1>1, HeadTyped, AnswerIsDue
<1>3. CASE Land
  <2>1. PICK ok : call' = [call EXCEPT ![Head(chain).by] =
                              [f EXCEPT !.phase = Answer(f.phase), !.ok = ok]]
    BY <1>3 DEF Land
  <2>2. [f EXCEPT !.phase = Answer(f.phase), !.ok = ok].phase \notin Waits
    BY <1>2 DEF Frames
  <2> QED
    BY <1>1, <2>1, <2>2, AnswerKeepsJobs
<1>4. CASE Reject
  <2> DEFINE g(ok) == [f EXCEPT !.phase = Answer(f.phase), !.ok = ok]
  <2>1. PICK ok : \/ call' = [call EXCEPT ![Head(chain).by] = g(ok)]
                  \/ call' = [call EXCEPT ![Head(chain).by] = [g(ok) EXCEPT !.todo = {}]]
                  \/ call' = [call EXCEPT ![Head(chain).by] = [g(ok) EXCEPT !.cut = {}]]
    BY <1>4 DEF Reject
  <2>2. /\ g(ok).phase \notin Waits
        /\ [g(ok) EXCEPT !.todo = {}].phase \notin Waits
        /\ [g(ok) EXCEPT !.cut = {}].phase \notin Waits
    BY <1>2 DEF Frames
  <2> HIDE DEF g
  <2> QED
    BY <1>1, <2>1, <2>2, AnswerKeepsJobs
<1> QED
  BY <1>3, <1>4

LEMMA OwnJobStays ==
  ASSUME CallInv, OwnJob, [Next]_vars
  PROVE  OwnJob'
<1>1. CASE UNCHANGED vars
  BY <1>1 DEF vars, OwnJob
<1>2. ASSUME NEW c \in Clients, Start(c) \/ Proceed(c) PROVE OwnJob'
  BY <1>2, StartOwnsJob, ProceedOwnsJob, OwnStepsKeepJobs
<1>3. CASE Crash
  BY <1>3 DEF Crash, OwnJob, Idle, Waits
<1>4. ASSUME NEW i \in Ids, Ageing(i) PROVE OwnJob'
  BY <1>4 DEF Ageing, OwnJob
<1> QED
  BY <1>1, <1>2, <1>3, <1>4, LandingKeepsJobs DEF Next

LEMMA SomeoneGoesOn ==
  ASSUME CallInv, OwnJob
  PROVE  NeverStalls
<1> SUFFICES ASSUME NEW c \in Clients, call[c].phase # "idle",
                    \A d \in Clients : ~Due(call[d])
             PROVE  chain # <<>> /\ Settled
  BY DEF NeverStalls
<1>1. \A d \in Clients : call[d].phase \in Waits \cup {"idle"}
  BY DEF CallInv, Frames, Due
<1>2. Settled
  BY <1>1 DEF Settled, Waits
<1>3. PICK n \in 1..Len(chain) : chain[n].by = c
  BY <1>1 DEF OwnJob
<1>4. chain # <<>>
  BY <1>3
<1> QED
  BY <1>2, <1>4

\* A call that is suspended behind the domain's write chain has a job of its own
\* there, whatever was rejected before it and whoever else waits (enqueue of the
\* KvTable, awaited by every write of src/store/index.ts); so while any call is
\* under way, the head of the chain may reach the backend or a continuation is
\* due.  This is the safety half of CallsReturn.
THEOREM CallsNeverStall == Spec => [](OwnJob /\ NeverStalls)
<1>1. Init => OwnJob
  BY DEF Init, OwnJob, Idle, Waits
<1>2. StoreInv => CallInv
  BY DEF StoreInv, TypeInv
<1>3. CallInv /\ OwnJob /\ [Next]_vars => OwnJob'
  BY OwnJobStays
<1>4. CallInv /\ OwnJob => NeverStalls
  BY SomeoneGoesOn
<1> QED
  BY <1>1, <1>2, <1>3, <1>4, InvHolds, PTL DEF Spec

=============================================================================
