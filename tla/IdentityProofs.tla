--------------------------- MODULE IdentityProofs ----------------------------
(***************************************************************************)
(* Theorems about the identity write path, for any number of concurrent    *)
(* writers, any texts, any history cap, and any number of calls, rejected  *)
(* writes and crashes; and about what a session is told, for any sessions, *)
(* entries and settings, any cap on the entries told, and any number of    *)
(* steps, compactions, writes of the store and the documents, and crashes. *)
(***************************************************************************)
EXTENDS PromptContext, FiniteSetTheorems, SequenceTheorems, TLAPS

-----------------------------------------------------------------------------
(* Positions in a write chain.                                             *)

\* A sequence after an element is appended.
LEMMA AppendPositions ==
  ASSUME NEW S, NEW s \in Seq(S), NEW x \in S
  PROVE  /\ Append(s, x) \in Seq(S)
         /\ 1..Len(Append(s, x)) = 1..Len(s) \cup {Len(s) + 1}
         /\ Len(s) + 1 \notin 1..Len(s)
         /\ \A n \in 1..Len(s) : Append(s, x)[n] = s[n]
         /\ Append(s, x)[Len(s) + 1] = x
  OBVIOUS

\* A sequence without its head.
LEMMA TailPositions ==
  ASSUME NEW S, NEW s \in Seq(S), s # <<>>
  PROVE  /\ Head(s) = s[1] /\ 1 \in 1..Len(s) /\ Head(s) \in S
         /\ Tail(s) \in Seq(S)
         /\ \A n \in 1..Len(Tail(s)) :
              n + 1 \in 1..Len(s) /\ n + 1 # 1 /\ Tail(s)[n] = s[n + 1]
         /\ \A n \in 1..Len(s) :
              n # 1 => n - 1 \in 1..Len(Tail(s)) /\ Tail(s)[n - 1] = s[n]
  OBVIOUS

-----------------------------------------------------------------------------
(* Every caller waits for its own last job, and for nothing else.          *)

Kinds == {"update", "put", "snapshot", "drop"}

Waiting ==
  /\ \A n \in 1..Len(chain) : call[chain[n].by].phase = chain[n].kind
  /\ \A m, n \in 1..Len(chain) : chain[m].by = chain[n].by => m = n

Frames == [phase: Phases, rec: Docs, cut: SUBSET Version]

\* What the chain and the callers need to be, whatever the documents are.
CallInv ==
  /\ chain \in Seq(Jobs)
  /\ call \in [Callers -> Frames]
  /\ \A c \in Callers : call[c].phase # "idle" => call[c].rec \in Version
  /\ Waiting

LEMMA JobTyped ==
  ASSUME NEW job \in Jobs
  PROVE  job.by \in Callers /\ job.kind \in Kinds /\ job.rec \in Version
  BY DEF Jobs, Kinds

LEMMA EnqueueCalls ==
  ASSUME CallInv, NEW c \in Callers, call[c].phase \notin Kinds,
         NEW frame \in Frames, frame.rec \in Version,
         NEW kind \in Kinds, frame.phase = kind, NEW rec \in Version,
         Enqueue(c, frame, kind, rec)
  PROVE  CallInv'
<1> DEFINE job == [by |-> c, kind |-> kind, rec |-> rec]
<1>1. job \in Jobs
  BY DEF Jobs, Kinds
<1>2. chain' = Append(chain, job) /\ call' = [call EXCEPT ![c] = frame]
  BY DEF Enqueue
<1>3. /\ chain' \in Seq(Jobs)
      /\ 1..Len(chain') = 1..Len(chain) \cup {Len(chain) + 1}
      /\ Len(chain) + 1 \notin 1..Len(chain)
      /\ \A n \in 1..Len(chain) : chain'[n] = chain[n] /\ chain[n] \in Jobs
      /\ chain'[Len(chain) + 1] = job
  BY <1>1, <1>2, AppendPositions DEF CallInv
<1>4. /\ call' \in [Callers -> Frames]
      /\ \A d \in Callers : call'[d].phase # "idle" => call'[d].rec \in Version
  BY <1>2 DEF CallInv
<1>5. \A n \in 1..Len(chain) : chain[n].by # c
  BY <1>3, JobTyped DEF CallInv, Waiting
<1>6. Waiting'
  <2>1. \A n \in 1..Len(chain') : call'[chain'[n].by].phase = chain'[n].kind
    BY <1>2, <1>3, <1>5, JobTyped DEF CallInv, Waiting
  <2>2. \A m, n \in 1..Len(chain') : chain'[m].by = chain'[n].by => m = n
    BY <1>3, <1>5 DEF CallInv, Waiting
  <2> QED
    BY <2>1, <2>2 DEF Waiting
<1> QED
  BY <1>3, <1>4, <1>6 DEF CallInv

\* The head of the chain is taken and its caller answered.
LEMMA AnswerCalls ==
  ASSUME CallInv, chain # <<>>, chain' = Tail(chain),
         NEW frame \in Frames, frame.phase # "idle" => frame.rec \in Version,
         call' = [call EXCEPT ![Head(chain).by] = frame]
  PROVE  CallInv'
<1>1. /\ chain' \in Seq(Jobs)
      /\ Head(chain) = chain[1] /\ 1 \in 1..Len(chain) /\ Head(chain) \in Jobs
      /\ \A n \in 1..Len(chain') :
           n + 1 \in 1..Len(chain) /\ n + 1 # 1 /\ chain'[n] = chain[n + 1]
  BY TailPositions DEF CallInv
<1>2. Head(chain).by \in Callers
  BY <1>1, JobTyped
<1>3. /\ call' \in [Callers -> Frames]
      /\ \A d \in Callers : call'[d].phase # "idle" => call'[d].rec \in Version
  BY <1>2 DEF CallInv
<1>4. \A n \in 1..Len(chain') : chain'[n].by # Head(chain).by /\ chain'[n].by \in Callers
  BY <1>1, JobTyped DEF CallInv, Waiting
<1>5. Waiting'
  <2>1. \A n \in 1..Len(chain') : call'[chain'[n].by].phase = chain'[n].kind
    BY <1>1, <1>4 DEF CallInv, Waiting
  <2>2. \A m, n \in 1..Len(chain') : chain'[m].by = chain'[n].by => m = n
    <3> SUFFICES ASSUME NEW m \in 1..Len(chain'), NEW n \in 1..Len(chain'),
                        chain'[m].by = chain'[n].by
                 PROVE  m = n
      OBVIOUS
    <3>1. m + 1 = n + 1
      BY <1>1 DEF CallInv, Waiting
    <3> QED
      BY <3>1
  <2> QED
    BY <2>1, <2>2 DEF Waiting
<1> QED
  BY <1>1, <1>3, <1>5 DEF CallInv

LEMMA IdleTyped == Idle \in Frames /\ Idle.phase = "idle"
  BY DEF Idle, Frames, Phases, Docs

LEMMA FinishCalls ==
  ASSUME CallInv, NEW c \in Callers, call[c].phase \notin Kinds, Finish(c)
  PROVE  CallInv'
<1>1. chain' = chain /\ call' = [call EXCEPT ![c] = Idle]
  BY DEF Finish
<1>2. /\ call' \in [Callers -> Frames]
      /\ \A d \in Callers : call'[d].phase # "idle" => call'[d].rec \in Version
  BY <1>1, IdleTyped DEF CallInv
<1>3. \A n \in 1..Len(chain) : chain[n].by # c /\ chain[n].by \in Callers
  BY JobTyped DEF CallInv, Waiting
<1>4. Waiting'
  BY <1>1, <1>3 DEF CallInv, Waiting
<1> QED
  BY <1>1, <1>2, <1>4 DEF CallInv

-----------------------------------------------------------------------------
(* Type correctness.                                                       *)

DataTyped ==
  /\ doc \in Docs /\ history \subseteq Version /\ ever \subseteq Version
  /\ kicked \in BOOLEAN
  /\ calls \in Nat /\ faults \in Nat /\ crashes \in Nat

TypeInv == CallInv /\ DataTyped

LEMMA TypeInvIsTyped == ASSUME TypeInv PROVE TypeOK
  BY DEF TypeInv, CallInv, DataTyped, TypeOK, Frames

LEMMA NextRecordTyped ==
  ASSUME NEW current \in Docs, NEW x \in Contents
  PROVE  NextRecord(current, x) \in Version
  BY NoneAssumption DEF NextRecord, Docs, Version

LEMMA VersionTyped ==
  ASSUME NEW r \in Version
  PROVE  r.version \in Nat /\ r.content \in Contents /\ r # None
  BY NoneAssumption DEF Version

LEMMA InitTyped ==
  ASSUME Init PROVE TypeInv
<1>1. /\ doc \in Docs /\ history \subseteq Version /\ ever \subseteq Version
  <2>1. CASE Existing
    <3>1. PICK x \in Contents :
            doc = NextRecord(None, x) /\ history = {doc} /\ ever = {doc}
      BY <2>1 DEF Init
    <3> QED
      BY <3>1, NextRecordTyped DEF Docs
  <2>2. CASE ~Existing
    BY <2>2 DEF Init, Docs
  <2> QED
    BY <2>1, <2>2
<1>2. chain = <<>> /\ call = [c \in Callers |-> Idle]
  BY DEF Init
<1>3. CallInv
  BY <1>2, IdleTyped DEF CallInv, Waiting
<1>4. kicked \in BOOLEAN /\ calls \in Nat /\ faults \in Nat /\ crashes \in Nat
  BY DEF Init
<1> QED
  BY <1>1, <1>3, <1>4 DEF TypeInv, DataTyped

LEMMA BeginWriteCalls ==
  ASSUME CallInv, NEW c \in Callers, NEW x \in Contents, BeginWrite(c, x)
  PROVE  CallInv'
<1>1. Text(x) \in Version
  BY DEF Text, Version
<1>2. [phase |-> "update", rec |-> Text(x), cut |-> {}] \in Frames
  BY <1>1 DEF Frames, Phases, Docs
<1> QED
  BY <1>1, <1>2, EnqueueCalls DEF BeginWrite, Kinds

LEMMA DropNextCalls ==
  ASSUME CallInv, NEW c \in Callers, call[c].phase \in {"trim", "dropped"},
         NEW rows \in SUBSET Version, DropNext(c, rows)
  PROVE  CallInv'
<1> DEFINE frame(r) == [call[c] EXCEPT !.phase = "drop", !.cut = rows \ {r}]
<1>1. PICK r \in rows : Enqueue(c, frame(r), "drop", r)
  BY DEF DropNext
<1>2. frame(r) \in Frames /\ frame(r).rec \in Version /\ frame(r).phase = "drop"
  BY DEF CallInv, Frames, Phases
<1> QED
  BY <1>1, <1>2, EnqueueCalls DEF Kinds

LEMMA PutFirstCalls ==
  ASSUME CallInv, NEW c \in Callers, PutFirst(c)
  PROVE  CallInv'
<1> DEFINE first == NextRecord(None, call[c].rec.content)
           frame == [call[c] EXCEPT !.phase = "put", !.rec = first]
<1>1. first \in Version
  BY NextRecordTyped, VersionTyped DEF PutFirst, CallInv, Docs
<1>2. frame \in Frames /\ frame.rec \in Version /\ frame.phase = "put"
  BY <1>1 DEF CallInv, Frames, Phases, Docs
<1> QED
  BY <1>1, <1>2, EnqueueCalls DEF PutFirst, Kinds

LEMMA PutSnapshotCalls ==
  ASSUME CallInv, NEW c \in Callers, PutSnapshot(c)
  PROVE  CallInv'
<1> DEFINE frame == [call[c] EXCEPT !.phase = "snapshot"]
<1>1. frame \in Frames /\ frame.rec = call[c].rec /\ frame.phase = "snapshot"
  BY DEF CallInv, Frames, Phases
<1>2. call[c].rec \in Version
  BY DEF CallInv, PutSnapshot
<1> QED
  BY <1>1, <1>2, EnqueueCalls DEF PutSnapshot, SnapshotRow, Kinds

LEMMA TrimCalls ==
  ASSUME TypeInv, NEW c \in Callers, TrimHistory(c) \/ TrimMore(c)
  PROVE  CallInv'
<1>1. CallInv /\ history \subseteq Version
  BY DEF TypeInv, DataTyped
<1>2. CASE TrimHistory(c)
  <2>1. OldestRows(history, Excess) \in SUBSET Version
    BY <1>1 DEF OldestRows
  <2> QED
    BY <1>1, <1>2, <2>1, DropNextCalls, FinishCalls DEF TrimHistory, Kinds
<1>3. CASE TrimMore(c)
  <2>1. call[c].cut \in SUBSET Version
    BY <1>1 DEF CallInv, Frames
  <2> QED
    BY <1>1, <1>3, <2>1, DropNextCalls, FinishCalls DEF TrimMore, Kinds
<1> QED
  BY <1>2, <1>3

\* What a landing writes: it answers one caller, and what it leaves is typed.
LEMMA LandTyped ==
  ASSUME TypeInv, Land PROVE TypeInv'
<1> DEFINE job == Head(chain)
           f == call[job.by]
<1>1. CallInv /\ DataTyped
  BY DEF TypeInv
<1>2. /\ chain # <<>> /\ chain' = Tail(chain)
      /\ kicked' = kicked /\ UNCHANGED counters
  BY DEF Land
<1>3. /\ job \in Jobs /\ job.by \in Callers /\ job.rec \in Version
      /\ f.phase = job.kind /\ job.kind \in Kinds /\ f \in Frames /\ f.rec \in Version
  <2>1. job = chain[1] /\ 1 \in 1..Len(chain) /\ job \in Jobs
    BY <1>1, <1>2, TailPositions DEF CallInv
  <2>2. job.by \in Callers /\ job.rec \in Version /\ job.kind \in Kinds
    BY <2>1, JobTyped
  <2>3. f.phase = job.kind
    BY <1>1, <2>1 DEF CallInv, Waiting
  <2>4. f \in Frames /\ f.rec \in Version
    BY <1>1, <2>2, <2>3 DEF CallInv, Kinds
  <2> QED
    BY <2>1, <2>2, <2>3, <2>4
<1>4. ASSUME NEW p \in {"missing", "trim", "dropped"},
             call' = [call EXCEPT ![job.by].phase = p]
      PROVE  CallInv'
  <2>1. [f EXCEPT !.phase = p] \in Frames /\ [f EXCEPT !.phase = p].rec = f.rec
    BY <1>3 DEF Frames, Phases
  <2>2. call' = [call EXCEPT ![job.by] = [f EXCEPT !.phase = p]]
    BY <1>4
  <2> QED
    BY <1>1, <1>2, <1>3, <2>1, <2>2, AnswerCalls
<1>5. CASE job.kind \in {"update", "put"} /\ LandRecord(job)
  <2>1. CASE job.kind = "update" /\ doc = None
    <3>1. /\ call' = [call EXCEPT ![job.by].phase = "missing"]
          /\ UNCHANGED <<doc, ever, history>>
      BY <1>5, <2>1 DEF LandRecord
    <3>2. CallInv'
      BY <1>4, <3>1
    <3> QED
      BY <1>1, <1>2, <3>1, <3>2 DEF TypeInv, DataTyped, counters
  <2>2. CASE ~(job.kind = "update" /\ doc = None)
    <3> DEFINE new == Mint(job)
               g == [[f EXCEPT !.phase = "minted"] EXCEPT !.rec = new]
    <3>1. new \in Version
      BY <1>1, <1>3, <2>2, NextRecordTyped, VersionTyped DEF Mint, DataTyped
    <3>2. /\ doc' = new /\ ever' = ever \cup {new} /\ UNCHANGED history
          /\ call' = [call EXCEPT ![job.by].phase = "minted", ![job.by].rec = new]
      BY <1>5, <2>2 DEF LandRecord
    <3>3. g \in Frames /\ g.rec = new
      BY <1>3, <3>1 DEF Frames, Phases, Docs
    <3>4. call' = [call EXCEPT ![job.by] = g]
      BY <3>2, <1>1, <1>3 DEF CallInv
    <3>5. CallInv'
      BY <1>1, <1>2, <3>1, <3>3, <3>4, AnswerCalls
    <3> QED
      BY <1>1, <1>2, <3>1, <3>2, <3>5 DEF TypeInv, DataTyped, Docs, counters
  <2> QED
    BY <2>1, <2>2
<1>6. CASE job.kind = "snapshot" /\ LandSnapshot(job)
  <2>1. CallInv'
    BY <1>4, <1>6 DEF LandSnapshot
  <2> QED
    BY <1>1, <1>2, <1>3, <1>6, <2>1 DEF TypeInv, DataTyped, LandSnapshot, counters
<1>7. CASE job.kind = "drop" /\ LandDrop(job)
  <2>1. CallInv'
    BY <1>4, <1>7 DEF LandDrop
  <2> QED
    BY <1>1, <1>2, <1>3, <1>7, <2>1 DEF TypeInv, DataTyped, LandDrop, counters
<1> QED
  BY <1>5, <1>6, <1>7 DEF Land

LEMMA RejectTyped ==
  ASSUME TypeInv, Reject PROVE TypeInv'
<1>1. CallInv'
  BY IdleTyped, AnswerCalls DEF Reject, TypeInv
<1> QED
  BY <1>1 DEF TypeInv, DataTyped, Reject

LEMMA CrashTyped ==
  ASSUME TypeInv, Crash PROVE TypeInv'
<1>1. chain' = <<>> /\ call' = [c \in Callers |-> Idle]
  BY DEF Crash
<1>2. CallInv'
  BY <1>1, IdleTyped DEF CallInv, Waiting
<1>3. /\ UNCHANGED <<doc, history, calls, faults, ever>>
      /\ crashes' = crashes + 1
  BY DEF Crash
<1>4. kicked' \in BOOLEAN
  BY Zenon DEF Crash
<1> QED
  BY <1>2, <1>3, <1>4 DEF TypeInv, DataTyped

LEMMA StepTyped ==
  ASSUME TypeInv, [Next]_vars PROVE TypeInv'
<1> USE DEF TypeInv, DataTyped
<1>1. ASSUME NEW c \in Writers, UpdateIdentity(c) PROVE TypeInv'
  <2>1. PICK x \in Contents : BeginWrite(c, x)
    BY <1>1 DEF UpdateIdentity
  <2>2. CallInv'
    BY <2>1, BeginWriteCalls DEF Callers
  <2> QED
    BY <1>1, <2>1, <2>2 DEF UpdateIdentity, BeginWrite
<1>2. ASSUME NEW c \in Writers, RevertIdentity(c) PROVE TypeInv'
  <2>1. PICK r \in history : BeginWrite(c, r.content)
    BY <1>2 DEF RevertIdentity
  <2>2. CallInv'
    BY <2>1, BeginWriteCalls, VersionTyped DEF Callers
  <2> QED
    BY <1>2, <2>1, <2>2 DEF RevertIdentity, BeginWrite
<1>3. CASE ServeSeed
  BY <1>3, BeginWriteCalls, IdentityAssumption DEF ServeSeed, BeginWrite, Callers
<1>4. ASSUME NEW c \in Callers, PutFirst(c) PROVE TypeInv'
  BY <1>4, PutFirstCalls DEF PutFirst, counters
<1>5. ASSUME NEW c \in Callers, PutSnapshot(c) PROVE TypeInv'
  BY <1>5, PutSnapshotCalls DEF PutSnapshot, counters
<1>6. ASSUME NEW c \in Callers, TrimHistory(c) \/ TrimMore(c) PROVE TypeInv'
  BY <1>6, TrimCalls DEF TrimHistory, TrimMore, counters
<1>7. CASE Land
  BY <1>7, LandTyped
<1>8. CASE Reject
  BY <1>8, RejectTyped
<1>9. CASE Crash
  BY <1>9, CrashTyped
<1>10. CASE UNCHANGED vars
  BY <1>10 DEF vars, CallInv, Waiting
<1> QED
  BY <1>1, <1>2, <1>3, <1>4, <1>5, <1>6, <1>7, <1>8, <1>9, <1>10 DEF Next

LEMMA TypeInvariant == Spec => []TypeInv
<1>1. Init => TypeInv
  BY InitTyped
<1>2. TypeInv /\ [Next]_vars => TypeInv'
  BY StepTyped
<1> QED
  BY <1>1, <1>2, PTL DEF Spec

\* Every variable keeps its type, whatever the callers do.
THEOREM TypeCorrect == Spec => []TypeOK
<1>1. TypeInv => TypeOK
  BY TypeInvIsTyped
<1> QED
  BY <1>1, TypeInvariant, PTL

-----------------------------------------------------------------------------
(* The rows of the history are texts that were current.                    *)

FaithInv ==
  /\ TypeInv
  /\ history \subseteq ever
  /\ \A n \in 1..Len(chain) : chain[n].kind = "snapshot" => chain[n].rec \in ever
  /\ \A c \in Callers : call[c].phase = "minted" => call[c].rec \in ever

LEMMA EnqueueFaithful ==
  ASSUME FaithInv, NEW c \in Callers, NEW frame, frame.phase # "minted",
         NEW kind, NEW rec \in Version, kind = "snapshot" => rec \in ever,
         kind \in Kinds, Enqueue(c, frame, kind, rec),
         history' = history, ever' = ever, TypeInv'
  PROVE  FaithInv'
<1> DEFINE job == [by |-> c, kind |-> kind, rec |-> rec]
<1>1. /\ 1..Len(chain') = 1..Len(chain) \cup {Len(chain) + 1}
      /\ \A n \in 1..Len(chain) : chain'[n] = chain[n]
      /\ chain'[Len(chain) + 1] = job
  BY AppendPositions DEF Enqueue, FaithInv, TypeInv, CallInv, Jobs, Kinds
<1>2. \A n \in 1..Len(chain') : chain'[n].kind = "snapshot" => chain'[n].rec \in ever'
  BY <1>1 DEF FaithInv
<1>3. \A d \in Callers : call'[d].phase = "minted" => call'[d].rec \in ever'
  BY DEF Enqueue, FaithInv, TypeInv, CallInv
<1> QED
  BY <1>2, <1>3 DEF FaithInv

LEMMA FinishFaithful ==
  ASSUME FaithInv, NEW c \in Callers, Finish(c),
         history' = history, ever' = ever, TypeInv'
  PROVE  FaithInv'
  BY DEF Finish, Idle, FaithInv, TypeInv, CallInv

LEMMA DropNextFaithful ==
  ASSUME FaithInv, NEW c \in Callers, NEW rows \in SUBSET Version,
         DropNext(c, rows), history' = history, ever' = ever, TypeInv'
  PROVE  FaithInv'
<1> DEFINE rest(r) == [call[c] EXCEPT !.phase = "drop", !.cut = rows \ {r}]
<1>1. PICK r \in rows : Enqueue(c, rest(r), "drop", r)
  BY DEF DropNext
<1>2. rest(r).phase # "minted"
  BY DEF FaithInv, TypeInv, CallInv, Frames
<1>3. r \in Version /\ "drop" \in Kinds /\ "drop" # "snapshot"
  BY DEF Kinds
<1> HIDE DEF rest
<1> QED
  BY <1>1, <1>2, <1>3, EnqueueFaithful

LEMMA BeginWriteFaithful ==
  ASSUME FaithInv, NEW c \in Callers, NEW x \in Contents, BeginWrite(c, x), TypeInv'
  PROVE  FaithInv'
<1>1. Text(x) \in Version
  BY DEF Text, Version
<1> QED
  BY <1>1, EnqueueFaithful DEF BeginWrite, Kinds

LEMMA LandFaithful ==
  ASSUME FaithInv, Land, TypeInv'
  PROVE  FaithInv'
<1> DEFINE job == Head(chain)
<1>1. /\ job = chain[1] /\ 1 \in 1..Len(chain) /\ job \in Jobs
      /\ \A n \in 1..Len(chain') : n + 1 \in 1..Len(chain) /\ chain'[n] = chain[n + 1]
  BY TailPositions DEF Land, FaithInv, TypeInv, CallInv
<1>2. job.by \in Callers
  BY <1>1, JobTyped
<1>3. ever \subseteq ever'
  BY DEF Land, LandRecord, LandSnapshot, LandDrop
<1>4. \A n \in 1..Len(chain') : chain'[n].kind = "snapshot" => chain'[n].rec \in ever'
  BY <1>1, <1>3 DEF FaithInv
<1>5. history' \subseteq ever'
  BY <1>1, <1>3 DEF Land, LandRecord, LandSnapshot, LandDrop, FaithInv
<1>6. \A d \in Callers : call'[d].phase = "minted" => call'[d].rec \in ever'
  <2>1. \A d \in Callers \ {job.by} : call'[d] = call[d]
    BY <1>2 DEF Land, LandRecord, LandSnapshot, LandDrop, FaithInv, TypeInv, CallInv
  <2>2. call'[job.by].phase = "minted" => call'[job.by].rec \in ever'
    BY <1>2 DEF Land, LandRecord, LandSnapshot, LandDrop, FaithInv, TypeInv, CallInv, Frames
  <2> QED
    BY <1>3, <2>1, <2>2 DEF FaithInv
<1> QED
  BY <1>4, <1>5, <1>6 DEF FaithInv

LEMMA RejectFaithful ==
  ASSUME FaithInv, Reject, TypeInv'
  PROVE  FaithInv'
<1>1. /\ Head(chain) \in Jobs
      /\ \A n \in 1..Len(chain') : n + 1 \in 1..Len(chain) /\ chain'[n] = chain[n + 1]
  BY TailPositions DEF Reject, FaithInv, TypeInv, CallInv
<1>2. Head(chain).by \in Callers
  BY <1>1, JobTyped
<1> QED
  BY <1>1, <1>2 DEF Reject, Idle, FaithInv, TypeInv, CallInv

LEMMA StepFaithful ==
  ASSUME FaithInv, [Next]_vars PROVE FaithInv'
<1>1. TypeInv /\ TypeInv'
  BY StepTyped DEF FaithInv
<1>2. ASSUME NEW c \in Writers, UpdateIdentity(c) PROVE FaithInv'
  BY <1>1, <1>2, BeginWriteFaithful DEF UpdateIdentity, Callers
<1>3. ASSUME NEW c \in Writers, RevertIdentity(c) PROVE FaithInv'
  <2>1. PICK r \in history : BeginWrite(c, r.content)
    BY <1>3 DEF RevertIdentity
  <2> QED
    BY <1>1, <2>1, BeginWriteFaithful, VersionTyped DEF Callers, TypeInv, DataTyped
<1>4. CASE ServeSeed
  BY <1>1, <1>4, BeginWriteFaithful, IdentityAssumption DEF ServeSeed, Callers
<1>5. ASSUME NEW c \in Callers, PutFirst(c) PROVE FaithInv'
  <2> DEFINE first == NextRecord(None, call[c].rec.content)
             frame == [call[c] EXCEPT !.phase = "put", !.rec = first]
  <2>1. first \in Version
    BY <1>1, <1>5, NextRecordTyped, VersionTyped DEF PutFirst, TypeInv, CallInv, Docs
  <2>2. frame.phase # "minted"
    BY <1>1 DEF TypeInv, CallInv, Frames
  <2> QED
    BY <1>1, <1>5, <2>1, <2>2, EnqueueFaithful DEF PutFirst, Kinds
<1>6. ASSUME NEW c \in Callers, PutSnapshot(c) PROVE FaithInv'
  <2>1. call[c].rec \in Version /\ call[c].rec \in ever
    BY <1>1, <1>6 DEF PutSnapshot, FaithInv, TypeInv, CallInv
  <2>2. [call[c] EXCEPT !.phase = "snapshot"].phase # "minted"
    BY <1>1 DEF TypeInv, CallInv, Frames
  <2> QED
    BY <1>1, <1>6, <2>1, <2>2, EnqueueFaithful DEF PutSnapshot, SnapshotRow, Kinds
<1>7. ASSUME NEW c \in Callers, TrimHistory(c) PROVE FaithInv'
  <2>1. OldestRows(history, Excess) \in SUBSET Version
    BY <1>1 DEF OldestRows, TypeInv, DataTyped
  <2> QED
    BY <1>1, <1>7, <2>1, DropNextFaithful, FinishFaithful DEF TrimHistory
<1>8. ASSUME NEW c \in Callers, TrimMore(c) PROVE FaithInv'
  <2>1. call[c].cut \in SUBSET Version
    BY <1>1 DEF TypeInv, CallInv, Frames
  <2> QED
    BY <1>1, <1>8, <2>1, DropNextFaithful, FinishFaithful DEF TrimMore
<1>9. CASE Land
  BY <1>1, <1>9, LandFaithful
<1>10. CASE Reject
  BY <1>1, <1>10, RejectFaithful
<1>11. CASE Crash
  <2>1. chain' = <<>> /\ call' = [c \in Callers |-> Idle]
        /\ history' = history /\ ever' = ever
    BY <1>11 DEF Crash
  <2> QED
    BY <1>1, <2>1, IdleTyped DEF FaithInv
<1>12. CASE UNCHANGED vars
  BY <1>1, <1>12 DEF vars, FaithInv
<1> QED
  BY <1>2, <1>3, <1>4, <1>5, <1>6, <1>7, <1>8, <1>9, <1>10, <1>11, <1>12 DEF Next

LEMMA FaithInvariant == Spec => []FaithInv
<1>1. Init => FaithInv
  <2> SUFFICES ASSUME Init PROVE FaithInv
    OBVIOUS
  <2>1. history \subseteq ever
    BY DEF Init
  <2>2. chain = <<>> /\ call = [c \in Callers |-> Idle]
    BY DEF Init
  <2> QED
    BY InitTyped, IdleTyped, <2>1, <2>2 DEF FaithInv
<1>2. FaithInv /\ [Next]_vars => FaithInv'
  BY StepFaithful
<1> QED
  BY <1>1, <1>2, PTL DEF Spec

\* A row of the history is the text that was current under its version: a
\* revert restores what the document said then, whatever raced or crashed.
THEOREM HistoryIsFaithful == Spec => []HistoryFaithful
<1>1. FaithInv => HistoryFaithful
  BY DEF FaithInv, HistoryFaithful
<1> QED
  BY <1>1, FaithInvariant, PTL

-----------------------------------------------------------------------------
(* The order of versions.  From here the document exists from the start    *)
(* (Existing): the first writes of a document may mint version 1 twice.    *)
(*                                                                         *)
(* Snapshots are queued in the order their versions were minted, because a *)
(* caller resumes before the next write lands; so a new row is newer than  *)
(* every row there, and than every row some trim has decided to drop.      *)

Answered == {"missing", "minted", "trim", "dropped"}

Drops == {n \in 1..Len(chain) : chain[n].kind = "drop"}
Snaps == {n \in 1..Len(chain) : chain[n].kind = "snapshot"}

\* The rows kept, and those a trim has still to drop.
OldRows ==
  history \cup {chain[n].rec : n \in Drops} \cup UNION {call[c].cut : c \in Callers}

\* The rows caller c has still to drop: its queued one, then its others.
Dropping(c) == call[c].cut \cup {chain[n].rec : n \in {m \in Drops : chain[m].by = c}}

VersionsOrdered ==
  /\ doc \in ever
  /\ \A r \in ever : r.version <= doc.version
  /\ \A r, s \in ever : r.version = s.version => r = s
  /\ OldRows \subseteq ever

NoFirstWrite ==
  /\ \A n \in 1..Len(chain) : chain[n].kind # "put"
  /\ \A c \in Callers : call[c].phase \notin {"missing", "put"}

OneResumes ==
  \A c, d \in Callers :
    call[c].phase \in Answered /\ call[d].phase \in Answered => c = d

SnapshotsInOrder ==
  /\ \A n \in Snaps, r \in OldRows : r.version < chain[n].rec.version
  /\ \A m, n \in Snaps : m < n => chain[m].rec.version < chain[n].rec.version

MintedIsNewest ==
  \A c \in Callers : call[c].phase = "minted" =>
    /\ call[c].rec = doc
    /\ \A r \in OldRows : r.version < doc.version
    /\ \A n \in Snaps : chain[n].rec.version < doc.version

DropsInOrder ==
  /\ \A n \in Drops, s \in history : ~(s.version < chain[n].rec.version)
  /\ \A c \in Callers : \A x \in call[c].cut, s \in history :
       s.version < x.version => s \in Dropping(c)

OrderInv ==
  /\ FaithInv /\ IsFiniteSet(history)
  /\ VersionsOrdered /\ NoFirstWrite /\ OneResumes /\ SnapshotsInOrder
  /\ MintedIsNewest /\ DropsInOrder

LEMMA OrderTyped ==
  ASSUME OrderInv
  PROVE  /\ chain \in Seq(Jobs) /\ call \in [Callers -> Frames]
         /\ doc \in Version /\ ever \subseteq Version /\ history \subseteq Version
         /\ OldRows \subseteq Version
         /\ \A r \in Version : r.version \in Nat
  BY VersionTyped
     DEF OrderInv, FaithInv, TypeInv, CallInv, DataTyped, VersionsOrdered

\* A caller that is free, or has just been answered, queues its next write.
LEMMA EnqueueOrdered ==
  ASSUME OrderInv, FaithInv', NEW c \in Callers, call[c].phase \notin Kinds,
         NEW frame \in Frames, NEW kind \in Kinds \ {"put"}, frame.phase = kind,
         NEW rec \in Version, Enqueue(c, frame, kind, rec),
         doc' = doc, history' = history, ever' = ever,
         frame.cut \subseteq OldRows, kind = "drop" => rec \in OldRows,
         kind = "snapshot" => call[c].phase = "minted" /\ rec = call[c].rec,
         kind = "drop" => \A s \in history : ~(s.version < rec.version),
         \A x \in frame.cut, s \in history : s.version < x.version =>
           s \in frame.cut \/ (kind = "drop" /\ s = rec)
  PROVE  OrderInv'
<1> DEFINE job == [by |-> c, kind |-> kind, rec |-> rec]
           k == Len(chain) + 1
<1>1. /\ chain' = Append(chain, job) /\ call' = [call EXCEPT ![c] = frame]
      /\ job \in Jobs
  BY DEF Enqueue, Jobs, Kinds
<1>2. /\ 1..Len(chain') = 1..Len(chain) \cup {k}
      /\ k \notin 1..Len(chain)
      /\ \A n \in 1..Len(chain) : chain'[n] = chain[n] /\ n < k
      /\ chain'[k] = job
  BY <1>1, AppendPositions, OrderTyped
<1>3. call'[c] = frame /\ \A d \in Callers \ {c} : call'[d] = call[d]
  BY <1>1, OrderTyped
<1>4. /\ Drops \subseteq Drops' /\ \A n \in Drops' \ Drops : n = k /\ kind = "drop"
      /\ kind = "drop" => k \in Drops'
      /\ Snaps \subseteq Snaps' /\ \A n \in Snaps' \ Snaps : n = k /\ kind = "snapshot"
  BY <1>2 DEF Drops, Snaps
<1>5. OldRows' \subseteq OldRows
  BY <1>2, <1>3, <1>4 DEF OldRows, Drops
<1>6. \A d \in Callers : Dropping(d) \ call[d].cut \subseteq Dropping(d)'
  BY <1>2, <1>4 DEF Dropping, Drops
<1>7. VersionsOrdered'
  BY <1>5 DEF OrderInv, VersionsOrdered
<1>8. NoFirstWrite'
  BY <1>2, <1>3 DEF OrderInv, NoFirstWrite, Kinds
<1>9. OneResumes'
  BY <1>3 DEF OrderInv, OneResumes, Kinds, Answered
<1>10. kind = "snapshot" => /\ rec = doc
                            /\ \A r \in OldRows : r.version < doc.version
                            /\ \A n \in Snaps : chain[n].rec.version < doc.version
  BY DEF OrderInv, MintedIsNewest
<1>11. SnapshotsInOrder'
  <2>1. \A n \in Snaps', r \in OldRows' : r.version < chain'[n].rec.version
    BY <1>2, <1>4, <1>5, <1>10 DEF OrderInv, SnapshotsInOrder, Snaps
  <2>2. ASSUME NEW m \in Snaps', NEW n \in Snaps', m < n
        PROVE  chain'[m].rec.version < chain'[n].rec.version
    <3>1. m \in 1..Len(chain') /\ n \in 1..Len(chain')
      BY DEF Snaps
    <3>2. m # k
      BY <1>2, <2>2, <3>1, OrderTyped
    <3>3. m \in Snaps /\ chain'[m] = chain[m]
      BY <1>2, <1>4, <3>1, <3>2
    <3>4. CASE n = k
      BY <1>2, <1>4, <1>10, <3>3, <3>4 DEF Snaps
    <3>5. CASE n # k
      BY <1>2, <1>4, <2>2, <3>3, <3>5 DEF OrderInv, SnapshotsInOrder, Snaps
    <3> QED
      BY <3>4, <3>5
  <2> QED
    BY <2>1, <2>2 DEF SnapshotsInOrder
<1>12. MintedIsNewest'
  <2> SUFFICES ASSUME NEW d \in Callers, call'[d].phase = "minted"
               PROVE  /\ call'[d].rec = doc
                      /\ \A r \in OldRows' : r.version < doc.version
                      /\ \A n \in Snaps' : chain'[n].rec.version < doc.version
    BY DEF MintedIsNewest
  <2>1. d # c /\ call[d].phase = "minted" /\ call'[d].rec = call[d].rec
    BY <1>3 DEF Kinds
  <2>2. kind # "snapshot"
    BY <2>1 DEF OrderInv, OneResumes, Answered
  <2> QED
    BY <1>2, <1>4, <1>5, <2>1, <2>2 DEF OrderInv, MintedIsNewest, Snaps
<1>13. DropsInOrder'
  <2>1. \A n \in Drops', s \in history : ~(s.version < chain'[n].rec.version)
    BY <1>2, <1>4 DEF OrderInv, DropsInOrder, Drops
  <2>2. ASSUME NEW d \in Callers, NEW x \in call'[d].cut, NEW s \in history,
               s.version < x.version
        PROVE  s \in Dropping(d)'
    <3>1. CASE d = c
      BY <1>2, <1>3, <1>4, <2>2, <3>1 DEF Dropping
    <3>2. CASE d # c
      BY <1>3, <1>6, <2>2, <3>2 DEF OrderInv, DropsInOrder, Dropping
    <3> QED
      BY <3>1, <3>2
  <2> QED
    BY <2>1, <2>2 DEF DropsInOrder
<1> QED
  BY <1>7, <1>8, <1>9, <1>11, <1>12, <1>13 DEF OrderInv

LEMMA FinishOrdered ==
  ASSUME OrderInv, FaithInv', NEW c \in Callers, Finish(c),
         doc' = doc, history' = history, ever' = ever
  PROVE  OrderInv'
<1>1. /\ chain' = chain /\ call'[c] = Idle
      /\ \A d \in Callers \ {c} : call'[d] = call[d]
  BY OrderTyped DEF Finish
<1>2. Idle.phase = "idle" /\ Idle.cut = {}
  BY DEF Idle
<1>3. Drops' = Drops /\ Snaps' = Snaps /\ OldRows' \subseteq OldRows
  BY <1>1, <1>2 DEF Drops, Snaps, OldRows
<1>4. \A d \in Callers \ {c} : Dropping(d)' = Dropping(d)
  BY <1>1, <1>3 DEF Dropping
<1>5. VersionsOrdered' /\ SnapshotsInOrder'
  BY <1>1, <1>3 DEF OrderInv, VersionsOrdered, SnapshotsInOrder
<1>6. NoFirstWrite' /\ OneResumes' /\ MintedIsNewest'
  BY <1>1, <1>2, <1>3
     DEF OrderInv, NoFirstWrite, OneResumes, MintedIsNewest, Answered
<1>7. DropsInOrder'
  BY <1>1, <1>2, <1>3, <1>4 DEF OrderInv, DropsInOrder
<1> QED
  BY <1>5, <1>6, <1>7 DEF OrderInv

LEMMA DropNextOrdered ==
  ASSUME OrderInv, FaithInv', NEW c \in Callers, call[c].phase \in {"trim", "dropped"},
         NEW rows \in SUBSET OldRows, DropNext(c, rows),
         \A x \in rows, s \in history : s.version < x.version => s \in rows,
         doc' = doc, history' = history, ever' = ever
  PROVE  OrderInv'
<1>1. PICK r \in rows :
        /\ \A s \in rows : r.version <= s.version
        /\ Enqueue(c, [call[c] EXCEPT !.phase = "drop", !.cut = rows \ {r}], "drop", r)
  BY DEF DropNext
<1> DEFINE frame == [call[c] EXCEPT !.phase = "drop", !.cut = rows \ {r}]
<1>2. frame \in Frames /\ frame.phase = "drop" /\ frame.cut = rows \ {r}
  BY OrderTyped DEF Frames, Phases
<1>3. \A s \in history : ~(s.version < r.version)
  BY <1>1, OrderTyped
<1>4. r \in Version
  BY OrderTyped
<1> QED
  BY <1>1, <1>2, <1>3, <1>4, EnqueueOrdered DEF Kinds

\* The oldest rows of a history are a set nothing in the history is older than.
LEMMA OldestRowsAreOldest ==
  ASSUME NEW rows \in SUBSET Version, IsFiniteSet(rows), NEW n \in Nat,
         NEW x \in OldestRows(rows, n), NEW s \in rows, s.version < x.version
  PROVE  s \in OldestRows(rows, n)
<1> DEFINE below(r) == {t \in rows : t.version < r.version}
<1>1. below(s) \subseteq below(x)
  BY VersionTyped DEF OldestRows
<1>2. IsFiniteSet(below(x))
  BY FS_Subset
<1>3. IsFiniteSet(below(s)) /\ Cardinality(below(s)) <= Cardinality(below(x))
  BY <1>1, <1>2, FS_Subset
<1>4. Cardinality(below(s)) \in Nat /\ Cardinality(below(x)) \in Nat
  BY <1>2, <1>3, FS_CardinalityType
<1>5. Cardinality(below(x)) < n
  BY DEF OldestRows
<1>6. Cardinality(below(s)) < n
  BY <1>3, <1>4, <1>5
<1> QED
  BY <1>6 DEF OldestRows

LEMMA ExcessTyped == ASSUME IsFiniteSet(history) PROVE Excess \in Nat
  BY FS_CardinalityType, IdentityAssumption DEF Excess

LEMMA TrimOrdered ==
  ASSUME OrderInv, FaithInv', NEW c \in Callers, TrimHistory(c) \/ TrimMore(c)
  PROVE  OrderInv'
<1>1. CASE TrimHistory(c)
  <2> DEFINE rows == OldestRows(history, Excess)
  <2>1. IsFiniteSet(history) /\ history \subseteq Version /\ Excess \in Nat
    BY ExcessTyped, OrderTyped DEF OrderInv
  <2>2. \A x \in rows, s \in history : s.version < x.version => s \in rows
    BY <2>1, OldestRowsAreOldest
  <2>3. rows \in SUBSET OldRows
    BY DEF OldestRows, OldRows
  <2> QED
    BY <1>1, <2>2, <2>3, DropNextOrdered, FinishOrdered DEF TrimHistory
<1>2. CASE TrimMore(c)
  <2>1. \A n \in Drops : chain[n].by # c
    BY <1>2 DEF TrimMore, Drops, OrderInv, FaithInv, TypeInv, CallInv, Waiting
  <2>2. Dropping(c) = call[c].cut
    BY <2>1 DEF Dropping
  <2>3. \A x \in call[c].cut, s \in history : s.version < x.version => s \in call[c].cut
    BY <2>2 DEF OrderInv, DropsInOrder
  <2>4. call[c].cut \in SUBSET OldRows
    BY DEF OldRows
  <2> QED
    BY <1>2, <2>3, <2>4, DropNextOrdered, FinishOrdered DEF TrimMore
<1> QED
  BY <1>1, <1>2

\* What is left when the head of the chain is taken: the other jobs, in order.
LEMMA TakeOrdered ==
  ASSUME OrderInv, chain # <<>>, chain' = Tail(chain)
  PROVE  /\ Head(chain) = chain[1] /\ 1 \in 1..Len(chain)
         /\ Head(chain).by \in Callers /\ Head(chain).rec \in Version
         /\ call[Head(chain).by].phase = Head(chain).kind
         /\ \A n \in 1..Len(chain') :
              /\ n \in Nat /\ n + 1 \in 1..Len(chain) /\ n + 1 > 1
              /\ chain'[n] = chain[n + 1] /\ chain'[n].by # Head(chain).by
         /\ \A n \in Drops' : n + 1 \in Drops
         /\ \A n \in Snaps' : n + 1 \in Snaps
         /\ \A n \in Drops : chain[n].by # Head(chain).by =>
              n - 1 \in Drops' /\ chain'[n - 1] = chain[n]
<1>1. /\ Head(chain) = chain[1] /\ 1 \in 1..Len(chain) /\ Head(chain) \in Jobs
      /\ \A n \in 1..Len(chain') :
           n + 1 \in 1..Len(chain) /\ n + 1 # 1 /\ chain'[n] = chain[n + 1]
      /\ \A n \in 1..Len(chain) :
           n # 1 => n - 1 \in 1..Len(chain') /\ chain'[n - 1] = chain[n]
  BY TailPositions, OrderTyped
<1>2. Waiting
  BY DEF OrderInv, FaithInv, TypeInv, CallInv
<1>3. \A n \in 1..Len(chain') : n \in Nat /\ n + 1 > 1 /\ chain'[n].by # Head(chain).by
  BY <1>1, <1>2 DEF Waiting
<1>4. \A n \in Drops : chain[n].by # Head(chain).by =>
        n - 1 \in Drops' /\ chain'[n - 1] = chain[n]
  BY <1>1 DEF Drops
<1>5. /\ \A n \in Drops' : n + 1 \in Drops
      /\ \A n \in Snaps' : n + 1 \in Snaps
  BY <1>1 DEF Drops, Snaps
<1>6. call[Head(chain).by].phase = Head(chain).kind
  BY <1>1, <1>2 DEF Waiting
<1> QED
  BY <1>1, <1>3, <1>4, <1>5, <1>6, JobTyped

\* The same, when the callers keep what they have to drop, or lose it.
LEMMA TakeKeepsOrder ==
  ASSUME OrderInv, chain # <<>>, chain' = Tail(chain),
         \A c \in Callers \ {Head(chain).by} : call'[c] = call[c],
         call'[Head(chain).by].cut \subseteq call[Head(chain).by].cut
  PROVE  /\ {chain'[n].rec : n \in Drops'} \subseteq {chain[n].rec : n \in Drops}
         /\ UNION {call'[c].cut : c \in Callers} \subseteq UNION {call[c].cut : c \in Callers}
         /\ \A m, n \in Snaps' : m < n => chain'[m].rec.version < chain'[n].rec.version
         /\ \A n \in Snaps' : chain'[n].rec \in ever
         /\ \A c \in Callers \ {Head(chain).by} : Dropping(c) \subseteq Dropping(c)'
<1>1. {chain'[n].rec : n \in Drops'} \subseteq {chain[n].rec : n \in Drops}
  <2> SUFFICES ASSUME NEW n \in Drops' PROVE chain'[n].rec \in {chain[m].rec : m \in Drops}
    OBVIOUS
  <2>1. n + 1 \in Drops /\ chain'[n] = chain[n + 1]
    BY TakeOrdered DEF Drops
  <2> QED
    BY <2>1
<1>2. UNION {call'[c].cut : c \in Callers} \subseteq UNION {call[c].cut : c \in Callers}
  BY Zenon
<1>3. ASSUME NEW m \in Snaps', NEW n \in Snaps', m < n
      PROVE  chain'[m].rec.version < chain'[n].rec.version
  <2>1. /\ m + 1 \in Snaps /\ n + 1 \in Snaps /\ m + 1 < n + 1
        /\ chain'[m] = chain[m + 1] /\ chain'[n] = chain[n + 1]
    BY <1>3, TakeOrdered DEF Snaps
  <2> QED
    BY <2>1 DEF OrderInv, SnapshotsInOrder
<1>4. \A n \in Snaps' : chain'[n].rec \in ever
  BY TakeOrdered DEF Snaps, OrderInv, FaithInv
<1>5. ASSUME NEW c \in Callers \ {Head(chain).by} PROVE Dropping(c) \subseteq Dropping(c)'
  <2> SUFFICES ASSUME NEW n \in Drops, chain[n].by = c
               PROVE  chain[n].rec \in Dropping(c)'
    BY DEF Dropping
  <2>1. n - 1 \in Drops' /\ chain'[n - 1] = chain[n]
    BY TakeOrdered
  <2> QED
    BY <2>1 DEF Dropping
<1> QED
  BY <1>1, <1>2, <1>3, <1>4, <1>5

LEMMA SettledCallers ==
  ASSUME OrderInv, Settled, NEW c \in Callers
  PROVE  call[c].phase \notin Answered
  BY DEF Settled, Answered

\* An update lands: the document moves to its next version.
LEMMA LandRecordOrdered ==
  ASSUME OrderInv, FaithInv', Land, Head(chain).kind \in {"update", "put"},
         LandRecord(Head(chain))
  PROVE  /\ OrderInv'
         /\ \E x \in Contents : /\ doc' = [version |-> doc.version + 1, content |-> x]
                                /\ ever' = ever \cup {doc'}
                                /\ history' = history
<1> DEFINE job == Head(chain)
           new == NextRecord(doc, job.rec.content)
<1>1. chain # <<>> /\ chain' = Tail(chain) /\ Settled
  BY DEF Land
<1>2. job.kind = "update" /\ doc # None
  BY <1>1, TakeOrdered, OrderTyped, VersionTyped DEF OrderInv, NoFirstWrite
<1>3. /\ new = [version |-> doc.version + 1, content |-> job.rec.content]
      /\ job.rec.content \in Contents
  BY <1>1, <1>2, TakeOrdered, VersionTyped DEF NextRecord
<1>4. /\ doc' = new /\ ever' = ever \cup {new} /\ history' = history
      /\ call' = [call EXCEPT ![job.by].phase = "minted", ![job.by].rec = new]
  BY <1>2 DEF LandRecord, Mint
<1>5. /\ call'[job.by].phase = "minted" /\ call'[job.by].rec = new
      /\ call'[job.by].cut = call[job.by].cut
      /\ \A c \in Callers \ {job.by} : call'[c] = call[c]
  BY <1>1, <1>4, TakeOrdered, OrderTyped DEF Frames
<1>6. OldRows' \subseteq OldRows
  BY <1>1, <1>4, <1>5, TakeKeepsOrder DEF OldRows
<1>7. new.version = doc.version + 1 /\ doc.version \in Nat
  BY <1>3, OrderTyped
<1>8. VersionsOrdered'
  <2>1. \A r \in ever : r.version \in Nat /\ r.version <= doc.version
    BY OrderTyped DEF OrderInv, VersionsOrdered
  <2> QED
    BY <1>4, <1>6, <1>7, <2>1 DEF OrderInv, VersionsOrdered
<1>9. NoFirstWrite'
  BY <1>1, <1>5, TakeOrdered DEF OrderInv, NoFirstWrite
<1>10. OneResumes'
  BY <1>1, <1>5, SettledCallers DEF OneResumes
<1>11. SnapshotsInOrder'
  <2>1. \A n \in Snaps', r \in OldRows' : r.version < chain'[n].rec.version
    <3> SUFFICES ASSUME NEW n \in Snaps', NEW r \in OldRows'
                 PROVE  r.version < chain'[n].rec.version
      OBVIOUS
    <3>1. n + 1 \in Snaps /\ chain'[n] = chain[n + 1]
      BY <1>1, TakeOrdered DEF Snaps
    <3> QED
      BY <1>6, <3>1 DEF OrderInv, SnapshotsInOrder
  <2> QED
    BY <1>1, <1>5, <2>1, TakeKeepsOrder DEF SnapshotsInOrder
<1>12. MintedIsNewest'
  <2>1. \A c \in Callers : call'[c].phase = "minted" => c = job.by
    BY <1>1, <1>5, SettledCallers DEF Answered
  <2>2. \A r \in OldRows' : r.version < new.version
    BY <1>6, <1>7, OrderTyped DEF OrderInv, VersionsOrdered
  <2>3. \A n \in Snaps' : chain'[n].rec.version < new.version
    <3>1. \A n \in Snaps' : chain'[n].rec \in ever
      BY <1>1, <1>5, TakeKeepsOrder
    <3>2. \A r \in ever : r.version \in Nat /\ r.version <= doc.version
      BY OrderTyped DEF OrderInv, VersionsOrdered
    <3> QED
      BY <1>7, <3>1, <3>2
  <2> QED
    BY <1>4, <1>5, <2>1, <2>2, <2>3 DEF MintedIsNewest
<1>13. DropsInOrder'
  <2>1. \A n \in Drops', s \in history' : ~(s.version < chain'[n].rec.version)
    BY <1>1, <1>4, TakeOrdered DEF OrderInv, DropsInOrder, Drops
  <2>2. ASSUME NEW c \in Callers PROVE Dropping(c) \subseteq Dropping(c)'
    <3>1. CASE c # job.by
      BY <1>1, <1>5, <3>1, TakeKeepsOrder
    <3>2. CASE c = job.by
      <4>1. \A n \in Drops : chain[n].by # c
        BY <1>1, <1>2, <3>2, TakeOrdered
           DEF Drops, OrderInv, FaithInv, TypeInv, CallInv, Waiting
      <4> QED
        BY <1>5, <3>2, <4>1 DEF Dropping
    <3> QED
      BY <3>1, <3>2
  <2> QED
    BY <1>4, <1>5, <2>1, <2>2 DEF OrderInv, DropsInOrder
<1>14. OrderInv'
  BY <1>4, <1>8, <1>9, <1>10, <1>11, <1>12, <1>13 DEF OrderInv
<1> QED
  BY <1>3, <1>4, <1>14

\* A snapshot lands: a row newer than all there are.
LEMMA LandSnapshotOrdered ==
  ASSUME OrderInv, FaithInv', Land, Head(chain).kind = "snapshot",
         LandSnapshot(Head(chain))
  PROVE  /\ OrderInv'
         /\ Head(chain).rec \in ever
         /\ history' = history \cup {Head(chain).rec}
         /\ UNCHANGED <<doc, ever>>
<1> DEFINE job == Head(chain)
           row == job.rec
<1>1. chain # <<>> /\ chain' = Tail(chain) /\ Settled
  BY DEF Land
<1>2. job = chain[1] /\ 1 \in Snaps /\ row \in Version /\ job.by \in Callers
  BY <1>1, TakeOrdered DEF Snaps
<1>3. row \in ever
  BY <1>2 DEF Snaps, OrderInv, FaithInv
<1>4. \A r \in OldRows : r.version < row.version /\ r.version # row.version
  BY <1>2, OrderTyped DEF OrderInv, SnapshotsInOrder
<1>5. /\ history' = history \cup {row} /\ doc' = doc /\ ever' = ever
      /\ call' = [call EXCEPT ![job.by].phase = "trim"]
  BY <1>4 DEF LandSnapshot, OldRows
<1>6. /\ call'[job.by].phase = "trim" /\ call'[job.by].cut = call[job.by].cut
      /\ \A c \in Callers \ {job.by} : call'[c] = call[c]
  BY <1>2, <1>5, OrderTyped DEF Frames
<1>7. OldRows' \subseteq OldRows \cup {row}
  BY <1>1, <1>5, <1>6, TakeKeepsOrder DEF OldRows
<1>8. VersionsOrdered'
  BY <1>3, <1>5, <1>7 DEF OrderInv, VersionsOrdered
<1>9. NoFirstWrite'
  BY <1>1, <1>6, TakeOrdered DEF OrderInv, NoFirstWrite
<1>10. OneResumes'
  BY <1>1, <1>6, SettledCallers DEF OneResumes
<1>11. SnapshotsInOrder'
  <2>1. \A n \in Snaps', r \in OldRows' : r.version < chain'[n].rec.version
    <3> SUFFICES ASSUME NEW n \in Snaps', NEW r \in OldRows'
                 PROVE  r.version < chain'[n].rec.version
      OBVIOUS
    <3>1. n + 1 \in Snaps /\ 1 < n + 1 /\ chain'[n] = chain[n + 1]
      BY <1>1, TakeOrdered DEF Snaps
    <3>2. row.version < chain[n + 1].rec.version
      BY <1>2, <3>1 DEF OrderInv, SnapshotsInOrder
    <3> QED
      BY <1>7, <3>1, <3>2 DEF OrderInv, SnapshotsInOrder
  <2> QED
    BY <1>1, <1>6, <2>1, TakeKeepsOrder DEF SnapshotsInOrder
<1>12. MintedIsNewest'
  BY <1>1, <1>6, SettledCallers DEF MintedIsNewest, Answered
<1>13. \A r \in OldRows : ~(row.version < r.version)
  BY <1>2, <1>4, OrderTyped
<1>14. DropsInOrder'
  <2>1. ASSUME NEW n \in Drops', NEW s \in history'
        PROVE  ~(s.version < chain'[n].rec.version)
    <3>1. n + 1 \in Drops /\ chain'[n] = chain[n + 1] /\ chain[n + 1].rec \in OldRows
      BY <1>1, TakeOrdered DEF Drops, OldRows
    <3> QED
      BY <1>5, <1>13, <3>1 DEF OrderInv, DropsInOrder
  <2>2. ASSUME NEW c \in Callers, NEW x \in call'[c].cut, NEW s \in history',
               s.version < x.version
        PROVE  s \in Dropping(c)'
    <3>1. x \in call[c].cut /\ x \in OldRows
      BY <1>6, <2>2 DEF OldRows
    <3>2. s \in history /\ s \in Dropping(c)
      BY <1>5, <1>13, <2>2, <3>1 DEF OrderInv, DropsInOrder
    <3>3. CASE c # job.by
      BY <1>1, <1>6, <3>2, <3>3, TakeKeepsOrder
    <3>4. CASE c = job.by
      <4>1. \A n \in Drops : chain[n].by # c
        BY <1>1, <3>4, TakeOrdered
           DEF Drops, OrderInv, FaithInv, TypeInv, CallInv, Waiting
      <4> QED
        BY <1>6, <3>2, <3>4, <4>1 DEF Dropping
    <3> QED
      BY <3>3, <3>4
  <2> QED
    BY <2>1, <2>2 DEF DropsInOrder
<1>15. IsFiniteSet(history')
  BY <1>5, FS_AddElement DEF OrderInv
<1>16. OrderInv'
  BY <1>8, <1>9, <1>10, <1>11, <1>12, <1>14, <1>15 DEF OrderInv
<1> QED
  BY <1>3, <1>5, <1>16

\* A drop lands: the row it names goes, and no other.
LEMMA LandDropOrdered ==
  ASSUME OrderInv, FaithInv', Land, Head(chain).kind = "drop", LandDrop(Head(chain))
  PROVE  /\ OrderInv'
         /\ history' = history \ {Head(chain).rec}
         /\ \A s \in history \ {Head(chain).rec} : Head(chain).rec.version < s.version
         /\ UNCHANGED <<doc, ever>>
<1> DEFINE job == Head(chain)
           row == job.rec
<1>1. chain # <<>> /\ chain' = Tail(chain) /\ Settled
  BY DEF Land
<1>2. job = chain[1] /\ 1 \in Drops /\ row \in OldRows /\ job.by \in Callers
  BY <1>1, TakeOrdered DEF Drops, OldRows
<1>3. row \in ever /\ row \in Version /\ history \subseteq OldRows
  BY <1>2, OrderTyped DEF OrderInv, VersionsOrdered, OldRows
<1>4. \A s \in history : s.version = row.version => s = row
  BY <1>3 DEF OrderInv, VersionsOrdered
<1>5. \A s \in history \ {row} : row.version < s.version
  BY <1>2, <1>3, <1>4, OrderTyped DEF OrderInv, DropsInOrder
<1>6. /\ history' = history \ {row} /\ doc' = doc /\ ever' = ever
      /\ call' = [call EXCEPT ![job.by].phase = "dropped"]
  BY <1>4 DEF LandDrop
<1>7. /\ call'[job.by].phase = "dropped" /\ call'[job.by].cut = call[job.by].cut
      /\ \A c \in Callers \ {job.by} : call'[c] = call[c]
  BY <1>2, <1>6, OrderTyped DEF Frames
<1>8. OldRows' \subseteq OldRows
  BY <1>1, <1>6, <1>7, TakeKeepsOrder DEF OldRows
<1>9. VersionsOrdered'
  BY <1>6, <1>8 DEF OrderInv, VersionsOrdered
<1>10. NoFirstWrite'
  BY <1>1, <1>7, TakeOrdered DEF OrderInv, NoFirstWrite
<1>11. OneResumes'
  BY <1>1, <1>7, SettledCallers DEF OneResumes
<1>12. SnapshotsInOrder'
  <2>1. \A n \in Snaps', r \in OldRows' : r.version < chain'[n].rec.version
    BY <1>1, <1>8, TakeOrdered DEF OrderInv, SnapshotsInOrder, Snaps
  <2> QED
    BY <1>1, <1>7, <2>1, TakeKeepsOrder DEF SnapshotsInOrder
<1>13. MintedIsNewest'
  BY <1>1, <1>7, SettledCallers DEF MintedIsNewest, Answered
<1>14. DropsInOrder'
  <2>1. \A n \in Drops', s \in history' : ~(s.version < chain'[n].rec.version)
    BY <1>1, <1>6, TakeOrdered DEF OrderInv, DropsInOrder, Drops
  <2>2. ASSUME NEW c \in Callers, NEW x \in call'[c].cut, NEW s \in history',
               s.version < x.version
        PROVE  s \in Dropping(c)'
    <3>1. s \in Dropping(c) /\ s # row
      BY <1>6, <1>7, <2>2 DEF OrderInv, DropsInOrder
    <3>2. CASE c # job.by
      BY <1>1, <1>7, <3>1, <3>2, TakeKeepsOrder
    <3>3. CASE c = job.by
      <4>1. \A n \in Drops : chain[n].by = c => n = 1
        BY <1>2, <3>3 DEF Drops, OrderInv, FaithInv, TypeInv, CallInv, Waiting
      <4>2. s \in call[c].cut
        BY <1>2, <3>1, <4>1 DEF Dropping
      <4> QED
        BY <1>7, <3>3, <4>2 DEF Dropping
    <3> QED
      BY <3>2, <3>3
  <2> QED
    BY <2>1, <2>2 DEF DropsInOrder
<1>15. IsFiniteSet(history')
  BY <1>6, FS_Subset DEF OrderInv
<1>16. OrderInv'
  BY <1>9, <1>10, <1>11, <1>12, <1>13, <1>14, <1>15 DEF OrderInv
<1> QED
  BY <1>5, <1>6, <1>16

LEMMA RejectOrdered ==
  ASSUME OrderInv, FaithInv', Reject PROVE OrderInv'
<1> DEFINE job == Head(chain)
<1>1. /\ chain # <<>> /\ chain' = Tail(chain) /\ Settled
      /\ call' = [call EXCEPT ![job.by] = Idle]
      /\ UNCHANGED <<doc, history, ever>>
  BY DEF Reject
<1>2. /\ job.by \in Callers /\ call'[job.by] = Idle
      /\ Idle.cut = {} /\ Idle.phase = "idle"
      /\ \A c \in Callers \ {job.by} : call'[c] = call[c]
  BY <1>1, TakeOrdered, OrderTyped DEF Idle
<1>3. call'[job.by].cut \subseteq call[job.by].cut
  BY <1>2
<1>4. OldRows' \subseteq OldRows
  BY <1>1, <1>2, <1>3, TakeKeepsOrder DEF OldRows
<1>5. VersionsOrdered'
  BY <1>1, <1>4 DEF OrderInv, VersionsOrdered
<1>6. NoFirstWrite' /\ OneResumes' /\ MintedIsNewest'
  <2>1. NoFirstWrite'
    BY <1>1, <1>2, TakeOrdered DEF OrderInv, NoFirstWrite
  <2>2. OneResumes' /\ MintedIsNewest'
    BY <1>1, <1>2, SettledCallers DEF OneResumes, MintedIsNewest, Answered
  <2> QED
    BY <2>1, <2>2
<1>7. SnapshotsInOrder'
  <2>1. \A n \in Snaps', r \in OldRows' : r.version < chain'[n].rec.version
    BY <1>1, <1>4, TakeOrdered DEF OrderInv, SnapshotsInOrder, Snaps
  <2> QED
    BY <1>1, <1>2, <1>3, <2>1, TakeKeepsOrder DEF SnapshotsInOrder
<1>8. DropsInOrder'
  <2>1. \A n \in Drops', s \in history' : ~(s.version < chain'[n].rec.version)
    BY <1>1, TakeOrdered DEF OrderInv, DropsInOrder, Drops
  <2>2. \A c \in Callers \ {job.by} : Dropping(c) \subseteq Dropping(c)'
    BY <1>1, <1>2, <1>3, TakeKeepsOrder
  <2> QED
    BY <1>1, <1>2, <2>1, <2>2 DEF OrderInv, DropsInOrder
<1> QED
  BY <1>1, <1>5, <1>6, <1>7, <1>8 DEF OrderInv

LEMMA CrashOrdered ==
  ASSUME OrderInv, FaithInv', Crash PROVE OrderInv'
<1>1. /\ chain' = <<>> /\ \A c \in Callers : call'[c] = Idle
      /\ UNCHANGED <<doc, history, ever>>
  BY DEF Crash
<1>2. Idle.cut = {} /\ Idle.phase = "idle"
  BY DEF Idle
<1>3. 1..Len(chain') = {}
  BY <1>1
<1>4. Drops' = {} /\ Snaps' = {}
  BY <1>3 DEF Drops, Snaps
<1>5. OldRows' \subseteq OldRows
  BY <1>1, <1>2, <1>4 DEF OldRows
<1>6. VersionsOrdered' /\ SnapshotsInOrder'
  BY <1>1, <1>4, <1>5 DEF OrderInv, VersionsOrdered, SnapshotsInOrder
<1>7. NoFirstWrite' /\ OneResumes' /\ MintedIsNewest' /\ DropsInOrder'
  BY <1>1, <1>2, <1>3, <1>4
     DEF NoFirstWrite, OneResumes, MintedIsNewest, DropsInOrder, Answered
<1> QED
  BY <1>1, <1>6, <1>7 DEF OrderInv

LEMMA InitOrdered ==
  ASSUME Existing, Init PROVE OrderInv
<1>1. PICK x \in Contents :
        doc = NextRecord(None, x) /\ history = {doc} /\ ever = {doc}
  BY DEF Init
<1>2. chain = <<>> /\ \A c \in Callers : call[c] = Idle
  BY DEF Init
<1>3. Idle.phase = "idle" /\ Idle.cut = {}
  BY DEF Idle
<1>4. doc \in Version /\ doc.version \in Nat
  BY <1>1, NextRecordTyped, VersionTyped DEF Docs
<1>5. Drops = {} /\ Snaps = {} /\ OldRows = {doc}
  BY <1>1, <1>2, <1>3 DEF Drops, Snaps, OldRows
<1>6. FaithInv
  BY InitTyped, <1>1, <1>2, <1>3 DEF FaithInv
<1>7. IsFiniteSet(history)
  BY <1>1, FS_Singleton
<1>8. VersionsOrdered
  BY <1>1, <1>4, <1>5 DEF VersionsOrdered
<1>9. NoFirstWrite /\ OneResumes /\ SnapshotsInOrder /\ MintedIsNewest /\ DropsInOrder
  BY <1>2, <1>3, <1>5
     DEF NoFirstWrite, OneResumes, SnapshotsInOrder, MintedIsNewest, DropsInOrder, Answered
<1> QED
  BY <1>6, <1>7, <1>8, <1>9 DEF OrderInv

LEMMA BeginWriteOrdered ==
  ASSUME OrderInv, FaithInv', NEW c \in Callers, NEW x \in Contents, BeginWrite(c, x)
  PROVE  OrderInv'
<1> DEFINE frame == [phase |-> "update", rec |-> Text(x), cut |-> {}]
<1>1. Text(x) \in Version
  BY DEF Text, Version
<1>2. frame \in Frames /\ frame.phase = "update" /\ frame.cut = {}
  BY <1>1 DEF Frames, Phases, Docs
<1>3. /\ call[c].phase \notin Kinds /\ Enqueue(c, frame, "update", Text(x))
      /\ doc' = doc /\ history' = history /\ ever' = ever
  BY DEF BeginWrite, Kinds
<1>4. "update" \in Kinds \ {"put"}
  BY DEF Kinds
<1> QED
  BY <1>1, <1>2, <1>3, <1>4, EnqueueOrdered

LEMMA PutSnapshotOrdered ==
  ASSUME OrderInv, FaithInv', NEW c \in Callers, PutSnapshot(c)
  PROVE  OrderInv'
<1> DEFINE frame == [call[c] EXCEPT !.phase = "snapshot"]
<1>1. /\ call[c].phase = "minted" /\ call[c].phase \notin Kinds
      /\ Enqueue(c, frame, "snapshot", call[c].rec)
      /\ doc' = doc /\ history' = history /\ ever' = ever
  BY DEF PutSnapshot, SnapshotRow, Kinds
<1>2. frame \in Frames /\ frame.phase = "snapshot" /\ frame.cut = call[c].cut
  BY OrderTyped DEF Frames, Phases
<1>3. call[c].rec \in Version
  BY <1>1 DEF OrderInv, FaithInv, TypeInv, CallInv
<1>4. \A n \in Drops : chain[n].by # c
  BY <1>1 DEF Drops, OrderInv, FaithInv, TypeInv, CallInv, Waiting
<1>5. Dropping(c) = call[c].cut
  BY <1>4 DEF Dropping
<1>6. \A x \in frame.cut, s \in history : s.version < x.version => s \in frame.cut
  BY <1>2, <1>5 DEF OrderInv, DropsInOrder
<1>7. frame.cut \subseteq OldRows
  BY <1>2 DEF OldRows
<1>8. "snapshot" \in Kinds \ {"put"}
  BY DEF Kinds
<1> QED
  BY <1>1, <1>2, <1>3, <1>6, <1>7, <1>8, EnqueueOrdered

\* What a step does to the document and its history is what the abstract
\* document allows.
Abstract == [Promise!DocNext]_(Promise!dvars)

LEMMA StepOrdered ==
  ASSUME OrderInv, [Next]_vars
  PROVE  OrderInv' /\ Abstract /\ (doc' # doc => doc'.version = doc.version + 1)
<1>1. FaithInv /\ FaithInv'
  BY StepFaithful DEF OrderInv
<1>2. SUFFICES \/ OrderInv' /\ UNCHANGED <<doc, history, ever>>
               \/ Land
  <2>1. CASE OrderInv' /\ UNCHANGED <<doc, history, ever>>
    BY <2>1 DEF Abstract, Promise!dvars
  <2>2. CASE Land
    <3>1. CASE Head(chain).kind \in {"update", "put"} /\ LandRecord(Head(chain))
      <4>1. OrderInv'
        BY <1>1, <2>2, <3>1, LandRecordOrdered
      <4>2. PICK x \in Contents : /\ doc' = [version |-> doc.version + 1, content |-> x]
                                  /\ ever' = ever \cup {doc'}
                                  /\ history' = history
        BY <1>1, <2>2, <3>1, LandRecordOrdered
      <4>3. Promise!Rewrite(x)
        BY <4>2 DEF Promise!Rewrite
      <4> QED
        BY <4>1, <4>2, <4>3 DEF Abstract, Promise!DocNext
    <3>2. CASE Head(chain).kind = "snapshot" /\ LandSnapshot(Head(chain))
      <4>1. /\ OrderInv' /\ Head(chain).rec \in ever
            /\ history' = history \cup {Head(chain).rec}
            /\ UNCHANGED <<doc, ever>>
        BY <1>1, <2>2, <3>2, LandSnapshotOrdered
      <4>2. Promise!Snapshot(Head(chain).rec)
        BY <4>1 DEF Promise!Snapshot
      <4> QED
        BY <4>1, <4>2 DEF Abstract, Promise!DocNext
    <3>3. CASE Head(chain).kind = "drop" /\ LandDrop(Head(chain))
      <4> DEFINE row == Head(chain).rec
      <4>1. /\ OrderInv' /\ history' = history \ {row}
            /\ \A s \in history \ {row} : row.version < s.version
            /\ UNCHANGED <<doc, ever>>
        BY <1>1, <2>2, <3>3, LandDropOrdered
      <4>2. CASE row \in history
        <5>1. Promise!Drop(row)
          BY <4>1 DEF Promise!Drop
        <5> QED
          BY <4>1, <4>2, <5>1 DEF Abstract, Promise!DocNext
      <4>3. CASE row \notin history
        <5>1. history' = history
          BY <4>1, <4>3
        <5> QED
          BY <4>1, <5>1 DEF Abstract, Promise!dvars
      <4> QED
        BY <4>2, <4>3
    <3> QED
      BY <2>2, <3>1, <3>2, <3>3 DEF Land
  <2> QED
    BY <1>2, <2>1, <2>2
<1>3. ASSUME NEW c \in Writers, UpdateIdentity(c)
      PROVE  OrderInv' /\ UNCHANGED <<doc, history, ever>>
  <2>1. PICK x \in Contents : BeginWrite(c, x)
    BY <1>3 DEF UpdateIdentity
  <2>2. UNCHANGED <<doc, history, ever>>
    BY <2>1 DEF BeginWrite
  <2> QED
    BY <1>1, <2>1, <2>2, BeginWriteOrdered DEF Callers
<1>4. ASSUME NEW c \in Writers, RevertIdentity(c)
      PROVE  OrderInv' /\ UNCHANGED <<doc, history, ever>>
  <2>1. PICK r \in history : BeginWrite(c, r.content)
    BY <1>4 DEF RevertIdentity
  <2>2. r.content \in Contents
    BY OrderTyped, VersionTyped
  <2>3. UNCHANGED <<doc, history, ever>>
    BY <2>1 DEF BeginWrite
  <2> QED
    BY <1>1, <2>1, <2>2, <2>3, BeginWriteOrdered DEF Callers
<1>5. ~ServeSeed
  BY OrderTyped, VersionTyped DEF ServeSeed
<1>6. ASSUME NEW c \in Callers, PutFirst(c) PROVE FALSE
  BY <1>6 DEF PutFirst, OrderInv, NoFirstWrite
<1>7. ASSUME NEW c \in Callers, PutSnapshot(c)
      PROVE  OrderInv' /\ UNCHANGED <<doc, history, ever>>
  BY <1>1, <1>7, PutSnapshotOrdered DEF PutSnapshot
<1>8. ASSUME NEW c \in Callers, TrimHistory(c) \/ TrimMore(c)
      PROVE  OrderInv' /\ UNCHANGED <<doc, history, ever>>
  BY <1>1, <1>8, TrimOrdered DEF TrimHistory, TrimMore
<1>9. ASSUME Reject PROVE OrderInv' /\ UNCHANGED <<doc, history, ever>>
  BY <1>1, <1>9, RejectOrdered DEF Reject
<1>10. ASSUME Crash PROVE OrderInv' /\ UNCHANGED <<doc, history, ever>>
  BY <1>1, <1>10, CrashOrdered DEF Crash
<1>11. ASSUME UNCHANGED vars PROVE OrderInv' /\ UNCHANGED <<doc, history, ever>>
  <2>1. UNCHANGED <<doc, history, ever, chain, call>>
    BY <1>11 DEF vars
  <2> QED
    BY <1>1, <2>1
       DEF OrderInv, VersionsOrdered, NoFirstWrite, OneResumes, SnapshotsInOrder,
           MintedIsNewest, DropsInOrder, OldRows, Drops, Snaps, Dropping
<1> QED
  BY <1>3, <1>4, <1>5, <1>6, <1>7, <1>8, <1>9, <1>10, <1>11 DEF Next

LEMMA OrderInvariant == ASSUME Existing PROVE Spec => []OrderInv
<1>1. Init => OrderInv
  BY InitOrdered
<1>2. OrderInv /\ [Next]_vars => OrderInv'
  BY StepOrdered
<1> QED
  BY <1>1, <1>2, PTL DEF Spec

\* Racing rewrites of an existing document never mint a version twice: each
\* one that lands is the version after the one it replaces.
THEOREM RewritesAdvance == ASSUME Existing PROVE Spec => VersionsAdvance
<1>1. OrderInv /\ [Next]_vars => [doc # None => doc'.version = doc.version + 1]_doc
  BY StepOrdered
<1> QED
  BY <1>1, OrderInvariant, PTL DEF Spec, VersionsAdvance

\* The write path implements the abstract versioned document: each step is a
\* rewrite to the next version, a snapshot of a text that was current, the
\* drop of the oldest row, or invisible.
THEOREM ImplementsDocument == ASSUME Existing PROVE Spec => PromiseKept
<1>1. Init => Promise!DocInit
  <2> SUFFICES ASSUME Init PROVE Promise!DocInit
    OBVIOUS
  <2>1. PICK x \in Contents :
          doc = NextRecord(None, x) /\ history = {doc} /\ ever = {doc}
    BY DEF Init
  <2>2. doc \in Version
    BY <2>1, NextRecordTyped DEF Docs
  <2> QED
    BY <2>1, <2>2 DEF Promise!DocInit, Promise!Version, Version
<1>2. OrderInv /\ [Next]_vars => [Promise!DocNext]_(Promise!dvars)
  BY StepOrdered DEF Abstract
<1> QED
  BY <1>1, <1>2, OrderInvariant, PTL DEF Spec, PromiseKept, Promise!DocSpec


-----------------------------------------------------------------------------
(* A snapshot, as freezeFor leaves it.                                     *)

\* What the section tells is in the index, and the notes tell of none of it.
Divided(snap) ==
  /\ snap.content \in SUBSET snap.index
  /\ snap.index \cap snap.notes = {}

\* What was active at the freeze is told in one of the two.
Covering(snap) ==
  \A e \in Ids \ Blocked : snap.of[e] = "active" => e \in snap.index \cup snap.notes

Served(snap) == snap.asked => snap.soul # None

Sound(snap) == snap.open => Divided(snap) /\ Covering(snap) /\ Served(snap)

PromptInv ==
  /\ TypeInv
  /\ DOMAIN frozen = Sessions
  /\ \A s \in Sessions : Sound(frozen[s])

\* The cap leaves a part of what there is to tell.
LEMMA CappedIsPart ==
  ASSUME NEW told, NEW content \in Capped(told)
  PROVE  content \in SUBSET told
  BY DEF Capped, kSubset

\* An entry left to the notes is one the notes speak of, and the other way round.
LEMMA NotesAndIndex ==
  LET index == Visible \ Excluded(settings.notes)
  IN  /\ index \cap NotesSnapshot = {}
      /\ \A e \in Ids \ Blocked : mem[e] = "active" => e \in index \cup NotesSnapshot
<1> DEFINE index == Visible \ Excluded(settings.notes)
<1>1. \A e \in NotesSnapshot : settings.notes /\ e \in Ids /\ Rendered(e)
  BY DEF NotesSnapshot, Conventions, Pitfalls
<1>2. index \cap NotesSnapshot = {}
  BY <1>1 DEF Excluded
<1>3. ASSUME NEW e \in Ids \ Blocked, mem[e] = "active", e \notin index
      PROVE  e \in NotesSnapshot
  <2>1. settings.notes /\ Rendered(e)
    BY <1>3 DEF Visible, Excluded
  <2>2. Shape[e].category \in ConventionCategories \cup PitfallCategories
    BY <2>1 DEF Rendered
  <2> QED
    BY <1>3, <2>1, <2>2 DEF NotesSnapshot, Conventions, Pitfalls
<1> QED
  BY <1>2, <1>3

\* While the identity layer is on, the document or the seed is served.
LEMMA SoulServed ==
  ASSUME TypeInv, settings.identity
  PROVE  Soul # None
<1>1. doc \in Docs
  BY DEF TypeInv, DataTyped
<1>2. doc # None => doc.content \in Contents
  BY <1>1 DEF Docs, Version
<1> QED
  BY <1>2, IdentityAssumption, PromptAssumption DEF Soul

LEMMA FreezeIsSound ==
  ASSUME PromptInv, NEW s \in Sessions, Freeze(s)
  PROVE  /\ DOMAIN frozen' = Sessions
         /\ \A r \in Sessions : Sound(frozen'[r])
         /\ \A r \in Sessions \ {s} : frozen'[r] = frozen[r]
<1> DEFINE told == Visible \ Excluded(settings.notes)
<1>1. PICK content \in Capped(told) :
        frozen' = [frozen EXCEPT ![s] =
          [content |-> content, index |-> told, notes |-> NotesSnapshot,
           soul |-> Soul, of |-> mem, asked |-> settings.identity, open |-> TRUE]]
  BY DEF Freeze
<1>2. content \in SUBSET told
  BY <1>1, CappedIsPart
<1>3. /\ told \cap NotesSnapshot = {}
      /\ \A e \in Ids \ Blocked : mem[e] = "active" => e \in told \cup NotesSnapshot
  BY NotesAndIndex
<1>4. settings.identity => Soul # None
  BY SoulServed DEF PromptInv
<1> HIDE DEF told
<1>5. /\ DOMAIN frozen' = Sessions
      /\ \A r \in Sessions \ {s} : frozen'[r] = frozen[r]
      /\ frozen'[s] = [content |-> content, index |-> told, notes |-> NotesSnapshot,
           soul |-> Soul, of |-> mem, asked |-> settings.identity, open |-> TRUE]
  BY <1>1 DEF PromptInv
<1>6. Sound(frozen'[s])
  BY <1>2, <1>3, <1>4, <1>5 DEF Sound, Divided, Covering, Served
<1> QED
  BY <1>5, <1>6 DEF PromptInv

-----------------------------------------------------------------------------
(* The document below keeps its type.                                      *)

\* A lost step of the prompt counts as a fault and leaves the document alone.
LEMMA FaultKeepsType ==
  ASSUME TypeInv, faults' = faults + 1,
         UNCHANGED <<doc, history, chain, call, kicked, calls, crashes, ever>>
  PROVE  TypeInv'
  BY DEF TypeInv, DataTyped, CallInv, Waiting

LEMMA AskKeepsType ==
  ASSUME TypeInv, AskIdentity
  PROVE  TypeInv'
  BY StepTyped DEF AskIdentity, Next

LEMMA IdentityMovesTyped ==
  ASSUME TypeInv, IdentityMoves
  PROVE  TypeInv'
  BY StepTyped DEF IdentityMoves, Next

\* Every step: the document keeps its type, and the snapshots change in the
\* freezes and in a crash only.
LEMMA StepKeepsPrompt ==
  ASSUME PromptInv, [PromptNext]_allVars
  PROVE  PromptInv'
<1>1. ASSUME UNCHANGED frozen, TypeInv'
      PROVE  PromptInv'
  BY <1>1 DEF PromptInv
<1>2. ASSUME NEW s \in Sessions, SessionCreated(s) \/ CompactionEnd(s)
      PROVE  PromptInv'
  <2>1. Freeze(s)
    BY <1>2 DEF SessionCreated, CompactionEnd
  <2>2. TypeInv'
    BY <2>1, AskKeepsType DEF Freeze, PromptInv
  <2> QED
    BY <2>1, <2>2, FreezeIsSound DEF PromptInv
<1>3. ASSUME NEW s \in Sessions, CompactionEndUnfrozen(s) \/ PreStepFails(s)
      PROVE  PromptInv'
  BY <1>1, <1>3, FaultKeepsType DEF CompactionEndUnfrozen, PreStepFails, PromptInv
<1>4. ASSUME UNCHANGED <<vars, frozen>>
      PROVE  PromptInv'
  BY <1>1, <1>4, StepTyped DEF PromptInv
<1>5. ASSUME NEW s \in Sessions, PreStep(s) \/ Answer(s)
      PROVE  PromptInv'
  BY <1>4, <1>5 DEF PreStep, Answer
<1>6. CASE ChangeSettings
  BY <1>4, <1>6 DEF ChangeSettings
<1>7. ASSUME NEW e \in Ids, StoreWritten(e)
      PROVE  PromptInv'
  BY <1>4, <1>7 DEF StoreWritten
<1>8. CASE IdentityMoves
  BY <1>1, <1>8, IdentityMovesTyped DEF IdentityMoves, promptVars, PromptInv
<1>9. CASE ProcessCrash
  <2>1. TypeInv'
    BY <1>9, CrashTyped DEF ProcessCrash, PromptInv
  <2>2. frozen' = [s \in Sessions |-> Unset]
    BY <1>9 DEF ProcessCrash
  <2> QED
    BY <2>1, <2>2 DEF PromptInv, Sound, Unset
<1>10. CASE UNCHANGED allVars
  BY <1>4, <1>10 DEF allVars, promptVars
<1> QED
  BY <1>2, <1>3, <1>5, <1>6, <1>7, <1>8, <1>9, <1>10 DEF PromptNext

LEMMA InitPrompt == PromptInit => PromptInv
  BY InitTyped DEF PromptInit, PromptInv, Sound, Unset

LEMMA PromptInvariant == PromptSpec => []PromptInv
<1>1. PromptInv /\ [PromptNext]_allVars => PromptInv'
  BY StepKeepsPrompt
<1> QED
  BY InitPrompt, <1>1, PTL DEF PromptSpec

-----------------------------------------------------------------------------
(* What the prompts tell.                                                  *)

\* No entry is told twice in one prompt: freezeFor excludes from the memory
\* section what its notes tell, and both are frozen together, so that settings
\* applied live cannot bring them out of step.
THEOREM ToldOnce == PromptSpec => []NoDoubleInjection
<1>1. PromptInv => NoDoubleInjection
  <2> SUFFICES ASSUME PromptInv, NEW s \in Open
               PROVE  MemorySection(s) \cap NotesSection(s) = {}
    BY DEF NoDoubleInjection
  <2>1. Divided(frozen[s])
    BY DEF PromptInv, Sound, Open
  <2>2. MemorySection(s) \in SUBSET frozen[s].index
    BY <2>1 DEF MemorySection, Divided
  <2>3. NotesSection(s) \in SUBSET frozen[s].notes
    BY DEF NotesSection
  <2> QED
    BY <2>1, <2>2, <2>3 DEF Divided
<1> QED
  BY <1>1, PromptInvariant, PTL

\* An entry that was active at the freeze is in the index or in the notes:
\* isRenderedEntry and the renderers agree about every scope, category and
\* project, so the section leaves to the notes nothing they do not tell.
THEOREM ToldSomewhere == PromptSpec => []NothingFallsBetween
<1>1. PromptInv => NothingFallsBetween
  BY DEF PromptInv, Sound, Covering, NothingFallsBetween, Open
<1> QED
  BY <1>1, PromptInvariant, PTL

\* A session frozen with the identity layer on has a document: the record, or
\* the seed while its write is queued, was rejected or died with the process.
THEOREM AlwaysServed == PromptSpec => []IdentityAlwaysServed
<1>1. PromptInv => IdentityAlwaysServed
  BY DEF PromptInv, Sound, Served, IdentityAlwaysServed, Open
<1> QED
  BY <1>1, PromptInvariant, PTL

\* Only a freeze of its own, a live setting and a crash change a session's
\* prompt: writes of the store, the documents and other sessions do not.
LEMMA OnlyFreezesChange ==
  ASSUME PromptInv, [PromptNext]_allVars, NEW s \in Open, settings' = settings,
         ~CompactionEnd(s), ~ProcessCrash
  PROVE  frozen'[s] = frozen[s]
<1>1. s \in Sessions /\ frozen[s].open
  BY DEF Open
<1>2. ASSUME NEW r \in Sessions, SessionCreated(r) \/ CompactionEnd(r)
      PROVE  frozen'[s] = frozen[s]
  <2>1. s # r
    BY <1>1, <1>2 DEF SessionCreated
  <2> QED
    BY <1>1, <1>2, <2>1, FreezeIsSound DEF SessionCreated, CompactionEnd
<1>3. CASE UNCHANGED frozen
  BY <1>3
<1> QED
  BY <1>2, <1>3 DEF PromptNext, CompactionEndUnfrozen, PreStepFails, PreStep, Answer,
     ChangeSettings, StoreWritten, IdentityMoves, promptVars, allVars

\* The frozen prefix: while the settings stay as they are, the sections of a
\* running session change at its own compactions and at no other moment
\* (freezeFor, and the section builders that read nothing but its snapshot).
THEOREM PrefixIsStable == PromptSpec => PrefixStable
<1>1. PromptInv /\ [PromptNext]_allVars
        => [\A s \in Open : Prompt(s)' # Prompt(s) =>
              settings' # settings \/ CompactionEnd(s) \/ ProcessCrash]_allVars
  <2> SUFFICES ASSUME PromptInv, [PromptNext]_allVars, NEW s \in Open,
                      settings' = settings, ~CompactionEnd(s), ~ProcessCrash
               PROVE  Prompt(s)' = Prompt(s)
    OBVIOUS
  <2>1. frozen'[s] = frozen[s]
    BY OnlyFreezesChange
  <2> QED
    BY <2>1 DEF Prompt, MemorySection, NotesSection, SoulSection
<1> QED
  BY <1>1, PromptInvariant, PTL DEF PromptSpec, PrefixStable

-----------------------------------------------------------------------------
(* Hits.                                                                   *)

\* What waits for an answer was not hit since it was put up.
HitInv ==
  /\ DOMAIN ledger = Sessions /\ DOMAIN booked = Sessions
  /\ HitsPerRound

LEMMA PutKeepsHits ==
  ASSUME HitInv, NEW s \in Sessions, NEW up, Put(s, up)
  PROVE  HitInv'
<1>1. /\ ledger' = [ledger EXCEPT ![s] = up]
      /\ booked' = [booked EXCEPT ![s] = booked[s] \ up]
  BY DEF Put
<1> QED
  BY <1>1 DEF HitInv, HitsPerRound

LEMMA StepKeepsHits ==
  ASSUME HitInv, [PromptNext]_allVars
  PROVE  HitInv'
<1>1. CASE UNCHANGED <<ledger, booked>>
  BY <1>1 DEF HitInv, HitsPerRound
<1>2. ASSUME NEW s \in Sessions, SessionCreated(s) \/ CompactionEnd(s) \/ PreStep(s)
      PROVE  HitInv'
  <2>1. (\E up : Put(s, up)) \/ UNCHANGED <<ledger, booked>>
    BY <1>2 DEF SessionCreated, CompactionEnd, Freeze, PreStep
  <2> QED
    BY <1>1, <2>1, PutKeepsHits
<1>3. ASSUME NEW s \in Sessions, Answer(s)
      PROVE  HitInv'
  <2>1. DOMAIN ledger' = Sessions /\ DOMAIN booked' = Sessions
    BY <1>3 DEF Answer, SpendLedger, HitInv
  <2>2. /\ ledger'[s] = {}
        /\ \A r \in Sessions \ {s} : ledger'[r] = ledger[r] /\ booked'[r] = booked[r]
    BY <1>3 DEF Answer, SpendLedger, HitInv
  <2> QED
    BY <2>1, <2>2 DEF HitInv, HitsPerRound
<1>4. CASE ProcessCrash
  BY <1>4 DEF ProcessCrash, HitInv, HitsPerRound
<1> QED
  BY <1>1, <1>2, <1>3, <1>4 DEF PromptNext, CompactionEndUnfrozen, PreStepFails,
     ChangeSettings, StoreWritten, IdentityMoves, promptVars, allVars

\* An entry that was hit waits for no second hit until it is injected again:
\* an answer takes the whole ledger (assistant/message), and whatever fills it
\* anew, a freeze or the fence of a step, puts up entries of a new round.
THEOREM OneHitPerRound == PromptSpec => []HitsPerRound
<1>1. PromptInit => HitInv
  BY DEF PromptInit, HitInv, HitsPerRound
<1>2. HitInv /\ [PromptNext]_allVars => HitInv'
  BY StepKeepsHits
<1>3. HitInv => HitsPerRound
  BY DEF HitInv
<1> QED
  BY <1>1, <1>2, <1>3, PTL DEF PromptSpec

=============================================================================
