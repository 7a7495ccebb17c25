------------------------- MODULE CrossProcessProofs --------------------------
(***************************************************************************)
(* Theorems about processes that share a storage root, for any set of      *)
(* pids, any number of mounts, writes, failures, kills and reused pids.    *)
(***************************************************************************)
EXTENDS CrossProcess, TLAPS

-----------------------------------------------------------------------------
(* Types, and what a mounted process is sure of.                           *)

Stamps == [boot: Nat, pid: Pids, closed: BOOLEAN]

Docs == [owner: Stamps \cup {None}, data: SUBSET Nat, torn: BOOLEAN]

Phases == {"off", "claiming", "running", "leaving", "tearing", "closing"}

Frames == [phase: Phases, boot: Nat, owner: Stamps \cup {None}, data: SUBSET Nat,
           copy: Docs \cup {None}, alarms: Nat]

\* The document a goodbye is about to write: it was read in one piece, and
\* closes the boot's own stamp.
Farewell(frame) ==
  /\ frame.copy \in Docs /\ ~frame.copy.torn
  /\ frame.copy.owner \in Stamps /\ frame.copy.owner.closed

TypeInv ==
  /\ file \in Docs
  /\ proc \in [Pids -> Frames]
  /\ \A p \in Pids : proc[p].phase \in {"leaving", "tearing"} => Farewell(proc[p])
  /\ alive \subseteq Pids /\ strange \subseteq Pids
  /\ boots \in Nat /\ writes \in Nat /\ faults \in Nat /\ kills \in Nat
  /\ sole \subseteq Nat

LEMMA OffTyped == ASSUME TypeInv PROVE Off \in Frames
  BY DEF Off, Frames, Phases

LEMMA JudgeTyped ==
  ASSUME NEW own, NEW stamp, NEW alarms \in Nat
  PROVE  Judge(own, stamp, alarms) \in Nat
  BY DEF Judge

\* What a publish makes of the others: at most a goodbye is cut short.
LEMMA PublishFrames ==
  ASSUME TypeInv, NEW p \in Pids, NEW frame \in Frames, Publish(p, frame),
         frame.phase \in {"leaving", "tearing"} => Farewell(frame)
  PROVE  /\ file' \in Docs /\ ~file'.torn
         /\ file'.owner = frame.owner /\ file'.data = frame.data
         /\ proc' \in [Pids -> Frames]
         /\ \A q \in Pids : proc'[q].phase \in {"leaving", "tearing"} => Farewell(proc'[q])
         /\ \A q \in Pids :
              LET f == IF q = p THEN frame ELSE proc[q]
              IN  /\ proc'[q].boot = f.boot /\ proc'[q].owner = f.owner
                  /\ proc'[q].data = f.data /\ proc'[q].alarms = f.alarms
                  /\ proc'[q].phase = IF f.phase = "tearing" THEN "closing" ELSE f.phase
                  /\ f.phase # "tearing" => proc'[q] = f
<1>1. file' = [owner |-> frame.owner, data |-> frame.data, torn |-> FALSE]
  BY DEF Publish
<1>2. file' \in Docs /\ ~file'.torn /\ file'.owner = frame.owner /\ file'.data = frame.data
  BY <1>1 DEF Docs, Frames
<1> DEFINE g(q) == IF q = p THEN frame ELSE proc[q]
           cut(f) == [f EXCEPT !.phase = "closing", !.copy = None]
           kept(f) == IF f.phase = "tearing" THEN cut(f) ELSE f
<1>3. proc' = [q \in Pids |-> kept(g(q))]
  BY DEF Publish
<1>4. \A q \in Pids : g(q) \in Frames /\ (g(q).phase \in {"leaving", "tearing"} => Farewell(g(q)))
  BY DEF TypeInv
<1>5. ASSUME NEW f \in Frames
      PROVE  /\ cut(f) \in Frames
             /\ cut(f).boot = f.boot /\ cut(f).owner = f.owner /\ cut(f).data = f.data
             /\ cut(f).alarms = f.alarms /\ cut(f).phase = "closing"
  BY <1>5 DEF Frames, Phases
<1> HIDE DEF g, cut
<1>6. \A q \in Pids : proc'[q] = kept(g(q))
  BY <1>3
<1>7. \A q \in Pids : kept(g(q)) \in Frames
  BY <1>4, <1>5
<1>8. proc' \in [Pids -> Frames]
  BY <1>3, <1>7
<1>9. \A q \in Pids : proc'[q].phase \in {"leaving", "tearing"} => Farewell(proc'[q])
  BY <1>4, <1>5, <1>6
<1>10. ASSUME NEW q \in Pids
       PROVE  /\ proc'[q].boot = g(q).boot /\ proc'[q].owner = g(q).owner
              /\ proc'[q].data = g(q).data /\ proc'[q].alarms = g(q).alarms
              /\ proc'[q].phase = IF g(q).phase = "tearing" THEN "closing" ELSE g(q).phase
              /\ g(q).phase # "tearing" => proc'[q] = g(q)
  BY <1>4, <1>5, <1>6
<1> QED
  BY <1>2, <1>8, <1>9, <1>10 DEF g

\* An action that changes the frame of one process only.
Moves(p, f) == proc' = [proc EXCEPT ![p] = f]

LEMMA MovedFrames ==
  ASSUME TypeInv, NEW p \in Pids, NEW f \in Frames, Moves(p, f),
         f.phase \in {"leaving", "tearing"} => Farewell(f)
  PROVE  /\ proc' \in [Pids -> Frames]
         /\ proc'[p] = f
         /\ \A q \in Pids : q # p => proc'[q] = proc[q]
         /\ \A q \in Pids : proc'[q].phase \in {"leaving", "tearing"} => Farewell(proc'[q])
  BY DEF Moves, TypeInv

LEMMA BootMoves ==
  ASSUME TypeInv, NEW p \in Pids, Boot(p)
  PROVE  \E f \in Frames :
           /\ Moves(p, f)
           /\ f.phase = "claiming" /\ f.boot = boots + 1
           /\ f.owner = file.owner /\ f.data = file.data
           /\ f.alarms = Judge(boots + 1, file.owner, 0)
<1> DEFINE f == [phase |-> "claiming", boot |-> boots + 1, owner |-> file.owner,
                 data |-> file.data, copy |-> None,
                 alarms |-> Judge(boots + 1, file.owner, 0)]
<1>1. Judge(boots + 1, file.owner, 0) \in Nat
  BY JudgeTyped
<1>2. f \in Frames
  BY <1>1 DEF Frames, Phases, TypeInv, Docs
<1>3. Moves(p, f)
  BY DEF Boot, Moves
<1> QED
  BY <1>2, <1>3

\* The frame that a claim publishes.
Claimant(p) == [proc[p] EXCEPT !.phase = "running", !.owner = Stamp(p, proc[p].boot)]

LEMMA ClaimFrame ==
  ASSUME TypeInv, NEW p \in Pids
  PROVE  /\ Claimant(p) \in Frames
         /\ Claimant(p).phase = "running" /\ Claimant(p).boot = proc[p].boot
         /\ Claimant(p).owner = Stamp(p, proc[p].boot)
         /\ Stamp(p, proc[p].boot) \in Stamps
         /\ Claimant(p).data = proc[p].data /\ Claimant(p).alarms = proc[p].alarms
<1>1. proc[p] \in Frames
  BY DEF TypeInv
<1>2. Stamp(p, proc[p].boot) \in Stamps
  BY <1>1 DEF Stamp, Stamps, Frames
<1> DEFINE s == Stamp(p, proc[p].boot)
           one == [proc[p] EXCEPT !.phase = "running"]
           two == [one EXCEPT !.owner = s]
<1>3. Claimant(p) = two
  BY DEF Claimant
<1> HIDE DEF s
<1>4. /\ one \in Frames /\ one.phase = "running" /\ one.boot = proc[p].boot
      /\ one.data = proc[p].data /\ one.alarms = proc[p].alarms
  BY <1>1 DEF Frames, Phases
<1> HIDE DEF one
<1>5. /\ two \in Frames /\ two.phase = "running" /\ two.boot = proc[p].boot
      /\ two.data = proc[p].data /\ two.alarms = proc[p].alarms /\ two.owner = s
  BY <1>2, <1>4 DEF Frames, s
<1> QED
  BY <1>2, <1>3, <1>5 DEF s

\* The frame that a write publishes.
Writer(p) == [proc[p] EXCEPT !.data = proc[p].data \cup {writes + 1}]

LEMMA WriteFrame ==
  ASSUME TypeInv, NEW p \in Pids
  PROVE  /\ Writer(p) \in Frames
         /\ Writer(p).phase = proc[p].phase /\ Writer(p).boot = proc[p].boot
         /\ Writer(p).owner = proc[p].owner /\ Writer(p).copy = proc[p].copy
         /\ Writer(p).data = proc[p].data \cup {writes + 1}
         /\ Writer(p).alarms = proc[p].alarms
         /\ Writer(p).phase \in {"leaving", "tearing"} => Farewell(Writer(p))
<1>1. proc[p] \in Frames /\ writes + 1 \in Nat
  BY DEF TypeInv
<1>2. /\ Writer(p) \in Frames
      /\ Writer(p).phase = proc[p].phase /\ Writer(p).boot = proc[p].boot
      /\ Writer(p).owner = proc[p].owner /\ Writer(p).copy = proc[p].copy
      /\ Writer(p).data = proc[p].data \cup {writes + 1}
      /\ Writer(p).alarms = proc[p].alarms
  BY <1>1 DEF Writer, Frames
<1> QED
  BY <1>2 DEF TypeInv, Farewell

\* A step to another phase that touches nothing else but the copy and the
\* alarms.
Steps(p, f, phase) ==
  /\ f \in Frames /\ Moves(p, f)
  /\ f.phase = phase /\ f.boot = proc[p].boot
  /\ f.owner = proc[p].owner /\ f.data = proc[p].data

LEMMA PhaseStep ==
  ASSUME TypeInv, NEW p \in Pids, NEW phase \in Phases, proc' = [proc EXCEPT ![p].phase = phase]
  PROVE  \E f \in Frames : Steps(p, f, phase) /\ f.copy = proc[p].copy /\ f.alarms = proc[p].alarms
<1> DEFINE f == [proc[p] EXCEPT !.phase = phase]
<1>1. proc[p] \in Frames
  BY DEF TypeInv
<1>2. /\ f \in Frames /\ f.phase = phase /\ f.boot = proc[p].boot
      /\ f.owner = proc[p].owner /\ f.data = proc[p].data
      /\ f.copy = proc[p].copy /\ f.alarms = proc[p].alarms
  BY <1>1 DEF Frames
<1>3. Moves(p, f)
  BY DEF Moves
<1> QED
  BY <1>2, <1>3 DEF Steps

LEMMA ProbeStep ==
  ASSUME TypeInv, NEW p \in Pids, Probe(p)
  PROVE  \E f \in Frames :
           /\ Steps(p, f, "running")
           /\ f.alarms = Judge(proc[p].boot, file.owner, proc[p].alarms)
<1> DEFINE n == Judge(proc[p].boot, file.owner, proc[p].alarms)
           f == [proc[p] EXCEPT !.alarms = n]
<1>1. proc[p] \in Frames /\ proc[p].phase = "running"
  BY DEF TypeInv, Probe
<1>2. n \in Nat
  BY <1>1, JudgeTyped DEF Frames
<1>3. Moves(p, f)
  BY DEF Moves, Probe, ReadOwner
<1> HIDE DEF n
<1>4. /\ f \in Frames /\ f.phase = "running" /\ f.boot = proc[p].boot
      /\ f.owner = proc[p].owner /\ f.data = proc[p].data /\ f.alarms = n
  BY <1>1, <1>2 DEF Frames
<1> QED
  BY <1>3, <1>4 DEF Steps, n

\* The goodbye reads a document that carries the boot's own open stamp, or
\* there is nothing for it to do.
LEMMA GoodbyeReadStep ==
  ASSUME TypeInv, NEW p \in Pids, GoodbyeRead(p)
  PROVE  \E f \in Frames :
           \/ /\ ~file.torn /\ ClosesOwn(p)
              /\ Steps(p, f, "leaving") /\ Farewell(f)
              /\ f.copy.data = file.data /\ f.alarms = proc[p].alarms
           \/ /\ file.torn \/ ~ClosesOwn(p)
              /\ Steps(p, f, "closing") /\ f.alarms = proc[p].alarms
<1>1. proc[p] \in Frames /\ file \in Docs
  BY DEF TypeInv
<1>2. CASE ~file.torn /\ ClosesOwn(p)
  <2> DEFINE owner == [file.owner EXCEPT !.closed = TRUE]
             doc == [file EXCEPT !.owner = owner]
             one == [proc[p] EXCEPT !.phase = "leaving"]
             f == [one EXCEPT !.copy = doc]
  <2>1. file.owner \in Stamps
    BY <1>1, <1>2 DEF ClosesOwn, Docs
  <2>2. owner \in Stamps /\ owner.closed
    BY <2>1 DEF Stamps
  <2>3. Moves(p, f)
    BY <1>2 DEF GoodbyeRead, Moves, Document
  <2> HIDE DEF owner
  <2>4. doc \in Docs /\ doc.owner = owner /\ doc.data = file.data /\ doc.torn = file.torn
    BY <1>1, <2>2 DEF Docs
  <2> HIDE DEF doc
  <2>5. /\ one \in Frames /\ one.phase = "leaving" /\ one.boot = proc[p].boot
        /\ one.owner = proc[p].owner /\ one.data = proc[p].data /\ one.alarms = proc[p].alarms
    BY <1>1 DEF Frames, Phases
  <2> HIDE DEF one
  <2>6. /\ f \in Frames /\ f.phase = "leaving" /\ f.boot = proc[p].boot
        /\ f.owner = proc[p].owner /\ f.data = proc[p].data /\ f.alarms = proc[p].alarms
        /\ f.copy = doc
    BY <2>4, <2>5 DEF Frames
  <2> HIDE DEF f
  <2>7. Steps(p, f, "leaving") /\ Farewell(f) /\ f.copy.data = file.data
    BY <1>2, <2>2, <2>3, <2>4, <2>6 DEF Steps, Farewell
  <2> QED
    BY <1>2, <2>6, <2>7
<1>3. CASE file.torn \/ ~ClosesOwn(p)
  <2>1. proc' = [proc EXCEPT ![p].phase = "closing"]
    BY <1>3 DEF GoodbyeRead
  <2>2. "closing" \in Phases
    BY DEF Phases
  <2>3. PICK f \in Frames : Steps(p, f, "closing") /\ f.alarms = proc[p].alarms
    BY <2>1, <2>2, PhaseStep
  <2> QED
    BY <1>3, <2>3
<1> QED
  BY <1>2, <1>3

LEMMA ClosingStep ==
  ASSUME TypeInv, NEW p \in Pids, GoodbyeWrite(p) \/ GoodbyeFails(p)
  PROVE  \E f \in Frames : Steps(p, f, "closing") /\ f.alarms = proc[p].alarms
<1> DEFINE one == [proc[p] EXCEPT !.phase = "closing"]
           f == [one EXCEPT !.copy = None]
<1>1. proc[p] \in Frames
  BY DEF TypeInv
<1>2. Moves(p, f)
  BY DEF GoodbyeWrite, GoodbyeFails, Moves
<1>3. /\ one \in Frames /\ one.phase = "closing" /\ one.boot = proc[p].boot
      /\ one.owner = proc[p].owner /\ one.data = proc[p].data /\ one.alarms = proc[p].alarms
  BY <1>1 DEF Frames, Phases
<1> HIDE DEF one
<1>4. /\ f \in Frames /\ f.phase = "closing" /\ f.boot = proc[p].boot
      /\ f.owner = proc[p].owner /\ f.data = proc[p].data /\ f.alarms = proc[p].alarms
  BY <1>3 DEF Frames
<1> QED
  BY <1>2, <1>4 DEF Steps

LEMMA TypeStarts == Init => TypeInv
<1> SUFFICES ASSUME Init PROVE TypeInv
  OBVIOUS
<1>1. Off \in Frames /\ Off.phase = "off"
  BY DEF Off, Frames, Phases
<1>2. file \in Docs
  BY DEF Init, Docs
<1> QED
  BY <1>1, <1>2 DEF Init, TypeInv

Acts(p) ==
  \/ Boot(p) \/ Claim(p) \/ ClaimFails(p) \/ Write(p) \/ Probe(p)
  \/ GoodbyeRead(p) \/ GoodbyeTruncate(p) \/ GoodbyeWrite(p) \/ GoodbyeFails(p)
  \/ Close(p) \/ Exit(p) \/ Kill(p) \/ ReusePid(p)

LEMMA TypeStep == ASSUME TypeInv, NEW p \in Pids, Acts(p) PROVE TypeInv'
<1> DEFINE Kept == /\ proc' \in [Pids -> Frames]
                   /\ \A q \in Pids : proc'[q].phase \in {"leaving", "tearing"} => Farewell(proc'[q])
<1>1. CASE Boot(p)
  <2>1. PICK f \in Frames : Moves(p, f) /\ f.phase = "claiming"
    BY <1>1, BootMoves
  <2>2. Kept
    BY <2>1, MovedFrames
  <2> QED
    BY <1>1, <2>2 DEF Boot, TypeInv
<1>2. CASE Claim(p)
  <2>1. Publish(p, Claimant(p))
    BY <1>2 DEF Claim, Claimant
  <2>2. Kept /\ file' \in Docs
    BY <2>1, ClaimFrame, PublishFrames
  <2> QED
    BY <1>2, <2>2 DEF Claim, TypeInv, counters
<1>3. CASE ClaimFails(p)
  <2>1. PICK f \in Frames : Steps(p, f, "running")
    BY <1>3, PhaseStep DEF ClaimFails, Phases
  <2>2. Kept
    BY <2>1, MovedFrames DEF Steps
  <2> QED
    BY <1>3, <2>2 DEF ClaimFails, TypeInv
<1>4. CASE Write(p)
  <2>1. Publish(p, Writer(p))
    BY <1>4 DEF Write, Writer
  <2>2. Kept /\ file' \in Docs
    BY <2>1, WriteFrame, PublishFrames
  <2>3. sole' \subseteq Nat /\ writes' \in Nat
    BY <1>4 DEF Write, TypeInv
  <2> QED
    BY <1>4, <2>2, <2>3 DEF Write, TypeInv
<1>5. CASE Probe(p)
  <2>1. PICK f \in Frames : Steps(p, f, "running")
    BY <1>5, ProbeStep
  <2>2. Kept
    BY <2>1, MovedFrames DEF Steps
  <2> QED
    BY <1>5, <2>2 DEF Probe, TypeInv, counters
<1>6. CASE GoodbyeRead(p)
  <2>1. PICK f \in Frames :
          \/ Steps(p, f, "leaving") /\ Farewell(f)
          \/ Steps(p, f, "closing")
    BY <1>6, GoodbyeReadStep
  <2>2. Kept
    BY <2>1, MovedFrames DEF Steps
  <2> QED
    BY <1>6, <2>2 DEF GoodbyeRead, TypeInv, counters
<1>7. CASE GoodbyeTruncate(p)
  <2>1. PICK f \in Frames : Steps(p, f, "tearing") /\ f.copy = proc[p].copy
    BY <1>7, PhaseStep DEF GoodbyeTruncate, Phases
  <2>2. Farewell(f)
    BY <1>7, <2>1 DEF GoodbyeTruncate, TypeInv, Farewell
  <2>3. Kept
    BY <2>1, <2>2, MovedFrames DEF Steps
  <2>4. file' \in Docs
    BY <1>7 DEF GoodbyeTruncate, TypeInv, Docs
  <2> QED
    BY <1>7, <2>3, <2>4 DEF GoodbyeTruncate, TypeInv, counters
<1>8. CASE GoodbyeWrite(p)
  <2>1. PICK f \in Frames : Steps(p, f, "closing")
    BY <1>8, ClosingStep
  <2>2. Kept
    BY <2>1, MovedFrames DEF Steps
  <2>3. file' \in Docs
    BY <1>8 DEF GoodbyeWrite, TypeInv, Farewell
  <2> QED
    BY <1>8, <2>2, <2>3 DEF GoodbyeWrite, TypeInv, counters
<1>9. CASE GoodbyeFails(p)
  <2>1. PICK f \in Frames : Steps(p, f, "closing")
    BY <1>9, ClosingStep
  <2>2. Kept
    BY <2>1, MovedFrames DEF Steps
  <2> QED
    BY <1>9, <2>2 DEF GoodbyeFails, TypeInv
<1>10. CASE Close(p) \/ Kill(p)
  <2>1. Moves(p, Off) /\ Off \in Frames /\ Off.phase = "off"
    BY <1>10, OffTyped DEF Close, Kill, Moves, Off
  <2>2. Kept
    BY <2>1, MovedFrames
  <2>3. alive' \subseteq Pids /\ kills' \in Nat
    BY <1>10 DEF Close, Kill, TypeInv, counters
  <2>4. UNCHANGED <<file, strange, boots, writes, faults, sole>>
    BY <1>10 DEF Close, Kill, counters
  <2> QED
    BY <2>2, <2>3, <2>4 DEF TypeInv
<1>11. CASE Exit(p) \/ ReusePid(p)
  BY <1>11 DEF Exit, ReusePid, TypeInv, counters
<1> QED
  BY <1>1, <1>2, <1>3, <1>4, <1>5, <1>6, <1>7, <1>8, <1>9, <1>10, <1>11 DEF Acts

-----------------------------------------------------------------------------
(* Taking turns: whoever may publish holds what was written alone.         *)

Informed(frame) ==
  frame.phase # "off" =>
    /\ sole \subseteq frame.data
    /\ frame.phase \in {"leaving", "tearing"} => sole \subseteq frame.copy.data

TurnsInv == TypeInv /\ TurnsLoseNothing /\ \A p \in Pids : Informed(proc[p])

\* Nothing new was written alone: a process that changes its phase stays
\* informed if it was, or if it has just read the file.
LEMMA StaysInformed ==
  ASSUME TurnsInv, NEW p \in Pids, NEW f \in Frames, Moves(p, f), sole' = sole, Informed(f)
  PROVE  (\A q \in Pids : Informed(proc[q]))'
  BY DEF TurnsInv, TypeInv, Moves, Informed

\* A publish by a process that is informed leaves everybody informed.
LEMMA PublishInforms ==
  ASSUME TurnsInv, NEW p \in Pids, NEW frame \in Frames, Publish(p, frame),
         frame.phase \in {"leaving", "tearing"} => Farewell(frame),
         frame.phase # "off", Informed(frame), sole' = sole
  PROVE  TurnsLoseNothing' /\ (\A q \in Pids : Informed(proc[q]))'
<1>1. /\ file'.data = frame.data
      /\ \A q \in Pids :
           LET f == IF q = p THEN frame ELSE proc[q]
           IN  /\ proc'[q].data = f.data
               /\ proc'[q].phase = IF f.phase = "tearing" THEN "closing" ELSE f.phase
               /\ f.phase # "tearing" => proc'[q] = f
  BY PublishFrames DEF TurnsInv
<1>2. TurnsLoseNothing'
  BY <1>1 DEF TurnsLoseNothing, Informed
<1>3. ASSUME NEW q \in Pids PROVE Informed(proc[q])'
  <2> DEFINE f == IF q = p THEN frame ELSE proc[q]
  <2>1. Informed(f)
    BY DEF TurnsInv
  <2>2. /\ proc'[q].data = f.data
        /\ proc'[q].phase = IF f.phase = "tearing" THEN "closing" ELSE f.phase
        /\ f.phase # "tearing" => proc'[q] = f
    BY <1>1
  <2> HIDE DEF f
  <2> QED
    BY <2>1, <2>2 DEF Informed
<1> QED
  BY <1>2, <1>3

LEMMA TurnsStep == ASSUME TurnsInv, NEW p \in Pids, Acts(p) PROVE TurnsInv'
<1>1. TypeInv /\ TypeInv' /\ Informed(proc[p]) /\ (~file.torn => sole \subseteq file.data)
  BY TypeStep DEF TurnsInv, TurnsLoseNothing
<1> DEFINE All == TurnsLoseNothing /\ \A q \in Pids : Informed(proc[q])
<1> SUFFICES All'
  BY <1>1 DEF TurnsInv
<1>2. CASE Boot(p)
  <2>1. PICK f \in Frames : Moves(p, f) /\ f.phase = "claiming" /\ f.data = file.data
    BY <1>1, <1>2, BootMoves
  <2>2. Informed(f)
    BY <1>1, <1>2, <2>1 DEF Boot, Informed
  <2> QED
    BY <1>2, <2>1, <2>2, StaysInformed DEF Boot, TurnsInv, TurnsLoseNothing
<1>3. CASE Claim(p)
  <2>1. Publish(p, Claimant(p)) /\ sole' = sole /\ proc[p].phase = "claiming"
    BY <1>3 DEF Claim, Claimant
  <2>2. /\ Claimant(p) \in Frames /\ Claimant(p).phase = "running"
        /\ Claimant(p).data = proc[p].data
    BY <1>1, ClaimFrame
  <2>3. Informed(Claimant(p))
    BY <1>1, <2>1, <2>2 DEF Informed
  <2> QED
    BY <2>1, <2>2, <2>3, PublishInforms
<1>4. CASE Write(p)
  <2>1. Publish(p, Writer(p)) /\ proc[p].phase # "off"
    BY <1>4 DEF Write, Writer, Leaving
  <2>2. /\ Writer(p) \in Frames
        /\ Writer(p).phase = proc[p].phase /\ Writer(p).copy = proc[p].copy
        /\ Writer(p).data = proc[p].data \cup {writes + 1}
        /\ Writer(p).phase \in {"leaving", "tearing"} => Farewell(Writer(p))
    BY <1>1, WriteFrame
  <2>3. CASE Mounted = {p} /\ ~Leaving(p)
    \* Nobody else is there to publish anything older.
    <3>1. proc[p].phase = "running" /\ sole' = sole \cup {writes + 1}
      BY <1>4, <2>3 DEF Write
    <3>2. \A q \in Pids : q # p => proc[q].phase = "off"
      BY <2>3 DEF Mounted
    <3>3. /\ file'.data = Writer(p).data
          /\ proc'[p] = Writer(p)
          /\ \A q \in Pids : q # p => proc'[q] = proc[q]
      BY <1>1, <2>1, <2>2, <3>1, <3>2, PublishFrames
    <3>4. sole' \subseteq Writer(p).data
      BY <1>1, <2>1, <2>2, <3>1 DEF Informed
    <3>5. ASSUME NEW q \in Pids PROVE Informed(proc[q])'
      BY <2>2, <3>1, <3>2, <3>3, <3>4 DEF Informed
    <3> QED
      BY <3>3, <3>4, <3>5 DEF TurnsLoseNothing
  <2>4. CASE ~(Mounted = {p} /\ ~Leaving(p))
    <3>1. sole' = sole
      BY <1>4, <2>4 DEF Write
    <3>2. Informed(Writer(p))
      BY <1>1, <2>1, <2>2 DEF Informed
    <3> QED
      BY <2>1, <2>2, <3>1, <3>2, PublishInforms
  <2> QED
    BY <2>3, <2>4
<1>5. CASE ClaimFails(p) \/ Probe(p)
  <2>1. PICK f \in Frames : Steps(p, f, "running")
    BY <1>1, <1>5, PhaseStep, ProbeStep DEF ClaimFails, Phases
  <2>2. Moves(p, f) /\ Informed(f)
    BY <1>1, <1>5, <2>1 DEF Steps, ClaimFails, Probe, Informed
  <2>3. sole' = sole /\ file' = file
    BY <1>5 DEF ClaimFails, Probe
  <2> QED
    BY <2>2, <2>3, StaysInformed DEF TurnsInv, TurnsLoseNothing
<1>6. CASE GoodbyeRead(p)
  <2>1. PICK f \in Frames :
          \/ ~file.torn /\ Steps(p, f, "leaving") /\ f.copy.data = file.data
          \/ Steps(p, f, "closing")
    BY <1>1, <1>6, GoodbyeReadStep
  <2>2. Moves(p, f) /\ Informed(f)
    BY <1>1, <1>6, <2>1 DEF Steps, GoodbyeRead, Informed
  <2>3. sole' = sole /\ file' = file
    BY <1>6 DEF GoodbyeRead
  <2> QED
    BY <2>2, <2>3, StaysInformed DEF TurnsInv, TurnsLoseNothing
<1>7. CASE GoodbyeTruncate(p)
  <2>1. PICK f \in Frames : Steps(p, f, "tearing") /\ f.copy = proc[p].copy
    BY <1>1, <1>7, PhaseStep DEF GoodbyeTruncate, Phases
  <2>2. Moves(p, f) /\ Informed(f)
    BY <1>1, <1>7, <2>1 DEF Steps, GoodbyeTruncate, Informed
  <2>3. sole' = sole /\ file'.torn
    BY <1>1, <1>7 DEF GoodbyeTruncate, TypeInv, Docs
  <2> QED
    BY <2>2, <2>3, StaysInformed DEF TurnsLoseNothing
<1>8. CASE GoodbyeWrite(p) \/ GoodbyeFails(p)
  <2>1. PICK f \in Frames : Steps(p, f, "closing")
    BY <1>1, <1>8, ClosingStep
  <2>2. Moves(p, f) /\ Informed(f)
    BY <1>1, <1>8, <2>1 DEF Steps, GoodbyeWrite, GoodbyeFails, Informed
  <2>3. sole' = sole
    BY <1>8 DEF GoodbyeWrite, GoodbyeFails
  <2>4. TurnsLoseNothing'
    BY <1>1, <1>8, <2>3 DEF GoodbyeWrite, GoodbyeFails, TurnsLoseNothing, Informed
  <2> QED
    BY <2>2, <2>3, <2>4, StaysInformed
<1>9. CASE Close(p) \/ Kill(p)
  <2>1. Moves(p, Off) /\ Off \in Frames /\ Informed(Off)
    BY <1>1, <1>9, OffTyped DEF Close, Kill, Moves, Off, Informed
  <2>2. sole' = sole /\ file' = file
    BY <1>9 DEF Close, Kill
  <2> QED
    BY <2>1, <2>2, StaysInformed DEF TurnsInv, TurnsLoseNothing
<1>10. CASE Exit(p) \/ ReusePid(p)
  BY <1>10 DEF Exit, ReusePid, TurnsInv, TurnsLoseNothing, Informed
<1> QED
  BY <1>2, <1>3, <1>4, <1>5, <1>6, <1>7, <1>8, <1>9, <1>10 DEF Acts

\* Processes that take turns lose nothing: a fact that was written while no
\* other process was mounted is in the memory of everyone mounted since, in
\* every document read for a goodbye, and in every file that can be read.
THEOREM TurnsKeepEverything == Spec => []TurnsLoseNothing
<1>1. Init => TurnsInv
  BY TypeStarts DEF Init, TurnsInv, TurnsLoseNothing, Informed, Off
<1>2. ASSUME TurnsInv, [Next]_vars PROVE TurnsInv'
  <2>1. CASE Next
    BY <1>2, <2>1, TurnsStep DEF Next, Acts
  <2>2. CASE UNCHANGED vars
    BY <1>2, <2>2 DEF vars, counters, TurnsInv, TypeInv, TurnsLoseNothing, Informed
  <2> QED
    BY <1>2, <2>1, <2>2
<1>3. TurnsInv => TurnsLoseNothing
  BY DEF TurnsInv
<1> QED
  BY <1>1, <1>2, <1>3, PTL DEF Spec

-----------------------------------------------------------------------------
(* Restarts stay silent: whose stamp may be found open.                    *)

\* What a process that is not failing is sure of: its pid is its own, and it
\* publishes its own stamp.
Settled(p) ==
  /\ proc[p].phase # "off" => p \in alive /\ p \notin strange
  /\ faults = 0 /\ proc[p].phase \notin {"off", "claiming"} =>
       proc[p].owner = Stamp(p, proc[p].boot)

\* The boot whose stamp this is has yet to read for its goodbye, or may still
\* be at it ...
Working(stamp) ==
  /\ proc[stamp.pid].phase \in {"running", "leaving", "tearing"}
  /\ proc[stamp.pid].boot = stamp.boot

\* ... or it was killed, and its pid with it, unless somebody else was given
\* the pid; a later boot will claim the medium first.
Killed(stamp) ==
  /\ kills > 0
  /\ \/ stamp.pid \notin alive
     \/ stamp.pid \in strange
     \/ proc[stamp.pid].phase = "claiming"

\* An open stamp on a file that can be read.
OpenStamp(stamp) ==
  faults = 0 /\ ~file.torn /\ file.owner = stamp /\ ~stamp.closed

Explained ==
  \A stamp \in Stamps :
    OpenStamp(stamp) => Working(stamp) \/ stamp.boot \in late \/ Killed(stamp)

SilentInv == TypeInv /\ (\A p \in Pids : Settled(p)) /\ Explained

LEMMA StampFields ==
  ASSUME NEW p \in Pids, NEW b \in Nat
  PROVE  /\ Stamp(p, b) \in Stamps
         /\ Stamp(p, b).pid = p /\ Stamp(p, b).boot = b /\ ~Stamp(p, b).closed
  BY DEF Stamp, Stamps

LEMMA StampPid == ASSUME NEW stamp \in Stamps PROVE stamp.pid \in Pids /\ stamp.boot \in Nat
  BY DEF Stamps

\* A publish leaves the stamp of its own boot, which is at work or late.
LEMMA PublishExplained ==
  ASSUME SilentInv, NEW p \in Pids, NEW frame \in Frames, Publish(p, frame),
         frame.phase \in {"leaving", "tearing"} => Farewell(frame),
         frame.boot = proc[p].boot, faults' = faults,
         faults = 0 => frame.owner = Stamp(p, frame.boot),
         frame.phase = "running" \/ frame.boot \in late'
  PROVE  Explained'
<1> SUFFICES ASSUME NEW stamp \in Stamps, OpenStamp(stamp)'
             PROVE  Working(stamp)' \/ stamp.boot \in late'
  BY DEF Explained
<1>1. /\ file'.owner = frame.owner
      /\ proc'[p].boot = frame.boot
      /\ proc'[p].phase = IF frame.phase = "tearing" THEN "closing" ELSE frame.phase
  BY PublishFrames DEF SilentInv
<1>2. stamp = Stamp(p, frame.boot)
  BY <1>1 DEF OpenStamp
<1>3. stamp.pid = p /\ stamp.boot = frame.boot
  BY <1>2, StampFields DEF Frames
<1> QED
  BY <1>1, <1>3 DEF Working

\* After a publish everybody still holds the stamp he held.
LEMMA PublishSettled ==
  ASSUME SilentInv, NEW p \in Pids, NEW frame \in Frames, Publish(p, frame),
         frame.phase \in {"leaving", "tearing"} => Farewell(frame),
         frame.boot = proc[p].boot, proc[p].phase # "off", frame.phase # "off",
         faults' = faults, alive' = alive, strange' = strange,
         faults = 0 /\ frame.phase # "claiming" => frame.owner = Stamp(p, frame.boot)
  PROVE  \A q \in Pids : Settled(q)'
<1> SUFFICES ASSUME NEW q \in Pids PROVE Settled(q)'
  OBVIOUS
<1> DEFINE f == IF q = p THEN frame ELSE proc[q]
<1>1. /\ proc'[q].boot = f.boot /\ proc'[q].owner = f.owner
      /\ proc'[q].phase = IF f.phase = "tearing" THEN "closing" ELSE f.phase
  BY PublishFrames DEF SilentInv
<1>2. /\ f.phase # "off" => q \in alive /\ q \notin strange
      /\ faults = 0 /\ f.phase \notin {"off", "claiming"} => f.owner = Stamp(q, f.boot)
  BY DEF SilentInv, Settled
<1> HIDE DEF f
<1> QED
  BY <1>1, <1>2 DEF Settled

\* A process that changes its phase alone.
LEMMA MoveSettled ==
  ASSUME SilentInv, NEW p \in Pids, NEW f \in Frames, Moves(p, f),
         alive \subseteq alive', strange' = strange,
         faults' = 0 => faults = 0,
         f.phase # "off" => p \in alive' /\ p \notin strange,
         faults' = 0 /\ f.phase \notin {"off", "claiming"} => f.owner = Stamp(p, f.boot)
  PROVE  \A q \in Pids : Settled(q)'
<1>1. /\ proc'[p] = f
      /\ \A q \in Pids : q # p => proc'[q] = proc[q]
  BY DEF Moves, SilentInv, TypeInv
<1> QED
  BY <1>1 DEF SilentInv, Settled

LEMMA MoveExplained ==
  ASSUME SilentInv, NEW p \in Pids, NEW f \in Frames, Moves(p, f),
         alive' = alive, strange' = strange, late' = late, kills' = kills,
         faults' = faults, file' = file,
         f.boot = proc[p].boot,
         proc[p].phase # "claiming" \/ f.phase = "claiming" \/ faults' > 0,
         f.phase \in {"running", "leaving", "tearing"}
           \/ \A stamp \in Stamps : OpenStamp(stamp) /\ Working(stamp) => stamp.pid # p
  PROVE  Explained'
<1>1. /\ proc'[p] = f
      /\ \A q \in Pids : q # p => proc'[q] = proc[q]
  BY DEF Moves, SilentInv, TypeInv
<1> SUFFICES ASSUME NEW stamp \in Stamps, OpenStamp(stamp)'
             PROVE  Working(stamp)' \/ stamp.boot \in late' \/ Killed(stamp)'
  BY DEF Explained
<1>2. OpenStamp(stamp)
  BY DEF OpenStamp
<1>3. Working(stamp) \/ stamp.boot \in late \/ Killed(stamp)
  BY <1>2 DEF SilentInv, Explained
<1>4. stamp.pid \in Pids
  BY StampPid
<1>5. CASE Working(stamp)
  BY <1>1, <1>2, <1>4, <1>5 DEF Working
<1>6. CASE Killed(stamp)
  BY <1>1, <1>2, <1>4, <1>6 DEF Killed, OpenStamp
<1> QED
  BY <1>3, <1>5, <1>6

\* What the mount and the end of a process do to the stamp on the file.
LEMMA BootExplained ==
  ASSUME SilentInv, NEW p \in Pids, Boot(p)
  PROVE  Explained' /\ \A q \in Pids : Settled(q)'
<1>1. PICK f \in Frames : Moves(p, f) /\ f.phase = "claiming"
  BY BootMoves DEF SilentInv
<1>2. /\ proc'[p] = f
      /\ \A q \in Pids : q # p => proc'[q] = proc[q]
  BY <1>1 DEF Moves, SilentInv, TypeInv
<1>3. \A q \in Pids : Settled(q)'
  BY <1>1, MoveSettled DEF Boot
<1> SUFFICES ASSUME NEW stamp \in Stamps, OpenStamp(stamp)'
             PROVE  Working(stamp)' \/ stamp.boot \in late' \/ Killed(stamp)'
  BY <1>3 DEF Explained
<1>4. OpenStamp(stamp) /\ stamp.pid \in Pids
  BY StampPid DEF Boot, OpenStamp
<1>5. Working(stamp) \/ stamp.boot \in late \/ Killed(stamp)
  BY <1>4 DEF SilentInv, Explained
<1>6. CASE Working(stamp)
  BY <1>2, <1>4, <1>6 DEF Boot, Working
<1>7. CASE Killed(stamp)
  BY <1>1, <1>2, <1>4, <1>7 DEF Boot, Killed
<1> QED
  BY <1>5, <1>6, <1>7 DEF Boot

LEMMA EndExplained ==
  ASSUME SilentInv, NEW p \in Pids, Exit(p) \/ Kill(p) \/ ReusePid(p)
  PROVE  Explained' /\ \A q \in Pids : Settled(q)'
<1>1. \A q \in Pids : q # p => proc'[q] = proc[q]
  BY DEF Exit, Kill, ReusePid, Mounted, SilentInv, TypeInv
<1>2. \/ Exit(p) \/ ReusePid(p)
      \/ Kill(p) /\ proc'[p] = Off /\ kills' = kills + 1 /\ kills' > 0
  BY DEF Kill, SilentInv, TypeInv
<1>3. \A q \in Pids : Settled(q)
  BY DEF SilentInv
<1>4. ASSUME NEW q \in Pids PROVE Settled(q)'
  BY <1>1, <1>2, <1>3 DEF Exit, Kill, ReusePid, Settled, Off, counters
<1> SUFFICES ASSUME NEW stamp \in Stamps, OpenStamp(stamp)'
             PROVE  Working(stamp)' \/ stamp.boot \in late' \/ Killed(stamp)'
  BY <1>4 DEF Explained
<1>5. OpenStamp(stamp) /\ stamp.pid \in Pids
  BY StampPid DEF Exit, Kill, ReusePid, OpenStamp, counters
<1>6. Working(stamp) \/ stamp.boot \in late \/ Killed(stamp)
  BY <1>5 DEF SilentInv, Explained
<1>7. late' = late /\ strange \subseteq strange'
  BY DEF Exit, Kill, ReusePid
<1>8. CASE Working(stamp)
  BY <1>1, <1>2, <1>5, <1>8 DEF Exit, Kill, ReusePid, Working, Killed
<1>9. CASE Killed(stamp)
  <2>1. kills' > 0
    BY <1>2, <1>9 DEF Exit, Kill, ReusePid, Killed, counters
  <2>2. CASE stamp.pid \in strange
    BY <2>1, <2>2, <1>7 DEF Killed
  <2>3. CASE stamp.pid \notin alive
    BY <2>1, <2>3 DEF Exit, Kill, ReusePid, Killed
  <2>4. CASE proc[stamp.pid].phase = "claiming"
    BY <2>1, <2>4, <1>1, <1>2, <1>5 DEF Exit, Kill, ReusePid, Killed
  <2> QED
    BY <1>9, <2>2, <2>3, <2>4 DEF Killed
<1> QED
  BY <1>6, <1>7, <1>8, <1>9

LEMMA SilentStep == ASSUME SilentInv, NEW p \in Pids, Acts(p) PROVE SilentInv'
<1>1. TypeInv /\ TypeInv' /\ Settled(p) /\ proc[p] \in Frames
  BY TypeStep DEF SilentInv, TypeInv
<1> DEFINE All == Explained /\ \A q \in Pids : Settled(q)
<1> SUFFICES All'
  BY <1>1 DEF SilentInv
<1>2. CASE Boot(p)
  BY <1>2, BootExplained
<1>3. CASE Exit(p) \/ Kill(p) \/ ReusePid(p)
  BY <1>3, EndExplained
<1>4. CASE Claim(p)
  <2>1. Publish(p, Claimant(p)) /\ proc[p].phase = "claiming"
    BY <1>4 DEF Claim, Claimant
  <2>2. /\ Claimant(p) \in Frames /\ Claimant(p).phase = "running"
        /\ Claimant(p).boot = proc[p].boot
        /\ Claimant(p).owner = Stamp(p, Claimant(p).boot)
    BY <1>1, ClaimFrame
  <2>3. UNCHANGED <<alive, strange, faults>>
    BY <1>4 DEF Claim, counters
  <2> HIDE DEF All
  <2>4. Explained'
    BY <2>1, <2>2, <2>3, PublishExplained
  <2>5. \A q \in Pids : Settled(q)'
    BY <2>1, <2>2, <2>3, PublishSettled
  <2> QED
    BY <2>4, <2>5 DEF All
<1>5. CASE Write(p)
  <2>1. Publish(p, Writer(p)) /\ proc[p].phase \in {"running", "leaving", "tearing", "closing"}
    BY <1>5 DEF Write, Writer, Leaving
  <2>2. /\ Writer(p) \in Frames /\ Writer(p).phase = proc[p].phase
        /\ Writer(p).boot = proc[p].boot /\ Writer(p).owner = proc[p].owner
        /\ Writer(p).phase \in {"leaving", "tearing"} => Farewell(Writer(p))
    BY <1>1, WriteFrame
  <2>3. UNCHANGED <<alive, strange, faults>>
    BY <1>5 DEF Write
  <2>4. faults = 0 => Writer(p).owner = Stamp(p, Writer(p).boot)
    BY <1>1, <2>1, <2>2 DEF Settled
  <2>5. Writer(p).phase = "running" \/ Writer(p).boot \in late'
    BY <1>5, <2>1, <2>2 DEF Write, Leaving
  <2> HIDE DEF All
  <2>6. Explained'
    BY <2>1, <2>2, <2>3, <2>4, <2>5, PublishExplained
  <2>7. \A q \in Pids : Settled(q)'
    BY <2>1, <2>2, <2>3, <2>4, PublishSettled
  <2> QED
    BY <2>6, <2>7 DEF All
<1>6. CASE ClaimFails(p)
  <2>1. PICK f \in Frames : Steps(p, f, "running")
    BY <1>1, <1>6, PhaseStep DEF ClaimFails, Phases
  <2>2. faults' # 0
    BY <1>1, <1>6 DEF ClaimFails, TypeInv
  <2>3. \A q \in Pids : Settled(q)'
    BY <1>1, <1>6, <2>1, <2>2, MoveSettled DEF ClaimFails, Steps, Settled
  <2> QED
    BY <2>2, <2>3 DEF Explained, OpenStamp
<1>7. CASE Probe(p)
  <2>1. PICK f \in Frames : Steps(p, f, "running")
    BY <1>1, <1>7, ProbeStep
  <2>2. UNCHANGED <<file, alive, strange, late, faults, kills>> /\ proc[p].phase = "running"
    BY <1>7 DEF Probe, counters
  <2>3. \A q \in Pids : Settled(q)'
    BY <1>1, <2>1, <2>2, MoveSettled DEF Steps, Settled
  <2>4. Explained'
    BY <2>1, <2>2, MoveExplained DEF Steps
  <2> QED
    BY <2>3, <2>4
<1>8. CASE GoodbyeRead(p)
  <2>1. PICK f \in Frames :
          \/ Steps(p, f, "leaving")
          \/ (file.torn \/ ~ClosesOwn(p)) /\ Steps(p, f, "closing")
    BY <1>1, <1>8, GoodbyeReadStep
  <2>2. UNCHANGED <<file, alive, strange, late, faults, kills>> /\ proc[p].phase = "running"
    BY <1>8 DEF GoodbyeRead, counters
  <2>3. \A q \in Pids : Settled(q)'
    BY <1>1, <2>1, <2>2, MoveSettled DEF Steps, Settled
  <2>4. \/ f.phase = "leaving"
        \/ \A stamp \in Stamps : OpenStamp(stamp) /\ Working(stamp) => stamp.pid # p
    \* An open stamp of its own would have been closed.
    <3>1. CASE (file.torn \/ ~ClosesOwn(p)) /\ Steps(p, f, "closing")
      <4>1. None \notin Stamps
        BY CrossProcessAssumption DEF Stamps
      <4> QED
        BY <3>1, <4>1 DEF OpenStamp, Working, ClosesOwn
    <3>2. CASE Steps(p, f, "leaving")
      BY <3>2 DEF Steps
    <3> QED
      BY <2>1, <3>1, <3>2
  <2>5. Explained'
    BY <2>1, <2>2, <2>4, MoveExplained DEF Steps
  <2> QED
    BY <2>3, <2>5
<1>9. CASE GoodbyeTruncate(p)
  <2>1. PICK f \in Frames : Steps(p, f, "tearing")
    BY <1>1, <1>9, PhaseStep DEF GoodbyeTruncate, Phases
  <2>2. /\ UNCHANGED <<alive, strange, late, faults, kills>> /\ proc[p].phase = "leaving"
        /\ file'.torn
    BY <1>1, <1>9 DEF GoodbyeTruncate, counters, TypeInv, Docs
  <2>3. \A q \in Pids : Settled(q)'
    BY <1>1, <2>1, <2>2, MoveSettled DEF Steps, Settled
  <2> QED
    BY <2>2, <2>3 DEF Explained, OpenStamp
<1>10. CASE GoodbyeWrite(p)
  <2>1. PICK f \in Frames : Steps(p, f, "closing")
    BY <1>1, <1>10, ClosingStep
  <2>2. /\ UNCHANGED <<alive, strange, late, faults, kills>> /\ proc[p].phase = "tearing"
        /\ file' = proc[p].copy
    BY <1>10 DEF GoodbyeWrite, counters
  <2>3. file'.owner.closed
    BY <1>1, <2>2 DEF TypeInv, Farewell
  <2>4. \A q \in Pids : Settled(q)'
    BY <1>1, <2>1, <2>2, MoveSettled DEF Steps, Settled
  <2> QED
    BY <2>3, <2>4 DEF Explained, OpenStamp
<1>11. CASE GoodbyeFails(p)
  <2>1. PICK f \in Frames : Steps(p, f, "closing")
    BY <1>1, <1>11, ClosingStep
  <2>2. /\ faults' # 0 /\ UNCHANGED <<alive, strange>> /\ proc[p].phase = "leaving"
    BY <1>1, <1>11 DEF GoodbyeFails, TypeInv
  <2>3. \A q \in Pids : Settled(q)'
    BY <1>1, <2>1, <2>2, MoveSettled DEF Steps, Settled
  <2> QED
    BY <2>2, <2>3 DEF Explained, OpenStamp
<1>12. CASE Close(p)
  <2>1. Moves(p, Off) /\ Off \in Frames /\ Off.phase = "off"
    BY <1>1, <1>12, OffTyped DEF Close, Moves, Off
  <2>2. UNCHANGED <<file, alive, strange, late, faults, kills>> /\ proc[p].phase = "closing"
    BY <1>12 DEF Close, counters
  <2>3. \A q \in Pids : Settled(q)'
    BY <1>1, <2>1, <2>2, MoveSettled
  <2>4. /\ proc'[p].phase = "off"
        /\ \A q \in Pids : q # p => proc'[q] = proc[q]
    BY <1>1, <2>1 DEF Moves, TypeInv
  <2>5. Explained'
    BY <2>2, <2>4, StampPid DEF SilentInv, Explained, OpenStamp, Working, Killed
  <2> QED
    BY <2>3, <2>5
<1> QED
  BY <1>2, <1>3, <1>4, <1>5, <1>6, <1>7, <1>8, <1>9, <1>10, <1>11, <1>12 DEF Acts

\* Only a mount and a probe raise an alarm, and the stamp they judged is open
\* and of a live pid.
LEMMA AlarmSeen ==
  ASSUME TypeInv, NEW p \in Pids, NEW q \in Pids, Acts(p), Alarmed(q)
  PROVE  /\ q = p /\ (Boot(p) \/ Probe(p)) /\ ~file.torn
         /\ file.owner \in Stamps /\ ~file.owner.closed /\ file.owner.pid \in alive
<1>1. /\ proc[p] \in Frames /\ proc[q] \in Frames /\ proc \in [Pids -> Frames]
      /\ file.owner \in Stamps \cup {None}
  BY DEF TypeInv, Docs
<1>2. proc[q].alarms \in Nat
  BY <1>1 DEF Frames
<1>3. ASSUME NEW f \in Frames, Moves(p, f), f.alarms \in {0, proc[p].alarms} PROVE FALSE
  BY <1>1, <1>2, <1>3 DEF Alarmed, Moves
<1>4. ASSUME NEW frame \in Frames, Publish(p, frame), frame.alarms = proc[p].alarms,
             frame.phase \in {"leaving", "tearing"} => Farewell(frame)
      PROVE  FALSE
  <2>1. proc'[q].alarms = IF q = p THEN frame.alarms ELSE proc[q].alarms
    BY <1>4, PublishFrames
  <2> QED
    BY <1>2, <1>4, <2>1 DEF Alarmed
<1>5. ~Claim(p)
  <2>1. Claim(p) => Publish(p, Claimant(p))
    BY DEF Claim, Claimant
  <2> QED
    BY <1>4, <2>1, ClaimFrame
<1>6. ~Write(p)
  <2>1. Write(p) => Publish(p, Writer(p))
    BY DEF Write, Writer
  <2> QED
    BY <1>4, <2>1, WriteFrame
<1>7. ~ClaimFails(p) /\ ~GoodbyeTruncate(p)
  <2>1. ClaimFails(p) \/ GoodbyeTruncate(p) =>
          \E phase \in Phases : proc' = [proc EXCEPT ![p].phase = phase]
    BY DEF ClaimFails, GoodbyeTruncate, Phases
  <2> QED
    BY <1>3, <2>1, PhaseStep DEF Steps
<1>8. ~GoodbyeRead(p)
  BY <1>3, GoodbyeReadStep DEF Steps
<1>9. ~GoodbyeWrite(p) /\ ~GoodbyeFails(p)
  BY <1>3, ClosingStep DEF Steps
<1>10. ~Close(p) /\ ~Kill(p)
  <2>1. Close(p) \/ Kill(p) => Moves(p, Off) /\ Off.alarms = 0
    BY DEF Close, Kill, Moves, Off
  <2> QED
    BY <1>3, <2>1, OffTyped
<1>11. ~Exit(p) /\ ~ReusePid(p)
  BY <1>2 DEF Exit, ReusePid, Alarmed
<1>12. ASSUME NEW own, NEW n \in Nat, Judge(own, file.owner, n) > n
       PROVE  file.owner \in Stamps /\ ~file.owner.closed /\ file.owner.pid \in alive
  BY <1>1, <1>12 DEF Judge, PidAlive
<1>13. CASE Boot(p)
  <2>1. PICK f \in Frames : Moves(p, f) /\ f.alarms = Judge(boots + 1, file.owner, 0)
    BY <1>13, BootMoves
  <2>2. /\ \A r \in Pids : r # p => proc'[r] = proc[r]
        /\ proc'[p] = f
    BY <1>1, <2>1 DEF Moves
  <2>3. q = p
    BY <1>2, <2>2 DEF Alarmed
  <2>4. f.alarms > 0 /\ ~file.torn
    BY <1>2, <1>13, <2>2, <2>3 DEF Alarmed, Boot, Frames
  <2> QED
    BY <1>12, <1>13, <2>1, <2>3, <2>4
<1>14. CASE Probe(p)
  <2>1. PICK f \in Frames :
          Moves(p, f) /\ f.alarms = Judge(proc[p].boot, file.owner, proc[p].alarms)
    BY <1>14, ProbeStep DEF Steps
  <2>2. /\ \A r \in Pids : r # p => proc'[r] = proc[r]
        /\ proc'[p] = f
    BY <1>1, <2>1 DEF Moves
  <2>3. q = p
    BY <1>2, <2>2 DEF Alarmed
  <2>4. f.alarms > proc[p].alarms /\ ~file.torn
    BY <1>14, <2>2, <2>3 DEF Alarmed, Probe
  <2> QED
    BY <1>2, <1>12, <1>14, <2>1, <2>3, <2>4
<1> QED
  BY <1>5, <1>6, <1>7, <1>8, <1>9, <1>10, <1>11, <1>13, <1>14 DEF Acts

LEMMA AlarmExplained ==
  ASSUME SilentInv, NEW p \in Pids, NEW q \in Pids, Acts(p), Alarmed(q)
  PROVE  \/ Writing(file.owner.boot)
         \/ file.owner.boot \in late
         \/ faults > 0
         \/ kills > 0 /\ file.owner.pid \in strange \cup {r \in Pids : proc'[r].phase # "off"}
<1>1. /\ Boot(p) \/ Probe(p)
      /\ ~file.torn
      /\ file.owner \in Stamps /\ ~file.owner.closed /\ file.owner.pid \in alive
  BY AlarmSeen DEF SilentInv
<1>2. PICK stamp \in Stamps : stamp = file.owner
  BY <1>1
<1>3. faults > 0 \/ OpenStamp(stamp)
  BY <1>1, <1>2 DEF OpenStamp, SilentInv, TypeInv
<1>4. CASE OpenStamp(stamp)
  <2>1. Working(stamp) \/ stamp.boot \in late \/ Killed(stamp)
    BY <1>4 DEF SilentInv, Explained
  <2>2. stamp.pid \in Pids
    BY StampPid
  <2>3. Working(stamp) => Writing(file.owner.boot)
    BY <1>2, <2>2 DEF Working, Writing, Mounted
  <2>4. CASE Killed(stamp)
    <3>1. PICK f \in Frames : Moves(p, f) /\ f.phase # "off"
      BY <1>1, BootMoves, ProbeStep DEF Steps, SilentInv
    <3>2. proc[stamp.pid].phase = "claiming" => proc'[stamp.pid].phase # "off"
      BY <2>2, <3>1 DEF Moves, SilentInv, TypeInv
    <3> QED
      BY <1>1, <1>2, <2>2, <2>4, <3>2 DEF Killed
  <2> QED
    BY <1>2, <2>1, <2>3, <2>4
<1> QED
  BY <1>3, <1>4

\* "Both restart cases stay silent": without a failed claim or goodbye, an
\* open stamp on a file that can be read is of a boot that is still at work,
\* or that published behind its own goodbye, or that was killed; and the pid
\* of a killed boot answers again only if somebody else was given it.  Hence
\* every alarm of a mount or a probe (judge) is about one of these.
THEOREM RestartsStaySilent == Spec => SilentOnRestart
<1>1. Init => SilentInv
  <2>1. ASSUME Init PROVE Explained
    <3>1. None \notin Stamps /\ file.owner = None
      BY <2>1, CrossProcessAssumption DEF Init, Stamps
    <3> QED
      BY <3>1 DEF Explained, OpenStamp
  <2> QED
    BY <2>1, TypeStarts DEF Init, SilentInv, Settled, Off
<1>2. ASSUME SilentInv, [Next]_vars PROVE SilentInv'
  <2>1. CASE Next
    BY <1>2, <2>1, SilentStep DEF Next, Acts
  <2>2. CASE UNCHANGED vars
    BY <1>2, <2>2 DEF vars, counters, SilentInv, TypeInv, Settled, Explained, OpenStamp,
                      Working, Killed
  <2> QED
    BY <1>2, <2>1, <2>2
<1> DEFINE Silent ==
  \A p \in Pids : Alarmed(p) =>
       \/ Writing(file.owner.boot)
       \/ file.owner.boot \in late
       \/ faults > 0
       \/ kills > 0 /\ file.owner.pid \in strange \cup {q \in Pids : proc'[q].phase # "off"}
<1>3. ASSUME SilentInv, [Next]_vars PROVE [Silent]_vars
  <2>1. CASE Next
    <3>1. PICK p \in Pids : Acts(p)
      BY <2>1 DEF Next, Acts
    <3> QED
      BY <1>3, <3>1, AlarmExplained
  <2> QED
    BY <1>3, <2>1
<1> QED
  BY <1>1, <1>2, <1>3, PTL DEF Spec, SilentOnRestart

=============================================================================
