---------------------------- MODULE CrossProcess -----------------------------
(***************************************************************************)
(* Several processes on one storage root: src/store/cross-process.ts, as   *)
(* src/store/index.ts mounts and disposes it for the host medium.          *)
(*                                                                         *)
(* Each process holds the unit file in memory and publishes the whole of   *)
(* it with every write.  The global slot of the file holds the stamp of    *)
(* its owner: a boot claims it when it mounts, reads it back in its probes *)
(* and closes it in a goodbye that rewrites the file behind the domain's   *)
(* back.  A boot that meets an open stamp of another boot whose process is *)
(* alive raises an alarm, once.                                            *)
(***************************************************************************)
EXTENDS Naturals, FiniteSets

CONSTANTS
  Pids,       \* process ids
  MaxBoots,   \* bound: mounts of the plugin
  MaxWrites,  \* bound: writes of the domain
  MaxFaults,  \* bound: claims and goodbyes that fail
  MaxKills,   \* bound: processes that die without a goodbye
  MaxReuses,  \* bound: pids given to an unrelated process
  None

ASSUME CrossProcessAssumption ==
  /\ {MaxBoots, MaxWrites, MaxFaults, MaxKills, MaxReuses} \subseteq Nat
  /\ None \notin [boot: Nat, pid: Pids, closed: BOOLEAN]

VARIABLES
  file,     \* the unit file: [owner, data, torn]
  proc,     \* per pid: [phase, boot, owner, data, copy, alarms]
  alive,    \* pids of live processes
  strange,  \* pids that belong to an unrelated process
  boots, writes, faults, kills,
  late,     \* history variable: boots that published after they read for their goodbye
  sole      \* history variable: facts written while nobody else was there to undo it

vars == <<file, proc, alive, strange, boots, writes, faults, kills, late, sole>>
counters == <<boots, writes, faults, kills>>

\* phase: off, claiming, running, leaving (the goodbye has read the file),
\* tearing (it has truncated it), closing.  owner and data: the domain's state
\* in memory.  copy: the document the goodbye read.
Off == [phase |-> "off", boot |-> 0, owner |-> None, data |-> {}, copy |-> None, alarms |-> 0]

Mounted == {p \in Pids : proc[p].phase # "off"}

Stamp(p, b) == [boot |-> b, pid |-> p, closed |-> FALSE]

\* pidAlive
PidAlive(p) == p \in alive

\* judge: the alarms of a boot once it has looked at a stamp.
Judge(own, stamp, alarms) ==
  IF /\ stamp # None
     /\ stamp.boot # own
     /\ ~stamp.closed
     /\ PidAlive(stamp.pid)
     /\ alarms = 0
  THEN alarms + 1 ELSE alarms

\* The host medium's publish: a new file takes the name of the old one, and a
\* goodbye that is still writing the old one writes a file without a name.
Publish(p, frame) ==
  /\ file' = [owner |-> frame.owner, data |-> frame.data, torn |-> FALSE]
  /\ proc' = [q \in Pids |->
       LET f == IF q = p THEN frame ELSE proc[q]
       IN  IF f.phase = "tearing" THEN [f EXCEPT !.phase = "closing", !.copy = None] ELSE f]

\* apply: the domain is loaded from the file, and its global is judged.
Boot(p) ==
  /\ proc[p].phase = "off" /\ p \notin strange
  /\ ~file.torn /\ boots < MaxBoots
  /\ boots' = boots + 1
  /\ alive' = alive \cup {p}
  /\ proc' = [proc EXCEPT ![p] =
       [phase |-> "claiming", boot |-> boots', owner |-> file.owner, data |-> file.data,
        copy |-> None, alarms |-> Judge(boots', file.owner, 0)]]
  /\ UNCHANGED <<file, strange, writes, faults, kills, late, sole>>

\* The stamp is published with everything the process holds.
Claim(p) ==
  /\ proc[p].phase = "claiming"
  /\ Publish(p, [proc[p] EXCEPT !.phase = "running", !.owner = Stamp(p, proc[p].boot)])
  /\ UNCHANGED <<alive, strange, counters, late, sole>>

\* The mount goes on without a stamp of its own.
ClaimFails(p) ==
  /\ proc[p].phase = "claiming" /\ faults < MaxFaults
  /\ faults' = faults + 1
  /\ proc' = [proc EXCEPT ![p].phase = "running"]
  /\ UNCHANGED <<file, alive, strange, boots, writes, kills, late, sole>>

Leaving(p) == proc[p].phase \in {"leaving", "tearing", "closing"}

\* A write of the store, also one still queued when the plugin is disposed.
Write(p) ==
  /\ proc[p].phase = "running" \/ Leaving(p)
  /\ writes < MaxWrites
  /\ writes' = writes + 1
  /\ Publish(p, [proc[p] EXCEPT !.data = @ \cup {writes'}])
  /\ late' = IF Leaving(p) THEN late \cup {proc[p].boot} ELSE late
  /\ sole' = IF Mounted = {p} /\ ~Leaving(p) THEN sole \cup {writes'} ELSE sole
  /\ UNCHANGED <<alive, strange, boots, faults, kills>>

\* Mutant: the probe asks the domain, which never sees another's publish.
ReadFromDomain(p) == proc[p].owner

\* mediumOwnerReader
ReadOwner(p) == file.owner

\* probe: a file that cannot be parsed is reported, and waits for the next.
Probe(p) ==
  /\ proc[p].phase = "running" /\ ~file.torn
  /\ proc' = [proc EXCEPT ![p].alarms = Judge(proc[p].boot, ReadOwner(p), @)]
  /\ UNCHANGED <<file, alive, strange, counters, late, sole>>

\* Mutant: the goodbye carries an identity minted for it.
ClosesNone(p) == file.owner # None /\ file.owner.boot = 0

\* The stamp on the file is the boot's own, and open.
ClosesOwn(p) ==
  /\ file.owner # None
  /\ file.owner.boot = proc[p].boot
  /\ ~file.owner.closed

\* Mutant: the goodbye writes the document the process was started with.
DocumentAtBoot(p) == [owner |-> file.owner, data |-> {}, torn |-> FALSE]

\* The document read for the goodbye.
Document(p) == file

\* The disposer stops the probes and reads the file.
GoodbyeRead(p) ==
  /\ proc[p].phase = "running"
  /\ proc' = [proc EXCEPT ![p] =
       IF ~file.torn /\ ClosesOwn(p)
       THEN [@ EXCEPT !.phase = "leaving",
                      !.copy = [Document(p) EXCEPT !.owner.closed = TRUE]]
       ELSE [@ EXCEPT !.phase = "closing"]]
  /\ UNCHANGED <<file, alive, strange, counters, late, sole>>

\* writeFile opens the file for writing, which empties it ...
GoodbyeTruncate(p) ==
  /\ proc[p].phase = "leaving"
  /\ file' = [file EXCEPT !.torn = TRUE]
  /\ proc' = [proc EXCEPT ![p].phase = "tearing"]
  /\ UNCHANGED <<alive, strange, counters, late, sole>>

\* ... and writes the document as it was read, with the stamp closed.
GoodbyeWrite(p) ==
  /\ proc[p].phase = "tearing"
  /\ file' = proc[p].copy
  /\ proc' = [proc EXCEPT ![p].phase = "closing", ![p].copy = None]
  /\ UNCHANGED <<alive, strange, counters, late, sole>>

GoodbyeFails(p) ==
  /\ proc[p].phase = "leaving" /\ faults < MaxFaults
  /\ faults' = faults + 1
  /\ proc' = [proc EXCEPT ![p].phase = "closing", ![p].copy = None]
  /\ UNCHANGED <<file, alive, strange, boots, writes, kills, late, sole>>

\* domain.close; the process may live on, when only the plugin is reloaded.
Close(p) ==
  /\ proc[p].phase = "closing"
  /\ proc' = [proc EXCEPT ![p] = Off]
  /\ UNCHANGED <<file, alive, strange, counters, late, sole>>

Exit(p) ==
  /\ proc[p].phase = "off" /\ p \in alive \ strange
  /\ alive' = alive \ {p}
  /\ UNCHANGED <<file, proc, strange, counters, late, sole>>

Kill(p) ==
  /\ p \in Mounted /\ kills < MaxKills
  /\ kills' = kills + 1
  /\ proc' = [proc EXCEPT ![p] = Off]
  /\ alive' = alive \ {p}
  /\ UNCHANGED <<file, strange, boots, writes, faults, late, sole>>

\* An unrelated process is given the pid of a dead one.
ReusePid(p) ==
  /\ p \notin alive /\ Cardinality(strange) < MaxReuses
  /\ alive' = alive \cup {p}
  /\ strange' = strange \cup {p}
  /\ UNCHANGED <<file, proc, counters, late, sole>>

-----------------------------------------------------------------------------
Init ==
  /\ file = [owner |-> None, data |-> {}, torn |-> FALSE]
  /\ proc = [p \in Pids |-> Off]
  /\ alive = {} /\ strange = {}
  /\ boots = 0 /\ writes = 0 /\ faults = 0 /\ kills = 0
  /\ late = {} /\ sole = {}

Next == \E p \in Pids :
  \/ Boot(p) \/ Claim(p) \/ ClaimFails(p) \/ Write(p) \/ Probe(p)
  \/ GoodbyeRead(p) \/ GoodbyeTruncate(p) \/ GoodbyeWrite(p) \/ GoodbyeFails(p)
  \/ Close(p) \/ Exit(p) \/ Kill(p) \/ ReusePid(p)

Spec == Init /\ [][Next]_vars

\* A running boot keeps probing: an interval timer.
FairSpec == Spec /\ \A p \in Pids : WF_vars(Probe(p))

-----------------------------------------------------------------------------
(* Properties.                                                             *)

Alarmed(p) == proc'[p].alarms > proc[p].alarms

Writing(b) == \E p \in Mounted : proc[p].boot = b

\* "Both restart cases stay silent": an alarm is about a boot that is mounted,
\* or about one that left its stamp open although its process lives on: it
\* published once more behind its own goodbye, or its goodbye or another claim
\* failed.  Else the pid of a crashed boot is in use again, by an unrelated
\* process or by a later boot, which may be the one that raises the alarm.
SilentOnRestart ==
  [][\A p \in Pids : Alarmed(p) =>
       \/ Writing(file.owner.boot)
       \/ file.owner.boot \in late
       \/ faults > 0
       \/ kills > 0 /\ file.owner.pid \in strange \cup {q \in Pids : proc'[q].phase # "off"}]_vars

\* Processes that take turns lose nothing: what a process wrote while no other
\* was mounted and its goodbye had not begun is on the file through every
\* claim, goodbye and restart that follows (as long as the file can be read).
TurnsLoseNothing == ~file.torn => sole \subseteq file.data

Claimed(p) == proc[p].phase = "running" /\ proc[p].owner = Stamp(p, proc[p].boot)

\* Of two processes that both claimed the medium and go on writing to it, one
\* finds out, though neither ever sees the other's domain.
OverlapNoticed ==
  \A p, q \in Pids :
    p # q /\ Claimed(p) /\ Claimed(q) /\ ~file.torn
      ~> \/ ~Claimed(p) \/ ~Claimed(q) \/ file.torn
         \/ proc[p].alarms = 1 \/ proc[q].alarms = 1

=============================================================================
