------------------------------ MODULE AgentTools ------------------------------
(***************************************************************************)
(* The memory tools of src/tool/index.ts, called by agents, over the       *)
(* SQLite store.  A call reads the live settings: the human-confirm mode   *)
(* may be on or off at each one.  All but memory_forget are one            *)
(* synchronous step of the store; memory_forget searches once and then     *)
(* removes entry after entry, awaiting each.                               *)
(***************************************************************************)
EXTENDS SqliteStore

CONSTANTS
  About,      \* ids whose text has the word that is searched for
  MaxSearch   \* maxSearchResults

ASSUME ToolsAssumption == About \subseteq Ids /\ MaxSearch \in Nat

VARIABLES
  forgetting,  \* entries a memory_forget has yet to remove
  pinnedSince  \* history variable: entries pinned when it searched, and still

tools == <<forgetting, pinnedSince>>

\* The members of a set, each at its rank.
InOrder(S, Before(_, _)) ==
  [k \in 1..Cardinality(S) |->
     CHOOSE x \in S : Cardinality({y \in S : y = x \/ Before(y, x)}) = k]

NewestFirst(S) == InOrder(S, >)

\* What a search for the word finds.
Found == {i \in Held \cap About : ~entries[i].superseded}

\* The first of what is asked for, at most so many; 0 means no limit.
Page(seq, offset, limit) ==
  SubSeq(seq, offset + 1, IF limit = 0 THEN Len(seq) ELSE Min({Len(seq), offset + limit}))

\* memory_search: what is returned counts as used.  Without a match the tool
\* falls back to the newest entries, and those are not stamped.
MemorySearch ==
  /\ Called /\ Found # {}
  /\ Recall(Range(Page(NewestFirst(Found), 0, MaxSearch)), TRUE)
  /\ UNCHANGED tools

\* memory_list: one page, newest first, counts as used.
MemoryList ==
  /\ Called
  /\ \E offset \in 0..1 :
       LET page == Range(Page(NewestFirst(Held), offset, MaxSearch))
       IN  page # {} /\ Recall(page, TRUE)
  /\ UNCHANGED tools

\* memory_get, raw: the read is recorded.  (The recall stamp that follows is
\* MemorySearch's.)
MemoryGetRaw ==
  /\ Called
  /\ \E i \in Held : ReadRaw(i)
  /\ UNCHANGED tools

\* memory_add: in confirm mode a proposal.
MemoryAdd ==
  /\ Called
  /\ \/ \E ok \in BOOLEAN : Add("plain", ok)
     \/ Observe(Subject("topic", 0))
  /\ UNCHANGED tools

\* memory_replace: in confirm mode a proposal on the entry.
MemoryReplace ==
  /\ Called
  /\ \E i \in Held :
       \/ \E ok \in BOOLEAN : Update(i, "edited", ok)
       \/ Observe(Subject("entry", i))
  /\ UNCHANGED tools

Unpinned == pinnedSince' = {i \in pinnedSince : entries'[i] # Absent /\ entries'[i].pinned}

MemoryRemove ==
  /\ Called
  /\ \E i \in Held, ok \in BOOLEAN : RemoveEntry(i, ok)
  /\ Unpinned /\ UNCHANGED forgetting

MemoryPin ==
  /\ Called
  /\ \E i \in Held, ok \in BOOLEAN : SetPinned(i, ~entries[i].pinned, ok)
  /\ Unpinned /\ UNCHANGED forgetting

\* Mutant: the pin is not asked for.
DeletablePinnedToo == Found

\* What memory_forget may delete.
Deletable == {i \in Found : ~entries[i].pinned}

\* memory_forget: refused above half of the search ceiling.
ForgetSearch ==
  /\ Called /\ forgetting = {}
  /\ Deletable # {} /\ Cardinality(Deletable) <= Max({1, MaxSearch \div 2})
  /\ forgetting' = Deletable
  /\ pinnedSince' = {i \in Held : entries[i].pinned}
  /\ Recall(Found, TRUE)

\* One round of its loop, in the order of the search; an entry that is gone is
\* passed over, a failure ends the call.
ForgetNext ==
  /\ forgetting # {}
  /\ LET i == Max(forgetting)
     IN  \/ /\ entries[i] = Absent
            /\ forgetting' = forgetting \ {i}
            /\ UNCHANGED <<store, pinnedSince>>
         \/ \E ok \in BOOLEAN :
              /\ RemoveEntry(i, ok)
              /\ forgetting' = IF ok THEN forgetting \ {i} ELSE {}
              /\ Unpinned /\ UNCHANGED events

\* identity_update: in confirm mode a proposal.
IdentityUpdate ==
  /\ Called
  /\ UpdateIdentity \/ Observe(Soul)
  /\ UNCHANGED tools

\* What the plugin does between the calls: the fence and the review stamp
\* entries, a pass supersedes one, the janitor decays.
Background ==
  /\ Called
  /\ \/ \E i \in Held : Recall({i}, FALSE)
     \/ \E i \in Held, ok \in BOOLEAN : Hit(i, ok) \/ Supersede(i, ok)
     \/ \E n \in 1..Len(recent) : Janitor(n)
  /\ Unpinned /\ UNCHANGED forgetting

ToolCall ==
  \/ MemorySearch \/ MemoryList \/ MemoryGetRaw \/ MemoryAdd \/ MemoryReplace
  \/ MemoryRemove \/ MemoryPin \/ ForgetSearch \/ ForgetNext \/ IdentityUpdate \/ Background

ToolsInit == InitStore /\ forgetting = {} /\ pinnedSince = {}

-----------------------------------------------------------------------------
\* "Pin means never forget": an entry that is pinned leaves the store only by
\* a call that removes it, never by eviction or decay; and if that call is a
\* batch delete, the entry was not pinned when it searched.
PinMeansNeverForget ==
  [][\A i \in Held :
       entries[i].pinned /\ entries'[i] = Absent =>
         /\ \E n \in DOMAIN audit' : audit'[n] = [op |-> "remove", id |-> i, seq |-> auditSeq']
         /\ forgetting' # forgetting => i \notin pinnedSince]_<<store, tools>>

=============================================================================
