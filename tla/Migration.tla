------------------------------ MODULE Migration ------------------------------
(***************************************************************************)
(* Backend selection and the one-time migration of src/store/index.ts      *)
(* (apply) and src/store/sqlite.ts (importFromDomain): which backend a     *)
(* boot mounts over what the last one left, with the process dying at any  *)
(* step.  The configured backend may change from boot to boot.             *)
(***************************************************************************)
EXTENDS Naturals, Sequences, FiniteSets

CONSTANTS
  Keys,        \* ids of entries
  MaxVersion,  \* bound: identity versions written on one side
  MaxBoots,    \* bound: boots
  MaxCrashes   \* bound: crashes

ASSUME MigrationAssumption ==
  MaxVersion \in Nat /\ MaxBoots \in Nat /\ MaxCrashes \in Nat

(* The data tables of the medium in the order the migration clears them.   *)
(* A row of entries and suggestions is its key; the row of identity and    *)
(* the rows of identity_history are versions.  The audit table of the      *)
(* database has no primary key: an audit row is the key of the entry whose *)
(* addition it records and the boot that imported the row, or 0.           *)
Tables == <<"entries", "audit", "suggestions", "identity", "history">>
Names == {"entries", "audit", "suggestions", "identity", "history"}

VARIABLES
  medium,    \* memory.json: the rows of each table
  marker,    \* the medium's meta table carries medium:migratedToSqlite
  db,        \* memory.db: the rows of each table
  mode,      \* "down", "clearing" (migrating), or serving: "sqlite", "host"
  boots, crashes,
  ever,      \* history: keys of all entries ever added
  removed,   \* history: keys of all entries ever removed
  migrated   \* history: "no", "imported" into memory.db, "served" from there

vars == <<medium, marker, db, mode, boots, crashes, ever, removed, migrated>>

Newest(rows) == IF rows = {} THEN 0
                ELSE CHOOSE v \in rows : \A w \in rows : w <= v

MediumHoldsData == medium["entries"] # {} \/ medium["identity"] # {}

Boots ==
  /\ mode = "down" /\ boots < MaxBoots
  /\ boots' = boots + 1
  /\ UNCHANGED <<crashes, ever, removed>>

\* Mutant: a marked medium is not refused.
HostIgnoresMarker == TRUE

\* A host-medium boot refuses a marked medium.
HostAllowed == ~marker

BootHost ==
  /\ Boots
  /\ HostAllowed
  /\ mode' = "host"
  /\ UNCHANGED <<medium, marker, db, migrated>>

\* Mutant: the rows of the medium replace those of the database.
ImportReplacing == medium

\* Mutant: the audit trail of the medium stays behind.
ImportWithoutAudit ==
  [t \in Names |-> IF t = "audit" THEN db[t]
                   ELSE IF t = "identity" /\ medium[t] # {} THEN medium[t]
                   ELSE db[t] \cup medium[t]]

\* The audit rows an import inserts: rows of their own, whatever is there.
Inserted(rows) == {<<a[1], boots + 1>> : a \in rows}

\* INSERT OR REPLACE: the row of a key that exists is replaced.
Import ==
  [t \in Names |-> CASE t = "identity" /\ medium[t] # {} -> medium[t]
                     [] t = "audit" -> db[t] \cup Inserted(medium[t])
                     [] OTHER -> db[t] \cup medium[t]]

\* The import is one transaction.
BootImport ==
  /\ Boots
  /\ ~marker /\ MediumHoldsData
  /\ db' = Import
  /\ mode' = "clearing"
  /\ migrated' = IF migrated = "no" THEN "imported" ELSE migrated
  /\ UNCHANGED <<medium, marker>>

\* An empty medium is neither imported nor refused, marked or not.  (A marked
\* one that holds data makes the boot throw.)
BootSqlite ==
  /\ Boots
  /\ ~MediumHoldsData
  /\ mode' = "sqlite"
  /\ migrated' = IF migrated = "no" THEN "no" ELSE "served"
  /\ UNCHANGED <<medium, marker, db>>

Uncleared == {n \in DOMAIN Tables : medium[Tables[n]] # {}}

\* One row at a time, table after table.
ClearRow ==
  /\ mode = "clearing"
  /\ \E n \in Uncleared : /\ \A m \in Uncleared : n <= m
                          /\ \E r \in medium[Tables[n]] :
                               medium' = [medium EXCEPT ![Tables[n]] = @ \ {r}]
  /\ UNCHANGED <<marker, db, mode, boots, crashes, ever, removed, migrated>>

ClearDone == Uncleared = {}

Mark ==
  /\ mode = "clearing" /\ ClearDone
  /\ marker' = TRUE
  /\ mode' = "sqlite"
  /\ migrated' = "served"
  /\ UNCHANGED <<medium, db, boots, crashes, ever, removed>>

-----------------------------------------------------------------------------
(* Serving: an entry comes with its audit record, or goes (the record of   *)
(* that is left out); a suggestion; a rewrite of the identity document     *)
(* with its snapshot.                                                      *)

Served(side) ==
  {[side EXCEPT !["entries"] = @ \cup {k}, !["audit"] = @ \cup {<<k, 0>>}] :
     k \in Keys \ ever}
  \cup {[side EXCEPT !["entries"] = @ \ {k}] : k \in side["entries"]}
  \cup {[side EXCEPT !["suggestions"] = @ \cup {k}] : k \in Keys}

Rewritten(side) ==
  LET v == Newest(side["identity"]) + 1
  IN  [side EXCEPT !["identity"] = {v}, !["history"] = @ \cup {v}]

\* One operation on the serving side, and what it adds and removes.
Serve(side, next) ==
  /\ \/ next \in Served(side)
     \/ Newest(side["identity"]) < MaxVersion /\ next = Rewritten(side)
  /\ ever' = ever \cup next["entries"]
  /\ removed' = removed \cup (side["entries"] \ next["entries"])

ServeHost ==
  /\ mode = "host"
  /\ \E next \in Served(medium) \cup {Rewritten(medium)} :
       Serve(medium, next) /\ medium' = next
  /\ UNCHANGED <<marker, db, mode, boots, crashes, migrated>>

ServeSqlite ==
  /\ mode = "sqlite"
  /\ \E next \in Served(db) \cup {Rewritten(db)} :
       Serve(db, next) /\ db' = next
  /\ UNCHANGED <<medium, marker, mode, boots, crashes, migrated>>

Stop ==
  /\ mode \in {"sqlite", "host"}
  /\ mode' = "down"
  /\ UNCHANGED <<medium, marker, db, boots, crashes, ever, removed, migrated>>

Crash ==
  /\ mode # "down" /\ crashes < MaxCrashes
  /\ crashes' = crashes + 1
  /\ mode' = "down"
  /\ UNCHANGED <<medium, marker, db, boots, ever, removed, migrated>>

-----------------------------------------------------------------------------
Empty == [t \in Names |-> {}]

Init ==
  /\ medium = Empty /\ db = Empty
  /\ marker = FALSE /\ migrated = "no"
  /\ mode = "down"
  /\ boots = 0 /\ crashes = 0
  /\ ever = {} /\ removed = {}

Next ==
  \/ BootHost \/ BootImport \/ BootSqlite \/ ClearRow \/ Mark
  \/ ServeHost \/ ServeSqlite \/ Stop \/ Crash

Spec == Init /\ [][Next]_vars

-----------------------------------------------------------------------------
(* Properties.                                                             *)

\* Wherever the process dies and whichever backend boots next, an entry that
\* was stored and not removed is in the medium or in the database.
NothingLost == ever \ removed \subseteq medium["entries"] \cup db["entries"]

\* A migration that no crash interrupts sticks: whatever was written on either
\* side before it, no later boot serves the medium again.
CleanMigrationSticks == crashes = 0 /\ mode = "host" => migrated # "served"

(* The book the store keeps, on whichever side its pages are.              *)
Held == medium["entries"] \cup db["entries"]

\* The audit rows of the store: what the medium still holds while it is being
\* cleared is the database's already.
Records == db["audit"] \cup IF mode = "clearing" THEN {} ELSE medium["audit"]

Ledger ==
  [k \in Keys |-> [added   |-> Cardinality({a \in Records : a[1] = k}),
                   removed |-> IF k \in removed THEN 1 ELSE 0]]

Book == INSTANCE MemoryBook WITH Ids <- Keys, held <- Held, ledger <- Ledger

\* Changing the backend is no event of the store: as long as no crash interrupts
\* it, what boots, imports, clears and marks leave the book as it was, with no
\* audit record lost and none counted twice, and every operation on either side
\* is one write of it.  (After a crash an import that is done again doubles audit
\* records, and an entry may be on both sides, and go from one only.)
BookCarried == Book!Init /\ [][crashes' = 0 => [Book!Next]_(Book!vars)]_vars

=============================================================================
