--------------------------- MODULE MigrationProofs ----------------------------
(***************************************************************************)
(* Theorems about backend selection and migration, for any keys, any       *)
(* number of boots, and crashes at any step.                               *)
(***************************************************************************)
EXTENDS Migration, FiniteSetTheorems, TLAPS

-----------------------------------------------------------------------------
(* The two sides: tables of rows, with at most one identity document.      *)

Tabled == {side \in [Names -> SUBSET (Keys \cup Nat \cup (Keys \X Nat))] :
             /\ side["entries"] \subseteq Keys \cup Nat
             /\ side["audit"] \subseteq Keys \X Nat}

OneDocument(side) ==
  side["identity"] = {} \/ \E v \in Nat : side["identity"] = {v}

Side(side) == side \in Tabled /\ OneDocument(side)

TypeInv ==
  /\ Side(medium) /\ Side(db)
  /\ marker \in BOOLEAN
  /\ mode \in {"down", "clearing", "sqlite", "host"}
  /\ migrated \in {"no", "imported", "served"}
  /\ crashes \in Nat /\ boots \in Nat
  /\ ever \subseteq Keys \cup Nat /\ removed \subseteq Keys \cup Nat

LEMMA NewestVersion ==
  ASSUME NEW side, Side(side)
  PROVE  Newest(side["identity"]) \in Nat
<1>1. CASE side["identity"] = {}
  BY <1>1 DEF Newest
<1>2. CASE side["identity"] # {}
  <2>1. PICK v \in Nat : side["identity"] = {v}
    BY <1>2 DEF Side, OneDocument
  <2>2. \A x : (x \in {v} /\ \A w \in {v} : w <= x) <=> x = v
    BY <2>1
  <2>3. (CHOOSE x \in {v} : \A w \in {v} : w <= x) = v
    BY <2>1, <2>2
  <2> QED
    BY <2>1, <2>3 DEF Newest
<1> QED
  BY <1>1, <1>2

\* What serving makes of a side: entries come, with their records, or go.
LEMMA ServedSide ==
  ASSUME NEW side, Side(side), NEW next \in Served(side) \cup {Rewritten(side)}
  PROVE  Side(next)
<1> USE DEF Side, Tabled, Names, OneDocument
<1>1. CASE next = Rewritten(side)
  <2>1. Newest(side["identity"]) + 1 \in Nat
    BY NewestVersion
  <2> DEFINE v == Newest(side["identity"]) + 1
  <2>2. next = [side EXCEPT !["identity"] = {v}, !["history"] = @ \cup {v}]
    BY <1>1 DEF Rewritten
  <2> HIDE DEF v
  <2>3. v \in Nat
    BY <2>1 DEF v
  <2>4. next \in Tabled /\ next["identity"] = {v}
    BY <2>2, <2>3
  <2> QED
    BY <2>3, <2>4
<1>2. CASE next \in Served(side)
  <2>1. CASE \E k \in Keys \ ever :
               next = [side EXCEPT !["entries"] = @ \cup {k}, !["audit"] = @ \cup {<<k, 0>>}]
    <3>1. PICK k \in Keys :
            next = [side EXCEPT !["entries"] = @ \cup {k}, !["audit"] = @ \cup {<<k, 0>>}]
      BY <2>1
    <3>2. next \in Tabled /\ next["identity"] = side["identity"]
      BY <3>1
    <3> QED
      BY <3>2
  <2>2. CASE \E k \in side["entries"] : next = [side EXCEPT !["entries"] = @ \ {k}]
    <3>1. next \in Tabled /\ next["identity"] = side["identity"]
      BY <2>2
    <3> QED
      BY <3>1
  <2>3. CASE \E k \in Keys : next = [side EXCEPT !["suggestions"] = @ \cup {k}]
    <3>1. next \in Tabled /\ next["identity"] = side["identity"]
      BY <2>3
    <3> QED
      BY <3>1
  <2> QED
    BY <1>2, <2>1, <2>2, <2>3 DEF Served
<1> QED
  BY <1>1, <1>2

-----------------------------------------------------------------------------
(* Nothing is lost: while the medium is being cleared, the database holds  *)
(* what is left of it.                                                     *)

Copied == mode = "clearing" => medium["entries"] \subseteq db["entries"]

LostInv == TypeInv /\ Copied /\ NothingLost

LEMMA LostStarts == Init => LostInv
<1> SUFFICES ASSUME Init PROVE LostInv
  OBVIOUS
<1>1. Side(Empty)
  BY DEF Empty, Side, Tabled, OneDocument, Names
<1>2. medium = Empty /\ db = Empty
  BY DEF Init
<1>3. TypeInv
  BY <1>1, <1>2 DEF Init, TypeInv
<1> QED
  BY <1>3 DEF Init, LostInv, Copied, NothingLost

\* The import keeps every row of either side.
LEMMA ImportKeeps ==
  ASSUME TypeInv
  PROVE  /\ Side(Import)
         /\ Import["entries"] = db["entries"] \cup medium["entries"]
         /\ Import["audit"] = db["audit"] \cup Inserted(medium["audit"])
<1>1. Inserted(medium["audit"]) \subseteq Keys \X Nat
  <2>1. boots + 1 \in Nat
    BY DEF TypeInv
  <2> QED
    BY <2>1 DEF Inserted, TypeInv, Side, Tabled
<1> HIDE DEF Inserted
<1>2. /\ Import["entries"] = db["entries"] \cup medium["entries"]
      /\ Import["audit"] = db["audit"] \cup Inserted(medium["audit"])
      /\ Import["identity"] = medium["identity"] \/ Import["identity"] = db["identity"]
  BY DEF Import, TypeInv, Side, Tabled, Names
<1>3. ASSUME NEW t \in Names PROVE Import[t] \subseteq Keys \cup Nat \cup (Keys \X Nat)
  BY <1>1 DEF Import, TypeInv, Side, Tabled, Names
<1>4. DOMAIN Import = Names /\ Import = [t \in Names |-> Import[t]]
  BY DEF Import
<1>5. Import \in [Names -> SUBSET (Keys \cup Nat \cup (Keys \X Nat))]
  BY <1>3, <1>4
<1>6. Import \in Tabled
  BY <1>1, <1>2, <1>5 DEF Tabled, TypeInv, Side
<1> QED
  BY <1>2, <1>6 DEF Side, OneDocument, TypeInv

\* One row is cleared, of the table whose turn it is.
LEMMA ClearedSide ==
  ASSUME TypeInv, ClearRow
  PROVE  /\ Side(medium') /\ medium'["entries"] \subseteq medium["entries"]
<1>1. PICK n \in DOMAIN Tables : \E r \in medium[Tables[n]] :
        medium' = [medium EXCEPT ![Tables[n]] = @ \ {r}]
  BY DEF ClearRow, Uncleared
<1>2. Tables[n] \in Names
  BY DEF Tables, Names
<1> DEFINE t == Tables[n]
<1> HIDE DEF t
<1>3. PICK r \in medium[t] : medium' = [medium EXCEPT ![t] = medium[t] \ {r}]
  BY <1>1 DEF t
<1>4. /\ medium' \in Tabled
      /\ \A u \in Names : medium'[u] = IF u = t THEN medium[u] \ {r} ELSE medium[u]
  <2>1. t \in Names /\ medium \in Tabled
    BY <1>2 DEF TypeInv, Side, t
  <2>2. \A u \in Names : medium'[u] = IF u = t THEN medium[u] \ {r} ELSE medium[u]
    BY <1>3, <2>1 DEF Tabled
  <2>3. medium' \in [Names -> SUBSET (Keys \cup Nat \cup (Keys \X Nat))]
    BY <1>3, <2>1 DEF Tabled
  <2> QED
    BY <2>1, <2>2, <2>3 DEF Tabled, Names
<1>5. OneDocument(medium')
  BY <1>4 DEF TypeInv, Side, OneDocument, Names
<1> QED
  BY <1>4, <1>5 DEF Side, Names

\* What an operation puts in stays, and what it takes out is on record.
LEMMA ServingLosesNothing ==
  ASSUME NEW side, NEW other, NEW next, Serve(side, next),
         ever \ removed \subseteq side["entries"] \cup other
  PROVE  ever' \ removed' \subseteq next["entries"] \cup other
  BY DEF Serve

LEMMA LostStep == ASSUME LostInv, [Next]_vars PROVE LostInv'
<1> USE DEF LostInv
<1>1. CASE BootHost
  BY <1>1 DEF BootHost, Boots, TypeInv, Copied, NothingLost
<1>2. CASE BootImport
  <2>1. Side(db') /\ db'["entries"] = db["entries"] \cup medium["entries"]
    BY <1>2, ImportKeeps DEF BootImport
  <2> QED
    BY <1>2, <2>1 DEF BootImport, Boots, TypeInv, Copied, NothingLost
<1>3. CASE BootSqlite
  BY <1>3 DEF BootSqlite, Boots, TypeInv, Copied, NothingLost
<1>4. CASE ClearRow
  BY <1>4, ClearedSide DEF ClearRow, TypeInv, Copied, NothingLost
<1>5. CASE Mark
  BY <1>5 DEF Mark, TypeInv, Copied, NothingLost
<1>6. CASE ServeHost
  <2>1. PICK next \in Served(medium) \cup {Rewritten(medium)} :
          Serve(medium, next) /\ medium' = next
    BY <1>6 DEF ServeHost
  <2>2. Side(medium')
    BY <2>1, ServedSide DEF TypeInv
  <2>3. medium'["entries"] \subseteq Keys \cup Nat /\ medium["entries"] \subseteq Keys \cup Nat
    BY <2>2 DEF TypeInv, Side, Tabled, Names
  <2>4. NothingLost'
    BY <1>6, <2>1, ServingLosesNothing DEF ServeHost, NothingLost
  <2>5. ever' \subseteq Keys \cup Nat /\ removed' \subseteq Keys \cup Nat
    BY <2>1, <2>3 DEF Serve, TypeInv
  <2> QED
    BY <1>6, <2>2, <2>4, <2>5 DEF ServeHost, TypeInv, Copied
<1>7. CASE ServeSqlite
  <2>1. PICK next \in Served(db) \cup {Rewritten(db)} : Serve(db, next) /\ db' = next
    BY <1>7 DEF ServeSqlite
  <2>2. Side(db')
    BY <2>1, ServedSide DEF TypeInv
  <2>3. db'["entries"] \subseteq Keys \cup Nat /\ db["entries"] \subseteq Keys \cup Nat
    BY <2>2 DEF TypeInv, Side, Tabled, Names
  <2>4. NothingLost'
    BY <1>7, <2>1, ServingLosesNothing DEF ServeSqlite, NothingLost
  <2>5. ever' \subseteq Keys \cup Nat /\ removed' \subseteq Keys \cup Nat
    BY <2>1, <2>3 DEF Serve, TypeInv
  <2> QED
    BY <1>7, <2>2, <2>4, <2>5 DEF ServeSqlite, TypeInv, Copied
<1>8. CASE Stop
  BY <1>8 DEF Stop, TypeInv, Copied, NothingLost
<1>9. CASE Crash
  BY <1>9 DEF Crash, TypeInv, Copied, NothingLost
<1>10. CASE UNCHANGED vars
  BY <1>10 DEF vars, TypeInv, Copied, NothingLost
<1> QED
  BY <1>1, <1>2, <1>3, <1>4, <1>5, <1>6, <1>7, <1>8, <1>9, <1>10 DEF Next

\* Wherever the process dies, during the import, between two rows of the
\* clearing or before the mark, and whichever backend the next boot mounts, an
\* entry that was stored and not removed is in the medium or in the database
\* (importFromDomain clears nothing before its transaction has committed).
THEOREM MigrationLosesNothing == Spec => []NothingLost
<1>1. LostInv => NothingLost
  BY DEF LostInv
<1> QED
  BY LostStarts, LostStep, <1>1, PTL DEF Spec

-----------------------------------------------------------------------------
(* A clean migration is marked before it is served.                        *)

CleanInv ==
  /\ crashes \in Nat /\ migrated \in {"no", "imported", "served"}
  /\ mode = "host" => ~marker
  /\ crashes = 0 => /\ migrated = "imported" => mode = "clearing"
                    /\ migrated = "served" => marker

LEMMA CleanStep == ASSUME CleanInv, [Next]_vars PROVE CleanInv'
<1> USE DEF CleanInv
<1>1. CASE BootHost
  BY <1>1 DEF BootHost, Boots, HostAllowed
<1>2. CASE BootImport
  BY <1>2 DEF BootImport, Boots
<1>3. CASE BootSqlite
  BY <1>3 DEF BootSqlite, Boots
<1>4. CASE ClearRow
  BY <1>4 DEF ClearRow
<1>5. CASE Mark
  BY <1>5 DEF Mark
<1>6. CASE ServeHost
  BY <1>6 DEF ServeHost
<1>7. CASE ServeSqlite
  BY <1>7 DEF ServeSqlite
<1>8. CASE Stop
  BY <1>8 DEF Stop
<1>9. CASE Crash
  BY <1>9 DEF Crash
<1>10. CASE UNCHANGED vars
  BY <1>10 DEF vars
<1> QED
  BY <1>1, <1>2, <1>3, <1>4, <1>5, <1>6, <1>7, <1>8, <1>9, <1>10 DEF Next

\* As long as no crash interrupted a boot, a medium that was migrated is
\* marked when the database first serves, and the host backend, which refuses
\* a marked medium, is never mounted again.
THEOREM MigrationSticks == Spec => []CleanMigrationSticks
<1>1. Init => CleanInv
  BY DEF Init, CleanInv
<1>2. CleanInv => CleanMigrationSticks
  BY DEF CleanInv, CleanMigrationSticks
<1> QED
  BY CleanStep, <1>1, <1>2, PTL DEF Spec

-----------------------------------------------------------------------------
(* The book is carried from backend to backend.                            *)

Named(S) == {a[1] : a \in S}
Once(S) == \A a, b \in S : a[1] = b[1] => a = b

Audited == Named(Records)

\* Two sides that share no entry and no audit row.
Apart(side, other) ==
  /\ side["entries"] \cap other["entries"] = {}
  /\ side["audit"] \cap other["audit"] = {}

\* Without a crash every entry is on one side, but for those a running migration
\* has copied and not yet cleared; each addition is recorded once, and the ledger
\* knows of no entry what has not happened to it.
Known ==
  /\ Held \cap removed = {}
  /\ Held \cup Audited \cup removed \subseteq ever
  /\ Once(Records)

Settled ==
  /\ IF mode = "clearing" THEN medium["entries"] \subseteq db["entries"]
     ELSE Apart(medium, db)
  /\ Known

BookInv == TypeInv /\ Held \subseteq Keys /\ (crashes = 0 => Settled)

LEMMA CountedOnce ==
  ASSUME NEW S, Once(S), NEW k
  PROVE  Cardinality({a \in S : a[1] = k}) = IF k \in Named(S) THEN 1 ELSE 0
<1>1. CASE k \in Named(S)
  <2>1. PICK a \in S : a[1] = k
    BY <1>1 DEF Named
  <2>2. {b \in S : b[1] = k} = {a}
    BY <2>1 DEF Once
  <2> QED
    BY <1>1, <2>2, FS_Singleton
<1>2. CASE k \notin Named(S)
  <2>1. {b \in S : b[1] = k} = {}
    BY <1>2 DEF Named
  <2> QED
    BY <1>2, <2>1, FS_EmptySet
<1> QED
  BY <1>1, <1>2

\* The ledger of records that are there once.
LEMMA LedgerOnce ==
  ASSUME NEW S, Once(S), NEW gone
  PROVE  [k \in Keys |-> [added   |-> Cardinality({a \in S : a[1] = k}),
                          removed |-> IF k \in gone THEN 1 ELSE 0]]
         = [k \in Keys |-> [added   |-> IF k \in Named(S) THEN 1 ELSE 0,
                            removed |-> IF k \in gone THEN 1 ELSE 0]]
<1>1. \A k \in Keys : Cardinality({a \in S : a[1] = k}) = IF k \in Named(S) THEN 1 ELSE 0
  BY CountedOnce
<1> HIDE DEF Named
<1> QED
  BY <1>1

\* Before and after a step.
LEMMA Ledgers ==
  ASSUME Once(Records), Once(Records)'
  PROVE  /\ Ledger = [k \in Keys |-> [added   |-> IF k \in Audited THEN 1 ELSE 0,
                                      removed |-> IF k \in removed THEN 1 ELSE 0]]
         /\ Ledger' = [k \in Keys |-> [added   |-> IF k \in Audited' THEN 1 ELSE 0,
                                       removed |-> IF k \in removed' THEN 1 ELSE 0]]
<1>1. Once(Records') /\ Audited' = Named(Records')
  BY DEF Audited, Once, Named
<1> QED
  BY <1>1, LedgerOnce DEF Ledger, Audited

\* What neither the entries nor the ledger show is no event of the book.
LEMMA SameBook ==
  ASSUME Once(Records), Once(Records)', Held' = Held, Audited' = Audited, removed' = removed
  PROVE  UNCHANGED Book!vars
<1>1. Ledger' = Ledger
  BY Ledgers
<1> QED
  BY <1>1 DEF Book!vars

\* An entry comes with its audit record.
LEMMA EntryComes ==
  ASSUME Once(Records), Once(Records)', NEW k \in Keys, k \notin Held, k \notin Audited,
         Held' = Held \cup {k}, Audited' = Audited \cup {k}, removed' = removed
  PROVE  Book!Next
<1>1. Ledger' = [i \in Keys |->
         [added   |-> Ledger[i].added + IF i \in {k} THEN 1 ELSE 0,
          removed |-> Ledger[i].removed + IF i \in {} THEN 1 ELSE 0]]
  BY Ledgers
<1>2. Book!Write({k}, {})
  BY <1>1 DEF Book!Write
<1> QED
  BY <1>2 DEF Book!Next

\* An entry goes, and its removal is recorded.
LEMMA EntryGoes ==
  ASSUME Once(Records), Once(Records)', NEW k \in Keys, k \in Held, k \notin removed,
         Held' = Held \ {k}, Audited' = Audited, removed' = removed \cup {k}
  PROVE  Book!Next
<1>1. Ledger' = [i \in Keys |->
         [added   |-> Ledger[i].added + IF i \in {} THEN 1 ELSE 0,
          removed |-> Ledger[i].removed + IF i \in {k} THEN 1 ELSE 0]]
  BY Ledgers
<1>2. Book!Write({}, {k})
  BY <1>1 DEF Book!Write
<1> QED
  BY <1>2 DEF Book!Next

\* What an operation on one side makes of its entries and audit records.
Comes(side, next, k) ==
  /\ next["entries"] = side["entries"] \cup {k}
  /\ next["audit"] = side["audit"] \cup {<<k, 0>>}

Goes(side, next, k) ==
  /\ next["entries"] = side["entries"] \ {k}
  /\ next["audit"] = side["audit"]

LEMMA ServingEffects ==
  ASSUME NEW side, Side(side), NEW next \in Served(side) \cup {Rewritten(side)}
  PROVE  \/ \E k \in Keys \ ever : Comes(side, next, k)
         \/ \E k \in side["entries"] : Goes(side, next, k)
         \/ next["entries"] = side["entries"] /\ next["audit"] = side["audit"]
<1> USE DEF Side, Tabled, Names
<1>1. CASE next = Rewritten(side)
  <2> DEFINE v == Newest(side["identity"]) + 1
  <2>1. next = [side EXCEPT !["identity"] = {v}, !["history"] = @ \cup {v}]
    BY <1>1 DEF Rewritten
  <2> HIDE DEF v
  <2> QED
    BY <2>1
<1>2. CASE next \in Served(side)
  <2>1. CASE \E k \in Keys \ ever :
               next = [side EXCEPT !["entries"] = @ \cup {k}, !["audit"] = @ \cup {<<k, 0>>}]
    <3>1. PICK k \in Keys \ ever :
            next = [side EXCEPT !["entries"] = @ \cup {k}, !["audit"] = @ \cup {<<k, 0>>}]
      BY <2>1
    <3>2. Comes(side, next, k)
      BY <3>1 DEF Comes
    <3> QED
      BY <3>2
  <2>2. CASE \E k \in side["entries"] : next = [side EXCEPT !["entries"] = @ \ {k}]
    <3>1. PICK k \in side["entries"] : next = [side EXCEPT !["entries"] = @ \ {k}]
      BY <2>2
    <3>2. Goes(side, next, k)
      BY <3>1 DEF Goes
    <3> QED
      BY <3>2
  <2>3. CASE \E k \in Keys : next = [side EXCEPT !["suggestions"] = @ \cup {k}]
    BY <2>3
  <2> QED
    BY <1>2, <2>1, <2>2, <2>3 DEF Served
<1> QED
  BY <1>1, <1>2

\* One operation on the serving side is one write of the book, or none.
LEMMA ServingCarries ==
  ASSUME NEW side, NEW other, NEW next, Side(side), Side(other),
         next \in Served(side) \cup {Rewritten(side)}, Serve(side, next),
         Held = side["entries"] \cup other["entries"],
         Held' = next["entries"] \cup other["entries"],
         Records = side["audit"] \cup other["audit"],
         Records' = next["audit"] \cup other["audit"],
         Held \subseteq Keys
  PROVE  /\ Held' \subseteq Keys
         /\ Known /\ Apart(side, other)
            => Known' /\ Apart(next, other) /\ [Book!Next]_(Book!vars)
<1>1. ever' = ever \cup next["entries"] /\ removed' = removed \cup (side["entries"] \ next["entries"])
  BY DEF Serve
<1>2. CASE \E k \in Keys \ ever : Comes(side, next, k)
  <2>1. PICK k \in Keys \ ever : Comes(side, next, k)
    BY <1>2
  <2>2. /\ Held' = Held \cup {k} /\ removed' = removed
        /\ ever' = ever \cup side["entries"] \cup {k}
        /\ Records' = Records \cup {<<k, 0>>}
    BY <1>1, <2>1 DEF Comes
  <2>3. Audited' = Audited \cup {k}
    <3>1. Audited' = {a[1] : a \in Records'}
      BY DEF Audited, Named
    <3>2. <<k, 0>>[1] = k
      OBVIOUS
    <3>3. {a[1] : a \in Records \cup {<<k, 0>>}} = {a[1] : a \in Records} \cup {k}
      BY <3>2
    <3> QED
      BY <2>2, <3>1, <3>3 DEF Audited, Named
  <2>4. ASSUME Known, Apart(side, other)
        PROVE  Known' /\ Apart(next, other) /\ k \notin Held /\ k \notin Audited
    <3>1. k \notin Held /\ k \notin Audited
      BY <2>1, <2>4 DEF Known
    <3>2. \A a \in Records : a[1] # k
      BY <3>1 DEF Audited, Named
    <3>3. Once(Records)'
      BY <2>2, <2>4, <3>2 DEF Known, Once
    <3>4. Apart(next, other)
      BY <2>1, <2>4, <3>1, <3>2 DEF Apart, Comes
    <3> QED
      BY <2>1, <2>2, <2>3, <2>4, <3>1, <3>3, <3>4 DEF Known
  <2>5. ASSUME Known, Apart(side, other) PROVE Book!Next
    BY <2>2, <2>3, <2>4, <2>5, EntryComes DEF Known
  <2> QED
    BY <2>2, <2>4, <2>5
<1>3. CASE \E k \in side["entries"] : Goes(side, next, k)
  <2>1. PICK k \in side["entries"] : Goes(side, next, k)
    BY <1>3
  <2>2. Records' = Records /\ ever' = ever \cup next["entries"]
        /\ removed' = removed \cup {k} /\ next["entries"] \subseteq side["entries"]
    BY <1>1, <2>1 DEF Goes
  <2>3. Audited' = Audited /\ (Once(Records) => Once(Records)')
    BY <2>2 DEF Audited, Named, Once
  <2>4. ASSUME Known, Apart(side, other)
        PROVE  /\ Held' = Held \ {k} /\ k \in Keys /\ k \in Held /\ k \notin removed
               /\ Known' /\ Apart(next, other)
    <3>1. Held' = Held \ {k} /\ k \in Keys /\ k \in Held /\ k \notin removed
      BY <2>1, <2>4 DEF Goes, Known, Apart
    <3>2. Apart(next, other)
      BY <2>1, <2>2, <2>4 DEF Goes, Apart
    <3> QED
      BY <2>2, <2>3, <2>4, <3>1, <3>2 DEF Known
  <2>5. ASSUME Known, Apart(side, other) PROVE Book!Next
    BY <2>2, <2>3, <2>4, <2>5, EntryGoes DEF Known
  <2>6. Held' \subseteq Keys
    BY <2>2
  <2> QED
    BY <2>4, <2>5, <2>6
<1>4. CASE next["entries"] = side["entries"] /\ next["audit"] = side["audit"]
  <2>1. Held' = Held /\ Records' = Records /\ removed' = removed /\ ever' = ever \cup side["entries"]
    BY <1>1, <1>4
  <2>2. Audited' = Audited /\ (Once(Records) => Once(Records)')
    BY <2>1 DEF Audited, Named, Once
  <2>3. ASSUME Known, Apart(side, other) PROVE Known' /\ Apart(next, other)
    BY <1>4, <2>1, <2>2, <2>3 DEF Known, Apart
  <2> QED
    BY <2>1, <2>2, <2>3, SameBook DEF Known
<1> QED
  BY <1>2, <1>3, <1>4, ServingEffects

LEMMA BookStarts == Init => BookInv /\ Book!Init
<1> SUFFICES ASSUME Init PROVE BookInv /\ Book!Init
  OBVIOUS
<1>1. TypeInv
  BY LostStarts DEF LostInv
<1>2. Held = {} /\ Records = {} /\ removed = {} /\ mode = "down"
  BY DEF Init, Empty, Held, Records, Names
<1>3. medium["entries"] = {} /\ medium["audit"] = {}
  BY DEF Init, Empty, Names
<1>4. Audited = {} /\ Once(Records)
  BY <1>2 DEF Audited, Named, Once
<1>5. Ledger = [k \in Keys |-> [added |-> 0, removed |-> 0]]
  BY <1>2, <1>4, LedgerOnce DEF Ledger, Named
<1>6. Book!Init
  BY <1>2, <1>5 DEF Book!Init
<1> QED
  BY <1>1, <1>2, <1>3, <1>4, <1>6 DEF BookInv, Settled, Known, Apart

\* The import copies each record the medium holds, once.
LEMMA ImportedRecords ==
  ASSUME TypeInv, BootImport
  PROVE  /\ Audited' = Audited
         /\ Once(Records) /\ Apart(medium, db) => Once(Records)'
<1> DEFINE D == db["audit"]
           M == medium["audit"]
<1>1. mode = "down" /\ mode' = "clearing" /\ db' = Import
  BY DEF BootImport, Boots
<1>2. Records = D \cup M
  BY <1>1 DEF Records
<1>3. Records' = D \cup Inserted(M)
  <2>1. Records' = db'["audit"]
    BY <1>1 DEF Records
  <2> QED
    BY <1>1, <2>1, ImportKeeps
<1>4. \A a \in M : <<a[1], boots + 1>> \in Inserted(M)
  BY DEF Inserted
<1>5. \A b \in Inserted(M) : \E a \in M : b = <<a[1], boots + 1>>
  BY DEF Inserted
<1> HIDE DEF Inserted, D, M
<1>6. Named(D \cup Inserted(M)) = Named(D \cup M)
  <2>1. ASSUME NEW a \in D \cup Inserted(M) PROVE \E b \in D \cup M : a[1] = b[1]
    BY <1>5
  <2>2. ASSUME NEW b \in D \cup M PROVE \E a \in D \cup Inserted(M) : a[1] = b[1]
    <3>1. <<b[1], boots + 1>>[1] = b[1]
      OBVIOUS
    <3> QED
      BY <1>4, <3>1
  <2> QED
    BY <2>1, <2>2 DEF Named
<1>7. ASSUME Once(D \cup M), D \cap M = {} PROVE Once(D \cup Inserted(M))
  <2>1. ASSUME NEW a \in D, NEW b \in Inserted(M) PROVE a[1] # b[1]
    BY <1>5, <1>7 DEF Once
  <2>2. ASSUME NEW a \in Inserted(M), NEW b \in Inserted(M), a[1] = b[1] PROVE a = b
    BY <1>5, <2>2
  <2> QED
    BY <1>7, <2>1, <2>2 DEF Once
<1> QED
  BY <1>2, <1>3, <1>6, <1>7 DEF Audited, Once, Apart, D, M, Named

\* The step lemma: what is settled stays settled until a crash, and the book
\* takes part in every step.
LEMMA BookStep ==
  ASSUME BookInv, TypeInv', [Next]_vars
  PROVE  BookInv' /\ (crashes' = 0 => [Book!Next]_(Book!vars))
<1> USE DEF BookInv
<1> DEFINE Still == /\ Held' = Held /\ removed' = removed /\ ever' = ever /\ Audited' = Audited
                    /\ crashes' = crashes
<1>1. ASSUME Still, crashes = 0 => Once(Records)',
             crashes = 0 => IF mode' = "clearing" THEN medium'["entries"] \subseteq db'["entries"]
                            ELSE Apart(medium', db')
      PROVE  BookInv' /\ (crashes' = 0 => [Book!Next]_(Book!vars))
  <2>1. ASSUME crashes = 0 PROVE Settled'
    BY <1>1, <2>1 DEF Settled, Known, Apart
  <2>2. ASSUME crashes = 0 PROVE UNCHANGED Book!vars
    BY <1>1, <2>2, SameBook DEF Settled, Known
  <2> QED
    BY <1>1, <2>1, <2>2
<1>2. CASE BootHost
  <2>1. /\ UNCHANGED <<medium, db, ever, removed, crashes>>
        /\ mode = "down" /\ mode' = "host"
    BY <1>2 DEF BootHost, Boots
  <2>2. Held' = Held /\ Records' = Records
    BY <2>1 DEF Held, Records
  <2>3. Audited' = Audited /\ (Once(Records) => Once(Records)')
    BY <2>2 DEF Audited, Named, Once
  <2>4. crashes = 0 => Once(Records)' /\ Apart(medium', db')
    BY <2>1, <2>3 DEF Settled, Known, Apart
  <2> QED
    BY <1>1, <2>1, <2>2, <2>3, <2>4
<1>3. CASE BootImport
  <2>1. /\ UNCHANGED <<medium, ever, removed, crashes>>
        /\ mode = "down" /\ mode' = "clearing"
        /\ db'["entries"] = db["entries"] \cup medium["entries"]
    BY <1>3, ImportKeeps DEF BootImport, Boots
  <2>2. Held' = Held
    BY <2>1 DEF Held
  <2>3. Audited' = Audited /\ (crashes = 0 => Once(Records)')
    BY <1>3, <2>1, ImportedRecords DEF Settled, Known
  <2> QED
    BY <1>1, <2>1, <2>2, <2>3
<1>4. CASE BootSqlite
  <2>1. /\ UNCHANGED <<medium, db, ever, removed, crashes>>
        /\ mode = "down" /\ mode' = "sqlite"
    BY <1>4 DEF BootSqlite, Boots
  <2>2. Held' = Held /\ Records' = Records
    BY <2>1 DEF Held, Records
  <2>3. Audited' = Audited /\ (Once(Records) => Once(Records)')
    BY <2>2 DEF Audited, Named, Once
  <2>4. crashes = 0 => Once(Records)' /\ Apart(medium', db')
    BY <2>1, <2>3 DEF Settled, Known, Apart
  <2> QED
    BY <1>1, <2>1, <2>2, <2>3, <2>4
<1>5. CASE ClearRow
  <2>1. /\ medium'["entries"] \subseteq medium["entries"]
        /\ UNCHANGED <<db, ever, removed, crashes, mode>> /\ mode = "clearing"
    BY <1>5, ClearedSide DEF ClearRow
  <2>2. Records' = Records
    BY <2>1 DEF Records
  <2>3. Audited' = Audited /\ (Once(Records) => Once(Records)')
    BY <2>2 DEF Audited, Named, Once
  <2>4. Held' \subseteq Held
    BY <2>1 DEF Held
  <2>5. CASE crashes = 0
    <3>1. Held' = Held
      BY <2>1, <2>5 DEF Held, Settled
    <3> QED
      BY <1>1, <2>1, <2>3, <2>5, <3>1 DEF Settled, Known
  <2> QED
    BY <2>1, <2>4, <2>5
<1>6. CASE Mark
  <2>1. /\ UNCHANGED <<medium, db, ever, removed, crashes>>
        /\ mode = "clearing" /\ mode' = "sqlite"
    BY <1>6 DEF Mark
  <2>2. medium["entries"] = {} /\ medium["audit"] = {}
    <3>1. 1 \in DOMAIN Tables /\ Tables[1] = "entries" /\ 2 \in DOMAIN Tables /\ Tables[2] = "audit"
      BY DEF Tables
    <3> QED
      BY <1>6, <3>1 DEF Mark, ClearDone, Uncleared
  <2>3. Held' = Held /\ Records' = Records
    BY <2>1, <2>2 DEF Held, Records
  <2>4. Audited' = Audited /\ (Once(Records) => Once(Records)')
    BY <2>3 DEF Audited, Named, Once
  <2>5. Apart(medium', db')
    BY <2>1, <2>2 DEF Apart
  <2> QED
    BY <1>1, <2>1, <2>3, <2>4, <2>5 DEF Settled, Known
<1>7. CASE ServeHost
  <2>1. PICK next \in Served(medium) \cup {Rewritten(medium)} :
          Serve(medium, next) /\ medium' = next
    BY <1>7 DEF ServeHost
  <2>2. db' = db /\ mode = "host" /\ mode' = mode /\ crashes' = crashes
    BY <1>7 DEF ServeHost
  <2>3. /\ Held = medium["entries"] \cup db["entries"]
        /\ Held' = next["entries"] \cup db["entries"]
        /\ Records = medium["audit"] \cup db["audit"]
        /\ Records' = next["audit"] \cup db["audit"]
    BY <2>1, <2>2 DEF Held, Records
  <2>4. /\ Held' \subseteq Keys
        /\ Known /\ Apart(medium, db) => Known' /\ Apart(next, db) /\ [Book!Next]_(Book!vars)
    BY <2>1, <2>3, ServingCarries DEF TypeInv
  <2> QED
    BY <2>1, <2>2, <2>4 DEF Settled
<1>8. CASE ServeSqlite
  <2>1. PICK next \in Served(db) \cup {Rewritten(db)} : Serve(db, next) /\ db' = next
    BY <1>8 DEF ServeSqlite
  <2>2. medium' = medium /\ mode = "sqlite" /\ mode' = mode /\ crashes' = crashes
    BY <1>8 DEF ServeSqlite
  <2>3. /\ Held = db["entries"] \cup medium["entries"]
        /\ Held' = next["entries"] \cup medium["entries"]
        /\ Records = db["audit"] \cup medium["audit"]
        /\ Records' = next["audit"] \cup medium["audit"]
    BY <2>1, <2>2 DEF Held, Records
  <2>4. /\ Held' \subseteq Keys
        /\ Known /\ Apart(db, medium) => Known' /\ Apart(next, medium) /\ [Book!Next]_(Book!vars)
    BY <2>1, <2>3, ServingCarries DEF TypeInv
  <2>5. Apart(db, medium) = Apart(medium, db) /\ Apart(next, medium) = Apart(medium, next)
    BY DEF Apart
  <2> QED
    BY <2>1, <2>2, <2>4, <2>5 DEF Settled
<1>9. CASE Stop
  <2>1. /\ UNCHANGED <<medium, db, ever, removed, crashes>>
        /\ mode \in {"sqlite", "host"} /\ mode' = "down"
    BY <1>9 DEF Stop
  <2>2. Held' = Held /\ Records' = Records
    BY <2>1 DEF Held, Records
  <2>3. Audited' = Audited /\ (Once(Records) => Once(Records)')
    BY <2>2 DEF Audited, Named, Once
  <2>4. crashes = 0 => Once(Records)' /\ Apart(medium', db')
    BY <2>1, <2>3 DEF Settled, Known, Apart
  <2> QED
    BY <1>1, <2>1, <2>2, <2>3, <2>4
<1>10. CASE Crash
  BY <1>10 DEF Crash, TypeInv, Held
<1>11. CASE UNCHANGED vars
  <2>1. /\ UNCHANGED <<medium, db, ever, removed, crashes, mode>>
    BY <1>11 DEF vars
  <2>2. Held' = Held /\ Records' = Records
    BY <2>1 DEF Held, Records
  <2>3. Audited' = Audited /\ (Once(Records) => Once(Records)')
    BY <2>2 DEF Audited, Named, Once
  <2>4. crashes = 0 => /\ Once(Records)'
                       /\ IF mode' = "clearing" THEN medium'["entries"] \subseteq db'["entries"]
                          ELSE Apart(medium', db')
    BY <2>1, <2>3 DEF Settled, Known, Apart
  <2> QED
    BY <1>1, <2>1, <2>2, <2>3, <2>4
<1> QED
  BY <1>2, <1>3, <1>4, <1>5, <1>6, <1>7, <1>8, <1>9, <1>10, <1>11 DEF Next

\* Until a crash interrupts it, choosing another backend is invisible to the
\* book of the store: importFromDomain copies entries and audit trail, each row
\* once, before it clears either, a boot and the mark change neither, and each
\* operation served by either side is one write of MemoryBook, also across
\* several migrations.
THEOREM MigrationCarriesTheBook == Spec => BookCarried
<1>1. LostInv => TypeInv
  BY DEF LostInv
<1> QED
  BY LostStarts, LostStep, BookStarts, BookStep, <1>1, PTL DEF Spec, BookCarried

=============================================================================
