------------------------ MODULE MemorySectionProofs ---------------------------
(***************************************************************************)
(* Theorems about the SQLite store under the agent tools and the settings  *)
(* section, for any ids, caps and page size, any number of calls, clicks   *)
(* and proposals, and any number of failed transactions and deaths of the  *)
(* process.                                                                *)
(***************************************************************************)
EXTENDS MemorySection, FiniteSetTheorems, FunctionTheorems, SequenceTheorems,
  WellFoundedInduction, TLAPS

-----------------------------------------------------------------------------
(* Records of one transaction.                                             *)

Records == [op: {"add", "remove", "decay", "update", "readRaw"}, id: Ids]

\* The elements of a finite set in sequence: each comes once.
LEMMA SetInSequence ==
  ASSUME NEW S, IsFiniteSet(S)
  PROVE  /\ SetToSeq(S) \in Seq(S)
         /\ \A m, n \in DOMAIN SetToSeq(S) : SetToSeq(S)[m] = SetToSeq(S)[n] => m = n
         /\ \A x \in S : \E n \in DOMAIN SetToSeq(S) : SetToSeq(S)[n] = x
<1> DEFINE c == Cardinality(S)
           Good(f) == f \in [1..c -> S] /\ IsInjective(f)
<1>1. c \in Nat /\ ExistsBijection(1..c, S)
  BY FS_CardinalityType
<1>2. \E f \in [1..c -> S] : IsInjective(f)
  BY <1>1 DEF ExistsBijection, Bijection, Injection
<1> DEFINE f == SetToSeq(S)
<1>3. f \in [1..c -> S] /\ IsInjective(f)
  BY <1>2 DEF SetToSeq
<1> HIDE DEF f
<1>4. f \in Injection(1..c, S)
  BY <1>3 DEF Injection
<1>5. IsFiniteSet(1..c) /\ Cardinality(1..c) = c
  BY <1>1, FS_Interval
<1>6. f \in Surjection(1..c, S)
  BY <1>4, <1>5, FS_Injection
<1>7. \A x \in S : \E n \in 1..c : f[n] = x
  BY <1>6 DEF Surjection
<1>8. DOMAIN f = 1..c /\ f \in Seq(S)
  BY <1>1, <1>3
<1> QED
  BY <1>3, <1>7, <1>8 DEF f, IsInjective

\* Records of which at most one matches are counted as none or one.
LEMMA Tally ==
  ASSUME NEW records, NEW ops, NEW i, NEW S,
         \A m, n \in DOMAIN records :
           /\ records[m].op \in ops /\ records[n].op \in ops
           /\ records[m].id = i /\ records[n].id = i
           => m = n,
         (\E n \in DOMAIN records : records[n].op \in ops /\ records[n].id = i) <=> i \in S
  PROVE  Recorded(records, ops, i) = IF i \in S THEN 1 ELSE 0
<1> DEFINE M == {n \in DOMAIN records : records[n].op \in ops /\ records[n].id = i}
<1>1. CASE i \in S
  <2>1. PICK n \in DOMAIN records : M = {n}
    BY <1>1
  <2>2. Cardinality(M) = 1
    BY <2>1, FS_Singleton
  <2> QED
    BY <1>1, <2>2 DEF Recorded
<1>2. CASE i \notin S
  <2>1. M = {}
    BY <1>2
  <2>2. Cardinality(M) = 0
    BY <2>1, FS_EmptySet
  <2> QED
    BY <1>2, <2>2 DEF Recorded
<1> QED
  BY <1>1, <1>2

\* The records of an operation on a set of entries: one for each.
LEMMA OneRecordEach ==
  ASSUME NEW op \in {"add", "remove", "decay", "update", "readRaw"}, NEW out \in SUBSET Ids
  PROVE  LET s == SetToSeq({Record(op, j) : j \in out})
         IN  /\ s \in Seq(Records)
             /\ \A n \in DOMAIN s : s[n].op = op /\ s[n].id \in out
             /\ \A m, n \in DOMAIN s : s[m].id = s[n].id => m = n
             /\ \A j \in out : \E n \in DOMAIN s : s[n].id = j
<1> DEFINE S == {Record(op, j) : j \in out}
           s == SetToSeq(S)
<1>1. IsFiniteSet(out)
  <2>1. IsFiniteSet(Ids)
    BY FS_Interval, SqliteAssumption DEF Ids
  <2> QED
    BY <2>1, FS_Subset
<1>2. IsFiniteSet(S)
  <2> DEFINE g == [j \in out |-> Record(op, j)]
  <2>1. g \in Surjection(out, S)
    BY DEF Surjection
  <2> QED
    BY <1>1, <2>1, FS_Surjection
<1>3. \A x \in S : x.op = op /\ x.id \in out /\ x = Record(op, x.id) /\ x \in Records
  BY DEF Record, Records
<1>4. \A j \in out : Record(op, j) \in S /\ Record(op, j).id = j
  BY DEF Record
<1> HIDE DEF S, s
<1>5. /\ s \in Seq(S)
      /\ \A m, n \in DOMAIN s : s[m] = s[n] => m = n
      /\ \A x \in S : \E n \in DOMAIN s : s[n] = x
  BY <1>2, SetInSequence DEF s
<1>6. \A n \in DOMAIN s : s[n] \in S
  BY <1>5
<1>7. s \in Seq(Records)
  BY <1>3, <1>5
<1>8. \A m, n \in DOMAIN s : s[m].id = s[n].id => m = n
  BY <1>3, <1>5, <1>6
<1>9. \A j \in out : \E n \in DOMAIN s : s[n].id = j
  BY <1>4, <1>5
<1>10. \A n \in DOMAIN s : s[n].op = op /\ s[n].id \in out
  BY <1>3, <1>6
<1>11. s = SetToSeq({Record(op, j) : j \in out})
  BY DEF s, S
<1> QED
  BY <1>7, <1>8, <1>9, <1>10, <1>11

-----------------------------------------------------------------------------
(* The book.                                                               *)

\* One record is there of each of these, and none of the others.
OnRecord(records, ops, S) ==
  \A i \in Ids : Recorded(records, ops, i) = IF i \in S THEN 1 ELSE 0

\* A write of the book, in terms of the store.
Booked(come, go) ==
  /\ come \cap Held = {} /\ go \subseteq Held \cup come
  /\ Held' = (Held \cup come) \ go
  /\ ledger' = [i \in Ids |->
       [added   |-> ledger[i].added   + IF i \in come THEN 1 ELSE 0,
        removed |-> ledger[i].removed + IF i \in go   THEN 1 ELSE 0]]

\* A commit is a write of the book, when its records are of what came and what
\* went.
LEMMA BookWritten ==
  ASSUME NEW newEntries, NEW newRecent, NEW records,
         Committed(newEntries, newRecent, records),
         NEW come \in SUBSET Ids, NEW go \in SUBSET Ids,
         come \cap Held = {}, go \subseteq Held \cup come,
         \A i \in Ids : newEntries[i] # Absent <=> i \in (Held \cup come) \ go,
         OnRecord(records, {"add"}, come), OnRecord(records, {"remove", "decay"}, go)
  PROVE  Booked(come, go)
<1>1. Held' = (Held \cup come) \ go
  <2>1. entries' = newEntries
    BY DEF Committed
  <2> QED
    BY <2>1 DEF Held
<1>2. ledger' = [i \in Ids |->
         [added   |-> ledger[i].added   + IF i \in come THEN 1 ELSE 0,
          removed |-> ledger[i].removed + IF i \in go   THEN 1 ELSE 0]]
  <2>1. ledger' = [i \in Ids |->
          [added   |-> ledger[i].added   + Recorded(records, {"add"}, i),
           removed |-> ledger[i].removed + Recorded(records, {"remove", "decay"}, i)]]
    BY DEF Committed
  <2> QED
    BY <2>1 DEF OnRecord
<1> QED
  BY <1>1, <1>2 DEF Booked

\* A transaction that is rolled back changes neither entries nor ledger.
LEMMA RolledBackBook ==
  ASSUME NEW newEntries, NEW newRecent, NEW records,
         Transaction(FALSE, newEntries, newRecent, records)
  PROVE  UNCHANGED <<entries, recent, audit, ledger>>
  BY DEF Transaction, Committed, RolledBack

StoreInv ==
  /\ entries \in [Ids -> Row \cup {Absent}]
  /\ minted \in Nat
  /\ \A j \in Ids : minted < j => entries[j] = Absent

\* The step of the book: entries and ledger stay, or are written together.
BookStep == Book!Next \/ UNCHANGED <<Held, ledger>>

LEMMA BookWrites ==
  ASSUME NEW come \in SUBSET Ids, NEW go \in SUBSET Ids, Booked(come, go)
  PROVE  BookStep
  BY DEF BookStep, Booked, Book!Next, Book!Write

LEMMA HeldRow ==
  ASSUME StoreInv, NEW i \in Ids, entries[i] # Absent
  PROVE  /\ entries[i] \in Row /\ i <= minted
         /\ entries[i].body \in Bodies /\ entries[i].pinned \in BOOLEAN
         /\ entries[i].superseded \in BOOLEAN /\ entries[i].access \in Nat
<1>1. entries[i] \in Row
  BY DEF StoreInv
<1>2. i <= minted
  BY SqliteAssumption DEF StoreInv, Ids
<1> QED
  BY <1>1, <1>2 DEF Row

\* An operation that writes one row in place, with a record that is neither of
\* an addition nor of a removal, or without one.
LEMMA InPlace ==
  ASSUME StoreInv, NEW i \in Ids, entries[i] # Absent, NEW row \in Row, NEW ok \in BOOLEAN,
         NEW newRecent, NEW records,
         \/ records = <<>>
         \/ \E op \in {"update", "readRaw"} : records = <<Record(op, i)>>,
         Transaction(ok, Put(i, row), newRecent, records), minted' = minted
  PROVE  StoreInv' /\ BookStep /\ \A j \in Ids : entries[j] # Absent => entries'[j] # Absent
<1>1. CASE ok = FALSE
  <2>1. UNCHANGED <<entries, ledger>>
    BY <1>1, RolledBackBook
  <2> QED
    BY <2>1 DEF StoreInv, BookStep, Held
<1>2. CASE ok = TRUE
  <2>0. PICK new : new = Put(i, row)
    OBVIOUS
  <2>1. new \in [Ids -> Row \cup {Absent}] /\ new[i] # Absent
    BY <2>0, SqliteAssumption DEF StoreInv, Put
  <2>2. \A j \in Ids : (new[j] = Absent) <=> (entries[j] = Absent)
    BY <2>0, <2>1 DEF StoreInv, Put
  <2>3. entries' = new
    BY <1>2, <2>0 DEF Transaction, Committed
  <2>4. StoreInv'
    BY <2>1, <2>2, <2>3 DEF StoreInv
  <2>5. \A n \in DOMAIN records : records[n].op \in {"update", "readRaw"}
    BY DEF Record
  <2> DEFINE none == {}
  <2>6. ASSUME NEW j \in Ids
        PROVE  /\ Recorded(records, {"add"}, j) = IF j \in none THEN 1 ELSE 0
               /\ Recorded(records, {"remove", "decay"}, j) = IF j \in none THEN 1 ELSE 0
    <3>1. \A n \in DOMAIN records : records[n].op \notin {"add", "remove", "decay"}
      BY <2>5
    <3> HIDE DEF none
    <3>2. j \notin none
      BY DEF none
    <3> QED
      BY <3>1, <3>2, Tally
  <2>7. none \in SUBSET Ids /\ none \cap Held = {} /\ none \subseteq Held \cup none
    OBVIOUS
  <2>8. \A j \in Ids : new[j] # Absent <=> j \in (Held \cup none) \ none
    BY <2>2 DEF Held
  <2>9. Committed(new, newRecent, records)
    BY <1>2, <2>0 DEF Transaction
  <2> HIDE DEF none
  <2>10. OnRecord(records, {"add"}, none) /\ OnRecord(records, {"remove", "decay"}, none)
    BY <2>6 DEF OnRecord
  <2>11. Booked(none, none)
    BY <2>7, <2>8, <2>9, <2>10, BookWritten
  <2> QED
    BY <2>2, <2>3, <2>4, <2>7, <2>11, BookWrites
<1> QED
  BY <1>1, <1>2

-----------------------------------------------------------------------------
(* The operations that add and remove.                                     *)

LEMMA AddRecords ==
  ASSUME NEW out \in SUBSET Ids, NEW i \in Ids
  PROVE  LET records == Append(Removals(out), Record("add", i))
         IN  OnRecord(records, {"add"}, {i}) /\ OnRecord(records, {"remove", "decay"}, out)
<1> DEFINE s == Removals(out)
           r == Record("add", i)
           records == Append(s, r)
<1>1. /\ s \in Seq(Records)
      /\ \A n \in DOMAIN s : s[n].op = "decay" /\ s[n].id \in out
      /\ \A m, n \in DOMAIN s : s[m].id = s[n].id => m = n
      /\ \A j \in out : \E n \in DOMAIN s : s[n].id = j
  BY OneRecordEach DEF Removals
<1>2. r \in Records /\ r.op = "add" /\ r.id = i
  BY DEF Record, Records
<1> HIDE DEF s, r
<1>3. /\ Len(s) \in Nat /\ DOMAIN s = 1..Len(s)
      /\ DOMAIN records = 1..(Len(s) + 1)
      /\ records[Len(s) + 1] = r
      /\ \A n \in DOMAIN s : n \in DOMAIN records /\ records[n] = s[n]
      /\ \A n \in DOMAIN records : n = Len(s) + 1 \/ n \in DOMAIN s
  BY <1>1, <1>2
<1> HIDE DEF records
<1>4. ASSUME NEW j \in Ids
      PROVE  Recorded(records, {"add"}, j) = IF j \in {i} THEN 1 ELSE 0
  <2>1. \A n \in DOMAIN records : records[n].op \in {"add"} <=> n = Len(s) + 1
    BY <1>1, <1>2, <1>3
  <2> DEFINE one == {i}
  <2>2. (\E n \in DOMAIN records : records[n].op \in {"add"} /\ records[n].id = j) <=> j \in one
    BY <1>2, <1>3, <2>1
  <2>3. \A m, n \in DOMAIN records :
          records[m].op \in {"add"} /\ records[n].op \in {"add"} => m = n
    BY <2>1
  <2> HIDE DEF one
  <2>4. Recorded(records, {"add"}, j) = IF j \in one THEN 1 ELSE 0
    BY <2>2, <2>3, Tally
  <2> QED
    BY <2>4 DEF one
<1>5. ASSUME NEW j \in Ids
      PROVE  Recorded(records, {"remove", "decay"}, j) = IF j \in out THEN 1 ELSE 0
  <2>1. \A n \in DOMAIN records : records[n].op \in {"remove", "decay"} <=> n \in DOMAIN s
    BY <1>1, <1>2, <1>3
  <2>2. (\E n \in DOMAIN records :
           records[n].op \in {"remove", "decay"} /\ records[n].id = j) <=> j \in out
    BY <1>1, <1>3, <2>1
  <2>3. \A m, n \in DOMAIN s : records[m].id = records[n].id => m = n
    BY <1>1, <1>3
  <2> QED
    BY <2>1, <2>2, <2>3, Tally
<1> QED
  BY <1>4, <1>5 DEF OnRecord, records, s, r

LEMMA JanitorRecords ==
  ASSUME NEW gone \in SUBSET Ids, NEW dormant \in SUBSET Ids
  PROVE  LET records == Removals(gone) \o SetToSeq({Record("update", i) : i \in dormant})
         IN  OnRecord(records, {"add"}, {}) /\ OnRecord(records, {"remove", "decay"}, gone)
<1> DEFINE s == Removals(gone)
           u == SetToSeq({Record("update", i) : i \in dormant})
           records == s \o u
<1>1. /\ s \in Seq(Records)
      /\ \A n \in DOMAIN s : s[n].op = "decay" /\ s[n].id \in gone
      /\ \A m, n \in DOMAIN s : s[m].id = s[n].id => m = n
      /\ \A j \in gone : \E n \in DOMAIN s : s[n].id = j
  BY OneRecordEach DEF Removals
<1>2. u \in Seq(Records) /\ \A n \in DOMAIN u : u[n].op = "update"
  BY OneRecordEach
<1> HIDE DEF s, u
<1>3. /\ Len(s) \in Nat /\ DOMAIN s = 1..Len(s) /\ Len(u) \in Nat /\ DOMAIN u = 1..Len(u)
      /\ records \in Seq(Records) /\ Len(records) = Len(s) + Len(u)
      /\ \A n \in 1..(Len(s) + Len(u)) :
           records[n] = IF n <= Len(s) THEN s[n] ELSE u[n - Len(s)]
  BY <1>1, <1>2, ConcatProperties
<1> HIDE DEF records
<1>4. /\ \A n \in DOMAIN s : n \in DOMAIN records /\ records[n] = s[n]
      /\ \A n \in DOMAIN records : n \in DOMAIN s \/ records[n].op = "update"
  <2>1. DOMAIN records = 1..(Len(s) + Len(u))
    BY <1>3
  <2>2. \A n \in DOMAIN s : n \in DOMAIN records /\ records[n] = s[n]
    BY <1>3, <2>1
  <2>3. ASSUME NEW n \in DOMAIN records, n \notin DOMAIN s PROVE records[n].op = "update"
    <3>1. n - Len(s) \in DOMAIN u /\ ~(n <= Len(s))
      BY <1>3, <2>1, <2>3
    <3> QED
      BY <1>2, <1>3, <2>1, <2>3, <3>1
  <2> QED
    BY <2>2, <2>3
<1>5. ASSUME NEW j \in Ids
      PROVE  Recorded(records, {"add"}, j) = IF j \in {} THEN 1 ELSE 0
  <2>1. \A n \in DOMAIN records : records[n].op \notin {"add"}
    BY <1>1, <1>4
  <2> DEFINE none == {}
  <2>2. j \notin none
    OBVIOUS
  <2> HIDE DEF none
  <2>3. Recorded(records, {"add"}, j) = IF j \in none THEN 1 ELSE 0
    BY <2>1, <2>2, Tally
  <2> QED
    BY <2>3 DEF none
<1>6. ASSUME NEW j \in Ids
      PROVE  Recorded(records, {"remove", "decay"}, j) = IF j \in gone THEN 1 ELSE 0
  <2>1. \A n \in DOMAIN records : records[n].op \in {"remove", "decay"} <=> n \in DOMAIN s
    BY <1>1, <1>4
  <2>2. (\E n \in DOMAIN records :
           records[n].op \in {"remove", "decay"} /\ records[n].id = j) <=> j \in gone
    BY <1>1, <1>4, <2>1
  <2>3. \A m, n \in DOMAIN s : records[m].id = records[n].id => m = n
    BY <1>1, <1>4
  <2> QED
    BY <2>1, <2>2, <2>3, Tally
<1> QED
  BY <1>5, <1>6 DEF OnRecord, records, s, u

\* A pin holds against whatever this is.
PinsHold == \A j \in Ids : entries[j] # Absent /\ entries[j].pinned => entries'[j] # Absent

\* A commit that puts some rows in, changes others and takes some out.
LEMMA Overwritten ==
  ASSUME StoreInv, NEW new \in [Ids -> Row \cup {Absent}], NEW newRecent,
         NEW records, NEW come \in SUBSET Ids, NEW go \in SUBSET Ids,
         Committed(new, newRecent, records),
         come \cap Held = {}, go \subseteq Held \cup come,
         \A i \in Ids : new[i] # Absent <=> i \in (Held \cup come) \ go,
         OnRecord(records, {"add"}, come), OnRecord(records, {"remove", "decay"}, go),
         minted' \in Nat, minted <= minted', \A i \in come : i <= minted'
  PROVE  StoreInv' /\ BookStep
<1>1. BookStep
  BY BookWritten, BookWrites
<1>2. entries' = new
  BY DEF Committed
<1>3. ASSUME NEW j \in Ids, minted' < j PROVE new[j] = Absent
  <2>1. minted < j /\ j \notin come
    BY <1>3, SqliteAssumption DEF StoreInv, Ids
  <2>2. j \notin Held
    BY <2>1 DEF StoreInv, Held
  <2> QED
    BY <2>1, <2>2
<1> QED
  BY <1>1, <1>2, <1>3 DEF StoreInv

\* A transaction that does.
LEMMA Rewritten ==
  ASSUME StoreInv, NEW ok \in BOOLEAN, NEW new \in [Ids -> Row \cup {Absent}], NEW newRecent,
         NEW records, NEW come \in SUBSET Ids, NEW go \in SUBSET Ids,
         Transaction(ok, new, newRecent, records),
         come \cap Held = {}, go \subseteq Held \cup come,
         \A i \in Ids : new[i] # Absent <=> i \in (Held \cup come) \ go,
         OnRecord(records, {"add"}, come), OnRecord(records, {"remove", "decay"}, go),
         minted' \in Nat, minted <= minted', \A i \in come : i <= minted'
  PROVE  StoreInv' /\ BookStep
<1>1. CASE ok = FALSE
  <2>1. UNCHANGED <<entries, ledger>>
    BY <1>1, RolledBackBook
  <2> QED
    BY <2>1, SqliteAssumption DEF StoreInv, BookStep, Held, Ids
<1>2. CASE ok = TRUE
  <2>1. Committed(new, newRecent, records)
    BY <1>2 DEF Transaction
  <2> QED
    BY <2>1, Overwritten
<1> QED
  BY <1>1, <1>2

LEMMA AddStep ==
  ASSUME StoreInv, NEW ok \in BOOLEAN, Add("plain", ok)
  PROVE  StoreInv' /\ BookStep /\ PinsHold
<1>1. PICK i : i = minted + 1
  OBVIOUS
<1>2. PICK table : table = Put(i, Fresh("plain"))
  OBVIOUS
<1>3. PICK out \in Evictions(table, Append(recent, i)) :
        Transaction(ok, [j \in Ids |-> IF j \in out THEN Absent ELSE table[j]],
                    SelectSeq(Append(recent, i), LAMBDA j : j \notin out),
                    Append(Removals(out), Record("add", i)))
  BY <1>1, <1>2 DEF Add
<1>4. i \in Ids /\ minted' = i /\ i \in Nat
  BY <1>1, SqliteAssumption DEF Add, StoreInv, Ids
<1>5. Fresh("plain") \in Row
  BY DEF Fresh, Row, Bodies
<1>6. entries[i] = Absent
  BY <1>1, <1>4 DEF StoreInv
<1>7. /\ table \in [Ids -> Row \cup {Absent}]
      /\ \A j \in Ids : table[j] # Absent <=> j \in Held \cup {i}
      /\ \A j \in Held : j # i /\ table[j] = entries[j]
  BY <1>2, <1>4, <1>5, <1>6, SqliteAssumption DEF StoreInv, Put, Held
<1>8. \A j \in out : j \in Ids /\ table[j] # Absent /\ ~table[j].pinned
  BY <1>3 DEF Evictions, Evictable
<1>9. PICK new : new = [j \in Ids |-> IF j \in out THEN Absent ELSE table[j]]
  OBVIOUS
<1>10. new \in [Ids -> Row \cup {Absent}]
  BY <1>7, <1>9
<1>11. PICK come : come = {i}
  OBVIOUS
<1>12. /\ come \in SUBSET Ids /\ out \in SUBSET Ids
       /\ come \cap Held = {} /\ out \subseteq Held \cup come
  BY <1>4, <1>6, <1>7, <1>8, <1>11 DEF Held
<1>13. \A j \in Ids : new[j] # Absent <=> j \in (Held \cup come) \ out
  BY <1>7, <1>9, <1>11
<1>14. PICK newRecent, records :
         /\ Transaction(ok, new, newRecent, records)
         /\ records = Append(Removals(out), Record("add", i))
  BY <1>3, <1>9
<1>15. OnRecord(records, {"add"}, come) /\ OnRecord(records, {"remove", "decay"}, out)
  BY <1>4, <1>11, <1>12, <1>14, AddRecords
<1>16. minted' \in Nat /\ minted <= minted' /\ \A j \in come : j <= minted'
  BY <1>1, <1>4, <1>11 DEF StoreInv
<1>17. StoreInv' /\ BookStep
  BY <1>10, <1>12, <1>13, <1>14, <1>15, <1>16, Rewritten
<1>18. entries' = new \/ entries' = entries
  BY <1>14 DEF Transaction, Committed, RolledBack
<1>19. ASSUME NEW j \in Ids, entries[j] # Absent, entries[j].pinned PROVE entries'[j] # Absent
  <2>1. j \in Held
    BY <1>19 DEF Held
  <2>2. j \notin out
    BY <1>7, <1>8, <1>19, <2>1
  <2>3. new[j] # Absent
    BY <1>13, <2>1, <2>2
  <2> QED
    BY <1>18, <1>19, <2>3
<1> QED
  BY <1>17, <1>19 DEF PinsHold

LEMMA RemovalRecord ==
  ASSUME NEW i \in Ids
  PROVE  LET records == <<Record("remove", i)>>
         IN  OnRecord(records, {"add"}, {}) /\ OnRecord(records, {"remove", "decay"}, {i})
<1> DEFINE records == <<Record("remove", i)>>
<1>1. DOMAIN records = {1} /\ records[1].op = "remove" /\ records[1].id = i
  BY DEF Record
<1> HIDE DEF records
<1> DEFINE none == {}
           one == {i}
<1>2. \A j : j \notin none /\ (j \in one <=> j = i)
  OBVIOUS
<1> HIDE DEF none, one
<1>3. ASSUME NEW j \in Ids PROVE Recorded(records, {"add"}, j) = IF j \in none THEN 1 ELSE 0
  BY <1>1, <1>2, Tally
<1>4. ASSUME NEW j \in Ids
      PROVE  Recorded(records, {"remove", "decay"}, j) = IF j \in one THEN 1 ELSE 0
  BY <1>1, <1>2, Tally
<1> QED
  BY <1>3, <1>4 DEF OnRecord, records, none, one

\* An explicit removal takes out its entry and no other.
LEMMA RemoveStep ==
  ASSUME StoreInv, NEW i \in Ids, NEW ok \in BOOLEAN, RemoveEntry(i, ok)
  PROVE  /\ StoreInv' /\ BookStep
         /\ \A j \in Ids : j # i /\ entries[j] # Absent => entries'[j] # Absent
         /\ entries'[i] # Absent \/ ok
<1>1. PICK new, newRecent, records, come, go :
        /\ new = Put(i, Absent) /\ newRecent = Without(i) /\ records = <<Record("remove", i)>>
        /\ come = {} /\ go = {i}
  OBVIOUS
<1>2. Transaction(ok, new, newRecent, records) /\ entries[i] # Absent /\ minted' = minted
  BY <1>1 DEF RemoveEntry, Held
<1>3. /\ new \in [Ids -> Row \cup {Absent}]
      /\ \A j \in Ids : new[j] = IF j = i THEN Absent ELSE entries[j]
  BY <1>1 DEF StoreInv, Put
<1>4. /\ come \in SUBSET Ids /\ go \in SUBSET Ids
      /\ come \cap Held = {} /\ go \subseteq Held \cup come
  BY <1>1, <1>2 DEF Held
<1>5. \A j \in Ids : new[j] # Absent <=> j \in (Held \cup come) \ go
  BY <1>1, <1>3 DEF Held
<1>6. OnRecord(records, {"add"}, come) /\ OnRecord(records, {"remove", "decay"}, go)
  BY <1>1, RemovalRecord
<1>7. minted' \in Nat /\ minted <= minted' /\ \A j \in come : j <= minted'
  BY <1>1, <1>2 DEF StoreInv
<1>8. StoreInv' /\ BookStep
  BY <1>2, <1>3, <1>4, <1>5, <1>6, <1>7, Rewritten
<1>9. (ok /\ entries' = new) \/ entries' = entries
  BY <1>2 DEF Transaction, Committed, RolledBack
<1> QED
  BY <1>2, <1>3, <1>8, <1>9

LEMMA JanitorStep ==
  ASSUME StoreInv, NEW n, Janitor(n)
  PROVE  StoreInv' /\ BookStep /\ PinsHold
<1>1. minted' = minted
  BY DEF Janitor
<1>2. PICK done \in SUBSET Due(n) : \E newRecent :
        Committed([i \in Ids |-> IF i \in done \cap Project THEN Absent
                                ELSE IF i \in done \ Project
                                     THEN [entries[i] EXCEPT !.stale = TRUE]
                                ELSE entries[i]],
                  newRecent,
                  Removals(done \cap Project)
                    \o SetToSeq({Record("update", i) : i \in done \ Project}))
  BY DEF Janitor
<1> DEFINE gone == done \cap Project
           dormant == done \ Project
<1>3. PICK new, newRecent, records :
        /\ Committed(new, newRecent, records)
        /\ new = [i \in Ids |-> IF i \in gone THEN Absent
                                ELSE IF i \in dormant THEN [entries[i] EXCEPT !.stale = TRUE]
                                ELSE entries[i]]
        /\ records = Removals(gone) \o SetToSeq({Record("update", i) : i \in dormant})
  BY <1>2
<1>4. \A i \in gone \cup dormant : i \in Ids /\ entries[i] # Absent /\ ~entries[i].pinned
  BY <1>2 DEF Due, Overdue, Held
<1> HIDE DEF gone, dormant
<1>5. \A i \in dormant : [entries[i] EXCEPT !.stale = TRUE] \in Row
  BY <1>4, HeldRow DEF Row
<1>6. /\ new \in [Ids -> Row \cup {Absent}]
      /\ \A i \in Ids : new[i] # Absent <=> i \in Held /\ i \notin gone
  <2>1. \A i \in Ids : new[i] = IF i \in gone THEN Absent
                                ELSE IF i \in dormant THEN [entries[i] EXCEPT !.stale = TRUE]
                                ELSE entries[i]
    BY <1>3
  <2>2. \A i \in Ids : new[i] \in Row \cup {Absent}
    BY <1>5, <2>1 DEF StoreInv
  <2>3. \A i \in Ids : new[i] # Absent <=> i \in Held /\ i \notin gone
    BY <1>4, <1>5, <2>1, SqliteAssumption DEF Held
  <2> QED
    BY <1>3, <2>2, <2>3
<1>7. PICK come, go : come = {} /\ go = gone
  OBVIOUS
<1>8. /\ come \in SUBSET Ids /\ go \in SUBSET Ids
      /\ come \cap Held = {} /\ go \subseteq Held \cup come
  BY <1>4, <1>7 DEF Held
<1>9. \A i \in Ids : new[i] # Absent <=> i \in (Held \cup come) \ go
  BY <1>6, <1>7
<1>10. /\ OnRecord(records, {"add"}, come) /\ OnRecord(records, {"remove", "decay"}, go)
       /\ Committed(new, newRecent, records)
  <2>1. gone \in SUBSET Ids /\ dormant \in SUBSET Ids
    BY <1>4
  <2>2. OnRecord(records, {"add"}, {}) /\ OnRecord(records, {"remove", "decay"}, gone)
    BY <1>3, <2>1, JanitorRecords
  <2> QED
    BY <1>3, <1>7, <2>2
<1>11. minted' \in Nat /\ minted <= minted' /\ \A i \in come : i <= minted'
  BY <1>1, <1>7 DEF StoreInv
<1>12. StoreInv' /\ BookStep
  BY <1>6, <1>8, <1>9, <1>10, <1>11, Overwritten
<1>13. entries' = new
  BY <1>3 DEF Committed
<1>14. PinsHold
  BY <1>4, <1>6, <1>13 DEF PinsHold, Held
<1> QED
  BY <1>12, <1>14

\* Recalling stamps rows that are there.
LEMMA RecallStep ==
  ASSUME StoreInv, NEW S, NEW used \in BOOLEAN, Recall(S, used)
  PROVE  StoreInv' /\ BookStep /\ PinsHold
<1>1. /\ entries' = [i \in Ids |-> IF i \in S \cap Held
                     THEN [entries[i] EXCEPT !.stale = FALSE,
                                             !.access = IF used THEN @ + 1 ELSE @]
                     ELSE entries[i]]
      /\ minted' = minted /\ ledger' = ledger
  BY DEF Recall
<1>2. ASSUME NEW i \in Ids, i \in Held
      PROVE  [entries[i] EXCEPT !.stale = FALSE, !.access = IF used THEN @ + 1 ELSE @] \in Row
  <2> DEFINE one == [entries[i] EXCEPT !.stale = FALSE]
             n == IF used THEN entries[i].access + 1 ELSE entries[i].access
             two == [one EXCEPT !.access = n]
  <2>1. entries[i] \in Row /\ entries[i].access \in Nat
    BY <1>2, HeldRow DEF Held
  <2>2. one \in Row /\ one.access = entries[i].access
    BY <2>1 DEF Row
  <2>3. [entries[i] EXCEPT !.stale = FALSE, !.access = IF used THEN @ + 1 ELSE @] = two
    BY <2>2
  <2>4. n \in Nat
    BY <2>1
  <2> HIDE DEF one, n
  <2>5. two \in Row
    BY <2>2, <2>4 DEF Row
  <2> QED
    BY <2>3, <2>5
<1>3. /\ entries' \in [Ids -> Row \cup {Absent}]
      /\ \A i \in Ids : entries'[i] # Absent <=> entries[i] # Absent
  <2>1. \A i \in Ids : entries'[i] = IF i \in S \cap Held
                     THEN [entries[i] EXCEPT !.stale = FALSE,
                                             !.access = IF used THEN @ + 1 ELSE @]
                     ELSE entries[i]
    BY <1>1
  <2>2. ASSUME NEW i \in Ids PROVE entries'[i] \in Row \cup {Absent} /\ (entries'[i] # Absent <=> entries[i] # Absent)
    <3>1. CASE i \in S \cap Held
      <4>1. entries'[i] \in Row /\ entries[i] # Absent
        BY <1>2, <2>1, <3>1 DEF Held
      <4> QED
        BY <4>1, SqliteAssumption
    <3>2. CASE i \notin S \cap Held
      BY <2>1, <3>2 DEF StoreInv
    <3> QED
      BY <3>1, <3>2
  <2> QED
    BY <1>1, <2>2
<1>4. Held' = Held
  BY <1>3 DEF Held
<1> QED
  BY <1>1, <1>3, <1>4 DEF StoreInv, BookStep, PinsHold

-----------------------------------------------------------------------------
(* The audit trail.                                                        *)

\* A set of numbers has a least element.
LEMMA LeastNumber ==
  ASSUME NEW S \in SUBSET Nat, S # {}
  PROVE  \E x \in S : \A y \in S : x <= y
<1> DEFINE R == {ss \in Nat \X Nat : ss[1] < ss[2]}
<1>1. IsWellFoundedOn(R, Nat)
  BY NatLessThanWellFounded DEF OpToRel
<1>2. \E x \in S : \A y \in S : <<y, x>> \notin R
  <2> HIDE DEF R
  <2> QED
    BY <1>1, WFMin
<1>3. \A x, y \in S : <<y, x>> \notin R => x <= y
  OBVIOUS
<1> QED
  BY <1>2, <1>3

\* A set of numbers none of which exceeds a bound has a greatest element.
LEMMA MaxIsGreatest ==
  ASSUME NEW S \in SUBSET Nat, S # {}, NEW bound \in Nat, \A x \in S : x <= bound
  PROVE  Max(S) \in S /\ \A y \in S : y <= Max(S)
<1> DEFINE Gaps == {bound - x : x \in S}
<1>1. Gaps \in SUBSET Nat /\ Gaps # {}
  <2>1. PICK x \in S : TRUE
    OBVIOUS
  <2>2. bound - x \in Gaps
    BY <2>1
  <2>3. \A y \in S : bound - y \in Nat
    OBVIOUS
  <2> QED
    BY <2>2, <2>3
<1>2. \E g \in Gaps : \A h \in Gaps : g <= h
  <2> HIDE DEF Gaps
  <2> QED
    BY <1>1, LeastNumber
<1>3. \E x \in S : \A y \in S : bound - x <= bound - y
  BY <1>2
<1>4. \E x \in S : \A y \in S : x >= y
  BY <1>3
<1>5. Max(S) \in S /\ \A y \in S : Max(S) >= y
  BY <1>4, Zenon DEF Max
<1> QED
  BY <1>5

\* The greater of two numbers.
LEMMA MaxOfTwo ==
  ASSUME NEW a \in Int, NEW b \in Int
  PROVE  /\ Max({a, b}) \in {a, b}
         /\ a <= Max({a, b}) /\ b <= Max({a, b})
<1>1. \E x \in {a, b} : \A y \in {a, b} : x >= y
  <2>1. CASE a >= b
    BY <2>1
  <2>2. CASE b >= a
    BY <2>2
  <2> QED
    BY <2>1, <2>2
<1>2. Max({a, b}) \in {a, b} /\ \A y \in {a, b} : Max({a, b}) >= y
  BY <1>1, Zenon DEF Max
<1> QED
  BY <1>2

AuditRow == [op: {"add", "remove", "decay", "update", "readRaw"}, id: Ids, seq: Nat]

\* No number beyond the last one handed out is on record.
AuditInv ==
  /\ auditSeq \in Nat
  /\ audit \in Seq(AuditRow)
  /\ \A n \in DOMAIN audit : audit[n].seq <= auditSeq

LEMMA AuditTyped ==
  ASSUME AuditInv
  PROVE  /\ Len(audit) \in Nat /\ DOMAIN audit = 1..Len(audit) /\ auditSeq \in Nat
         /\ \A n \in 1..Len(audit) : audit[n].seq \in Nat /\ audit[n].seq <= auditSeq
<1>1. Len(audit) \in Nat /\ DOMAIN audit = 1..Len(audit) /\ auditSeq \in Nat
  BY DEF AuditInv
<1>2. \A n \in 1..Len(audit) : audit[n] \in AuditRow
  BY DEF AuditInv
<1>3. \A n \in 1..Len(audit) : audit[n].seq \in Nat
  BY <1>2 DEF AuditRow
<1> QED
  BY <1>1, <1>3 DEF AuditInv

\* The records of a commit are appended, and the newest is never among those
\* that the cap pushes out.
LEMMA CommitGrows ==
  ASSUME AuditInv, NEW records \in Seq(Records), audit' = Trail(records),
         auditSeq' \in Nat, auditSeq + Len(records) <= auditSeq'
  PROVE  /\ AuditInv'
         /\ records # <<>> =>
              LET last == records[Len(records)]
              IN  \E n \in DOMAIN audit' :
                    audit'[n] = [op |-> last.op, id |-> last.id, seq |-> auditSeq + Len(records)]
<1> DEFINE k == Len(records)
           numbered == Numbered(records)
           all == audit \o numbered
           from == Max({1, Len(all) - AuditCap + 1})
<1>1. k \in Nat /\ DOMAIN records = 1..k /\ \A n \in 1..k : records[n] \in Records
  OBVIOUS
<1>2. auditSeq + k <= auditSeq' /\ auditSeq' \in Nat /\ auditSeq <= auditSeq' /\ auditSeq \in Nat
  BY <1>1 DEF AuditInv
<1>3. /\ numbered \in Seq(AuditRow) /\ Len(numbered) = k
      /\ \A n \in 1..k : numbered[n] =
           [op |-> records[n].op, id |-> records[n].id, seq |-> auditSeq + n]
  <2>1. numbered = [n \in 1..k |->
           [op |-> records[n].op, id |-> records[n].id, seq |-> auditSeq + n]]
    BY <1>1 DEF Numbered
  <2>2. \A n \in 1..k :
          [op |-> records[n].op, id |-> records[n].id, seq |-> auditSeq + n] \in AuditRow
    BY <1>1 DEF Records, AuditRow, AuditInv
  <2> HIDE DEF numbered, k
  <2>3. numbered \in [1..k -> AuditRow]
    BY <2>1, <2>2
  <2> QED
    BY <1>1, <2>1, <2>3 DEF k
<1> HIDE DEF numbered
<1>4. /\ all \in Seq(AuditRow) /\ Len(all) = Len(audit) + k /\ Len(audit) \in Nat
      /\ \A n \in 1..Len(all) :
           all[n] = IF n <= Len(audit) THEN audit[n] ELSE numbered[n - Len(audit)]
  <2>1. audit \in Seq(AuditRow)
    BY DEF AuditInv
  <2>2. /\ all \in Seq(AuditRow) /\ Len(all) = Len(audit) + Len(numbered)
        /\ \A n \in 1..(Len(audit) + Len(numbered)) :
             all[n] = IF n <= Len(audit) THEN audit[n] ELSE numbered[n - Len(audit)]
    BY <1>3, <2>1, ConcatProperties
  <2> QED
    BY <1>3, <2>2, AuditTyped
<1>5. \A n \in 1..Len(all) : all[n].seq <= auditSeq'
  <2>1. ASSUME NEW n \in 1..Len(audit) PROVE audit[n].seq <= auditSeq'
    BY <1>2, <2>1, AuditTyped
  <2>2. ASSUME NEW n \in 1..k PROVE numbered[n].seq <= auditSeq'
    <3> HIDE DEF k
    <3>0. numbered[n] = [op |-> records[n].op, id |-> records[n].id, seq |-> auditSeq + n]
      BY <1>3, <2>2
    <3>1. numbered[n].seq = auditSeq + n
      BY <3>0
    <3> QED
      BY <1>1, <1>2, <2>2, <3>1, AuditTyped
  <2>3. ASSUME NEW n \in 1..Len(all), ~(n <= Len(audit)) PROVE n - Len(audit) \in 1..k
    BY <1>1, <1>4, <2>3
  <2>4. ASSUME NEW n \in 1..Len(all) PROVE all[n].seq <= auditSeq'
    <3>1. CASE n <= Len(audit)
      BY <1>4, <2>1, <2>4, <3>1
    <3>2. CASE ~(n <= Len(audit))
      BY <1>4, <2>2, <2>3, <2>4, <3>2
    <3> QED
      BY <3>1, <3>2
  <2> QED
    BY <2>4
<1>6. from \in Nat /\ 1 <= from /\ (Len(all) # 0 => from <= Len(all)) /\ from <= Len(all) + 1
  <2> HIDE DEF all
  <2>1. Len(all) \in Nat /\ AuditCap \in Nat \ {0}
    BY <1>1, <1>4, SqliteAssumption
  <2>2. Len(all) - AuditCap + 1 \in Int
    BY <2>1
  <2> DEFINE b == Len(all) - AuditCap + 1
  <2>3. from = Max({1, b}) /\ 1 \in Int
    OBVIOUS
  <2> HIDE DEF b, from
  <2>4. from \in {1, b} /\ 1 <= from
    BY <2>2, <2>3, MaxOfTwo DEF b
  <2> QED
    BY <2>1, <2>4 DEF b
<1> HIDE DEF all, from
<1>7. /\ SubSeq(all, from, Len(all)) \in Seq(AuditRow)
      /\ Len(SubSeq(all, from, Len(all))) = Len(all) - from + 1
      /\ \A n \in 1..(Len(all) - from + 1) :
           SubSeq(all, from, Len(all))[n] = all[from + n - 1] /\ from + n - 1 \in 1..Len(all)
  BY <1>1, <1>4, <1>6, SubSeqProperties
<1>8. audit' = SubSeq(all, from, Len(all))
  BY DEF Trail, all, from, numbered
<1>9. AuditInv'
  <2>1. audit' \in Seq(AuditRow) /\ DOMAIN audit' = 1..(Len(all) - from + 1)
    BY <1>7, <1>8
  <2>2. \A n \in 1..(Len(all) - from + 1) : audit'[n].seq <= auditSeq'
    BY <1>5, <1>7, <1>8
  <2> QED
    BY <1>2, <2>1, <2>2 DEF AuditInv
<1>10. ASSUME records # <<>>
       PROVE  \E n \in DOMAIN audit' :
                audit'[n] = [op |-> records[k].op, id |-> records[k].id, seq |-> auditSeq + k]
  <2>1. k \in 1..k /\ Len(all) \in 1..Len(all) /\ ~(Len(all) <= Len(audit))
    BY <1>1, <1>4, <1>10
  <2>2. all[Len(all)] = numbered[k]
    BY <1>1, <1>4, <2>1
  <2>3. all[Len(all)] = [op |-> records[k].op, id |-> records[k].id, seq |-> auditSeq + k]
    BY <1>3, <2>1, <2>2
  <2> DEFINE n == Len(all) - from + 1
  <2>4. Len(all) \in Nat /\ Len(all) # 0 /\ from <= Len(all)
    BY <1>1, <1>4, <1>6, <2>1
  <2>5. n \in 1..n /\ from + n - 1 = Len(all)
    BY <1>6, <2>4
  <2>6. n \in DOMAIN audit'
    BY <1>7, <1>8, <2>5
  <2>7. audit'[n] = all[Len(all)]
    BY <1>7, <1>8, <2>5
  <2> QED
    BY <2>3, <2>6, <2>7
<1> QED
  BY <1>9, <1>10

\* A transaction leaves the trail as it was, or grown.
LEMMA TrailGrows ==
  ASSUME AuditInv, NEW ok \in BOOLEAN, NEW newEntries, NEW newRecent,
         NEW records \in Seq(Records), Transaction(ok, newEntries, newRecent, records)
  PROVE  /\ AuditInv'
         /\ ok /\ records # <<>> =>
              LET last == records[Len(records)]
              IN  \E n \in DOMAIN audit' :
                    audit'[n] = [op |-> last.op, id |-> last.id, seq |-> auditSeq']
<1>1. auditSeq' = auditSeq + Len(records) /\ auditSeq' \in Nat /\ auditSeq <= auditSeq'
  BY DEF Transaction, AuditInv
<1>2. CASE ok = FALSE
  <2>1. audit' = audit
    BY <1>2, RolledBackBook
  <2>2. \A n \in DOMAIN audit : audit[n].seq <= auditSeq'
    BY <1>1, AuditTyped
  <2> QED
    BY <1>1, <1>2, <2>1, <2>2 DEF AuditInv
<1>3. CASE ok = TRUE
  <2>1. audit' = Trail(records)
    BY <1>3 DEF Transaction, Committed
  <2> QED
    BY <1>1, <2>1, CommitGrows
<1> QED
  BY <1>2, <1>3

\* The counter resumes from the newest number on record.
LEMMA ReopenedSeq == ASSUME AuditInv, UNCHANGED audit, auditSeq' = BootSeq PROVE AuditInv'
<1> DEFINE S == {0} \cup {audit[n].seq : n \in DOMAIN audit}
<1>1. S \in SUBSET Nat /\ S # {} /\ auditSeq \in Nat /\ \A x \in S : x <= auditSeq
  BY AuditTyped
<1>2. BootSeq = Max(S)
  BY DEF BootSeq
<1>3. \A n \in DOMAIN audit : audit[n].seq \in S
  OBVIOUS
<1> HIDE DEF S
<1>4. Max(S) \in S /\ \A y \in S : y <= Max(S)
  BY <1>1, MaxIsGreatest
<1> QED
  BY <1>1, <1>2, <1>3, <1>4 DEF AuditInv

-----------------------------------------------------------------------------
(* The operations, whole.                                                  *)

\* The newest record is of the removal of this entry.
RemovalOnTop(i) ==
  \E n \in DOMAIN audit' : audit'[n] = [op |-> "remove", id |-> i, seq |-> auditSeq']

\* What every step does: a pinned entry goes only with the record of a removal.
StoreStep ==
  /\ StoreInv' /\ AuditInv' /\ BookStep
  /\ \A i \in Ids : entries[i] # Absent /\ entries[i].pinned /\ entries'[i] = Absent
                      => RemovalOnTop(i)

\* What most steps do: no pinned entry goes at all.
KeepsPins == StoreStep /\ PinsHold

LEMMA NothingWritten ==
  ASSUME StoreInv, AuditInv, UNCHANGED <<entries, minted, audit, auditSeq, ledger>>
  PROVE  KeepsPins
  BY DEF KeepsPins, StoreStep, StoreInv, AuditInv, BookStep, PinsHold, Held

LEMMA OneRecord ==
  ASSUME NEW op \in {"add", "remove", "decay", "update", "readRaw"}, NEW i \in Ids
  PROVE  <<Record(op, i)>> \in Seq(Records) /\ <<>> \in Seq(Records)
<1>1. Record(op, i) \in Records
  BY DEF Record, Records
<1> QED
  BY <1>1

\* A row that is written in place.
LEMMA InPlaceStep ==
  ASSUME StoreInv, AuditInv, NEW i \in Ids, entries[i] # Absent, NEW row \in Row,
         NEW ok \in BOOLEAN, NEW newRecent, NEW records,
         \/ records = <<>>
         \/ \E op \in {"update", "readRaw"} : records = <<Record(op, i)>>,
         Transaction(ok, Put(i, row), newRecent, records), minted' = minted
  PROVE  KeepsPins
<1>1. StoreInv' /\ BookStep /\ \A j \in Ids : entries[j] # Absent => entries'[j] # Absent
  BY InPlace
<1>2. records \in Seq(Records)
  BY OneRecord
<1>3. AuditInv'
  BY <1>2, TrailGrows
<1> QED
  BY <1>1, <1>3 DEF KeepsPins, StoreStep, PinsHold

LEMMA UpdateStep ==
  ASSUME StoreInv, AuditInv, NEW i \in Ids, NEW b, NEW ok \in BOOLEAN, Update(i, b, ok)
  PROVE  KeepsPins
<1> DEFINE row == [entries[i] EXCEPT !.body = b]
<1>1. entries[i] # Absent /\ b \in Bodies /\ minted' = minted
  BY DEF Update, Allowed, Held
<1>2. row \in Row
  BY <1>1, HeldRow DEF Row
<1>3. Transaction(ok, Put(i, row), recent, <<Record("update", i)>>)
  BY DEF Update
<1> HIDE DEF row
<1> QED
  BY <1>1, <1>2, <1>3, InPlaceStep

LEMMA SetPinnedStep ==
  ASSUME StoreInv, AuditInv, NEW i \in Ids, NEW p \in BOOLEAN, NEW ok \in BOOLEAN,
         SetPinned(i, p, ok)
  PROVE  KeepsPins
<1> DEFINE row == [entries[i] EXCEPT !.pinned = p]
<1>1. entries[i] # Absent /\ minted' = minted
  BY DEF SetPinned, Held
<1>2. row \in Row
  BY <1>1, HeldRow DEF Row
<1>3. Transaction(ok, Put(i, row), recent, <<>>)
  BY DEF SetPinned
<1> HIDE DEF row
<1> QED
  BY <1>1, <1>2, <1>3, InPlaceStep

LEMMA SupersedeStep ==
  ASSUME StoreInv, AuditInv, NEW i \in Ids, NEW ok \in BOOLEAN, Supersede(i, ok)
  PROVE  KeepsPins
<1> DEFINE row == [entries[i] EXCEPT !.superseded = TRUE]
<1>1. entries[i] # Absent /\ minted' = minted
  BY DEF Supersede, Held
<1>2. row \in Row
  BY <1>1, HeldRow DEF Row
<1>3. Transaction(ok, Put(i, row), recent, <<Record("update", i)>>)
  BY DEF Supersede
<1> HIDE DEF row
<1> QED
  BY <1>1, <1>2, <1>3, InPlaceStep

\* A record alone: the row is written as it is.
LEMMA RecordStep ==
  ASSUME StoreInv, AuditInv, NEW i \in Ids, NEW ok \in BOOLEAN, Hit(i, ok) \/ ReadRaw(i)
  PROVE  KeepsPins
<1>1. entries[i] # Absent /\ minted' = minted
  BY DEF Hit, ReadRaw, Held
<1>2. entries[i] \in Row /\ Put(i, entries[i]) = entries
  BY <1>1, HeldRow DEF StoreInv, Put
<1>3. \E o \in BOOLEAN, op \in {"update", "readRaw"} :
        Transaction(o, entries, recent, <<Record(op, i)>>)
  BY DEF Hit, ReadRaw
<1>4. PICK o \in BOOLEAN, op \in {"update", "readRaw"} :
        Transaction(o, Put(i, entries[i]), recent, <<Record(op, i)>>)
  BY <1>2, <1>3
<1>5. PICK records : records = <<Record(op, i)>>
  OBVIOUS
<1> QED
  BY <1>1, <1>2, <1>4, <1>5, InPlaceStep

LEMMA AddKeepsPins ==
  ASSUME StoreInv, AuditInv, NEW ok \in BOOLEAN, Add("plain", ok)
  PROVE  KeepsPins
<1>1. StoreInv' /\ BookStep /\ PinsHold
  BY AddStep
<1>2. PICK i : i = minted + 1
  OBVIOUS
<1>3. PICK out \in Evictions(Put(i, Fresh("plain")), Append(recent, i)) :
        \E newEntries, newRecent :
          Transaction(ok, newEntries, newRecent, Append(Removals(out), Record("add", i)))
  BY <1>2 DEF Add
<1>4. i \in Ids /\ out \in SUBSET Ids
  BY <1>2, <1>3, SqliteAssumption DEF Add, StoreInv, Ids, Evictions, Evictable
<1>5. PICK records : records = Append(Removals(out), Record("add", i))
  OBVIOUS
<1>6. records \in Seq(Records)
  <2>1. Removals(out) \in Seq(Records)
    BY <1>4, OneRecordEach DEF Removals
  <2>2. Record("add", i) \in Records
    BY <1>4 DEF Record, Records
  <2> QED
    BY <1>5, <2>1, <2>2, AppendProperties
<1>7. AuditInv'
  BY <1>3, <1>5, <1>6, TrailGrows
<1> QED
  BY <1>1, <1>7 DEF KeepsPins, StoreStep, PinsHold

LEMMA JanitorKeepsPins ==
  ASSUME StoreInv, AuditInv, NEW n, Janitor(n)
  PROVE  KeepsPins
<1>1. StoreInv' /\ BookStep /\ PinsHold
  BY JanitorStep
<1>2. PICK gone \in SUBSET Ids, dormant \in SUBSET Ids : \E records :
        /\ records = Removals(gone) \o SetToSeq({Record("update", i) : i \in dormant})
        /\ audit' = Trail(records)
        /\ auditSeq' = auditSeq + Len(records) \/ auditSeq' = auditSeq + Len(records) + 1
  <2>1. PICK done \in SUBSET Due(n) : \E records :
          /\ records = Removals(done \cap Project)
                         \o SetToSeq({Record("update", i) : i \in done \ Project})
          /\ audit' = Trail(records)
          /\ auditSeq' = auditSeq + Len(records) \/ auditSeq' = auditSeq + Len(records) + 1
    BY DEF Janitor, Committed
  <2>2. done \cap Project \in SUBSET Ids /\ done \ Project \in SUBSET Ids
    BY DEF Due, Overdue, Held
  <2> QED
    BY <2>1, <2>2
<1>3. PICK records :
        /\ records = Removals(gone) \o SetToSeq({Record("update", i) : i \in dormant})
        /\ audit' = Trail(records)
        /\ auditSeq' = auditSeq + Len(records) \/ auditSeq' = auditSeq + Len(records) + 1
  BY <1>2
<1>4. records \in Seq(Records)
  <2>1. Removals(gone) \in Seq(Records)
    BY OneRecordEach DEF Removals
  <2>2. SetToSeq({Record("update", i) : i \in dormant}) \in Seq(Records)
    BY OneRecordEach
  <2> QED
    BY <1>3, <2>1, <2>2, ConcatProperties
<1>5. auditSeq' \in Nat /\ auditSeq + Len(records) <= auditSeq'
  <2>1. auditSeq \in Nat /\ Len(records) \in Nat
    BY <1>4 DEF AuditInv
  <2> QED
    BY <1>3, <2>1
<1>6. AuditInv'
  BY <1>3, <1>4, <1>5, CommitGrows
<1> QED
  BY <1>1, <1>6 DEF KeepsPins, StoreStep, PinsHold

LEMMA RecallKeepsPins ==
  ASSUME StoreInv, AuditInv, NEW S, NEW used \in BOOLEAN, Recall(S, used)
  PROVE  KeepsPins
<1>1. StoreInv' /\ BookStep /\ PinsHold
  BY RecallStep
<1>2. AuditInv'
  BY DEF Recall, AuditInv
<1> QED
  BY <1>1, <1>2 DEF KeepsPins, StoreStep, PinsHold

LEMMA RemoveTakesOne ==
  ASSUME StoreInv, AuditInv, NEW i \in Ids, NEW ok \in BOOLEAN, RemoveEntry(i, ok)
  PROVE  StoreStep /\ \A j \in Ids : j # i /\ entries[j] # Absent => entries'[j] # Absent
<1>1. /\ StoreInv' /\ BookStep
      /\ \A j \in Ids : j # i /\ entries[j] # Absent => entries'[j] # Absent
      /\ entries'[i] # Absent \/ ok
  BY RemoveStep
<1>2. PICK newEntries, newRecent, records :
        /\ Transaction(ok, newEntries, newRecent, records)
        /\ records = <<Record("remove", i)>>
  BY DEF RemoveEntry
<1>3. /\ records \in Seq(Records) /\ records # <<>> /\ Len(records) = 1
      /\ records[1].op = "remove" /\ records[1].id = i
  BY <1>2, OneRecord DEF Record
<1>4. /\ AuditInv'
      /\ ok => \E n \in DOMAIN audit' :
                 audit'[n] = [op |-> records[1].op, id |-> records[1].id, seq |-> auditSeq']
  BY <1>2, <1>3, TrailGrows
<1>5. ok => RemovalOnTop(i)
  BY <1>3, <1>4 DEF RemovalOnTop
<1> QED
  BY <1>1, <1>4, <1>5 DEF StoreStep

-----------------------------------------------------------------------------
(* The steps of agents, of the page and of the host.                       *)

\* A batch delete is never about to remove what was pinned when it searched.
ForgetInv ==
  /\ forgetting \subseteq Ids
  /\ forgetting \cap pinnedSince = {}

\* Which entries an unfinished batch delete may take in this step.
ForgetStep ==
  \/ forgetting' = forgetting /\ pinnedSince' \subseteq pinnedSince
  \/ PinsHold /\ forgetting' \subseteq Ids /\ forgetting' \cap pinnedSince' = {}
  \/ /\ forgetting' \subseteq forgetting /\ pinnedSince' \subseteq pinnedSince
     /\ \E i \in forgetting : \A j \in Ids : j # i /\ entries[j] # Absent => entries'[j] # Absent

LEMMA ForgetKept == ASSUME ForgetInv, ForgetStep PROVE ForgetInv'
  BY DEF ForgetInv, ForgetStep

\* Calls that leave the batch delete as it is.
LEMMA Bystander ==
  ASSUME forgetting' = forgetting, Unpinned \/ UNCHANGED pinnedSince
  PROVE  ForgetStep
  BY DEF ForgetStep, Unpinned

LEMMA PlainCall ==
  ASSUME StoreInv, AuditInv,
         MemorySearch \/ MemoryList \/ MemoryGetRaw \/ MemoryAdd \/ MemoryReplace \/ IdentityUpdate
  PROVE  StoreStep /\ ForgetStep
<1>1. ForgetStep
  BY Bystander DEF MemorySearch, MemoryList, MemoryGetRaw, MemoryAdd, MemoryReplace,
                   IdentityUpdate, tools
<1>2. CASE MemorySearch \/ MemoryList
  <2>1. \E S : Recall(S, TRUE)
    BY <1>2 DEF MemorySearch, MemoryList
  <2> QED
    BY <1>1, <2>1, RecallKeepsPins DEF KeepsPins
<1>3. CASE MemoryGetRaw
  <2>1. PICK i \in Ids : ReadRaw(i)
    BY <1>3 DEF MemoryGetRaw, Held
  <2> QED
    BY <1>1, <2>1, RecordStep DEF KeepsPins
<1>4. ASSUME NEW subject, Observe(subject) PROVE StoreStep
  <2>1. UNCHANGED <<entries, minted, audit, auditSeq, ledger>>
    BY <1>4 DEF Observe, Unlisted
  <2> QED
    BY <2>1, NothingWritten DEF KeepsPins
<1>5. CASE MemoryAdd
  <2>1. (\E ok \in BOOLEAN : Add("plain", ok)) \/ \E subject : Observe(subject)
    BY <1>5 DEF MemoryAdd
  <2> QED
    BY <1>1, <1>4, <2>1, AddKeepsPins DEF KeepsPins
<1>6. CASE MemoryReplace
  <2>1. \/ \E i \in Ids, ok \in BOOLEAN : Update(i, "edited", ok)
        \/ \E subject : Observe(subject)
    BY <1>6 DEF MemoryReplace, Held
  <2> QED
    BY <1>1, <1>4, <2>1, UpdateStep DEF KeepsPins
<1>7. CASE IdentityUpdate
  <2>1. UpdateIdentity \/ \E subject : Observe(subject)
    BY <1>7 DEF IdentityUpdate
  <2>2. UpdateIdentity => UNCHANGED <<entries, minted, audit, auditSeq, ledger>>
    BY DEF UpdateIdentity, Unlisted
  <2> QED
    BY <1>1, <1>4, <2>1, <2>2, NothingWritten DEF KeepsPins
<1> QED
  BY <1>2, <1>3, <1>5, <1>6, <1>7

LEMMA OneEntryCall ==
  ASSUME StoreInv, AuditInv, MemoryRemove \/ MemoryPin
  PROVE  StoreStep /\ ForgetStep
<1>1. ForgetStep
  BY Bystander DEF MemoryRemove, MemoryPin
<1>2. CASE MemoryRemove
  <2>1. PICK i \in Ids, ok \in BOOLEAN : RemoveEntry(i, ok)
    BY <1>2 DEF MemoryRemove, Held
  <2> QED
    BY <1>1, <2>1, RemoveTakesOne
<1>3. CASE MemoryPin
  <2>1. PICK i \in Held, ok \in BOOLEAN : SetPinned(i, ~entries[i].pinned, ok)
    BY <1>3 DEF MemoryPin
  <2>2. PICK p \in BOOLEAN : p = ~entries[i].pinned
    OBVIOUS
  <2>3. i \in Ids /\ SetPinned(i, p, ok)
    BY <2>1, <2>2 DEF Held
  <2> QED
    BY <1>1, <2>3, SetPinnedStep DEF KeepsPins
<1> QED
  BY <1>2, <1>3

LEMMA BackgroundStep ==
  ASSUME StoreInv, AuditInv, Background
  PROVE  StoreStep /\ ForgetStep
<1>1. ForgetStep
  BY Bystander DEF Background
<1>2. CASE \E i \in Held : Recall({i}, FALSE)
  <2>1. \E S : Recall(S, FALSE)
    BY <1>2
  <2> QED
    BY <1>1, <2>1, RecallKeepsPins DEF KeepsPins
<1>3. CASE \E i \in Held, ok \in BOOLEAN : Hit(i, ok) \/ Supersede(i, ok)
  <2>1. PICK i \in Ids, ok \in BOOLEAN : Hit(i, ok) \/ Supersede(i, ok)
    BY <1>3 DEF Held
  <2> QED
    BY <1>1, <2>1, RecordStep, SupersedeStep DEF KeepsPins
<1>4. CASE \E n : Janitor(n)
  BY <1>1, <1>4, JanitorKeepsPins DEF KeepsPins
<1> QED
  BY <1>2, <1>3, <1>4 DEF Background

\* The batch delete takes what it found, and that was not pinned.
LEMMA SearchStep ==
  ASSUME StoreInv, AuditInv, ForgetSearch
  PROVE  StoreStep /\ ForgetStep
<1>1. KeepsPins
  <2>1. \E S : Recall(S, TRUE)
    BY DEF ForgetSearch
  <2> QED
    BY <2>1, RecallKeepsPins
<1>2. forgetting' \subseteq Ids /\ forgetting' \cap pinnedSince' = {}
  BY DEF ForgetSearch, Deletable, Found, Held
<1> QED
  BY <1>1, <1>2 DEF KeepsPins, ForgetStep

LEMMA NextRound ==
  ASSUME StoreInv, AuditInv, ForgetInv, ForgetNext
  PROVE  StoreStep /\ ForgetStep
<1>1. PICK i : i = Max(forgetting)
  OBVIOUS
<1>2. i \in forgetting /\ i \in Ids
  <2>1. forgetting \in SUBSET Nat /\ forgetting # {} /\ \A x \in forgetting : x <= MaxIds
    BY SqliteAssumption DEF ForgetNext, ForgetInv, Ids
  <2>2. MaxIds \in Nat
    BY SqliteAssumption
  <2> QED
    BY <1>1, <2>1, <2>2, MaxIsGreatest DEF ForgetInv
<1>3. CASE entries[i] = Absent /\ forgetting' = forgetting \ {i} /\ UNCHANGED <<store, pinnedSince>>
  <2>1. KeepsPins
    BY <1>3, NothingWritten DEF store, tables, counters
  <2>2. ForgetStep
    BY <1>2, <1>3 DEF ForgetStep, store, tables
  <2> QED
    BY <2>1, <2>2 DEF KeepsPins
<1>4. CASE \E ok \in BOOLEAN :
             /\ RemoveEntry(i, ok)
             /\ forgetting' = IF ok THEN forgetting \ {i} ELSE {}
             /\ Unpinned
  <2>1. PICK ok \in BOOLEAN : RemoveEntry(i, ok)
    BY <1>4
  <2>2. StoreStep /\ \A j \in Ids : j # i /\ entries[j] # Absent => entries'[j] # Absent
    BY <1>2, <2>1, RemoveTakesOne
  <2>3. forgetting' \subseteq forgetting /\ pinnedSince' \subseteq pinnedSince
    BY <1>4 DEF Unpinned
  <2> QED
    BY <1>2, <2>2, <2>3 DEF ForgetStep
<1> QED
  BY <1>1, <1>3, <1>4 DEF ForgetNext

LEMMA CallStep ==
  ASSUME StoreInv, AuditInv, ForgetInv, ToolCall
  PROVE  StoreStep /\ ForgetStep
  BY PlainCall, OneEntryCall, BackgroundStep, SearchStep, NextRound DEF ToolCall

\* What the page does touches no table.
LEMMA PageStep ==
  ASSUME StoreInv, AuditInv, User \/ Answer
  PROVE  StoreStep /\ ForgetStep
<1>1. UNCHANGED <<entries, minted, audit, auditSeq, ledger>> /\ UNCHANGED tools
  <2>1. CASE User
    BY <2>1 DEF User, Load, SetFilters, LoadMore, ActOnRow, Decide, Edit, Save, Act, Idle, tables
  <2>2. CASE Answer
    BY <2>2 DEF Answer, store, tables, counters
  <2> QED
    BY <2>1, <2>2
<1>2. KeepsPins
  BY <1>1, NothingWritten
<1>3. ForgetStep
  BY <1>1, Bystander DEF tools
<1> QED
  BY <1>2, <1>3 DEF KeepsPins

LEMMA ServeStep ==
  ASSUME StoreInv, AuditInv, Serve
  PROVE  StoreStep /\ ForgetStep
<1>1. PICK r \in requests :
        \/ ServeBatch(r) \/ ServeQueue(r) \/ ServeRaw(r) \/ ServeWrite(r) \/ RefuseWrite(r)
        \/ ServeAdopt(r) \/ ServeAdopted(r) \/ ServeReject(r) \/ Fail(r)
  BY DEF Serve
<1>2. CASE UNCHANGED <<entries, minted, audit, auditSeq, ledger>> /\ UNCHANGED tools
  <2>1. KeepsPins
    BY <1>2, NothingWritten
  <2>2. ForgetStep
    BY <1>2, Bystander DEF tools
  <2> QED
    BY <2>1, <2>2 DEF KeepsPins
<1>3. CASE ServeBatch(r) \/ ServeQueue(r) \/ RefuseWrite(r)
  BY <1>2, <1>3 DEF ServeBatch, ServeQueue, RefuseWrite, store, tables, counters
<1>4. CASE ServeAdopt(r) \/ ServeAdopted(r) \/ ServeReject(r)
  BY <1>2, <1>4 DEF ServeAdopt, ServeAdopted, ServeReject, AdoptWrite, AdoptDrop, Reject, Unlisted
<1>5. CASE Fail(r)
  BY <1>2, <1>5 DEF Fail, tables
<1>6. CASE ServeRaw(r)
  <2>1. CASE r.arg \in Held
    <3>1. r.arg \in Ids /\ ReadRaw(r.arg) /\ UNCHANGED tools
      BY <1>6, <2>1 DEF ServeRaw, Held
    <3>2. KeepsPins
      BY <3>1, RecordStep
    <3>3. ForgetStep
      BY <3>1, Bystander DEF tools
    <3> QED
      BY <3>2, <3>3 DEF KeepsPins
  <2>2. CASE r.arg \notin Held
    BY <1>2, <1>6, <2>2 DEF ServeRaw, store, tables, counters
  <2> QED
    BY <2>1, <2>2
<1>7. CASE ServeWrite(r)
  <2>1. ForgetStep
    BY <1>7, Bystander DEF ServeWrite
  <2>2. PICK ok \in BOOLEAN, p \in BOOLEAN :
          Update(r.arg, r.body, ok) \/ RemoveEntry(r.arg, ok) \/ SetPinned(r.arg, p, ok)
    BY <1>7 DEF ServeWrite
  <2>3. PICK i, b : i = r.arg /\ b = r.body
    OBVIOUS
  <2>4. Update(i, b, ok) \/ RemoveEntry(i, ok) \/ SetPinned(i, p, ok)
    BY <2>2, <2>3
  <2>5. i \in Ids
    BY <2>4 DEF Update, RemoveEntry, SetPinned, Held
  <2>6. Update(i, b, ok) \/ SetPinned(i, p, ok) => StoreStep
    BY <2>5, UpdateStep, SetPinnedStep DEF KeepsPins
  <2> QED
    BY <2>1, <2>4, <2>5, <2>6, RemoveTakesOne
<1> QED
  BY <1>1, <1>3, <1>4, <1>5, <1>6, <1>7

LEMMA RestartStep ==
  ASSUME StoreInv, AuditInv, Restart
  PROVE  StoreStep /\ ForgetStep
<1>1. UNCHANGED <<entries, minted, audit, ledger>> /\ auditSeq' = BootSeq
  BY DEF Restart, Reopen, tables
<1>2. AuditInv'
  BY <1>1, ReopenedSeq
<1>3. StoreInv' /\ BookStep /\ PinsHold
  BY <1>1 DEF StoreInv, BookStep, PinsHold, Held
<1>4. forgetting' = {} /\ pinnedSince' = {}
  BY DEF Restart
<1> QED
  BY <1>2, <1>3, <1>4 DEF StoreStep, ForgetStep, PinsHold

\* Every step is as the store promises.
LEMMA EveryStep ==
  ASSUME StoreInv, AuditInv, ForgetInv, [Next]_vars
  PROVE  StoreStep /\ ForgetStep
<1>1. CASE Next
  BY <1>1, CallStep, PageStep, ServeStep, RestartStep DEF Next
<1>2. CASE UNCHANGED vars
  <2>1. UNCHANGED <<entries, minted, audit, auditSeq, ledger>> /\ UNCHANGED tools
    BY <1>2 DEF vars, store, tables, counters
  <2>2. KeepsPins /\ ForgetStep
    BY <2>1, NothingWritten, Bystander DEF tools
  <2> QED
    BY <2>2 DEF KeepsPins
<1> QED
  BY <1>1, <1>2

-----------------------------------------------------------------------------
(* The theorems.                                                           *)

LEMMA FirstState == ASSUME Init PROVE StoreInv /\ AuditInv /\ ForgetInv
<1>1. /\ entries = [i \in Ids |-> IF i \in Imported
                                  THEN Fresh(IF i \in Blocked THEN "blocked" ELSE "plain")
                                  ELSE Absent]
      /\ audit = <<>> /\ auditSeq = 0 /\ minted = Cardinality(Imported)
      /\ forgetting = {} /\ pinnedSince = {}
  BY DEF Init, ToolsInit, InitStore
<1>2. IsFiniteSet(Ids) /\ Imported \subseteq Ids
  <2>1. MaxIds \in Nat /\ Imported \subseteq Ids
    BY SqliteAssumption
  <2>2. 1 \in Int /\ MaxIds \in Int
    BY <2>1
  <2> QED
    BY <2>1, <2>2, FS_Interval DEF Ids
<1>3. IsFiniteSet(Imported) /\ minted \in Nat
  BY <1>1, <1>2, FS_Subset, FS_CardinalityType
<1>4. ASSUME NEW j \in Imported PROVE j <= minted
  <2>1. 1..j \subseteq Imported
    BY <1>2, SqliteAssumption DEF Ids
  <2>2. IsFiniteSet(1..j) /\ Cardinality(1..j) = j
    BY <1>2, FS_Interval DEF Ids
  <2> QED
    BY <1>1, <1>3, <2>1, <2>2, FS_Subset
<1>5. \A j \in Ids : minted < j => j \notin Imported
  BY <1>3, <1>4 DEF Ids
<1>6. Fresh("blocked") \in Row /\ Fresh("plain") \in Row
  BY DEF Fresh, Row, Bodies
<1>7. StoreInv
  BY <1>1, <1>3, <1>5, <1>6 DEF StoreInv
<1>8. AuditInv
  BY <1>1 DEF AuditInv
<1> QED
  BY <1>1, <1>7, <1>8 DEF ForgetInv

LEMMA Kept == Spec => [](StoreInv /\ AuditInv /\ ForgetInv)
<1>1. StoreInv /\ AuditInv /\ ForgetInv /\ [Next]_vars => (StoreInv /\ AuditInv /\ ForgetInv)'
  BY EveryStep, ForgetKept DEF StoreStep
<1> QED
  BY <1>1, FirstState, PTL DEF Spec

\* The SQLite store keeps the promise of the book: whatever the agents, the
\* page, the eviction and the janitor do, whatever fails and whenever the
\* process dies, no entry comes or goes without its one audit record and no
\* record is written of what did not happen (transaction, trimEntries,
\* janitor of src/store/sqlite.ts).
THEOREM BookIsKept == Spec => BookKept
<1>1. Init => Book!Init
  BY DEF Init, ToolsInit, InitStore, Book!Init, Held
<1>2. StoreInv /\ AuditInv /\ ForgetInv /\ [Next]_vars => [Book!Next]_(Book!vars)
  BY EveryStep DEF StoreStep, BookStep, Book!vars
<1> QED
  BY <1>1, <1>2, Kept, PTL DEF Spec, BookKept, Book!Spec

\* "Pin means never forget" (src/tool/index.ts, memory_forget, and trimEntries
\* and janitor of src/store/sqlite.ts): a pinned entry leaves the store only
\* by an explicit removal whose record is the newest one, and a batch delete
\* never removes one that was pinned when it searched.
THEOREM PinnedStays == Spec => PinMeansNeverForget
<1>1. ASSUME StoreInv, AuditInv, ForgetInv, [Next]_vars
      PROVE  \A i \in Held :
               entries[i].pinned /\ entries'[i] = Absent =>
                 /\ \E n \in DOMAIN audit' :
                      audit'[n] = [op |-> "remove", id |-> i, seq |-> auditSeq']
                 /\ forgetting' # forgetting => i \notin pinnedSince
  <2>1. StoreStep /\ ForgetStep
    BY <1>1, EveryStep
  <2> SUFFICES ASSUME NEW i \in Held, entries[i].pinned, entries'[i] = Absent
               PROVE  RemovalOnTop(i) /\ (forgetting' # forgetting => i \notin pinnedSince)
    BY DEF RemovalOnTop
  <2>2. i \in Ids /\ entries[i] # Absent
    BY DEF Held
  <2>3. RemovalOnTop(i)
    BY <2>1, <2>2 DEF StoreStep
  <2>4. ASSUME forgetting' # forgetting PROVE i \in forgetting
    BY <2>1, <2>2, <2>4 DEF ForgetStep, PinsHold
  <2> QED
    BY <1>1, <2>3, <2>4 DEF ForgetInv
<1>2. StoreInv /\ AuditInv /\ ForgetInv /\ [Next]_vars =>
        [\A i \in Held :
           entries[i].pinned /\ entries'[i] = Absent =>
             /\ \E n \in DOMAIN audit' :
                  audit'[n] = [op |-> "remove", id |-> i, seq |-> auditSeq']
             /\ forgetting' # forgetting => i \notin pinnedSince]_<<store, tools>>
  BY <1>1
<1> QED
  BY <1>2, Kept, PTL DEF Spec, PinMeansNeverForget

-----------------------------------------------------------------------------
(* Listings, and pages of them.                                            *)

\* A set of ids has an entry at each rank, and at each rank another.
LEMMA NewestListing ==
  ASSUME NEW S \in SUBSET Ids
  PROVE  /\ Cardinality(S) \in Nat
         /\ NewestFirst(S) \in [1..Cardinality(S) -> S]
         /\ \A m, n \in 1..Cardinality(S) : NewestFirst(S)[m] = NewestFirst(S)[n] => m = n
<1> DEFINE Upto(x) == {y \in S : y = x \/ y > x}
           K == Cardinality(S)
           f == [x \in S |-> Cardinality(Upto(x))]
<1>1. S \subseteq Nat /\ IsFiniteSet(S) /\ K \in Nat
  <2>1. IsFiniteSet(Ids) /\ Ids \subseteq Nat
    <3>1. MaxIds \in Nat
      BY SqliteAssumption
    <3> QED
      BY <3>1, FS_Interval DEF Ids
  <2> QED
    BY <2>1, FS_Subset, FS_CardinalityType
<1>2. ASSUME NEW x \in S
      PROVE  /\ Upto(x) \in SUBSET S /\ x \in Upto(x) /\ IsFiniteSet(Upto(x))
             /\ Cardinality(Upto(x)) \in 1..K
  <2>1. Upto(x) \in SUBSET S /\ x \in Upto(x)
    OBVIOUS
  <2> HIDE DEF Upto
  <2>2. IsFiniteSet(Upto(x)) /\ Cardinality(Upto(x)) <= K /\ Cardinality(Upto(x)) \in Nat
    BY <1>1, <2>1, FS_Subset, FS_CardinalityType
  <2>3. Cardinality(Upto(x)) # 0
    BY <2>1, <2>2, FS_EmptySet
  <2> QED
    BY <1>1, <2>1, <2>2, <2>3
<1>3. ASSUME NEW x \in S, NEW y \in S, x < y PROVE f[x] # f[y]
  <2>1. x \in Nat /\ y \in Nat /\ \A z \in S : z \in Nat /\ (z = y \/ z > y => z > x)
    BY <1>1, <1>3
  <2>2. Upto(y) \in SUBSET Upto(x) /\ x \notin Upto(y) /\ x \in Upto(x)
    <3>1. x # y /\ ~(x > y)
      BY <1>3, <2>1
    <3>2. \A z \in S : z = y \/ z > y => z > x
      BY <2>1
    <3> QED
      BY <3>1, <3>2, Zenon
  <2> HIDE DEF Upto
  <2>3. Cardinality(Upto(x)) # Cardinality(Upto(y))
    BY <1>2, <2>2, FS_Subset
  <2> QED
    BY <2>3
<1>4. f \in Injection(S, 1..K)
  <2>1. f \in [S -> 1..K]
    BY <1>2
  <2>2. \A x, y \in S : f[x] = f[y] => x = y
    <3> SUFFICES ASSUME NEW x \in S, NEW y \in S, f[x] = f[y] PROVE x = y
      OBVIOUS
    <3>1. ~(x < y) /\ ~(y < x)
      BY <1>3
    <3> QED
      BY <1>1, <3>1
  <2> HIDE DEF f
  <2> QED
    BY <2>1, <2>2, Fun_IsInj
<1>5. f \in Surjection(S, 1..K)
  <2>1. IsFiniteSet(1..K) /\ Cardinality(1..K) = K
    BY <1>1, FS_Interval
  <2> HIDE DEF f
  <2> QED
    BY <1>4, <2>1, FS_Injection
<1>6. ASSUME NEW k \in 1..K
      PROVE  NewestFirst(S)[k] \in S /\ Cardinality(Upto(NewestFirst(S)[k])) = k
  <2>1. \A n \in 1..K : \E x \in S : f[x] = n
    <3> HIDE DEF f, K
    <3> QED
      BY <1>5, Fun_SurjectionProperties
  <2>2. \E y \in S : Cardinality(Upto(y)) = k
    BY <2>1
  <2>3. NewestFirst(S)[k] = CHOOSE y \in S : Cardinality(Upto(y)) = k
    BY DEF NewestFirst, InOrder
  <2> HIDE DEF Upto
  <2> QED
    BY <2>2, <2>3
<1>7. NewestFirst(S) \in [1..K -> S]
  <2> DEFINE At(k) == CHOOSE y \in S : Cardinality(Upto(y)) = k
  <2>1. NewestFirst(S) = [k \in 1..K |-> At(k)]
    BY DEF NewestFirst, InOrder
  <2> HIDE DEF At, Upto
  <2>2. \A k \in 1..K : At(k) \in S
    BY <1>6, <2>1
  <2> QED
    BY <2>1, <2>2
<1>8. \A m, n \in 1..K : NewestFirst(S)[m] = NewestFirst(S)[n] => m = n
  <2> HIDE DEF Upto
  <2> QED
    BY <1>6
<1> QED
  BY <1>1, <1>7, <1>8

\* The numbers up to one are in order as they stand.
LEMMA OrderOfAll ==
  ASSUME NEW k \in Nat
  PROVE  /\ Cardinality(1..k) = k
         /\ \A n \in 1..k : InOrder(1..k, <)[n] = n
<1> DEFINE Upto(x) == {y \in 1..k : y = x \/ y < x}
<1>1. Cardinality(1..k) = k
  BY FS_Interval
<1>2. \A x \in 1..k : Cardinality(Upto(x)) = x
  <2> SUFFICES ASSUME NEW x \in 1..k PROVE Cardinality(Upto(x)) = x
    OBVIOUS
  <2>1. Upto(x) = 1..x
    OBVIOUS
  <2>2. Cardinality(1..x) = x
    BY FS_Interval
  <2> QED
    BY <2>1, <2>2
<1>3. ASSUME NEW n \in 1..k PROVE InOrder(1..k, <)[n] = n
  <2>1. InOrder(1..k, <)[n] = CHOOSE x \in 1..k : Cardinality(Upto(x)) = n
    BY <1>1 DEF InOrder
  <2> HIDE DEF Upto
  <2> QED
    BY <1>2, <2>1
<1> QED
  BY <1>1, <1>3

LEMMA MinOfTwo ==
  ASSUME NEW a \in Int, NEW b \in Int
  PROVE  Min({a, b}) = IF a <= b THEN a ELSE b
<1>1. \E x \in {a, b} : \A y \in {a, b} : x <= y
  <2>1. CASE a <= b
    BY <2>1
  <2>2. CASE b <= a
    BY <2>2
  <2> QED
    BY <2>1, <2>2
<1>2. Min({a, b}) \in {a, b} /\ \A y \in {a, b} : Min({a, b}) <= y
  BY <1>1, Zenon DEF Min
<1> QED
  BY <1>2

\* The rows of a page after so many.
LEMMA PageRows ==
  ASSUME NEW T, NEW all \in Seq(T), NEW offset \in Nat, offset <= Len(all),
         NEW limit \in Nat \ {0}
  PROVE  /\ Page(all, offset, limit) \in Seq(T)
         /\ Len(Page(all, offset, limit)) =
              IF Len(all) <= offset + limit THEN Len(all) - offset ELSE limit
         /\ \A n \in 1..Len(Page(all, offset, limit)) :
              Page(all, offset, limit)[n] = all[offset + n]
<1> DEFINE last == Min({Len(all), offset + limit})
<1>1. Len(all) \in Nat
  OBVIOUS
<1>2. last = IF Len(all) <= offset + limit THEN Len(all) ELSE offset + limit
  BY <1>1, MinOfTwo
<1>3. Page(all, offset, limit) = SubSeq(all, offset + 1, last)
  BY DEF Page
<1> HIDE DEF last
<1> QED
  BY <1>1, <1>2, <1>3

\* A first page of as many rows as it has.
LEMMA FirstRows ==
  ASSUME NEW T, NEW all \in Seq(T), NEW shown \in Seq(T)
  PROVE  shown = Page(all, 0, Len(shown)) <=>
           /\ Len(shown) <= Len(all) /\ (Len(shown) = 0 => Len(all) = 0)
           /\ \A n \in 1..Len(shown) : shown[n] = all[n]
<1> DEFINE k == Len(shown)
<1>1. k \in Nat /\ Len(all) \in Nat
  OBVIOUS
<1>2. CASE k = 0
  <2>1. Page(all, 0, k) = SubSeq(all, 1, Len(all))
    BY <1>2 DEF Page
  <2>2. Page(all, 0, k) = all
    BY <1>1, <2>1
  <2> QED
    BY <1>2, <2>2
<1>3. CASE k # 0
  <2>1. /\ Page(all, 0, k) \in Seq(T)
        /\ Len(Page(all, 0, k)) = IF Len(all) <= 0 + k THEN Len(all) - 0 ELSE k
        /\ \A n \in 1..Len(Page(all, 0, k)) : Page(all, 0, k)[n] = all[0 + n]
    <3>1. 0 \in Nat /\ 0 <= Len(all) /\ k \in Nat \ {0}
      BY <1>1, <1>3
    <3> HIDE DEF k
    <3> QED
      BY <3>1, PageRows
  <2>2. \A n \in 1..Len(all) : 0 + n = n
    OBVIOUS
  <2> DEFINE first == Page(all, 0, k)
  <2>3. first \in Seq(T) /\ Len(first) = (IF Len(all) <= k THEN Len(all) ELSE k)
    BY <1>1, <2>1
  <2>4. \A n \in 1..Len(first) : first[n] = all[n]
    BY <1>1, <2>1, <2>2, <2>3
  <2> HIDE DEF first
  <2>5. shown = first <=> Len(shown) = Len(first) /\ \A n \in 1..Len(first) : shown[n] = first[n]
    BY <2>3
  <2>6. shown = first <=> /\ Len(shown) <= Len(all)
                          /\ \A n \in 1..Len(shown) : shown[n] = all[n]
    BY <1>1, <2>3, <2>4, <2>5
  <2> QED
    BY <1>3, <2>6 DEF first
<1> QED
  BY <1>2, <1>3

\* A first page, whatever its size, is one of as many rows as it has.
LEMMA FirstPage ==
  ASSUME NEW T, NEW all \in Seq(T), NEW limit \in Nat \ {0}
  PROVE  /\ Page(all, 0, limit) \in Seq(T)
         /\ Page(all, 0, limit) = Page(all, 0, Len(Page(all, 0, limit)))
         /\ Page(Page(all, 0, limit), 0, limit) = Page(all, 0, limit)
<1> DEFINE first == Page(all, 0, limit)
<1>1. /\ first \in Seq(T)
      /\ Len(first) = IF Len(all) <= limit THEN Len(all) ELSE limit
      /\ \A n \in 1..Len(first) : first[n] = all[n]
  <2>1. /\ first \in Seq(T)
        /\ Len(first) = IF Len(all) <= 0 + limit THEN Len(all) - 0 ELSE limit
        /\ \A n \in 1..Len(first) : first[n] = all[0 + n]
    BY PageRows
  <2> HIDE DEF first
  <2> QED
    BY <2>1
<1>2. /\ Page(first, 0, limit) \in Seq(T)
      /\ Len(Page(first, 0, limit)) = IF Len(first) <= limit THEN Len(first) ELSE limit
      /\ \A n \in 1..Len(Page(first, 0, limit)) : Page(first, 0, limit)[n] = first[n]
  <2> HIDE DEF first
  <2>1. /\ Page(first, 0, limit) \in Seq(T)
        /\ Len(Page(first, 0, limit)) = IF Len(first) <= 0 + limit THEN Len(first) - 0 ELSE limit
        /\ \A n \in 1..Len(Page(first, 0, limit)) : Page(first, 0, limit)[n] = first[0 + n]
    <3>1. first \in Seq(T) /\ 0 \in Nat /\ 0 <= Len(first)
      BY <1>1
    <3> QED
      BY <3>1, PageRows
  <2> DEFINE second == Page(first, 0, limit)
  <2> HIDE DEF second
  <2> QED
    BY <1>1, <2>1 DEF second
<1> DEFINE second == Page(first, 0, limit)
<1>3. second = first
  <2> HIDE DEF first, second
  <2>1. /\ second \in Seq(T) /\ Len(second) = IF Len(first) <= limit THEN Len(first) ELSE limit
        /\ \A n \in 1..Len(second) : second[n] = first[n]
    BY <1>2 DEF second
  <2> QED
    BY <1>1, <2>1
<1>4. first = Page(all, 0, Len(first))
  <2> HIDE DEF first
  <2> QED
    BY <1>1, FirstRows
<1> QED
  BY <1>1, <1>3, <1>4

\* The next batch of one listing carries on the page where it ends: none of its
\* rows is shown already.
LEMMA AppendedRows ==
  ASSUME NEW T, NEW all \in Seq(T), \A m, n \in 1..Len(all) : all[m].id = all[n].id => m = n,
         page.rows = Page(all, 0, Len(page.rows)), page.rows \in Seq(T),
         NEW batch, batch = Page(all, Len(page.rows), PageSize)
  PROVE  Appended(batch) \in Seq(T) /\ Appended(batch) = Page(all, 0, Len(Appended(batch)))
<1> DEFINE k == Len(page.rows)
           new == {n \in DOMAIN batch :
                     \A m \in DOMAIN page.rows : page.rows[m].id # batch[n].id}
<1>1. /\ k \in Nat /\ Len(all) \in Nat /\ k <= Len(all) /\ (k = 0 => Len(all) = 0)
      /\ \A n \in 1..k : page.rows[n] = all[n]
      /\ DOMAIN page.rows = 1..k /\ k = Len(page.rows)
  BY FirstRows
<1> HIDE DEF k
<1>2. PageSize \in Nat \ {0}
  BY SectionAssumption
<1>3. /\ batch \in Seq(T) /\ DOMAIN batch = 1..Len(batch) /\ Len(batch) \in Nat
      /\ k + Len(batch) <= Len(all)
      /\ \A n \in 1..Len(batch) : batch[n] = all[k + n]
  <2>1. /\ batch \in Seq(T)
        /\ Len(batch) = IF Len(all) <= k + PageSize THEN Len(all) - k ELSE PageSize
        /\ \A n \in 1..Len(batch) : batch[n] = all[k + n]
    <3>1. batch = Page(all, k, PageSize)
      BY <1>1
    <3>2. k \in Nat /\ k <= Len(all) /\ PageSize \in Nat \ {0}
      BY <1>1, <1>2
    <3>3. /\ Page(all, k, PageSize) \in Seq(T)
          /\ Len(Page(all, k, PageSize)) =
               IF Len(all) <= k + PageSize THEN Len(all) - k ELSE PageSize
          /\ \A n \in 1..Len(Page(all, k, PageSize)) : Page(all, k, PageSize)[n] = all[k + n]
      BY <3>2, PageRows
    <3> QED
      BY <3>1, <3>3
  <2>2. DOMAIN batch = 1..Len(batch) /\ Len(batch) \in Nat
    BY <2>1
  <2>3. k + Len(batch) <= Len(all)
    <3>1. k \in Nat /\ k <= Len(all) /\ PageSize \in Nat /\ Len(all) \in Nat
      BY <1>1, <1>2
    <3> QED
      BY <2>1, <3>1
  <2> QED
    BY <2>1, <2>2, <2>3
<1>4. new = 1..Len(batch)
  <2> SUFFICES ASSUME NEW n \in 1..Len(batch), NEW m \in 1..k
               PROVE  page.rows[m].id # batch[n].id
    BY <1>1, <1>3
  <2>1. k + n \in 1..Len(all) /\ m \in 1..Len(all) /\ m # k + n
    <3>1. k \in Nat /\ Len(batch) \in Nat /\ Len(all) \in Nat /\ k + Len(batch) <= Len(all)
      BY <1>1, <1>3
    <3> QED
      BY <3>1
  <2> QED
    BY <1>1, <1>3, <2>1
<1>5. Appended(batch) = page.rows \o [n \in 1..Cardinality(new) |-> batch[InOrder(new, <)[n]]]
  BY DEF Appended
<1> HIDE DEF new
<1>6. Appended(batch) = page.rows \o [n \in 1..Len(batch) |-> batch[InOrder(1..Len(batch), <)[n]]]
  BY <1>3, <1>4, <1>5, OrderOfAll
<1>7. [n \in 1..Len(batch) |-> batch[InOrder(1..Len(batch), <)[n]]] = batch
  <2>1. \A n \in 1..Len(batch) : InOrder(1..Len(batch), <)[n] = n
    BY <1>3, OrderOfAll
  <2>2. batch = [n \in 1..Len(batch) |-> batch[n]]
    BY <1>3
  <2> QED
    BY <2>1, <2>2, Zenon
<1>8. Appended(batch) = page.rows \o batch
  BY <1>6, <1>7
<1>9. /\ Appended(batch) \in Seq(T) /\ Len(Appended(batch)) = k + Len(batch)
      /\ \A n \in 1..k + Len(batch) : Appended(batch)[n] = all[n]
  <2>1. page.rows \o batch \in Seq(T) /\ Len(page.rows \o batch) = k + Len(batch)
    BY <1>1, <1>3
  <2>2. ASSUME NEW n \in 1..k + Len(batch) PROVE (page.rows \o batch)[n] = all[n]
    <3>1. CASE n <= k
      BY <1>1, <1>3, <3>1
    <3>2. CASE n > k
      <4> k \in Nat /\ Len(batch) \in Nat
        BY <1>1, <1>3
      <4>1. n - k \in 1..Len(batch) /\ k + (n - k) = n
        BY <3>2
      <4>2. (page.rows \o batch)[n] = batch[n - k]
        BY <1>1, <1>3, <3>2
      <4> QED
        BY <1>3, <4>1, <4>2
    <3> QED
      BY <1>1, <1>3, <3>1, <3>2
  <2> QED
    BY <1>8, <2>1, <2>2
<1>10. /\ Len(Appended(batch)) <= Len(all) /\ (Len(Appended(batch)) = 0 => Len(all) = 0)
       /\ \A n \in 1..Len(Appended(batch)) : Appended(batch)[n] = all[n]
  <2>1. k \in Nat /\ Len(batch) \in Nat
    BY <1>1, <1>3
  <2>2. Len(Appended(batch)) = 0 => k = 0
    BY <1>9, <2>1
  <2> QED
    BY <1>1, <1>3, <1>9, <2>2
<1> QED
  BY <1>9, <1>10, FirstRows

\* What a listing tells under some filters.
ListedIn(listing, scope, query) ==
  LET held == {i \in Ids : listing[i] # <<>>}
      of == IF scope = "all" THEN held ELSE held \cap Project
      ids == NewestFirst(IF query THEN {i \in of \cap About : ~listing[i][2]} ELSE of)
  IN  [n \in DOMAIN ids |-> [id |-> ids[n], body |-> listing[ids[n]][1],
                             pinned |-> listing[ids[n]][3]]]

Shown(listing) ==
  [id: Ids, body: {listing[i][1] : i \in Ids}, pinned: {listing[i][3] : i \in Ids}]

LEMMA ListedRows ==
  ASSUME NEW listing, NEW scope, NEW query
  PROVE  /\ ListedIn(listing, scope, query) \in Seq(Shown(listing))
         /\ LET all == ListedIn(listing, scope, query)
            IN  \A m, n \in 1..Len(all) : all[m].id = all[n].id => m = n
<1> DEFINE held == {i \in Ids : listing[i] # <<>>}
           of == IF scope = "all" THEN held ELSE held \cap Project
           S == IF query THEN {i \in of \cap About : ~listing[i][2]} ELSE of
           ids == NewestFirst(S)
           all == [n \in DOMAIN ids |-> [id |-> ids[n], body |-> listing[ids[n]][1],
                                         pinned |-> listing[ids[n]][3]]]
<1>1. S \in SUBSET Ids
  OBVIOUS
<1>2. ListedIn(listing, scope, query) = all
  BY DEF ListedIn
<1> HIDE DEF S
<1>3. /\ Cardinality(S) \in Nat /\ ids \in [1..Cardinality(S) -> Ids]
      /\ \A m, n \in 1..Cardinality(S) : ids[m] = ids[n] => m = n
  BY <1>1, NewestListing
<1> HIDE DEF ids
<1>4. all \in [1..Cardinality(S) -> Shown(listing)]
  BY <1>3 DEF Shown
<1>5. \A n \in 1..Cardinality(S) : all[n].id = ids[n]
  BY <1>3
<1> HIDE DEF all
<1>6. all \in Seq(Shown(listing)) /\ Len(all) = Cardinality(S)
  BY <1>3, <1>4
<1> QED
  BY <1>2, <1>3, <1>5, <1>6

\* The remote service lists the store as its listing tells it.
LEMMA ListedIs ==
  ASSUME NEW scope, NEW query \in BOOLEAN
  PROVE  Listed(scope, query) = ListedIn(Listing, scope, query)
<1> DEFINE held == {i \in Ids : Listing[i] # <<>>}
           of == IF scope = "all" THEN held ELSE held \cap Project
           S == IF query THEN {i \in of \cap About : ~Listing[i][2]} ELSE of
           were == IF scope = "all" THEN Held ELSE Held \cap Project
           W == IF query THEN were \cap Found ELSE were
<1>1. \A i \in Ids : entries[i] = Absent => Listing[i] = <<>>
  BY DEF Listing
<1>2. \A i \in Held : /\ Listing[i] # <<>>
                      /\ Listing[i][1] = Redacted(entries[i].body)
                      /\ Listing[i][2] = entries[i].superseded
                      /\ Listing[i][3] = entries[i].pinned
  <2> SUFFICES ASSUME NEW i \in Held
               PROVE  /\ Listing[i] # <<>>
                      /\ Listing[i][1] = Redacted(entries[i].body)
                      /\ Listing[i][2] = entries[i].superseded
                      /\ Listing[i][3] = entries[i].pinned
    OBVIOUS
  <2>1. PICK a, b, c : a = Redacted(entries[i].body) /\ b = entries[i].superseded
                       /\ c = entries[i].pinned
    OBVIOUS
  <2>2. Listing[i] = <<a, b, c>>
    BY <2>1 DEF Listing, Held
  <2>3. <<a, b, c>> # <<>> /\ <<a, b, c>>[1] = a /\ <<a, b, c>>[2] = b /\ <<a, b, c>>[3] = c
    OBVIOUS
  <2> QED
    BY <2>1, <2>2, <2>3
<1>3. held = Held
  BY <1>1, <1>2 DEF Held
<1>4. S = W /\ S \in SUBSET Ids /\ S \subseteq Held
  <2>1. of = were /\ of \subseteq Held
    BY <1>3
  <2>2. {i \in of \cap About : ~Listing[i][2]} = were \cap Found
    <3> HIDE DEF of, were
    <3> QED
      BY <1>2, <2>1 DEF Found
  <2> HIDE DEF of, were
  <2> QED
    BY <2>1, <2>2 DEF Held
<1>5. Listed(scope, query) = [n \in DOMAIN NewestFirst(W) |-> Json(NewestFirst(W)[n])]
  BY DEF Listed
<1>6. ListedIn(Listing, scope, query) =
        [n \in DOMAIN NewestFirst(S) |-> [id |-> NewestFirst(S)[n],
                                          body |-> Listing[NewestFirst(S)[n]][1],
                                          pinned |-> Listing[NewestFirst(S)[n]][3]]]
  BY DEF ListedIn
<1> HIDE DEF S, W
<1>7. \A n \in DOMAIN NewestFirst(S) : NewestFirst(S)[n] \in Held
  BY <1>4, NewestListing
<1>8. \A n \in DOMAIN NewestFirst(S) :
        Json(NewestFirst(S)[n]) = [id |-> NewestFirst(S)[n],
                                   body |-> Listing[NewestFirst(S)[n]][1],
                                   pinned |-> Listing[NewestFirst(S)[n]][3]]
  BY <1>2, <1>7 DEF Json
<1> QED
  BY <1>4, <1>5, <1>6, <1>8

-----------------------------------------------------------------------------
(* What the page shows.                                                    *)

BatchKinds == {"load", "queue", "reload", "more"}

\* These paint the page when they come back.
FirstKinds == {"load", "queue", "reload"}

\* The answer of the remote service to this request, at the moment it tells of.
Answers(r, b) ==
  LET all == ListedIn(b.seen, r.scope, r.query)
  IN  b.total = Len(all) /\ b.rows = IF r.query THEN all ELSE Page(all, r.arg, PageSize)

WellFormed(r) ==
  /\ DOMAIN r = {"kind", "ticket", "scope", "query", "arg", "body", "served", "reply", "batch"}
  /\ r.query \in BOOLEAN /\ r.ticket \in Nat
  /\ r.kind \in FirstKinds => r.arg = 0
  /\ r.kind \in {"load", "reload", "more"} /\ r.reply.ok => Answers(r, r.reply)
  /\ r.kind = "queue" => Answers(r, r.batch)

\* Requests for a batch have tickets of their own.
Tickets ==
  /\ seq \in Nat
  /\ \A r \in requests : WellFormed(r) /\ r.ticket <= seq
  /\ \A r, q \in requests :
       r.kind \in BatchKinds /\ q.kind \in BatchKinds /\ r.ticket = q.ticket => r = q

\* The last one is about the page as it stands.
AboutPage(r) ==
  /\ r.scope = page.scope /\ r.query = page.query
  /\ r.kind = "more" => r.arg = Len(page.rows) /\ ~r.query
  /\ r.kind = "queue" /\ r.query /\ ~page.mixed => page.matches = r.batch.rows

Latest(r) == r.kind \in BatchKinds /\ r.ticket = seq

Painting == \E r \in requests : r.kind \in FirstKinds /\ r.ticket = seq

\* The page shows what its listing tells.
Right(p) ==
  LET all == ListedIn(p.seen, p.scope, p.query)
  IN  /\ p.total = Len(all) /\ p.rows = Page(all, 0, Len(p.rows))
      /\ p.rows \in Seq(Shown(p.seen))
      /\ p.query /\ p.matches # Absent => p.matches = all

PageShaped(p) ==
  /\ DOMAIN p = {"status", "error", "rows", "total", "more", "scope", "query", "pending",
                 "matches", "seen", "mixed", "reopened"}
  /\ p.query \in BOOLEAN /\ p.mixed \in BOOLEAN /\ p.error \in BOOLEAN

PageInv ==
  /\ PageShaped(page) /\ Tickets
  /\ \A r \in requests : Latest(r) => AboutPage(r)
  /\ Painting \/ page.error \/ page.mixed \/ Right(page)

-----------------------------------------------------------------------------
(* Requests come, are served and go.                                       *)

\* The same request, whatever its reply.
Like(x, y) ==
  /\ x.kind = y.kind /\ x.ticket = y.ticket /\ x.scope = y.scope /\ x.query = y.query
  /\ x.arg = y.arg /\ x.batch = y.batch

PageKept ==
  /\ PageShaped(page')
  /\ page'.scope = page.scope /\ page'.query = page.query /\ page'.rows = page.rows
  /\ page'.total = page.total /\ page'.mixed = page.mixed /\ page'.matches = page.matches
  /\ page'.seen = page.seen /\ page'.error = page.error

LEMMA TicketsReplaced ==
  ASSUME Tickets, NEW r \in requests, NEW q, WellFormed(q), q.ticket = r.ticket,
         q.kind \in BatchKinds => r.kind \in BatchKinds,
         requests' = (requests \ {r}) \cup {q}, seq' = seq
  PROVE  Tickets'
<1>1. \A x \in requests' : WellFormed(x) /\ x.ticket <= seq
  BY DEF Tickets
<1>2. \A x, y \in requests' :
        x.kind \in BatchKinds /\ y.kind \in BatchKinds /\ x.ticket = y.ticket => x = y
  <2> SUFFICES ASSUME NEW x \in requests', NEW y \in requests',
                      x.kind \in BatchKinds, y.kind \in BatchKinds, x.ticket = y.ticket
               PROVE  x = y
    OBVIOUS
  <2>1. CASE x = q /\ y = q
    BY <2>1
  <2>2. CASE x = q /\ y \in requests \ {r}
    BY <2>2 DEF Tickets
  <2>3. CASE y = q /\ x \in requests \ {r}
    BY <2>3 DEF Tickets
  <2>4. CASE x \in requests \ {r} /\ y \in requests \ {r}
    BY <2>4 DEF Tickets
  <2> QED
    BY <2>1, <2>2, <2>3, <2>4
<1> QED
  BY <1>1, <1>2 DEF Tickets

LEMMA TicketsLess ==
  ASSUME Tickets, requests' \subseteq requests, seq' = seq
  PROVE  Tickets'
BY DEF Tickets

\* Requests that fetch no batch have no ticket.
LEMMA TicketsJoined ==
  ASSUME Tickets, NEW others \in SUBSET requests, NEW new,
         \A q \in new : WellFormed(q) /\ q.kind \notin BatchKinds /\ q.ticket = 0,
         requests' = others \cup new, seq' = seq
  PROVE  Tickets'
<1>1. \A x \in requests' : WellFormed(x) /\ x.ticket <= seq
  BY DEF Tickets
<1>2. \A x, y \in requests' :
        x.kind \in BatchKinds /\ y.kind \in BatchKinds /\ x.ticket = y.ticket => x = y
  BY DEF Tickets
<1> QED
  BY <1>1, <1>2 DEF Tickets

\* The page stays, and so do the requests for a batch.
LEMMA KeptPage ==
  ASSUME PageInv, Tickets', PageKept, seq' = seq,
         \A x \in requests' : x.kind \in BatchKinds => \E y \in requests : Like(x, y),
         \A y \in requests : y.kind \in FirstKinds /\ y.ticket = seq =>
           \E x \in requests' : Like(x, y)
  PROVE  PageInv'
<1>1. ASSUME NEW x \in requests', x.kind \in BatchKinds, x.ticket = seq PROVE AboutPage(x)'
  <2>1. PICK y \in requests : Like(x, y)
    BY <1>1
  <2>2. y.kind \in BatchKinds /\ y.ticket = seq
    BY <1>1, <2>1 DEF Like
  <2>3. AboutPage(y)
    BY <2>2 DEF PageInv, Latest
  <2> QED
    BY <2>1, <2>3 DEF Like, AboutPage, PageKept
<1>2. (Painting \/ page.error \/ page.mixed \/ Right(page))'
  <2>1. CASE Painting
    <3>1. PICK y \in requests : y.kind \in FirstKinds /\ y.ticket = seq
      BY <2>1 DEF Painting
    <3>2. PICK x \in requests' : Like(x, y)
      BY <3>1
    <3> QED
      BY <3>1, <3>2 DEF Like, Painting
  <2>2. CASE page.error \/ page.mixed
    BY <2>2 DEF PageKept
  <2>3. CASE Right(page)
    BY <2>3 DEF PageKept, Right
  <2> QED
    BY <2>1, <2>2, <2>3 DEF PageInv
<1> QED
  BY <1>1, <1>2 DEF PageInv, PageKept, Latest

\* A request that takes a ticket is about the page as it is then.
LEMMA TicketTaken ==
  ASSUME PageInv, PageShaped(page'), NEW others \in SUBSET requests, NEW q, WellFormed(q),
         q.kind \in BatchKinds, q.ticket = seq + 1, AboutPage(q)',
         q.kind \in FirstKinds \/ page'.error \/ page'.mixed \/ Right(page'),
         requests' = others \cup {q}, seq' = seq + 1
  PROVE  PageInv'
<1>1. seq \in Nat /\ \A x \in requests : x.ticket \in Nat /\ x.ticket <= seq
  BY DEF PageInv, Tickets, WellFormed
<1>2. \A x \in others : x.ticket # seq + 1
  BY <1>1
<1>3. Tickets'
  <2>1. \A x \in requests' : WellFormed(x)
    BY DEF PageInv, Tickets
  <2>2. \A x \in requests' : x.ticket <= seq + 1
    BY <1>1
  <2>3. \A x, y \in requests' :
          x.kind \in BatchKinds /\ y.kind \in BatchKinds /\ x.ticket = y.ticket => x = y
    BY <1>2 DEF PageInv, Tickets
  <2>4. seq + 1 \in Nat
    BY <1>1
  <2> QED
    BY <2>1, <2>2, <2>3, <2>4 DEF Tickets
<1>4. \A x \in requests' : x.kind \in BatchKinds /\ x.ticket = seq' => AboutPage(x)'
  BY <1>2
<1>5. (Painting \/ page.error \/ page.mixed \/ Right(page))'
  <2>1. q \in requests' /\ q.ticket = seq'
    OBVIOUS
  <2> QED
    BY <2>1 DEF Painting
<1> QED
  BY <1>3, <1>4, <1>5 DEF PageInv, Latest

\* A request as the page sends it.
LEMMA RequestSent ==
  ASSUME NEW kind, NEW ticket \in Nat, NEW p, p.query \in BOOLEAN, NEW arg, NEW body,
         kind # "queue", kind \in FirstKinds => arg = 0
  PROVE  LET q == Request(kind, ticket, p, arg, body)
         IN  /\ WellFormed(q)
             /\ q.kind = kind /\ q.ticket = ticket /\ q.scope = p.scope /\ q.query = p.query
             /\ q.arg = arg /\ ~q.served
<1> DEFINE q == Request(kind, ticket, p, arg, body)
<1>1. /\ DOMAIN q = {"kind", "ticket", "scope", "query", "arg", "body", "served", "reply", "batch"}
      /\ q.kind = kind /\ q.ticket = ticket /\ q.scope = p.scope /\ q.query = p.query
      /\ q.arg = arg /\ ~q.served /\ ~q.reply.ok
  BY DEF Request, NoReply
<1> HIDE DEF q
<1>2. WellFormed(q)
  BY <1>1 DEF WellFormed
<1> QED
  BY <1>1, <1>2 DEF q

\* A request that is served: its reply is right at that moment.
LEMMA RequestServed ==
  ASSUME PageInv, NEW r \in requests, NEW reply, Served(r, reply),
         r.kind \in {"load", "reload", "more"} /\ reply.ok => Answers(r, reply)
  PROVE  PageInv'
<1> DEFINE q == [r EXCEPT !.served = TRUE, !.reply = reply]
<1>1. requests' = (requests \ {r}) \cup {q} /\ page' = page /\ seq' = seq
  BY DEF Served
<1>2. WellFormed(r)
  BY DEF PageInv, Tickets
<1>3. /\ DOMAIN q = DOMAIN r /\ q.kind = r.kind /\ q.ticket = r.ticket /\ q.scope = r.scope
      /\ q.query = r.query /\ q.arg = r.arg /\ q.batch = r.batch /\ q.reply = reply
  BY <1>2 DEF WellFormed
<1> HIDE DEF q
<1>4. \A b : Answers(q, b) <=> Answers(r, b)
  BY <1>3 DEF Answers
<1>5. WellFormed(q)
  BY <1>2, <1>3, <1>4 DEF WellFormed
<1>6. Tickets'
  BY <1>1, <1>3, <1>5, TicketsReplaced DEF PageInv
<1>7. Like(q, r) /\ \A x \in requests : Like(x, x)
  BY <1>3 DEF Like
<1>8. PageKept
  BY <1>1 DEF PageInv, PageKept
<1>9. \A x \in requests' : \E y \in requests : Like(x, y)
  BY <1>1, <1>7
<1>10. \A y \in requests : \E x \in requests' : Like(x, y)
  BY <1>1, <1>7
<1> QED
  BY <1>1, <1>6, <1>8, <1>9, <1>10, KeptPage

\* Requests that fetch no batch come and go.
LEMMA RequestsAside ==
  ASSUME PageInv, PageKept, seq' = seq, NEW others \in SUBSET requests, NEW new,
         \A r \in requests \ others : r.kind \notin FirstKinds,
         \A q \in new : WellFormed(q) /\ q.kind \notin BatchKinds /\ q.ticket = 0,
         requests' = others \cup new
  PROVE  PageInv'
<1>1. Tickets'
  BY TicketsJoined DEF PageInv
<1>2. \A x \in requests : Like(x, x)
  BY DEF Like
<1> QED
  BY <1>1, <1>2, KeptPage

LEMMA RequestGone ==
  ASSUME PageInv, PageKept, seq' = seq, NEW r \in requests, r.kind \notin FirstKinds,
         requests' = requests \ {r}
  PROVE  PageInv'
<1>1. Tickets'
  BY TicketsLess DEF PageInv
<1>2. \A x \in requests : Like(x, x)
  BY DEF Like
<1> QED
  BY <1>1, <1>2, KeptPage

LEMMA SectionKept ==
  ASSUME PageInv, UNCHANGED section
  PROVE  PageInv'
<1>1. page' = page /\ seq' = seq /\ requests' = requests
  BY DEF section
<1> QED
  BY <1>1 DEF PageInv, Tickets, Latest, AboutPage, Painting

LEMMA ServeKeepsPage ==
  ASSUME PageInv, Serve
  PROVE  PageInv'
<1> USE DEF FirstKinds, BatchKinds
<1>1. PICK r \in requests : \/ ServeBatch(r) \/ ServeQueue(r) \/ ServeRaw(r) \/ ServeWrite(r)
                            \/ RefuseWrite(r) \/ ServeAdopt(r) \/ ServeAdopted(r)
                            \/ ServeReject(r) \/ Fail(r)
  BY DEF Serve
<1>2. CASE ServeBatch(r)
  <2>1. WellFormed(r)
    BY DEF PageInv, Tickets
  <2> DEFINE all == Listed(r.scope, r.query)
             reply == Reply(TRUE, IF r.query THEN all ELSE Page(all, r.arg, PageSize), Len(all), {})
  <2>2. all = ListedIn(Listing, r.scope, r.query)
    BY <2>1, ListedIs DEF WellFormed
  <2>3. Served(r, reply)
    BY <1>2 DEF ServeBatch
  <2> HIDE DEF all
  <2>4. /\ reply.seen = Listing /\ reply.total = Len(all)
        /\ reply.rows = IF r.query THEN all ELSE Page(all, r.arg, PageSize)
    BY DEF Reply
  <2> HIDE DEF reply
  <2>5. Answers(r, reply)
    BY <2>2, <2>4 DEF Answers
  <2> QED
    BY <2>3, <2>5, RequestServed
<1>3. CASE ServeQueue(r)
  <2>1. PICK reply : reply = Reply(TRUE, <<>>, 0, Proposals)
    OBVIOUS
  <2>2. r.kind \in {"queue", "pending", "health"} /\ Served(r, reply)
    BY <1>3, <2>1 DEF ServeQueue
  <2> QED
    BY <2>2, RequestServed
<1>4. CASE ServeRaw(r)
  <2>1. r.kind = "raw" /\ requests' = requests \ {r} /\ page' = page /\ seq' = seq
    BY <1>4 DEF ServeRaw
  <2>2. PageKept
    BY <2>1 DEF PageKept, PageInv
  <2> QED
    BY <2>1, <2>2, RequestGone
<1>5. CASE ServeWrite(r)
  <2>1. PICK ok \in BOOLEAN : /\ r.kind \in {"save", "delete", "pin", "unpin"}
                              /\ Served(r, Outcome(ok))
    BY <1>5 DEF ServeWrite
  <2> QED
    BY <2>1, RequestServed
<1>6. CASE RefuseWrite(r)
  <2>1. /\ r.kind \in {"save", "delete", "pin", "unpin", "archive", "adopt", "reject"}
        /\ Served(r, Outcome(FALSE))
    BY <1>6 DEF RefuseWrite
  <2> QED
    BY <2>1, RequestServed
<1>7. CASE ServeAdopt(r)
  BY <1>7, SectionKept DEF ServeAdopt
<1>8. CASE ServeAdopted(r)
  <2>1. PICK ok \in BOOLEAN : r.kind = "adopt" /\ Served(r, Outcome(ok))
    BY <1>8 DEF ServeAdopted
  <2> QED
    BY <2>1, RequestServed
<1>9. CASE ServeReject(r)
  <2>1. r.kind = "reject" /\ Served(r, Outcome(TRUE))
    BY <1>9 DEF ServeReject
  <2> QED
    BY <2>1, RequestServed
<1>10. CASE Fail(r)
  <2>1. Served(r, NoReply) /\ ~NoReply.ok
    BY <1>10 DEF Fail, NoReply
  <2> QED
    BY <2>1, RequestServed
<1> QED
  BY <1>1, <1>2, <1>3, <1>4, <1>5, <1>6, <1>7, <1>8, <1>9, <1>10

\* The host dies: what it had not answered has failed.
LEMMA RestartKeepsPage ==
  ASSUME PageInv, Restart
  PROVE  PageInv'
<1> DEFINE Lost(r) == IF r.served THEN r ELSE [r EXCEPT !.served = TRUE]
<1>1. requests' = {Lost(r) : r \in requests} /\ page' = page /\ seq' = seq
  BY DEF Restart
<1>2. ASSUME NEW r \in requests
      PROVE  WellFormed(Lost(r)) /\ Like(Lost(r), r)
  <2>1. WellFormed(r)
    BY DEF PageInv, Tickets
  <2> DEFINE q == Lost(r)
  <2>2. /\ DOMAIN q = DOMAIN r /\ q.kind = r.kind /\ q.ticket = r.ticket /\ q.scope = r.scope
        /\ q.query = r.query /\ q.arg = r.arg /\ q.batch = r.batch /\ q.reply = r.reply
    BY <2>1 DEF WellFormed
  <2> HIDE DEF q
  <2>3. \A b : Answers(q, b) <=> Answers(r, b)
    BY <2>2 DEF Answers
  <2>4. WellFormed(q)
    BY <2>1, <2>2, <2>3 DEF WellFormed
  <2>5. Like(q, r)
    BY <2>2 DEF Like
  <2> QED
    BY <2>4, <2>5 DEF q
<1> HIDE DEF Lost
<1>3. Tickets'
  <2>1. \A x \in requests' : WellFormed(x) /\ x.ticket <= seq
    BY <1>1, <1>2 DEF PageInv, Tickets, Like
  <2>2. \A x, y \in requests' :
          x.kind \in BatchKinds /\ y.kind \in BatchKinds /\ x.ticket = y.ticket => x = y
    <3> SUFFICES ASSUME NEW x \in requests', NEW y \in requests',
                        x.kind \in BatchKinds, y.kind \in BatchKinds, x.ticket = y.ticket
                 PROVE  x = y
      OBVIOUS
    <3>1. PICK r, q \in requests : x = Lost(r) /\ y = Lost(q)
      BY <1>1
    <3>2. r = q
      BY <1>2, <3>1 DEF Like, PageInv, Tickets
    <3> QED
      BY <3>1, <3>2
  <2> QED
    BY <1>1, <2>1, <2>2 DEF PageInv, Tickets
<1>4. PageKept
  BY <1>1 DEF PageKept, PageInv
<1>5. \A x \in requests' : \E y \in requests : Like(x, y)
  BY <1>1, <1>2
<1>6. \A y \in requests : \E x \in requests' : Like(x, y)
  BY <1>1, <1>2
<1> QED
  BY <1>1, <1>3, <1>4, <1>5, <1>6, KeptPage

-----------------------------------------------------------------------------
(* Replies are handled.                                                    *)

\* The last ticket comes back, and nothing else waits for it.
LEMMA LastAnswered ==
  ASSUME PageInv, NEW r \in requests, Latest(r), requests' = requests \ {r}, seq' = seq,
         PageShaped(page'), page'.error \/ page'.mixed \/ Right(page')
  PROVE  PageInv'
<1>1. Tickets'
  BY TicketsLess DEF PageInv
<1>2. \A x \in requests' : ~(x.kind \in BatchKinds /\ x.ticket = seq')
  BY DEF PageInv, Tickets, Latest
<1> QED
  BY <1>1, <1>2 DEF PageInv, Latest

\* A reply that comes too late.
LEMMA LateAnswered ==
  ASSUME PageInv, NEW r \in requests, r.ticket # seq, requests' = requests \ {r}, seq' = seq,
         page' = page
  PROVE  PageInv'
<1>1. Tickets'
  BY TicketsLess DEF PageInv
<1>2. PageKept
  BY DEF PageKept, PageInv
<1>3. \A x \in requests : Like(x, x)
  BY DEF Like
<1> QED
  BY <1>1, <1>2, <1>3, KeptPage

LEMMA CachedPage ==
  ASSUME PageShaped(page), NEW r, r.query \in BOOLEAN
  PROVE  LET p == Cached(r)
         IN  /\ PageShaped(p) /\ DOMAIN p = DOMAIN page
             /\ p.scope = page.scope /\ p.query = page.query /\ p.rows = page.rows
             /\ p.total = page.total /\ p.seen = page.seen /\ p.error = page.error
             /\ p.matches = IF r.query THEN r.reply.rows ELSE page.matches
             /\ p.mixed = (page.mixed \/ (r.query /\ r.ticket # seq))
BY DEF PageShaped, Cached

\* A search whose reply comes too late caches its matches, and is the last but
\* one to paint.
LEMMA LateCached ==
  ASSUME PageInv, NEW r \in requests, r.ticket # seq, seq' = seq, page' = Cached(r),
         Tickets',
         \A x \in requests' : x.ticket = seq => x \in requests,
         \A x \in requests : x.ticket = seq => x \in requests'
  PROVE  PageInv'
<1>1. WellFormed(r) /\ r.query \in BOOLEAN
  BY DEF PageInv, Tickets, WellFormed
<1>2. /\ PageShaped(page')
      /\ page'.scope = page.scope /\ page'.query = page.query /\ page'.rows = page.rows
      /\ page'.total = page.total /\ page'.seen = page.seen /\ page'.error = page.error
      /\ page'.matches = IF r.query THEN r.reply.rows ELSE page.matches
      /\ page'.mixed = (page.mixed \/ (r.query /\ r.ticket # seq))
  BY <1>1, CachedPage DEF PageInv
<1>3. r.query => page'.mixed
  BY <1>2
<1>4. ~r.query => page'.matches = page.matches /\ page'.mixed = page.mixed
  BY <1>2 DEF PageInv, PageShaped
<1>5. ASSUME NEW x \in requests', x.kind \in BatchKinds, x.ticket = seq PROVE AboutPage(x)'
  <2>1. AboutPage(x)
    BY <1>5 DEF PageInv, Latest
  <2> QED
    BY <1>1, <1>2, <1>3, <1>4, <2>1 DEF AboutPage
<1>6. (Painting \/ page.error \/ page.mixed \/ Right(page))'
  <2>1. Painting => Painting'
    BY DEF Painting
  <2>2. page.error => page'.error
    BY <1>2
  <2>3. page.mixed => page'.mixed
    BY <1>2
  <2>4. Right(page) => page'.mixed \/ Right(page')
    BY <1>1, <1>2, <1>3, <1>4 DEF Right
  <2> QED
    BY <2>1, <2>2, <2>3, <2>4 DEF PageInv
<1> QED
  BY <1>2, <1>5, <1>6 DEF PageInv, Latest

\* The first batch of a listing is right about it.
LEMMA FirstBatch ==
  ASSUME NEW r, NEW b, r.query \in BOOLEAN, r.arg = 0, Answers(r, b),
         NEW p, p.scope = r.scope, p.query = r.query, p.total = b.total, p.seen = b.seen,
         p.rows = First(b), p.query /\ p.matches # Absent => p.matches = b.rows
  PROVE  Right(p)
<1> DEFINE all == ListedIn(b.seen, r.scope, r.query)
<1>1. all \in Seq(Shown(b.seen))
  BY ListedRows
<1>2. b.total = Len(all) /\ b.rows = IF r.query THEN all ELSE Page(all, 0, PageSize)
  BY DEF Answers
<1>3. PageSize \in Nat \ {0}
  BY SectionAssumption
<1>4. all = ListedIn(p.seen, p.scope, p.query)
  OBVIOUS
<1> HIDE DEF all
<1>5. /\ Page(all, 0, PageSize) \in Seq(Shown(b.seen))
      /\ Page(all, 0, PageSize) = Page(all, 0, Len(Page(all, 0, PageSize)))
      /\ Page(Page(all, 0, PageSize), 0, PageSize) = Page(all, 0, PageSize)
  BY <1>1, <1>3, FirstPage
<1>6. p.rows = Page(all, 0, PageSize)
  BY <1>2, <1>5 DEF First
<1>7. p.query => b.rows = all
  BY <1>2
<1> QED
  BY <1>2, <1>4, <1>5, <1>6, <1>7 DEF Right

LEMMA LoadAnsweredKeepsPage ==
  ASSUME PageInv, NEW r \in requests, LoadAnswered(r)
  PROVE  PageInv'
<1> USE DEF FirstKinds, BatchKinds
<1>1. r.kind = "load" /\ seq' = seq
  BY DEF LoadAnswered
<1>2. WellFormed(r) /\ r.query \in BOOLEAN
  BY DEF PageInv, Tickets, WellFormed
<1>3. CASE r.reply.ok
  <2> DEFINE q == [r EXCEPT !.kind = "queue", !.served = FALSE, !.batch = r.reply,
                            !.reply = NoReply]
  <2>1. page' = Cached(r) /\ requests' = (requests \ {r}) \cup {q}
    BY <1>3 DEF LoadAnswered
  <2>2. /\ DOMAIN q = DOMAIN r /\ q.kind = "queue" /\ q.ticket = r.ticket /\ q.scope = r.scope
        /\ q.query = r.query /\ q.arg = r.arg /\ q.batch = r.reply
    BY <1>2 DEF WellFormed
  <2> HIDE DEF q
  <2>3. WellFormed(q)
    <3>1. Answers(r, r.reply)
      BY <1>1, <1>2, <1>3 DEF WellFormed
    <3>2. Answers(q, q.batch)
      BY <2>2, <3>1 DEF Answers
    <3> QED
      BY <1>1, <1>2, <2>2, <3>2 DEF WellFormed
  <2>4. Tickets'
    BY <1>1, <2>1, <2>2, <2>3, TicketsReplaced DEF PageInv
  <2>5. CASE r.ticket # seq
    <3>1. \A x \in requests' : x.ticket = seq => x \in requests
      BY <2>1, <2>2, <2>5
    <3>2. \A x \in requests : x.ticket = seq => x \in requests'
      BY <2>1, <2>5
    <3> QED
      BY <1>1, <2>1, <2>4, <2>5, <3>1, <3>2, LateCached
  <2>6. CASE r.ticket = seq
    <3>1. /\ PageShaped(page')
          /\ page'.scope = page.scope /\ page'.query = page.query
          /\ r.query => page'.matches = r.reply.rows
      BY <1>2, <2>1, CachedPage DEF PageInv
    <3>2. r.scope = page.scope /\ r.query = page.query
      BY <1>1, <2>6 DEF PageInv, Latest, AboutPage
    <3>3. AboutPage(q)'
      BY <2>2, <3>1, <3>2 DEF AboutPage
    <3>4. \A x \in requests' : x.kind \in BatchKinds /\ x.ticket = seq => x = q
      BY <1>1, <2>1, <2>6 DEF PageInv, Tickets
    <3>5. Painting'
      BY <1>1, <2>1, <2>2, <2>6 DEF Painting
    <3> QED
      BY <1>1, <2>4, <3>1, <3>3, <3>4, <3>5 DEF PageInv, Latest
  <2> QED
    BY <2>5, <2>6
<1>4. CASE ~r.reply.ok
  <2>1. /\ page' = IF Newest(r) THEN [page EXCEPT !.status = "error", !.error = TRUE] ELSE page
        /\ requests' = requests \ {r}
    BY <1>4 DEF LoadAnswered
  <2>2. CASE Newest(r)
    <3>1. PageShaped(page') /\ page'.error
      BY <2>1, <2>2 DEF PageInv, PageShaped
    <3> QED
      BY <1>1, <2>1, <2>2, <3>1, LastAnswered DEF Newest, Latest
  <2>3. CASE ~Newest(r)
    BY <1>1, <2>1, <2>3, LateAnswered DEF Newest
  <2> QED
    BY <2>2, <2>3
<1> QED
  BY <1>3, <1>4

LEMMA QueueAnsweredKeepsPage ==
  ASSUME PageInv, NEW r \in requests, QueueAnswered(r)
  PROVE  PageInv'
<1> USE DEF FirstKinds, BatchKinds
<1>1. r.kind = "queue" /\ seq' = seq /\ requests' = requests \ {r}
  BY DEF QueueAnswered
<1>2. WellFormed(r) /\ r.query \in BOOLEAN /\ r.arg = 0 /\ Answers(r, r.batch)
  BY <1>1 DEF PageInv, Tickets, WellFormed
<1> DEFINE painted == [Painted(page, r.batch, First(r.batch)) EXCEPT
                         !.pending = r.reply.queued, !.mixed = page.query /\ page.mixed]
           failed == [page EXCEPT !.status = "error", !.error = TRUE]
<1>3. \/ Newest(r) /\ (page' = painted \/ page' = failed)
      \/ ~Newest(r) /\ page' = page
  BY DEF QueueAnswered
<1>4. CASE Newest(r) /\ page' = painted
  <2>1. page' = painted
    BY <1>4
  <2>2. /\ PageShaped(page')
        /\ page'.scope = page.scope /\ page'.query = page.query
        /\ page'.total = r.batch.total /\ page'.seen = r.batch.seen
        /\ page'.rows = First(r.batch) /\ page'.matches = page.matches
        /\ page'.mixed = (page.query /\ page.mixed)
    BY <2>1 DEF PageInv, PageShaped, Painted
  <2>3. AboutPage(r)
    BY <1>1, <1>4 DEF PageInv, Latest, Newest
  <2>4. page'.mixed \/ Right(page')
    <3>1. CASE page'.mixed
      BY <3>1
    <3>2. CASE ~page'.mixed
      <4>1. page'.query => page'.matches = r.batch.rows
        BY <1>1, <2>2, <2>3, <3>2 DEF AboutPage
      <4>2. page'.scope = r.scope /\ page'.query = r.query
        BY <2>2, <2>3 DEF AboutPage
      <4> QED
        BY <1>2, <2>2, <4>1, <4>2, FirstBatch
    <3> QED
      BY <3>1, <3>2
  <2> QED
    BY <1>1, <1>4, <2>2, <2>4, LastAnswered DEF Newest, Latest
<1>5. CASE Newest(r) /\ page' = failed
  <2>1. PageShaped(page') /\ page'.error
    BY <1>5 DEF PageInv, PageShaped
  <2> QED
    BY <1>1, <1>5, <2>1, LastAnswered DEF Newest, Latest
<1>6. CASE ~Newest(r) /\ page' = page
  BY <1>1, <1>6, LateAnswered DEF Newest
<1> QED
  BY <1>3, <1>4, <1>5, <1>6

LEMMA ReloadAnsweredKeepsPage ==
  ASSUME PageInv, NEW r \in requests, ReloadAnswered(r)
  PROVE  PageInv'
<1> USE DEF FirstKinds, BatchKinds
<1>1. r.kind = "reload" /\ seq' = seq /\ requests' = requests \ {r}
  BY DEF ReloadAnswered
<1>2. WellFormed(r) /\ r.query \in BOOLEAN /\ r.arg = 0
  BY <1>1 DEF PageInv, Tickets, WellFormed
<1>3. CASE ~r.reply.ok /\ Newest(r)
  <2>1. page' = NoMore([page EXCEPT !.error = TRUE])
    BY <1>3 DEF ReloadAnswered
  <2>2. PageShaped(page') /\ page'.error
    BY <2>1 DEF PageInv, PageShaped, NoMore
  <2> QED
    BY <1>1, <1>3, <2>2, LastAnswered DEF Newest, Latest
<1>4. CASE ~r.reply.ok /\ ~Newest(r)
  <2>1. page' = page
    BY <1>4 DEF ReloadAnswered
  <2> QED
    BY <1>1, <1>4, <2>1, LateAnswered DEF Newest
<1>5. CASE r.reply.ok /\ Newest(r)
  <2> DEFINE p == Cached(r)
  <2>1. page' = NoMore(Painted(p, r.reply, First(r.reply)))
    BY <1>5 DEF ReloadAnswered
  <2>2. /\ PageShaped(p) /\ p.scope = page.scope /\ p.query = page.query
        /\ p.matches = IF r.query THEN r.reply.rows ELSE page.matches
    BY <1>2, CachedPage DEF PageInv
  <2> HIDE DEF p
  <2>3. /\ PageShaped(page')
        /\ page'.scope = page.scope /\ page'.query = page.query
        /\ page'.total = r.reply.total /\ page'.seen = r.reply.seen
        /\ page'.rows = First(r.reply)
        /\ page'.matches = IF r.query THEN r.reply.rows ELSE page.matches
    BY <2>1, <2>2 DEF PageShaped, Painted, NoMore
  <2>4. page'.scope = r.scope /\ page'.query = r.query
    BY <1>1, <1>5, <2>3 DEF PageInv, Latest, AboutPage, Newest
  <2>5. Answers(r, r.reply)
    BY <1>1, <1>2, <1>5 DEF WellFormed
  <2>6. Right(page')
    BY <1>2, <2>3, <2>4, <2>5, FirstBatch
  <2> QED
    BY <1>1, <1>5, <2>3, <2>6, LastAnswered DEF Newest, Latest
<1>6. CASE r.reply.ok /\ ~Newest(r)
  <2>1. page' = Cached(r) /\ r.ticket # seq
    BY <1>6 DEF ReloadAnswered, Newest
  <2>2. Tickets'
    BY <1>1, TicketsLess DEF PageInv
  <2> QED
    BY <1>1, <2>1, <2>2, LateCached
<1> QED
  BY <1>3, <1>4, <1>5, <1>6

LEMMA MoreAnsweredKeepsPage ==
  ASSUME PageInv, NEW r \in requests, MoreAnswered(r)
  PROVE  PageInv'
<1> USE DEF FirstKinds, BatchKinds
<1>1. r.kind = "more" /\ seq' = seq /\ requests' = requests \ {r}
  BY DEF MoreAnswered
<1>2. WellFormed(r)
  BY DEF PageInv, Tickets
<1>3. CASE ~Newest(r)
  <2>1. page' = page
    BY <1>3 DEF MoreAnswered
  <2> QED
    BY <1>1, <1>3, <2>1, LateAnswered DEF Newest
<1>4. CASE Newest(r) /\ ~r.reply.ok
  <2>1. page' = [page EXCEPT !.error = TRUE, !.more = FALSE]
    BY <1>4 DEF MoreAnswered
  <2>2. PageShaped(page') /\ page'.error
    BY <2>1 DEF PageInv, PageShaped
  <2> QED
    BY <1>1, <1>4, <2>2, LastAnswered DEF Newest, Latest
<1>5. CASE Newest(r) /\ r.reply.ok
  <2>1. page' = [page EXCEPT !.rows = Appended(r.reply.rows), !.total = r.reply.total,
                             !.more = FALSE, !.mixed = @ \/ r.reply.seen # page.seen]
    BY <1>5 DEF MoreAnswered
  <2>2. /\ PageShaped(page') /\ page'.error = page.error
        /\ page'.scope = page.scope /\ page'.query = page.query
        /\ page'.rows = Appended(r.reply.rows) /\ page'.total = r.reply.total
        /\ page'.matches = page.matches /\ page'.seen = page.seen
        /\ page'.mixed = (page.mixed \/ r.reply.seen # page.seen)
    BY <2>1 DEF PageInv, PageShaped
  <2>3. /\ r.scope = page.scope /\ r.query = page.query /\ r.arg = Len(page.rows) /\ ~r.query
    BY <1>1, <1>5 DEF PageInv, Latest, AboutPage, Newest
  <2>4. ~Painting
    BY <1>1, <1>5 DEF PageInv, Tickets, Painting, Newest
  <2>5. CASE page.error \/ page.mixed \/ r.reply.seen # page.seen
    BY <1>1, <1>5, <2>2, <2>5, LastAnswered DEF Newest, Latest
  <2>6. CASE Right(page) /\ r.reply.seen = page.seen
    <3> DEFINE all == ListedIn(page.seen, page.scope, page.query)
    <3>1. /\ all \in Seq(Shown(page.seen))
          /\ \A m, n \in 1..Len(all) : all[m].id = all[n].id => m = n
      BY ListedRows
    <3>2. /\ page.rows = Page(all, 0, Len(page.rows)) /\ page.rows \in Seq(Shown(page.seen))
      BY <2>6 DEF Right
    <3>3. Answers(r, r.reply)
      BY <1>1, <1>2, <1>5 DEF WellFormed
    <3>4. r.reply.total = Len(all) /\ r.reply.rows = Page(all, Len(page.rows), PageSize)
      BY <2>3, <2>6, <3>3 DEF Answers
    <3>5. all = ListedIn(page'.seen, page'.scope, page'.query)
      BY <2>2
    <3> HIDE DEF all
    <3>6. /\ Appended(r.reply.rows) \in Seq(Shown(page.seen))
          /\ Appended(r.reply.rows) = Page(all, 0, Len(Appended(r.reply.rows)))
      BY <3>1, <3>2, <3>4, AppendedRows
    <3>7. Right(page')
      BY <2>2, <2>3, <3>4, <3>5, <3>6 DEF Right
    <3> QED
      BY <1>1, <1>5, <2>2, <3>7, LastAnswered DEF Newest, Latest
  <2> QED
    BY <2>4, <2>5, <2>6 DEF PageInv
<1> QED
  BY <1>3, <1>4, <1>5

\* The controller reloads the list under the filters of a page.
LEMMA ReloadStarted ==
  ASSUME PageInv, NEW p, PageShaped(p), NEW others \in SUBSET requests, StartReload(p, others)
  PROVE  PageInv'
<1> USE DEF FirstKinds, BatchKinds
<1>1. seq \in Nat
  BY DEF PageInv, Tickets
<1>2. seq' = seq + 1 /\ page' = Fetched(p)
      /\ requests' = others \cup {Request("reload", seq', p, 0, "plain")}
  BY DEF StartReload
<1>3. PICK q : q = Request("reload", seq + 1, p, 0, "plain")
  OBVIOUS
<1>4. /\ WellFormed(q) /\ q.kind = "reload" /\ q.ticket = seq + 1 /\ q.scope = p.scope
      /\ q.query = p.query
  <2>1. seq + 1 \in Nat /\ p.query \in BOOLEAN
    BY <1>1 DEF PageShaped
  <2> QED
    BY <1>3, <2>1, RequestSent
<1>5. PageShaped(page') /\ page'.scope = p.scope /\ page'.query = p.query
  BY <1>2 DEF PageShaped, Fetched
<1>6. AboutPage(q)'
  BY <1>4, <1>5 DEF AboutPage
<1>7. requests' = others \cup {q}
  BY <1>2, <1>3
<1> QED
  BY <1>2, <1>4, <1>5, <1>6, <1>7, TicketTaken

\* A row's or a proposal's action: what it asks for next fetches no batch, or
\* reloads the list.
LEMMA ActAnsweredKeepsPage ==
  ASSUME PageInv, NEW r \in requests, ActAnswered(r)
  PROVE  PageInv'
<1> USE DEF FirstKinds, BatchKinds
<1> DEFINE others == requests \ {r}
           decided == [page EXCEPT !.pending = @ \ {r.arg}]
<1>1. r.kind \in Acting /\ r.kind \notin BatchKinds
  BY DEF ActAnswered, Acting
<1>2. /\ PageShaped(decided)
      /\ decided.scope = page.scope /\ decided.query = page.query /\ decided.rows = page.rows
      /\ decided.total = page.total /\ decided.mixed = page.mixed
      /\ decided.matches = page.matches /\ decided.seen = page.seen /\ decided.error = page.error
  BY DEF PageInv, PageShaped
<1>3. \/ requests' = others /\ page' = page /\ seq' = seq
      \/ StartReload(decided, others)
      \/ requests' = others /\ page' = decided /\ seq' = seq
      \/ /\ requests' = others \cup {Request("pending", 0, page, 0, "plain"),
                                     Request("health", 0, page, 0, "plain")}
         /\ page' = page /\ seq' = seq
  BY DEF ActAnswered
<1> HIDE DEF decided
<1>4. CASE requests' = others /\ page' = page /\ seq' = seq
  <2>1. PageKept
    BY <1>4 DEF PageKept, PageInv
  <2> QED
    BY <1>1, <1>4, <2>1, RequestGone
<1>5. CASE StartReload(decided, others)
  BY <1>2, <1>5, ReloadStarted
<1>6. CASE requests' = others /\ page' = decided /\ seq' = seq
  <2>1. PageKept
    BY <1>2, <1>6 DEF PageKept
  <2> QED
    BY <1>1, <1>6, <2>1, RequestGone
<1>7. CASE /\ requests' = others \cup {Request("pending", 0, page, 0, "plain"),
                                       Request("health", 0, page, 0, "plain")}
           /\ page' = page /\ seq' = seq
  <2>1. PageKept
    BY <1>7 DEF PageKept, PageInv
  <2>2. page.query \in BOOLEAN
    BY DEF PageInv, PageShaped
  <2>3. \A kind \in {"pending", "health"} :
          LET q == Request(kind, 0, page, 0, "plain")
          IN  WellFormed(q) /\ q.kind \notin BatchKinds /\ q.ticket = 0
    BY <2>2, RequestSent
  <2>4. PICK new : new = {Request("pending", 0, page, 0, "plain"),
                          Request("health", 0, page, 0, "plain")}
    OBVIOUS
  <2>5. \A q \in new : WellFormed(q) /\ q.kind \notin BatchKinds /\ q.ticket = 0
    BY <2>3, <2>4
  <2>6. requests' = others \cup new
    BY <1>7, <2>4
  <2> QED
    BY <1>1, <1>7, <2>1, <2>5, <2>6, RequestsAside
<1> QED
  BY <1>3, <1>4, <1>5, <1>6, <1>7

LEMMA AnswerKeepsPage ==
  ASSUME PageInv, Answer
  PROVE  PageInv'
<1> USE DEF FirstKinds, BatchKinds
<1>1. PICK r \in requests : \/ LoadAnswered(r) \/ QueueAnswered(r) \/ ReloadAnswered(r)
                            \/ MoreAnswered(r) \/ ActAnswered(r) \/ PendingAnswered(r)
                            \/ HealthAnswered(r)
  BY DEF Answer
<1>2. CASE PendingAnswered(r)
  <2>1. /\ r.kind = "pending" /\ requests' = requests \ {r} /\ seq' = seq
        /\ page' = IF r.reply.ok THEN [page EXCEPT !.pending = r.reply.queued] ELSE page
    BY <1>2 DEF PendingAnswered
  <2>2. PageKept
    BY <2>1 DEF PageInv, PageKept, PageShaped
  <2> QED
    BY <2>1, <2>2, RequestGone
<1>3. CASE HealthAnswered(r)
  <2>1. PageShaped(page) /\ requests \ {r} \subseteq requests
    BY DEF PageInv
  <2> QED
    BY <1>3, <2>1, ReloadStarted DEF HealthAnswered
<1> QED
  BY <1>1, <1>2, <1>3, LoadAnsweredKeepsPage, QueueAnsweredKeepsPage, ReloadAnsweredKeepsPage,
     MoreAnsweredKeepsPage, ActAnsweredKeepsPage

-----------------------------------------------------------------------------
(* The user clicks.                                                        *)

LEMMA LoadKeepsPage ==
  ASSUME PageInv, Load
  PROVE  PageInv'
<1> USE DEF FirstKinds, BatchKinds
<1>1. seq \in Nat
  BY DEF PageInv, Tickets
<1>2. /\ seq' = seq + 1 /\ page' = [Fetched(page) EXCEPT !.reopened = page.more]
      /\ requests' = requests \cup {Request("load", seq', page, 0, "plain")}
  BY DEF Load
<1>3. PICK q : q = Request("load", seq + 1, page, 0, "plain")
  OBVIOUS
<1>4. /\ WellFormed(q) /\ q.kind = "load" /\ q.ticket = seq + 1 /\ q.scope = page.scope
      /\ q.query = page.query
  <2>1. seq + 1 \in Nat /\ page.query \in BOOLEAN
    BY <1>1 DEF PageInv, PageShaped
  <2> QED
    BY <1>3, <2>1, RequestSent
<1>5. PageShaped(page') /\ page'.scope = page.scope /\ page'.query = page.query
  BY <1>2 DEF PageInv, PageShaped, Fetched
<1>6. AboutPage(q)'
  BY <1>4, <1>5 DEF AboutPage
<1>7. requests' = requests \cup {q}
  BY <1>2, <1>3
<1> QED
  BY <1>2, <1>4, <1>5, <1>6, <1>7, TicketTaken

LEMMA SetFiltersKeepsPage ==
  ASSUME PageInv, SetFilters
  PROVE  PageInv'
<1> DEFINE scoped == [page EXCEPT !.scope = IF @ = "all" THEN "project" ELSE "all"]
           asked == [page EXCEPT !.query = ~@]
<1>1. PageShaped(scoped) /\ PageShaped(asked)
  BY DEF PageInv, PageShaped
<1>2. StartReload(scoped, requests) \/ StartReload(asked, requests)
  BY DEF SetFilters
<1> HIDE DEF scoped, asked
<1> QED
  BY <1>1, <1>2, ReloadStarted

LEMMA LoadMoreKeepsPage ==
  ASSUME PageInv, LoadMore
  PROVE  PageInv'
<1> USE DEF FirstKinds, BatchKinds
<1>1. seq \in Nat /\ PageShaped(page)
  BY DEF PageInv, Tickets
<1>2. CASE ~page.query
  <2>1. /\ seq' = seq + 1
        /\ page' = [page EXCEPT !.more = TRUE, !.reopened = FALSE, !.mixed = @ \/ Overtakes]
        /\ requests' = requests \cup {Request("more", seq', page, Len(page.rows), "plain")}
    BY <1>2 DEF LoadMore
  <2>2. PICK q : q = Request("more", seq + 1, page, Len(page.rows), "plain")
    OBVIOUS
  <2>3. /\ WellFormed(q) /\ q.kind = "more" /\ q.ticket = seq + 1 /\ q.scope = page.scope
        /\ q.query = page.query /\ q.arg = Len(page.rows)
    <3>1. seq + 1 \in Nat /\ page.query \in BOOLEAN
      BY <1>1 DEF PageShaped
    <3> QED
      BY <2>2, <3>1, RequestSent
  <2>4. Overtakes \in BOOLEAN
    BY DEF Overtakes
  <2>5. /\ PageShaped(page') /\ page'.scope = page.scope /\ page'.query = page.query
        /\ page'.rows = page.rows /\ page'.total = page.total /\ page'.matches = page.matches
        /\ page'.seen = page.seen /\ page'.error = page.error
        /\ page'.mixed = (page.mixed \/ Overtakes)
    BY <1>1, <2>1, <2>4 DEF PageShaped
  <2>6. AboutPage(q)'
    BY <1>2, <2>3, <2>5 DEF AboutPage
  <2>7. Painting => page'.mixed
    BY <2>5 DEF Painting, Overtakes
  <2>8. Right(page) => Right(page')
    BY <2>5 DEF Right
  <2>9. page'.error \/ page'.mixed \/ Right(page')
    BY <2>5, <2>7, <2>8 DEF PageInv
  <2>10. requests' = requests \cup {q}
    BY <2>1, <2>2
  <2> QED
    BY <2>1, <2>3, <2>5, <2>6, <2>9, <2>10, TicketTaken
<1>3. CASE page.query /\ page.matches = Absent
  <2>1. StartReload(page, requests)
    BY <1>3 DEF LoadMore
  <2> QED
    BY <1>1, <2>1, ReloadStarted
<1>4. CASE page.query /\ page.matches # Absent
  <2>1. /\ page' = [page EXCEPT !.rows = Page(page.matches, 0, Len(page.rows) + PageSize)]
        /\ seq' = seq /\ requests' = requests
    BY <1>4 DEF LoadMore
  <2>2. /\ PageShaped(page') /\ page'.scope = page.scope /\ page'.query = page.query
        /\ page'.rows = Page(page.matches, 0, Len(page.rows) + PageSize)
        /\ page'.total = page.total /\ page'.matches = page.matches
        /\ page'.seen = page.seen /\ page'.error = page.error /\ page'.mixed = page.mixed
    BY <1>1, <2>1 DEF PageShaped
  <2>3. ASSUME NEW x \in requests, Latest(x) PROVE AboutPage(x)'
    <3>1. AboutPage(x)
      BY <2>3 DEF PageInv
    <3> QED
      BY <1>4, <2>2, <3>1 DEF AboutPage
  <2>4. Right(page) => Right(page')
    <3> SUFFICES ASSUME Right(page) PROVE Right(page')
      OBVIOUS
    <3> DEFINE all == ListedIn(page.seen, page.scope, page.query)
    <3>1. all \in Seq(Shown(page.seen)) /\ all = ListedIn(page'.seen, page'.scope, page'.query)
      BY <2>2, ListedRows
    <3>2. page.total = Len(all) /\ page.matches = all /\ page.rows \in Seq(Shown(page.seen))
      BY <1>4 DEF Right
    <3> HIDE DEF all
    <3>3. Len(page.rows) + PageSize \in Nat \ {0}
      <4>1. Len(page.rows) \in Nat /\ PageSize \in Nat \ {0}
        BY <3>2, SectionAssumption
      <4> QED
        BY <4>1
    <3>4. /\ Page(all, 0, Len(page.rows) + PageSize) \in Seq(Shown(page.seen))
          /\ Page(all, 0, Len(page.rows) + PageSize) =
               Page(all, 0, Len(Page(all, 0, Len(page.rows) + PageSize)))
      BY <3>1, <3>3, FirstPage
    <3> QED
      BY <2>2, <3>1, <3>2, <3>4 DEF Right
  <2> QED
    BY <2>1, <2>2, <2>3, <2>4 DEF PageInv, Tickets, Latest, Painting
<1> QED
  BY <1>1, <1>2, <1>3, <1>4 DEF PageShaped

\* A click on a row or on a proposal asks for no batch.
LEMMA AskedAside ==
  ASSUME PageInv, page' = page, seq' = seq, NEW kind, kind \notin BatchKinds, NEW arg, NEW body,
         requests' = requests \cup {Request(kind, 0, page, arg, body)}
  PROVE  PageInv'
<1>1. PageKept
  BY DEF PageKept, PageInv
<1>2. PICK q : q = Request(kind, 0, page, arg, body)
  OBVIOUS
<1>3. WellFormed(q) /\ q.kind \notin BatchKinds /\ q.ticket = 0
  <2>1. page.query \in BOOLEAN /\ kind # "queue" /\ kind \notin FirstKinds
    BY DEF PageInv, PageShaped, BatchKinds, FirstKinds
  <2> QED
    BY <1>2, <2>1, RequestSent
<1> DEFINE new == {q}
<1>4. \A x \in new : WellFormed(x) /\ x.kind \notin BatchKinds /\ x.ticket = 0
  BY <1>3
<1>5. requests' = requests \cup new
  BY <1>2
<1> HIDE DEF new
<1> QED
  BY <1>1, <1>4, <1>5, RequestsAside

LEMMA ActKeepsPage ==
  ASSUME PageInv, NEW kind, kind \notin BatchKinds, NEW arg, NEW body, Act(kind, arg, body)
  PROVE  PageInv'
BY AskedAside DEF Act

LEMMA UserKeepsPage ==
  ASSUME PageInv, User
  PROVE  PageInv'
<1> USE DEF BatchKinds
<1>1. CASE ActOnRow
  BY <1>1, ActKeepsPage DEF ActOnRow
<1>2. CASE Decide
  BY <1>2, ActKeepsPage DEF Decide
<1>3. CASE Save
  BY <1>3, ActKeepsPage DEF Save
<1>4. CASE Edit
  BY <1>4, AskedAside DEF Edit
<1> QED
  BY <1>1, <1>2, <1>3, <1>4, LoadKeepsPage, SetFiltersKeepsPage, LoadMoreKeepsPage DEF User

-----------------------------------------------------------------------------
(* A quiet page is true.                                                   *)

LEMMA PageOpens ==
  ASSUME Init
  PROVE  PageInv
<1> USE DEF BatchKinds, FirstKinds
<1>1. page = BlankPage /\ seq = 1 /\ requests = {Request("load", 1, BlankPage, 0, "plain")}
  BY DEF Init
<1>2. PageShaped(page) /\ page.query = FALSE
  BY <1>1 DEF BlankPage, PageShaped
<1>3. PICK q : q = Request("load", 1, page, 0, "plain")
  OBVIOUS
<1>4. /\ WellFormed(q) /\ q.kind = "load" /\ q.ticket = 1 /\ q.scope = page.scope
      /\ q.query = page.query
  <2>1. 1 \in Nat /\ page.query \in BOOLEAN
    BY <1>2
  <2> QED
    BY <1>3, <2>1, RequestSent
<1>5. requests = {q}
  BY <1>1, <1>3
<1>6. Tickets
  BY <1>1, <1>4, <1>5 DEF Tickets
<1>7. AboutPage(q)
  BY <1>4 DEF AboutPage
<1>8. Painting
  BY <1>1, <1>4, <1>5 DEF Painting
<1> QED
  BY <1>2, <1>5, <1>6, <1>7, <1>8 DEF PageInv

LEMMA PageStays ==
  ASSUME PageInv, [Next]_vars
  PROVE  PageInv'
<1>1. CASE UNCHANGED vars
  BY <1>1, SectionKept DEF vars
<1>2. CASE ToolCall /\ UNCHANGED section
  BY <1>2, SectionKept
<1> QED
  BY <1>1, <1>2, UserKeepsPage, ServeKeepsPage, AnswerKeepsPage, RestartKeepsPage DEF Next

LEMMA QuietPage ==
  ASSUME PageInv
  PROVE  QuietPageIsTrue
<1> SUFFICES ASSUME requests = {}, ~page.error, ~page.mixed, page.seen = Listing
             PROVE  page.total = Len(Truth) /\ page.rows = Page(Truth, 0, Len(page.rows))
  BY DEF QuietPageIsTrue
<1>1. Right(page)
  BY DEF PageInv, Painting
<1>2. Truth = ListedIn(page.seen, page.scope, page.query)
  BY ListedIs DEF Truth, PageInv, PageShaped
<1> QED
  BY <1>1, <1>2 DEF Right

\* Once the page of src/client/memory-section-store.ts waits for nothing and
\* reports no error, what it shows is true of the store its rows were read from:
\* the newest entries under its filters, and their number.  The ticket that
\* fetchFirstBatch, load, reload and loadMore compare is what carries it: of all
\* the replies on their way only the last one asked for may paint, and that one
\* is about the filters and the rows the page has.
THEOREM QuietPagesAreTrue == Spec => []QuietPageIsTrue
<1>1. Init => PageInv
  BY PageOpens
<1>2. PageInv /\ [Next]_vars => PageInv'
  BY PageStays
<1>3. PageInv => QuietPageIsTrue
  BY QuietPage
<1> QED
  BY <1>1, <1>2, <1>3, PTL DEF Spec

-----------------------------------------------------------------------------
(* The spinner of the next batch: what LoadingMoreEnds rests on.           *)

\* These end the spinner when they come back.
EndKinds == {"more", "reload"}

Ending(r) == r.kind \in EndKinds /\ r.ticket = seq

SpinnerIsOwed == page.more /\ ~page.reopened => \E r \in requests : Ending(r)

\* The spinner stays as it is, or ends; and the requests that end it stay.
LEMMA SpinnerStays ==
  ASSUME SpinnerIsOwed, seq' = seq,
         page'.more => page.more, page'.more => page'.reopened = page.reopened,
         page'.more => \A y \in requests : Ending(y) => \E x \in requests' : Like(x, y)
  PROVE  SpinnerIsOwed'
BY DEF SpinnerIsOwed, Ending, Like

LEMMA SpinnerServed ==
  ASSUME PageInv, SpinnerIsOwed, NEW r \in requests, NEW reply, Served(r, reply)
  PROVE  SpinnerIsOwed'
<1> DEFINE q == [r EXCEPT !.served = TRUE, !.reply = reply]
<1>1. requests' = (requests \ {r}) \cup {q} /\ page' = page /\ seq' = seq
  BY DEF Served
<1>2. Like(q, r) /\ \A x \in requests : Like(x, x)
  BY DEF PageInv, Tickets, WellFormed, Like
<1> HIDE DEF q
<1>3. \A y \in requests : \E x \in requests' : Like(x, y)
  BY <1>1, <1>2
<1> QED
  BY <1>1, <1>3, SpinnerStays

LEMMA SpinnerKept ==
  ASSUME SpinnerIsOwed, UNCHANGED section
  PROVE  SpinnerIsOwed'
BY DEF SpinnerIsOwed, Ending, section

\* A request that ends no spinner goes, whatever else joins.
LEMMA SpinnerAside ==
  ASSUME SpinnerIsOwed, seq' = seq, NEW r, ~Ending(r) \/ ~page'.more,
         requests \ {r} \subseteq requests',
         page'.more => page.more, page'.more => page'.reopened = page.reopened
  PROVE  SpinnerIsOwed'
<1>1. page'.more => \A y \in requests : Ending(y) => \E x \in requests' : Like(x, y)
  BY DEF Like
<1> QED
  BY <1>1, SpinnerStays

LEMMA ServeKeepsSpinner ==
  ASSUME PageInv, SpinnerIsOwed, Serve
  PROVE  SpinnerIsOwed'
<1>1. PICK r \in requests : \/ ServeBatch(r) \/ ServeQueue(r) \/ ServeRaw(r) \/ ServeWrite(r)
                            \/ RefuseWrite(r) \/ ServeAdopt(r) \/ ServeAdopted(r)
                            \/ ServeReject(r) \/ Fail(r)
  BY DEF Serve
<1>2. CASE ServeRaw(r)
  <2>1. r.kind = "raw" /\ requests' = requests \ {r} /\ page' = page /\ seq' = seq
    BY <1>2 DEF ServeRaw
  <2> QED
    BY <2>1, SpinnerAside DEF Ending, EndKinds
<1>3. CASE ServeAdopt(r)
  BY <1>3, SpinnerKept DEF ServeAdopt
<1>4. CASE ~ServeRaw(r) /\ ~ServeAdopt(r)
  <2>1. \E reply : Served(r, reply)
    BY <1>1, <1>4, Zenon DEF ServeBatch, ServeQueue, ServeWrite, RefuseWrite, ServeAdopted,
                             ServeReject, Fail
  <2> QED
    BY <2>1, SpinnerServed
<1> QED
  BY <1>2, <1>3, <1>4

LEMMA SpinnerReloads ==
  ASSUME PageInv, NEW p, NEW others, StartReload(p, others)
  PROVE  SpinnerIsOwed'
<1>1. seq' = seq + 1 /\ requests' = others \cup {Request("reload", seq', p, 0, "plain")}
  BY DEF StartReload
<1>2. PICK q : q = Request("reload", seq', p, 0, "plain")
  OBVIOUS
<1>3. q.kind = "reload" /\ q.ticket = seq' /\ q \in requests'
  BY <1>1, <1>2 DEF Request
<1> QED
  BY <1>3 DEF SpinnerIsOwed, Ending, EndKinds

LEMMA AnswerKeepsSpinner ==
  ASSUME PageInv, SpinnerIsOwed, Answer
  PROVE  SpinnerIsOwed'
<1> USE DEF Ending, EndKinds
<1>1. PICK r \in requests : \/ LoadAnswered(r) \/ QueueAnswered(r) \/ ReloadAnswered(r)
                            \/ MoreAnswered(r) \/ ActAnswered(r) \/ PendingAnswered(r)
                            \/ HealthAnswered(r)
  BY DEF Answer
<1>2. PageShaped(page) /\ WellFormed(r) /\ r.query \in BOOLEAN
  BY DEF PageInv, Tickets, WellFormed
<1>3. LET p == Cached(r)
      IN  DOMAIN p = DOMAIN page /\ p.more = page.more /\ p.reopened = page.reopened
  BY <1>2 DEF PageShaped, Cached
<1>4. CASE LoadAnswered(r)
  <2>1. r.kind = "load" /\ seq' = seq /\ requests \ {r} \subseteq requests'
    BY <1>4 DEF LoadAnswered
  <2>2. page'.more = page.more /\ page'.reopened = page.reopened
    BY <1>2, <1>3, <1>4 DEF LoadAnswered, PageShaped
  <2> QED
    BY <2>1, <2>2, SpinnerAside
<1>5. CASE QueueAnswered(r)
  <2>1. r.kind = "queue" /\ seq' = seq /\ requests' = requests \ {r}
    BY <1>5 DEF QueueAnswered
  <2>2. page'.more = page.more /\ page'.reopened = page.reopened
    BY <1>2, <1>5 DEF QueueAnswered, PageShaped, Painted
  <2> QED
    BY <2>1, <2>2, SpinnerAside
<1>6. CASE ReloadAnswered(r)
  <2>1. seq' = seq /\ requests' = requests \ {r}
    BY <1>6 DEF ReloadAnswered
  <2>2. CASE Newest(r)
    <3>1. \/ page' = NoMore([page EXCEPT !.error = TRUE])
          \/ page' = NoMore(Painted(Cached(r), r.reply, First(r.reply)))
      BY <1>6, <2>2 DEF ReloadAnswered
    <3>2. ~page'.more
      BY <1>2, <1>3, <3>1 DEF NoMore, Painted, PageShaped
    <3> QED
      BY <2>1, <3>2, SpinnerAside
  <2>3. CASE ~Newest(r)
    <3>1. page' = page \/ page' = Cached(r)
      BY <1>6, <2>3 DEF ReloadAnswered
    <3> QED
      BY <1>3, <2>1, <2>3, <3>1, SpinnerAside DEF Newest
  <2> QED
    BY <2>2, <2>3
<1>7. CASE MoreAnswered(r)
  <2>1. seq' = seq /\ requests' = requests \ {r}
    BY <1>7 DEF MoreAnswered
  <2>2. CASE Newest(r)
    <3>1. ~page'.more
      BY <1>2, <1>7, <2>2 DEF MoreAnswered, PageShaped
    <3> QED
      BY <2>1, <3>1, SpinnerAside
  <2>3. CASE ~Newest(r)
    <3>1. page' = page
      BY <1>7, <2>3 DEF MoreAnswered
    <3> QED
      BY <2>1, <2>3, <3>1, SpinnerAside DEF Newest
  <2> QED
    BY <2>2, <2>3
<1>8. CASE ActAnswered(r)
  <2> DEFINE others == requests \ {r}
             decided == [page EXCEPT !.pending = @ \ {r.arg}]
  <2>1. ~Ending(r)
    BY <1>8 DEF ActAnswered, Acting
  <2>2. decided.more = page.more /\ decided.reopened = page.reopened
    BY <1>2 DEF PageShaped
  <2>3. \/ StartReload(decided, others)
        \/ others \subseteq requests' /\ (page' = page \/ page' = decided) /\ seq' = seq
    BY <1>8 DEF ActAnswered
  <2> HIDE DEF decided
  <2>4. CASE StartReload(decided, others)
    BY <2>4, SpinnerReloads
  <2>5. CASE others \subseteq requests' /\ (page' = page \/ page' = decided) /\ seq' = seq
    BY <2>1, <2>2, <2>5, SpinnerAside
  <2> QED
    BY <2>3, <2>4, <2>5
<1>9. CASE PendingAnswered(r)
  <2>1. r.kind = "pending" /\ seq' = seq /\ requests' = requests \ {r}
    BY <1>9 DEF PendingAnswered
  <2>2. page'.more = page.more /\ page'.reopened = page.reopened
    BY <1>2, <1>9 DEF PendingAnswered, PageShaped
  <2> QED
    BY <2>1, <2>2, SpinnerAside
<1>10. CASE HealthAnswered(r)
  BY <1>10, SpinnerReloads DEF HealthAnswered
<1> QED
  BY <1>1, <1>4, <1>5, <1>6, <1>7, <1>8, <1>9, <1>10

\* A click that takes no ticket.
LEMMA SpinnerAsked ==
  ASSUME SpinnerIsOwed, page' = page, seq' = seq, requests \subseteq requests'
  PROVE  SpinnerIsOwed'
BY DEF SpinnerIsOwed, Ending

LEMMA UserKeepsSpinner ==
  ASSUME PageInv, SpinnerIsOwed, User
  PROVE  SpinnerIsOwed'
<1>1. PageShaped(page)
  BY DEF PageInv
<1>2. CASE Load
  <2>1. page' = [Fetched(page) EXCEPT !.reopened = page.more]
    BY <1>2 DEF Load
  <2>2. page'.more = page.more /\ page'.reopened = page.more
    BY <1>1, <2>1 DEF PageShaped, Fetched
  <2> QED
    BY <2>2 DEF SpinnerIsOwed
<1>3. CASE SetFilters
  BY <1>3, SpinnerReloads DEF SetFilters
<1>4. CASE LoadMore
  <2>1. CASE ~page.query
    <3>1. requests' = requests \cup {Request("more", seq', page, Len(page.rows), "plain")}
      BY <1>4, <2>1 DEF LoadMore
    <3>2. PICK q : q = Request("more", seq', page, Len(page.rows), "plain")
      OBVIOUS
    <3>3. q.kind = "more" /\ q.ticket = seq' /\ q \in requests'
      BY <3>1, <3>2 DEF Request
    <3> QED
      BY <3>3 DEF SpinnerIsOwed, Ending, EndKinds
  <2>2. CASE page.query /\ page.matches = Absent
    BY <1>4, <2>2, SpinnerReloads DEF LoadMore
  <2>3. CASE page.query /\ page.matches # Absent
    <3>1. /\ page' = [page EXCEPT !.rows = Page(page.matches, 0, Len(page.rows) + PageSize)]
          /\ ~page.more
      BY <1>4, <2>3 DEF LoadMore
    <3>2. ~page'.more
      BY <1>1, <3>1 DEF PageShaped
    <3> QED
      BY <3>2 DEF SpinnerIsOwed
  <2> QED
    BY <1>1, <2>1, <2>2, <2>3 DEF PageShaped
<1>5. CASE ActOnRow \/ Decide \/ Save \/ Edit
  <2>1. page' = page /\ seq' = seq /\ requests \subseteq requests'
    BY <1>5 DEF ActOnRow, Decide, Save, Edit, Act
  <2> QED
    BY <2>1, SpinnerAsked
<1> QED
  BY <1>2, <1>3, <1>4, <1>5 DEF User

LEMMA RestartKeepsSpinner ==
  ASSUME PageInv, SpinnerIsOwed, Restart
  PROVE  SpinnerIsOwed'
<1> DEFINE Lost(r) == IF r.served THEN r ELSE [r EXCEPT !.served = TRUE]
<1>1. requests' = {Lost(r) : r \in requests} /\ page' = page /\ seq' = seq
  BY DEF Restart
<1>2. \A r \in requests : Like(Lost(r), r)
  BY DEF PageInv, Tickets, WellFormed, Like
<1> HIDE DEF Lost
<1>3. \A y \in requests : \E x \in requests' : Like(x, y)
  BY <1>1, <1>2
<1> QED
  BY <1>1, <1>3, SpinnerStays

\* The button that appends the next batch never spins for nothing: an append or
\* a reload with the last ticket is on its way and ends it (loadMore and reload
\* of src/client/memory-section-store.ts), unless the whole section was loaded
\* again meanwhile, which takes the ticket and does not.  This is the safety half
\* of LoadingMoreEnds.
THEOREM SpinnerIsNeverIdle == Spec => []SpinnerIsOwed
<1>1. Init => PageInv /\ SpinnerIsOwed
  BY PageOpens DEF Init, BlankPage, SpinnerIsOwed
<1>2. PageInv /\ [Next]_vars => PageInv'
  BY PageStays
<1>3. ASSUME PageInv, SpinnerIsOwed, [Next]_vars PROVE SpinnerIsOwed'
  <2>1. CASE UNCHANGED vars
    BY <1>3, <2>1, SpinnerKept DEF vars
  <2>2. CASE ToolCall /\ UNCHANGED section
    BY <1>3, <2>2, SpinnerKept
  <2> QED
    BY <1>3, <2>1, <2>2, UserKeepsSpinner, ServeKeepsSpinner, AnswerKeepsSpinner,
       RestartKeepsSpinner DEF Next
<1> QED
  BY <1>1, <1>2, <1>3, PTL DEF Spec

=============================================================================
