--------------------------- MODULE DiskManagerProofs ---------------------------
(***************************************************************************)
(* Safety of the disk manager for any threads and tables, any number of    *)
(* failures and restarts.                                                  *)
(*                                                                         *)
(* The types hold whoever uses a table and when.  That page IDs are unique *)
(* needs two things of the environment: no call uses a table while it is   *)
(* being created, and the counters stay below the limit of a page index.   *)
(* The argument is that of CounterPastFile: the counter of an open table   *)
(* is past its file, every page that was returned is in the file, and an   *)
(* index that was taken and not yet written is below the counter and       *)
(* belongs to one thread.                                                  *)
(***************************************************************************)
EXTENDS DiskManager, TLAPS, FiniteSetTheorems

(* A table is in the cache exactly when it has a counter; a call that has  *)
(* got past get_file_handle uses a table of the cache, and a call that     *)
(* reads or writes is about a page that was returned.                      *)
CacheOK ==
    /\ \A tb \in Tables : tb \in file_handles <=> next_page_ids[tb] # NoIndex
    /\ \A t \in Threads : pc[t] \in {"handle", "zero"} => table[t] \in file_handles
    /\ \A t \in Threads :
        pc[t] \in {"open", "measure", "install", "handle"} /\ op[t] # "allocate"
            => <<table[t], index[t]>> \in returned

(* A file exists before its handle is cached, and before it has pages. *)
FilesOK ==
    /\ file_handles \subseteq exists
    /\ \A tb \in Tables : tb \notin exists => length[tb] = 0
    /\ \A t \in Threads : pc[t] \in {"measure", "install", "register"} => table[t] \in exists
    /\ \A tb \in Tables : length[tb] < IndexLimit

(* A table that is being created is empty, and nobody else uses it. *)
CreationPrivate ==
    \A t \in Threads : pc[t] = "register" =>
        /\ table[t] \notin file_handles
        /\ length[table[t]] = 0
        /\ \A u \in Threads : u # t => table[u] # table[t]

(* The length that a call has measured is right until a handle is cached. *)
MeasureExact ==
    \A t \in Threads : pc[t] = "install" /\ table[t] \notin file_handles
        => file_length[t] = length[table[t]]

(* A page that was returned is in the file of its table. *)
ReturnedStored == \A tb \in Tables, i \in Indexes : <<tb, i>> \in returned => i < length[tb]

(* An index that was taken is below the counter, was not returned, and     *)
(* belongs to one thread.                                                  *)
TakenPrivate ==
    \A t \in Threads : pc[t] = "zero" =>
        /\ index[t] < next_page_ids[table[t]]
        /\ <<table[t], index[t]>> \notin returned
        /\ \A u \in Threads : u # t /\ pc[u] = "zero" /\ table[u] = table[t] => index[u] # index[t]

DiskInv ==
    /\ FilesOK
    /\ CreationPrivate
    /\ MeasureExact
    /\ ReturnedStored
    /\ TakenPrivate
    /\ CounterPastFile
    /\ StoredPagesKept
    /\ UniqueIds

(* No page is allocated from a counter that would wrap around. *)
BelowLimit ==
    \A t \in Threads : pc[t] = "handle" /\ op[t] = "allocate"
        => next_page_ids[table[t]] + 1 < IndexLimit

-----------------------------------------------------------------------------
(* Types *)

(* Every step keeps the types and the cache; a call that takes an index    *)
(* finds a counter, and one that writes a page has its index.              *)
LEMMA TypeStep ==
    ASSUME TypeOK, CacheOK, [Next]_vars
    PROVE  TypeOK' /\ CacheOK'
<1> USE LimitAssumption, FaultAssumption, SentinelAssumption
    DEF TypeOK, CacheOK, Indexes, Operations, Phases, Goto, Start, Return, Fault,
        files, cache, locals, environment, history
<1>1. ASSUME NEW t \in Threads, NEW tb \in Tables, CreateFile(t, tb)
      PROVE  TypeOK' /\ CacheOK'
  BY <1>1 DEF CreateFile
<1>2. ASSUME NEW t \in Threads, NEW tb \in Tables, CreateFileExists(t, tb)
      PROVE  TypeOK' /\ CacheOK'
  BY <1>2 DEF CreateFileExists
<1>3. ASSUME NEW t \in Threads, Register(t)
      PROVE  TypeOK' /\ CacheOK'
  BY <1>3 DEF Register
<1>4. ASSUME NEW t \in Threads, NEW o \in Operations, NEW tb \in Tables, NEW i \in Indexes \cup {NoIndex},
             Call(t, o, tb, i)
      PROVE  TypeOK' /\ CacheOK'
  <2>1. /\ pc' = [pc EXCEPT ![t] = IF tb \in file_handles THEN "handle" ELSE "open"]
        /\ op' = [op EXCEPT ![t] = o]
        /\ table' = [table EXCEPT ![t] = tb]
        /\ index' = [index EXCEPT ![t] = i]
        /\ o # "allocate" => <<tb, i>> \in returned
        /\ UNCHANGED <<exists, length, content, file_handles, next_page_ids, file_length,
                       returned, duplicate, stored, faults, restarts>>
        /\ ops' \in 0 .. MaxOps
    BY <1>4 DEF Call
  <2>2. TypeOK'
    BY <2>1
  <2>3. CacheOK'
    BY <2>1
  <2> QED
    BY <2>2, <2>3
<1>5. ASSUME NEW t \in Threads, Open(t)
      PROVE  TypeOK' /\ CacheOK'
  BY <1>5 DEF Open
<1>6. ASSUME NEW t \in Threads, OpenFails(t)
      PROVE  TypeOK' /\ CacheOK'
  BY <1>6 DEF OpenFails
<1>7. ASSUME NEW t \in Threads, Measure(t)
      PROVE  TypeOK' /\ CacheOK'
  BY <1>7 DEF Measure
<1>8. ASSUME NEW t \in Threads, Install(t)
      PROVE  TypeOK' /\ CacheOK'
  <2> DEFINE len == file_length[t] % IndexLimit
  <2>1. table[t] \in Tables /\ len \in Indexes /\ len # NoIndex
    BY <1>8 DEF Install
  <2>2. \/ /\ table[t] \in file_handles
           /\ UNCHANGED <<file_handles, next_page_ids>>
        \/ /\ table[t] \notin file_handles
           /\ file_handles' = file_handles \cup {table[t]}
           /\ next_page_ids' = [next_page_ids EXCEPT ![table[t]] = len]
    BY <1>8, <2>1 DEF Install, CounterOrInsert
  <2>3. /\ pc' = [pc EXCEPT ![t] = "handle"]
        /\ pc[t] = "install"
        /\ UNCHANGED <<exists, length, content, op, table, index, file_length, ops, faults,
                       restarts, returned, duplicate, stored>>
    BY <1>8 DEF Install
  <2> HIDE DEF len
  <2>4. TypeOK'
    <3>1. /\ file_handles' \in SUBSET Tables
          /\ next_page_ids' \in [Tables -> Indexes \cup {NoIndex}]
      <4>1. CASE table[t] \in file_handles
        BY <4>1, <2>2
      <4>2. CASE table[t] \notin file_handles
        BY <4>2, <2>1, <2>2
      <4> QED
        BY <4>1, <4>2
    <3>2. /\ pc' \in [Threads -> Phases]
          /\ \A u \in Threads : /\ pc'[u] # "idle" => table'[u] \in Tables
                               /\ pc'[u] = "zero" => index'[u] \in Indexes
      BY <2>1, <2>3
    <3> QED
      BY <3>1, <3>2, <2>3
  <2>5. CacheOK'
    BY <2>1, <2>2, <2>3
  <2> QED
    BY <2>4, <2>5
<1>9. ASSUME NEW t \in Threads, TakeIndex(t)
      PROVE  TypeOK' /\ CacheOK'
  BY <1>9 DEF TakeIndex, Incremented
<1>10. ASSUME NEW t \in Threads, ZeroPage(t)
      PROVE  TypeOK' /\ CacheOK'
  BY <1>10 DEF ZeroPage, WriteAt
<1>11. ASSUME NEW t \in Threads, ZeroPageFails(t)
      PROVE  TypeOK' /\ CacheOK'
  BY <1>11 DEF ZeroPageFails
<1>12. ASSUME NEW t \in Threads, ReadPage(t)
      PROVE  TypeOK' /\ CacheOK'
  BY <1>12 DEF ReadPage
<1>13. ASSUME NEW t \in Threads, NEW v \in Values, WritePage(t, v)
      PROVE  TypeOK' /\ CacheOK'
  <2>1. table[t] \in Tables /\ index[t] \in Indexes
    BY <1>13 DEF WritePage
  <2>2. /\ content' \in [Tables -> [Indexes -> Values \cup {Zero}]]
        /\ stored' \in [Tables -> [Indexes -> Values \cup {Zero}]]
        /\ length' \in [Tables -> Nat]
    BY <1>13, <2>1 DEF WritePage, WriteAt
  <2> QED
    BY <1>13, <2>2 DEF WritePage, WriteAt
<1>14. ASSUME NEW t \in Threads, WritePageFails(t)
      PROVE  TypeOK' /\ CacheOK'
  BY <1>14 DEF WritePageFails
<1>15. CASE Restart
  BY <1>15 DEF Restart
<1>16. CASE UNCHANGED vars
  BY <1>16 DEF vars
<1> HIDE DEF TypeOK, CacheOK
<1> QED
  BY <1>1, <1>2, <1>3, <1>4, <1>5, <1>6, <1>7, <1>8, <1>9, <1>10, <1>11, <1>12, <1>13,
     <1>14, <1>15, <1>16 DEF Next

-----------------------------------------------------------------------------
(* Page IDs *)

(* A number below the limit is not changed by the limit. *)
LEMMA ModSmall ==
    ASSUME NEW n \in Nat \ {0}, NEW a \in Nat, a < n
    PROVE  a % n = a
  OBVIOUS

(* Every step keeps the invariant, as long as a table is not used while it *)
(* is created and no counter wraps around.                                 *)
LEMMA DiskStep ==
    ASSUME ~EarlyUse, TypeOK, CacheOK, DiskInv, BelowLimit, [Next]_vars
    PROVE  DiskInv'
<1> USE LimitAssumption, FaultAssumption, SentinelAssumption
    DEF TypeOK, CacheOK, DiskInv, FilesOK, CreationPrivate, MeasureExact, ReturnedStored,
        TakenPrivate, CounterPastFile, StoredPagesKept, UniqueIds
<1> USE DEF Indexes, Operations, Phases, Goto, Start, Return, Fault,
        files, cache, locals, environment, history
<1>1. ASSUME NEW t \in Threads, NEW tb \in Tables, CreateFile(t, tb)
      PROVE  DiskInv'
  BY <1>1 DEF CreateFile
<1>2. ASSUME NEW t \in Threads, NEW tb \in Tables, CreateFileExists(t, tb)
      PROVE  DiskInv'
  BY <1>2 DEF CreateFileExists
<1>3. ASSUME NEW t \in Threads, Register(t)
      PROVE  DiskInv'
  BY <1>3 DEF Register
<1>4. ASSUME NEW t \in Threads, NEW o \in Operations, NEW tb \in Tables, NEW i \in Indexes \cup {NoIndex},
             Call(t, o, tb, i)
      PROVE  DiskInv'
  <2>1. /\ pc' = [pc EXCEPT ![t] = IF tb \in file_handles THEN "handle" ELSE "open"]
        /\ table' = [table EXCEPT ![t] = tb]
        /\ index' = [index EXCEPT ![t] = i]
        /\ \A u \in Threads : ~(pc[u] = "register" /\ table[u] = tb)
        /\ UNCHANGED <<exists, length, content, file_handles, next_page_ids, file_length,
                       returned, duplicate, stored>>
    BY <1>4 DEF Call, Usable
  <2>2. FilesOK' /\ MeasureExact' /\ ReturnedStored'
    BY <2>1
  <2>3. CreationPrivate'
    BY <2>1
  <2>4. TakenPrivate'
    BY <2>1
  <2> QED
    BY <2>1, <2>2, <2>3, <2>4
<1>5. ASSUME NEW t \in Threads, Open(t)
      PROVE  DiskInv'
  BY <1>5 DEF Open
<1>6. ASSUME NEW t \in Threads, OpenFails(t)
      PROVE  DiskInv'
  BY <1>6 DEF OpenFails
<1>7. ASSUME NEW t \in Threads, Measure(t)
      PROVE  DiskInv'
  BY <1>7 DEF Measure
<1>8. ASSUME NEW t \in Threads, Install(t)
      PROVE  DiskInv'
  <2> DEFINE len == file_length[t] % IndexLimit
  <2>1. /\ table[t] \in Tables /\ pc[t] = "install"
        /\ table[t] \notin file_handles => len = length[table[t]]
    <3>1. table[t] \in Tables /\ pc[t] = "install"
      BY <1>8 DEF Install
    <3>2. length[table[t]] \in Nat /\ length[table[t]] < IndexLimit
      BY <3>1
    <3>3. table[t] \notin file_handles => file_length[t] = length[table[t]]
      BY <3>1
    <3>4. length[table[t]] % IndexLimit = length[table[t]]
      BY <3>2, ModSmall
    <3> QED
      BY <3>1, <3>3, <3>4
  <2>2. \/ /\ table[t] \in file_handles
           /\ UNCHANGED <<file_handles, next_page_ids>>
        \/ /\ table[t] \notin file_handles
           /\ file_handles' = file_handles \cup {table[t]}
           /\ next_page_ids' = [next_page_ids EXCEPT ![table[t]] = len]
    BY <1>8, <2>1 DEF Install, CounterOrInsert
  <2>3. /\ pc' = [pc EXCEPT ![t] = "handle"]
        /\ UNCHANGED <<exists, length, content, table, index, file_length, returned,
                       duplicate, stored>>
    BY <1>8 DEF Install
  <2> HIDE DEF len
  <2>4. FilesOK' /\ CreationPrivate' /\ MeasureExact'
    BY <2>1, <2>2, <2>3
  <2>5. TakenPrivate' /\ CounterPastFile'
    BY <2>1, <2>2, <2>3
  <2> QED
    BY <2>3, <2>4, <2>5
<1>9. ASSUME NEW t \in Threads, TakeIndex(t)
      PROVE  DiskInv'
  <2> DEFINE n == next_page_ids[table[t]]
  <2>1. /\ table[t] \in Tables /\ table[t] \in file_handles
        /\ n \in Nat /\ n + 1 < IndexLimit /\ length[table[t]] <= n
        /\ pc[t] = "handle"
    BY <1>9 DEF TakeIndex, BelowLimit
  <2>2. /\ next_page_ids' = [next_page_ids EXCEPT ![table[t]] = n + 1]
        /\ index' = [index EXCEPT ![t] = n]
        /\ pc' = [pc EXCEPT ![t] = "zero"]
        /\ UNCHANGED <<exists, length, content, file_handles, table, file_length, returned,
                       duplicate, stored>>
    <3>1. (n + 1) % IndexLimit = n + 1
      BY <2>1, ModSmall
    <3>2. next_page_ids' = [next_page_ids EXCEPT ![table[t]] = (n + 1) % IndexLimit]
      BY <1>9, <2>1 DEF TakeIndex, Incremented
    <3> HIDE DEF n
    <3> QED
      BY <1>9, <3>1, <3>2 DEF TakeIndex, n
  <2> HIDE DEF n
  <2>3. FilesOK' /\ CreationPrivate' /\ MeasureExact' /\ CounterPastFile'
    BY <2>1, <2>2 DEF n
  <2>4. TakenPrivate'
    BY <2>1, <2>2 DEF n
  <2>5. ReturnedStored' /\ StoredPagesKept' /\ UniqueIds'
    BY <2>2
  <2> HIDE DEF FilesOK, CreationPrivate, MeasureExact, ReturnedStored, TakenPrivate,
               CounterPastFile, StoredPagesKept, UniqueIds
  <2> QED
    BY <2>3, <2>4, <2>5
<1>10. ASSUME NEW t \in Threads, ZeroPage(t)
      PROVE  DiskInv'
  BY <1>10, SMTT(20) DEF ZeroPage, WriteAt
<1>11. ASSUME NEW t \in Threads, ZeroPageFails(t)
      PROVE  DiskInv'
  BY <1>11 DEF ZeroPageFails
<1>12. ASSUME NEW t \in Threads, ReadPage(t)
      PROVE  DiskInv'
  BY <1>12 DEF ReadPage
<1>13. ASSUME NEW t \in Threads, NEW v \in Values, WritePage(t, v)
      PROVE  DiskInv'
  <2>1. /\ table[t] \in Tables /\ index[t] \in Indexes /\ pc[t] = "handle"
        /\ index[t] < length[table[t]]
    <3>1. table[t] \in Tables /\ pc[t] = "handle" /\ op[t] = "write"
      BY <1>13 DEF WritePage
    <3>2. <<table[t], index[t]>> \in returned
      BY <3>1
    <3>3. index[t] \in Indexes
      BY <3>2
    <3> QED
      BY <3>1, <3>2, <3>3
  <2>2. /\ content' = [content EXCEPT ![table[t]][index[t]] = v]
        /\ stored' = [stored EXCEPT ![table[t]][index[t]] = v]
        /\ length' = length
        /\ pc' = [pc EXCEPT ![t] = "idle"]
        /\ table' = [table EXCEPT ![t] = NoTable]
        /\ index' = [index EXCEPT ![t] = NoIndex]
        /\ file_length' = [file_length EXCEPT ![t] = 0]
        /\ UNCHANGED <<exists, file_handles, next_page_ids, returned, duplicate>>
    BY <1>13, <2>1 DEF WritePage, WriteAt
  <2>3. FilesOK' /\ CreationPrivate' /\ MeasureExact' /\ CounterPastFile' /\ TakenPrivate'
    BY <2>1, <2>2
  <2>4. StoredPagesKept'
    BY <2>1, <2>2
  <2> QED
    BY <2>2, <2>3, <2>4
<1>14. ASSUME NEW t \in Threads, WritePageFails(t)
      PROVE  DiskInv'
  BY <1>14 DEF WritePageFails
<1>15. CASE Restart
  BY <1>15 DEF Restart
<1>16. CASE UNCHANGED vars
  BY <1>16 DEF vars
<1> HIDE DEF TypeOK, CacheOK, DiskInv
<1> QED
  BY <1>1, <1>2, <1>3, <1>4, <1>5, <1>6, <1>7, <1>8, <1>9, <1>10, <1>11, <1>12, <1>13,
     <1>14, <1>15, <1>16 DEF Next

-----------------------------------------------------------------------------
(* The budget of allocations *)

(* The calls that may still take an index. *)
Unspent == {t \in Threads : pc[t] \in {"open", "measure", "install", "handle"}}

(* Every page of a file, every index that a counter has passed and every   *)
(* call that may still take one is an operation that was started.          *)
Budget ==
    /\ IsFiniteSet(Unspent)
    /\ \A tb \in Tables : length[tb] + Cardinality(Unspent) <= ops
    /\ \A tb \in Tables : next_page_ids[tb] # NoIndex
                            => next_page_ids[tb] + Cardinality(Unspent) <= ops

(* When fewer operations are started than there are page indexes, no       *)
(* counter wraps around.                                                   *)
LEMMA BudgetSuffices ==
    ASSUME MaxOps < IndexLimit, TypeOK, CacheOK, Budget
    PROVE  BelowLimit
<1> SUFFICES ASSUME NEW t \in Threads, pc[t] = "handle", op[t] = "allocate"
             PROVE  next_page_ids[table[t]] + 1 < IndexLimit
  BY DEF BelowLimit
<1>1. table[t] \in Tables /\ next_page_ids[table[t]] \in Nat /\ next_page_ids[table[t]] # NoIndex
  BY SentinelAssumption DEF TypeOK, CacheOK, Indexes
<1>2. t \in Unspent
  BY DEF Unspent
<1>3. Cardinality(Unspent) \in Nat /\ Cardinality(Unspent) # 0
  BY <1>2, FS_CardinalityType, FS_EmptySet DEF Budget
<1>4. next_page_ids[table[t]] + Cardinality(Unspent) <= ops
  BY <1>1 DEF Budget
<1>5. ops \in Nat /\ ops <= MaxOps
  BY LimitAssumption DEF TypeOK
<1> QED
  BY <1>1, <1>3, <1>4, <1>5, LimitAssumption

(* A step starts a call, ends or advances one, takes an index, or ends     *)
(* them all.                                                               *)
LEMMA UnspentStep ==
    ASSUME TypeOK, IsFiniteSet(Unspent), [Next]_vars
    PROVE  /\ IsFiniteSet(Unspent')
           /\ Cardinality(Unspent') - ops' <= Cardinality(Unspent) - ops
           /\ \A t \in Threads : TakeIndex(t) => Cardinality(Unspent') - ops' < Cardinality(Unspent) - ops
<1>1. Cardinality(Unspent) \in Nat /\ ops \in Nat
  BY FS_CardinalityType, LimitAssumption DEF TypeOK
<1>2. CASE \E t \in Threads, o \in Operations, tb \in Tables, i \in Indexes \cup {NoIndex} :
            Call(t, o, tb, i)
  <2>1. PICK t \in Threads : /\ pc[t] = "idle" /\ ops' = ops + 1
                             /\ \E ph \in {"handle", "open"} : pc' = [pc EXCEPT ![t] = ph]
    BY <1>2 DEF Call, Start, Goto
  <2>2. Unspent' = Unspent \cup {t} /\ t \notin Unspent
    BY <2>1 DEF Unspent, TypeOK
  <2>3. IsFiniteSet(Unspent') /\ Cardinality(Unspent') = Cardinality(Unspent) + 1
    BY <2>2, FS_AddElement
  <2>4. \A u \in Threads : ~TakeIndex(u)
    BY <1>1, <2>1 DEF TakeIndex, environment
  <2> QED
    BY <1>1, <2>1, <2>3, <2>4
<1>3. CASE \E t \in Threads : TakeIndex(t)
  <2>1. PICK t \in Threads : /\ pc[t] = "handle" /\ ops' = ops
                             /\ pc' = [pc EXCEPT ![t] = "zero"]
    BY <1>3 DEF TakeIndex, Goto, environment
  <2>2. Unspent' = Unspent \ {t} /\ t \in Unspent
    BY <2>1 DEF Unspent, TypeOK
  <2>3. IsFiniteSet(Unspent') /\ Cardinality(Unspent') = Cardinality(Unspent) - 1
    BY <2>2, FS_RemoveElement
  <2> QED
    BY <1>1, <2>1, <2>3
<1>4. ASSUME Unspent' \subseteq Unspent, ops' \in {ops, ops + 1},
             ~ \E t \in Threads : TakeIndex(t)
      PROVE  /\ IsFiniteSet(Unspent')
             /\ Cardinality(Unspent') - ops' <= Cardinality(Unspent) - ops
             /\ \A t \in Threads :
                    TakeIndex(t) => Cardinality(Unspent') - ops' < Cardinality(Unspent) - ops
  <2>1. IsFiniteSet(Unspent') /\ Cardinality(Unspent') <= Cardinality(Unspent)
    BY <1>4, FS_Subset
  <2>2. Cardinality(Unspent') \in Nat
    BY <2>1, FS_CardinalityType
  <2> QED
    BY <1>1, <1>4, <2>1, <2>2
<1>5. ASSUME ~ \E t \in Threads, o \in Operations, tb \in Tables, i \in Indexes \cup {NoIndex} :
                    Call(t, o, tb, i),
             ~ \E t \in Threads : TakeIndex(t)
      PROVE  Unspent' \subseteq Unspent /\ ops' \in {ops, ops + 1}
  <2> USE DEF TypeOK, Unspent, Goto, Return, Start, Fault, environment
  <2>1. CASE \E t \in Threads, tb \in Tables : CreateFile(t, tb) \/ CreateFileExists(t, tb)
    BY <2>1 DEF CreateFile, CreateFileExists
  <2>2. CASE \E t \in Threads : Register(t) \/ Open(t) \/ Measure(t) \/ Install(t)
    BY <2>2 DEF Register, Open, Measure, Install
  <2>3. CASE \E t \in Threads : OpenFails(t) \/ ZeroPageFails(t) \/ WritePageFails(t)
    BY <2>3 DEF OpenFails, ZeroPageFails, WritePageFails
  <2>4. CASE \E t \in Threads : \/ ZeroPage(t) \/ ReadPage(t)
                                \/ \E v \in Values : WritePage(t, v)
    BY <2>4 DEF ZeroPage, ReadPage, WritePage
  <2>5. CASE Restart
    BY <2>5 DEF Restart
  <2>6. CASE UNCHANGED vars
    BY <2>6 DEF vars
  <2> QED
    BY <1>5, <2>1, <2>2, <2>3, <2>4, <2>5, <2>6 DEF Next
<1> QED
  BY <1>2, <1>3, <1>4, <1>5

(* Every step keeps the budget. *)
LEMMA BudgetStep ==
    ASSUME TypeOK, CacheOK, DiskInv, BelowLimit, Budget, [Next]_vars, TypeOK'
    PROVE  Budget'
<1>1. PICK card \in Nat : IsFiniteSet(Unspent) /\ card = Cardinality(Unspent) /\ ops \in Nat
  BY FS_CardinalityType, LimitAssumption DEF Budget, TypeOK
<1>2. PICK after \in Nat :
        /\ IsFiniteSet(Unspent') /\ after = Cardinality(Unspent') /\ ops' \in Nat
        /\ after - ops' <= card - ops
        /\ \A t \in Threads : TakeIndex(t) => after - ops' < card - ops
  BY <1>1, UnspentStep, FS_CardinalityType, LimitAssumption DEF TypeOK
<1>3. \A tb \in Tables : /\ length[tb] \in Nat /\ length[tb] + card <= ops
                         /\ next_page_ids[tb] # NoIndex =>
                                next_page_ids[tb] \in Nat /\ next_page_ids[tb] + card <= ops
  BY <1>1, LimitAssumption DEF Budget, TypeOK, Indexes
<1>4. ASSUME \A tb \in Tables :
                /\ \/ length'[tb] = length[tb]
                   \/ next_page_ids[tb] # NoIndex /\ length'[tb] <= next_page_ids[tb]
                /\ \/ next_page_ids'[tb] \in {NoIndex, next_page_ids[tb]}
                   \/ next_page_ids'[tb] = length[tb]
                   \/ /\ \E t \in Threads : TakeIndex(t)
                      /\ next_page_ids[tb] # NoIndex
                      /\ next_page_ids'[tb] = next_page_ids[tb] + 1
      PROVE  Budget'
  <2>1. \A tb \in Tables : length'[tb] \in Nat
    BY DEF TypeOK
  <2>2. \A tb \in Tables : length'[tb] + after <= ops'
    <3> TAKE tb \in Tables
    <3>1. \A l, n, c, o, l2, c2, o2 \in Int :
            l + c <= o /\ n + c <= o /\ (l2 = l \/ l2 <= n) /\ c2 - o2 <= c - o => l2 + c2 <= o2
      OBVIOUS
    <3>2. CASE length'[tb] = length[tb]
      BY <1>1, <1>2, <1>3, <3>1, <3>2
    <3>3. CASE next_page_ids[tb] # NoIndex /\ length'[tb] <= next_page_ids[tb]
      BY <1>1, <1>2, <1>3, <2>1, <3>1, <3>3
    <3> QED
      BY <1>4, <3>2, <3>3
  <2>3. \A tb \in Tables : next_page_ids'[tb] # NoIndex => next_page_ids'[tb] + after <= ops'
    <3> SUFFICES ASSUME NEW tb \in Tables, next_page_ids'[tb] # NoIndex
                 PROVE  next_page_ids'[tb] + after <= ops'
      OBVIOUS
    <3>1. \A n, c, o, c2, o2 \in Int : n + c <= o /\ c2 - o2 <= c - o => n + c2 <= o2
      OBVIOUS
    <3>2. \A n, c, o, c2, o2 \in Int : n + c <= o /\ c2 - o2 < c - o => (n + 1) + c2 <= o2
      OBVIOUS
    <3>3. CASE next_page_ids'[tb] = next_page_ids[tb]
      BY <1>1, <1>2, <1>3, <3>1, <3>3
    <3>4. CASE next_page_ids'[tb] = length[tb]
      BY <1>1, <1>2, <1>3, <3>1, <3>4
    <3>5. CASE /\ \E t \in Threads : TakeIndex(t)
               /\ next_page_ids[tb] # NoIndex
               /\ next_page_ids'[tb] = next_page_ids[tb] + 1
      BY <1>1, <1>2, <1>3, <3>2, <3>5
    <3> QED
      BY <1>4, <3>3, <3>4, <3>5
  <2> QED
    BY <1>2, <2>2, <2>3 DEF Budget
<1> USE LimitAssumption, SentinelAssumption
    DEF TypeOK, CacheOK, DiskInv, Indexes, files, cache, locals
<1>5. CASE \E t \in Threads : Install(t)
  <2>1. PICK t \in Threads : Install(t)
    BY <1>5
  <2>2. table[t] \in Tables /\ pc[t] = "install" /\ length' = length
    BY <2>1 DEF Install
  <2>3. CASE table[t] \notin file_handles
    <3>1. length[table[t]] % IndexLimit = length[table[t]]
      BY <2>2, ModSmall DEF FilesOK
    <3>2. file_length[t] = length[table[t]]
      BY <2>2, <2>3 DEF MeasureExact
    <3>3. next_page_ids' = [next_page_ids EXCEPT ![table[t]] = length[table[t]]]
      BY <2>1, <2>2, <2>3, <3>1, <3>2 DEF Install, CounterOrInsert
    <3> QED
      BY <1>4, <2>2, <3>3
  <2>4. CASE table[t] \in file_handles
    BY <1>4, <2>1, <2>2, <2>4 DEF Install
  <2> QED
    BY <2>3, <2>4
<1>6. CASE \E t \in Threads : TakeIndex(t)
  <2>1. PICK t \in Threads : TakeIndex(t)
    BY <1>6
  <2> DEFINE n == next_page_ids[table[t]]
  <2>2. /\ table[t] \in Tables /\ n # NoIndex /\ n \in Nat /\ n + 1 < IndexLimit
        /\ length' = length
    BY <2>1 DEF TakeIndex, BelowLimit
  <2>3. (n + 1) % IndexLimit = n + 1
    BY <2>2, ModSmall
  <2>4. next_page_ids' = [next_page_ids EXCEPT ![table[t]] = (n + 1) % IndexLimit]
    BY <2>1, <2>2 DEF TakeIndex, Incremented
  <2> QED
    BY <1>4, <2>1, <2>2, <2>3, <2>4
<1>7. CASE \E t \in Threads : ZeroPage(t)
  <2>1. PICK t \in Threads : ZeroPage(t)
    BY <1>7
  <2>2. /\ table[t] \in Tables /\ table[t] \in file_handles /\ index[t] \in Nat
        /\ next_page_ids[table[t]] \in Nat
        /\ pc[t] = "zero" /\ index[t] < next_page_ids[table[t]]
    BY <2>1 DEF ZeroPage, TakenPrivate
  <2>3. /\ next_page_ids' = next_page_ids
        /\ \/ length' = length
           \/ length' = [length EXCEPT ![table[t]] = index[t] + 1]
    <3>1. /\ next_page_ids' = next_page_ids
          /\ length' = [length EXCEPT ![table[t]] = IF length[table[t]] < index[t] + 1
                                                  THEN index[t] + 1
                                                  ELSE length[table[t]]]
      BY <2>1 DEF ZeroPage, WriteAt
    <3>2. CASE length[table[t]] < index[t] + 1
      BY <3>1, <3>2
    <3>3. CASE ~(length[table[t]] < index[t] + 1)
      BY <2>2, <3>1, <3>3
    <3> QED
      BY <3>2, <3>3
  <2> QED
    BY <1>4, <2>2, <2>3
<1>8. CASE \E t \in Threads, v \in Values : WritePage(t, v)
  <2>1. PICK t \in Threads, v \in Values : WritePage(t, v)
    BY <1>8
  <2>2. table[t] \in Tables /\ pc[t] = "handle" /\ op[t] = "write"
    BY <2>1 DEF WritePage
  <2>3. <<table[t], index[t]>> \in returned
    BY <2>2
  <2>4. index[t] \in Indexes
    BY <2>3
  <2>5. index[t] < length[table[t]]
    BY <2>2, <2>3, <2>4 DEF ReturnedStored
  <2>6. length' = length /\ next_page_ids' = next_page_ids
    BY <2>1, <2>2, <2>4, <2>5 DEF WritePage, WriteAt
  <2> QED
    BY <1>4, <2>6
<1>9. CASE \E t \in Threads : Register(t)
  <2>1. PICK t \in Threads : Register(t)
    BY <1>9
  <2>2. table[t] \in Tables /\ length[table[t]] = 0 /\ length' = length
    BY <2>1 DEF Register, CreationPrivate
  <2>3. next_page_ids' = [next_page_ids EXCEPT ![table[t]] = length[table[t]]]
    BY <2>1, <2>2 DEF Register
  <2> QED
    BY <1>4, <2>2, <2>3
<1>10. CASE Restart
  BY <1>4, <1>10 DEF Restart
<1>11. CASE length' = length /\ next_page_ids' = next_page_ids
  BY <1>4, <1>11
<1>12. ASSUME NEW t \in Threads,
              \/ \E tb \in Tables : CreateFile(t, tb) \/ CreateFileExists(t, tb)
              \/ \E o \in Operations, tb \in Tables, i \in Indexes \cup {NoIndex} :
                    Call(t, o, tb, i)
              \/ Open(t) \/ OpenFails(t) \/ Measure(t)
              \/ ZeroPageFails(t) \/ ReadPage(t) \/ WritePageFails(t)
       PROVE  length' = length /\ next_page_ids' = next_page_ids
  BY <1>12 DEF CreateFile, CreateFileExists, Call, Open, OpenFails, Measure, ZeroPageFails,
               ReadPage, WritePageFails
<1> HIDE DEF TypeOK, CacheOK, DiskInv, Indexes
<1> QED
  BY <1>5, <1>6, <1>7, <1>8, <1>9, <1>10, <1>11, <1>12 DEF Next, vars

-----------------------------------------------------------------------------
(* Theorems *)

(* The initial state satisfies every part of the argument. *)
LEMMA InitInv == Init => TypeOK /\ CacheOK /\ DiskInv /\ Budget
<1> SUFFICES ASSUME Init PROVE TypeOK /\ CacheOK /\ DiskInv /\ Budget
  OBVIOUS
<1> USE LimitAssumption, FaultAssumption, SentinelAssumption DEF Init
<1>1. TypeOK
  <2>1. {} \in SUBSET Tables /\ {} \in SUBSET (Tables \X Indexes)
    OBVIOUS
  <2>2. /\ ops \in 0 .. MaxOps /\ faults \in 0 .. MaxFaults /\ restarts \in 0 .. MaxRestarts
        /\ length \in [Tables -> Nat] /\ file_length \in [Threads -> Nat]
    OBVIOUS
  <2>3. pc \in [Threads -> Phases] /\ op \in [Threads -> Operations]
    BY DEF Operations, Phases
  <2> QED
    BY <2>1, <2>2, <2>3 DEF TypeOK
<1>2. CacheOK
  BY DEF CacheOK
<1>3. DiskInv
  BY DEF DiskInv, FilesOK, CreationPrivate, MeasureExact, ReturnedStored, TakenPrivate,
         CounterPastFile, StoredPagesKept, UniqueIds
<1>4. Unspent = {}
  BY DEF Unspent
<1>5. IsFiniteSet(Unspent) /\ Cardinality(Unspent) = 0
  BY <1>4, FS_EmptySet
<1>6. Budget
  BY <1>5 DEF Budget
<1> QED
  BY <1>1, <1>2, <1>3, <1>6

(* The disk manager keeps its types, whoever uses a table and when: a call *)
(* that takes an index always finds a counter, and every index that        *)
(* reaches the file is an index.                                           *)
THEOREM DiskTypeCorrect == Spec => []TypeOK
<1>1. Init => TypeOK /\ CacheOK
  BY InitInv
<1>2. TypeOK /\ CacheOK /\ [Next]_vars => (TypeOK /\ CacheOK)'
  BY TypeStep
<1> QED
  BY <1>1, <1>2, PTL DEF Spec

(* The argument of the three theorems below: with fewer operations than    *)
(* there are indexes no counter wraps, and then DiskInv is kept.           *)
LEMMA AllocationInv ==
    ASSUME ~EarlyUse, MaxOps < IndexLimit
    PROVE  Spec => []DiskInv
<1> DEFINE Inv == TypeOK /\ CacheOK /\ DiskInv /\ Budget
<1>1. Init => Inv
  BY InitInv
<1>2. Inv /\ [Next]_vars => Inv'
  <2> SUFFICES ASSUME Inv, [Next]_vars
               PROVE  Inv'
    OBVIOUS
  <2>1. BelowLimit
    BY BudgetSuffices
  <2>2. TypeOK' /\ CacheOK'
    BY TypeStep
  <2>3. DiskInv'
    BY <2>1, DiskStep
  <2>4. Budget'
    BY <2>1, <2>2, BudgetStep
  <2> QED
    BY <2>2, <2>3, <2>4
<1>3. Inv => DiskInv
  OBVIOUS
<1> QED
  BY <1>1, <1>2, <1>3, PTL DEF Spec

(* No page ID is returned twice (disk_manager.rs: allocate_page), for any  *)
(* threads, tables, failures and restarts, as long as fewer operations are *)
(* started than there are page indexes and no table is used while it is    *)
(* created.                                                                *)
THEOREM IdsNeverReused ==
    ASSUME ~EarlyUse, MaxOps < IndexLimit
    PROVE  Spec => []UniqueIds
<1>1. DiskInv => UniqueIds
  BY DEF DiskInv
<1> QED
  BY <1>1, AllocationInv, PTL

(* The cached counter of a table is never behind the pages of its file     *)
(* (disk_manager.rs: get_file_handle), in the same circumstances.          *)
THEOREM CounterNeverBehind ==
    ASSUME ~EarlyUse, MaxOps < IndexLimit
    PROVE  Spec => []CounterPastFile
<1>1. DiskInv => CounterPastFile
  BY DEF DiskInv
<1> QED
  BY <1>1, AllocationInv, PTL

(* What was written to a page stays in the file until it is written again  *)
(* (disk_manager.rs: allocate_page, write_page), in the same circumstances.*)
THEOREM PagesNeverOverwritten ==
    ASSUME ~EarlyUse, MaxOps < IndexLimit
    PROVE  Spec => []StoredPagesKept
<1>1. DiskInv => StoredPagesKept
  BY DEF DiskInv
<1> QED
  BY <1>1, AllocationInv, PTL
=============================================================================
