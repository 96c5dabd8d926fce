------------------------------ MODULE DiskManager ------------------------------
(***************************************************************************)
(* The disk manager (crates/storage/src/disk_manager.rs) over the file     *)
(* system of file_system.rs: one file of pages per table, a cache of file  *)
(* handles, and one atomic counter per table from which page indexes are   *)
(* allocated.  The process may end and start again at any point, when the  *)
(* cache and the counters are rebuilt from the lengths of the files.       *)
(*                                                                         *)
(* A step is what runs between two awaits, or under the lock of the        *)
(* handle cache.  A file is its length in pages and their contents; every  *)
(* access to it is serialised by the mutex of the handle.  Completed       *)
(* writes survive a restart of the process.                                *)
(***************************************************************************)
EXTENDS Integers, FiniteSets

CONSTANTS
    Threads, Tables,
    Values,       \* page contents written by clients
    Zero,         \* a zeroed page
    NoIndex,      \* no counter, no page index
    NoTable,
    IndexLimit,   \* page indexes are computed modulo this (2^32 for u32)
    MaxOps,       \* bound: operations started
    MaxFaults,    \* bound: file operations that fail
    MaxRestarts,  \* bound: restarts of the process
    EarlyUse      \* may a table be used while create_table_file runs?

ASSUME LimitAssumption == IndexLimit \in Nat \ {0} /\ MaxOps \in Nat
ASSUME FaultAssumption == MaxFaults \in Nat /\ MaxRestarts \in Nat /\ EarlyUse \in BOOLEAN
ASSUME SentinelAssumption == NoIndex \notin Nat /\ NoTable \notin Tables /\ Zero \notin Values

Indexes == 0 .. (IndexLimit - 1)

VARIABLES
    (* the files *)
    exists,         \* tables whose file exists
    length,         \* pages in the file of each table
    content,        \* what the file holds at each page index
    (* DiskManager *)
    file_handles,   \* tables whose handle is cached
    next_page_ids,  \* the counter of each table
    (* locals of the calls in progress *)
    pc, op, table, index,
    file_length,    \* the length that get_file_handle measured
    (* environment and history *)
    ops, faults, restarts,
    returned,       \* page IDs that allocate_page has returned
    duplicate,      \* has it returned one twice?
    stored          \* what clients last wrote to each of them

files == <<exists, length, content>>
cache == <<file_handles, next_page_ids>>
locals == <<op, table, index, file_length>>
environment == <<ops, faults, restarts>>
history == <<returned, duplicate, stored>>
vars == <<files, cache, pc, locals, environment, history>>

Operations == {"allocate", "read", "write"}
Phases == {"idle", "register", "open", "measure", "install", "handle", "zero"}

TypeOK ==
    /\ exists \in SUBSET Tables
    /\ length \in [Tables -> Nat]
    /\ content \in [Tables -> [Indexes -> Values \cup {Zero}]]
    /\ file_handles \in SUBSET Tables
    /\ next_page_ids \in [Tables -> Indexes \cup {NoIndex}]
    /\ pc \in [Threads -> Phases]
    /\ op \in [Threads -> Operations]
    /\ table \in [Threads -> Tables \cup {NoTable}]
    /\ index \in [Threads -> Indexes \cup {NoIndex}]
    /\ \A t \in Threads : /\ pc[t] # "idle" => table[t] \in Tables
                          /\ pc[t] = "zero" => index[t] \in Indexes
    /\ file_length \in [Threads -> Nat]
    /\ ops \in 0 .. MaxOps
    /\ faults \in 0 .. MaxFaults
    /\ restarts \in 0 .. MaxRestarts
    /\ returned \in SUBSET (Tables \X Indexes)
    /\ duplicate \in BOOLEAN
    /\ stored \in [Tables -> [Indexes -> Values \cup {Zero}]]

Init ==
    /\ exists = {}
    /\ length = [tb \in Tables |-> 0]
    /\ content = [tb \in Tables |-> [i \in Indexes |-> Zero]]
    /\ file_handles = {}
    /\ next_page_ids = [tb \in Tables |-> NoIndex]
    /\ pc = [t \in Threads |-> "idle"]
    /\ op = [t \in Threads |-> "read"]
    /\ table = [t \in Threads |-> NoTable]
    /\ index = [t \in Threads |-> NoIndex]
    /\ file_length = [t \in Threads |-> 0]
    /\ ops = 0 /\ faults = 0 /\ restarts = 0
    /\ returned = {}
    /\ duplicate = FALSE
    /\ stored = [tb \in Tables |-> [i \in Indexes |-> Zero]]

-----------------------------------------------------------------------------
Goto(t, phase) == pc' = [pc EXCEPT ![t] = phase]

Start(t) ==
    /\ pc[t] = "idle"
    /\ ops < MaxOps
    /\ ops' = ops + 1
    /\ UNCHANGED <<faults, restarts>>

Return(t) ==
    /\ Goto(t, "idle")
    /\ op' = [op EXCEPT ![t] = "read"]
    /\ table' = [table EXCEPT ![t] = NoTable]
    /\ index' = [index EXCEPT ![t] = NoIndex]
    /\ file_length' = [file_length EXCEPT ![t] = 0]

Fault ==
    /\ faults < MaxFaults
    /\ faults' = faults + 1
    /\ UNCHANGED <<ops, restarts>>

(* A write at a page index extends the file as needed; pages that it skips *)
(* read as zeroes.                                                         *)
WriteAt(tb, i, v) ==
    /\ content' = [content EXCEPT ![tb][i] = v]
    /\ length' = [length EXCEPT ![tb] = IF @ < i + 1 THEN i + 1 ELSE @]
    /\ UNCHANGED exists

-----------------------------------------------------------------------------
(* create_table_file: the file must not exist (create_new).  Unless        *)
(* EarlyUse, nobody uses the table before the call has returned.           *)
CreateFile(t, tb) ==
    /\ Start(t)
    /\ EarlyUse \/ \A u \in Threads : table[u] # tb
    /\ tb \notin exists
    /\ exists' = exists \cup {tb}
    /\ table' = [table EXCEPT ![t] = tb]
    /\ Goto(t, "register")
    /\ UNCHANGED <<length, content, cache, op, index, file_length, history>>

CreateFileExists(t, tb) ==
    /\ Start(t)
    /\ tb \in exists
    /\ UNCHANGED <<files, cache, pc, locals, history>>

(* The handle is cached and the counter set, under the lock of the cache. *)
Register(t) ==
    /\ pc[t] = "register"
    /\ file_handles' = file_handles \cup {table[t]}
    /\ next_page_ids' = [next_page_ids EXCEPT ![table[t]] = 0]
    /\ Return(t)
    /\ UNCHANGED <<files, environment, history>>

-----------------------------------------------------------------------------
(* Clients use a table before or after its creation, not during it unless  *)
(* EarlyUse, and pages that were allocated.                                *)
Usable(tb) == EarlyUse \/ \A t \in Threads : ~(pc[t] = "register" /\ table[t] = tb)

(* allocate_page, read_page or write_page is called; get_file_handle looks *)
(* the table up in the cache.                                              *)
Call(t, o, tb, i) ==
    /\ Start(t)
    /\ Usable(tb)
    /\ IF o = "allocate" THEN i = NoIndex ELSE <<tb, i>> \in returned
    /\ op' = [op EXCEPT ![t] = o]
    /\ table' = [table EXCEPT ![t] = tb]
    /\ index' = [index EXCEPT ![t] = i]
    /\ Goto(t, IF tb \in file_handles THEN "handle" ELSE "open")
    /\ UNCHANGED <<files, cache, file_length, history>>

Open(t) ==
    /\ pc[t] = "open"
    /\ table[t] \in exists
    /\ Goto(t, "measure")
    /\ UNCHANGED <<files, cache, locals, environment, history>>

OpenFails(t) ==
    /\ pc[t] = "open"
    /\ \/ table[t] \notin exists /\ UNCHANGED environment
       \/ Fault
    /\ Return(t)
    /\ UNCHANGED <<files, cache, history>>

Measure(t) ==
    /\ pc[t] = "measure"
    /\ file_length' = [file_length EXCEPT ![t] = length[table[t]]]
    /\ Goto(t, "install")
    /\ UNCHANGED <<files, cache, op, table, index, environment, history>>

(* Mutants: the counter ignores the length of the file, or is not set. *)
CounterFromZero(tb, len) == [next_page_ids EXCEPT ![tb] = 0]
CounterNotSet(tb, len) == next_page_ids

(* entry(..).or_insert_with(..), with the length truncated to u32. *)
CounterOrInsert(tb, len) ==
    IF next_page_ids[tb] = NoIndex
    THEN [next_page_ids EXCEPT ![tb] = len % IndexLimit]
    ELSE next_page_ids

(* Mutant: the second look into the cache is missing. *)
InstallUnchecked(t) ==
    /\ pc[t] = "install"
    /\ file_handles' = file_handles \cup {table[t]}
    /\ next_page_ids' = [next_page_ids EXCEPT ![table[t]] = file_length[t] % IndexLimit]
    /\ Goto(t, "handle")
    /\ UNCHANGED <<files, locals, environment, history>>

(* Under the lock: another thread's handle wins, else this one is cached. *)
Install(t) ==
    /\ pc[t] = "install"
    /\ IF table[t] \in file_handles
       THEN UNCHANGED cache
       ELSE /\ file_handles' = file_handles \cup {table[t]}
            /\ next_page_ids' = CounterOrInsert(table[t], file_length[t])
    /\ Goto(t, "handle")
    /\ UNCHANGED <<files, locals, environment, history>>

-----------------------------------------------------------------------------
(* Mutant: the counter is read and incremented in two steps, and another   *)
(* thread reads it in between.                                             *)
NotIncremented(i) == i

(* fetch_add wraps around. *)
Incremented(i) == (i + 1) % IndexLimit

TakeIndex(t) ==
    LET tb == table[t] IN
    /\ pc[t] = "handle"
    /\ op[t] = "allocate"
    /\ index' = [index EXCEPT ![t] = next_page_ids[tb]]
    /\ next_page_ids' = [next_page_ids EXCEPT ![tb] = Incremented(@)]
    /\ Goto(t, "zero")
    /\ UNCHANGED <<files, file_handles, op, table, file_length, environment, history>>

(* The new page is zeroed and its ID returned. *)
ZeroPage(t) ==
    LET tb == table[t]  i == index[t] IN
    /\ pc[t] = "zero"
    /\ WriteAt(tb, i, Zero)
    /\ returned' = returned \cup {<<tb, i>>}
    /\ duplicate' = (duplicate \/ <<tb, i>> \in returned)
    /\ stored' = IF <<tb, i>> \in returned THEN stored ELSE [stored EXCEPT ![tb][i] = Zero]
    /\ Return(t)
    /\ UNCHANGED <<cache, environment>>

(* The index is used up. *)
ZeroPageFails(t) ==
    /\ pc[t] = "zero"
    /\ Fault
    /\ Return(t)
    /\ UNCHANGED <<files, cache, history>>

ReadPage(t) ==
    /\ pc[t] = "handle"
    /\ op[t] = "read"
    /\ Return(t)
    /\ UNCHANGED <<files, cache, environment, history>>

WritePage(t, v) ==
    /\ pc[t] = "handle"
    /\ op[t] = "write"
    /\ WriteAt(table[t], index[t], v)
    /\ stored' = [stored EXCEPT ![table[t]][index[t]] = v]
    /\ Return(t)
    /\ UNCHANGED <<cache, environment, returned, duplicate>>

WritePageFails(t) ==
    /\ pc[t] = "handle"
    /\ op[t] = "write"
    /\ Fault
    /\ Return(t)
    /\ UNCHANGED <<files, cache, history>>

-----------------------------------------------------------------------------
(* The process ends, in the middle of any calls, and DiskManager::new runs *)
(* again.                                                                  *)
Restart ==
    /\ restarts < MaxRestarts
    /\ restarts' = restarts + 1
    /\ file_handles' = {}
    /\ next_page_ids' = [tb \in Tables |-> NoIndex]
    /\ pc' = [t \in Threads |-> "idle"]
    /\ op' = [t \in Threads |-> "read"]
    /\ table' = [t \in Threads |-> NoTable]
    /\ index' = [t \in Threads |-> NoIndex]
    /\ file_length' = [t \in Threads |-> 0]
    /\ UNCHANGED <<files, ops, faults, history>>

Next ==
    \/ \E t \in Threads :
        \/ \E tb \in Tables : CreateFile(t, tb) \/ CreateFileExists(t, tb)
        \/ Register(t)
        \/ \E o \in Operations, tb \in Tables, i \in Indexes \cup {NoIndex} : Call(t, o, tb, i)
        \/ Open(t)
        \/ OpenFails(t)
        \/ Measure(t)
        \/ Install(t)
        \/ TakeIndex(t)
        \/ ZeroPage(t)
        \/ ZeroPageFails(t)
        \/ ReadPage(t)
        \/ \E v \in Values : WritePage(t, v)
        \/ WritePageFails(t)
    \/ Restart

Spec == Init /\ [][Next]_vars

-----------------------------------------------------------------------------
(* allocate_page never returns the same page ID twice, whichever threads   *)
(* open the file at the same time, whatever fails, and across restarts     *)
(* that rebuild the counter from the length of the file.                   *)
UniqueIds == ~duplicate

(* The counter of an open table is past every page of its file, so that an *)
(* allocation extends the file or fills a hole that nobody was given.      *)
CounterPastFile ==
    \A tb \in file_handles : next_page_ids[tb] # NoIndex /\ length[tb] <= next_page_ids[tb]

(* A page keeps what a client last wrote to it: the zeroing of a page that *)
(* is being allocated never hits a page that is in use.                    *)
StoredPagesKept ==
    \A tb \in Tables, i \in Indexes : <<tb, i>> \in returned => content[tb][i] = stored[tb][i]
=============================================================================
