--------------------------- MODULE PathCache_proofs ---------------------------
(***************************************************************************)
(* Proofs about PathCache: for every list of directories, every set of     *)
(* names, every number of lookups and every course of the clock, a command *)
(* that was there all along is missed only on entries read within the tick *)
(* they are kept under.                                                    *)
(***************************************************************************)
EXTENDS PathCache, TLAPS

\* The directories of PATH are there, and the types the proofs use of them.
LEMMA PathType ==
  /\ Len(Path) \in Nat /\ 1 \in 1..Len(Path)
  /\ \A k \in 1..Len(Path) : Path[k] \in Dirs
  /\ \A d \in Dirs : \E k \in 1..Len(Path) : Path[k] = d
  /\ MaxClock \in Nat /\ MaxLookups \in Nat
BY PathAssumption DEF Dirs, ToSet

(***************************************************************************)
(* The strengthened invariant.  Entries that differ from those of a        *)
(* directory that still bears their time were read within the tick of that *)
(* time, because a change stamps the directory with a tick no earlier than *)
(* the reading.  A directory that holds the command all along and was      *)
(* searched in vain was searched through such entries; one that is read    *)
(* once more during the lookup shows the command.                          *)
(***************************************************************************)
StaleWithinATick(d) ==
  cache[d].modified = dirs[d].modified /\ cache[d].entries # dirs[d].entries =>
    cache[d].read = cache[d].modified

CacheInv == \A d \in Dirs : cache[d].modified <= cache[d].read /\ StaleWithinATick(d)

SteadyInv ==
  /\ \A d \in steady : Runnable(d, lookup.name)
  /\ lookup.at = "idle" => steady = {}

\* The positions of PATH that the lookup has searched.
Searched ==
  CASE lookup.at \in {"stat", "read"} -> 1..(lookup.k - 1)
    [] lookup.at = "check" -> {j \in 1..(lookup.k - 1) : Path[j] # Path[lookup.k]}
    [] lookup.at = "answered" /\ ~lookup.answer -> 1..Len(Path)
    [] OTHER -> {}

LookupInv == \A j \in Searched : Path[j] \in steady => Missed(Path[j])

IInv == TypeOK /\ CacheInv /\ SteadyInv /\ LookupInv

(***************************************************************************)
(* Type correctness.                                                       *)
(***************************************************************************)
\* The directory a lookup is at is one of PATH.
LEMMA DirectoryType ==
  ASSUME TypeOK, lookup.at # "idle"
  PROVE  lookup.k \in 1..Len(Path) /\ Directory \in Dirs
<1>1. lookup.k \in 1..Len(Path)
  BY PathType DEF TypeOK
<1> QED
  BY <1>1, PathType DEF Directory

Lookups ==
  [at : {"idle", "stat", "read", "check", "answered"}, answer : BOOLEAN,
   name : Names \cup {"none"}, k : 0..Len(Path), modified : 0..clock, entries : SUBSET Names]

\* Going on leads to the next directory, or to the answer that there is none.
LEMMA GoOnType ==
  ASSUME TypeOK, lookup.at # "idle", GoOn
  PROVE  /\ lookup' \in Lookups /\ lookup'.at # "idle" /\ lookup'.k # 0
         /\ lookup'.name = lookup.name
         /\ \/ lookup.k # Len(Path) /\ lookup'.at = "stat" /\ lookup'.k = lookup.k + 1
            \/ lookup.k = Len(Path) /\ lookup'.at = "answered" /\ ~lookup'.answer
<1>1. lookup.k \in 1..Len(Path) /\ lookup \in Lookups
  BY DirectoryType DEF TypeOK, Lookups
<1>2. CASE lookup.k = Len(Path)
  <2>1. lookup' = [lookup EXCEPT !.at = "answered", !.answer = FALSE]
    BY <1>2 DEF GoOn, Answer
  <2>2. /\ lookup'.at = "answered" /\ lookup'.k = lookup.k /\ lookup'.name = lookup.name
        /\ lookup'.modified = lookup.modified /\ lookup'.entries = lookup.entries
    BY <1>1, <2>1 DEF Lookups
  <2>3. ~lookup'.answer
    BY <1>1, <2>1 DEF Lookups
  <2>4. lookup' \in Lookups
    BY <1>1, <2>1 DEF Lookups
  <2> QED
    BY <1>1, <1>2, <2>2, <2>3, <2>4
<1>3. CASE lookup.k # Len(Path)
  <2>1. lookup.k + 1 \in 1..Len(Path)
    BY <1>1, <1>3, PathType
  <2>2. lookup' = [lookup EXCEPT !.at = "stat", !.k = lookup.k + 1]
    BY <1>3 DEF GoOn
  <2>3. lookup.k + 1 \in 0..Len(Path) /\ lookup.k + 1 # 0
    BY <2>1
  <2> QED
    BY <1>1, <1>3, <2>2, <2>3 DEF Lookups
<1> QED
  BY <1>2, <1>3

\* A search finds the name among the entries or goes on.
LEMMA SearchType ==
  ASSUME TypeOK, lookup.at # "idle", NEW entries \in SUBSET Names, Search(entries)
  PROVE  \/ /\ lookup.name \in entries
            /\ lookup' \in Lookups /\ lookup'.at = "check" /\ lookup'.k = lookup.k
            /\ lookup'.name = lookup.name /\ lookup'.k # 0
         \/ lookup.name \notin entries /\ GoOn
<1>1. lookup \in Lookups /\ lookup.k # 0
  BY DEF TypeOK, Lookups
<1> QED
  BY <1>1 DEF Search, Lookups

\* Every step keeps the types.
LEMMA TypeStep ==
  ASSUME TypeOK, [Next]_vars
  PROVE  TypeOK'
<1>1. ASSUME NEW d \in Dirs, NEW entries \in SUBSET Names, Changed(d, entries)
      PROVE  TypeOK'
  <2>1. clock \in 0..clock
    BY PathType DEF TypeOK
  <2>2. dirs[d].executable \cap entries \in SUBSET Names
    BY <1>1
  <2>3. dirs' \in [Dirs -> [exists : BOOLEAN, entries : SUBSET Names, executable : SUBSET Names,
                          modified : 0..clock]]
    BY <1>1, <2>1, <2>2 DEF Changed, TypeOK
  <2> QED
    BY <1>1, <2>3 DEF Changed, TypeOK
<1>2. ASSUME NEW d \in Dirs, NEW name \in Names,
             CreateFile(d, name) \/ RemoveFile(d, name) \/ Chmod(d, name)
      PROVE  TypeOK'
  <2>1. dirs[d].entries \cup {name} \in SUBSET Names /\ dirs[d].entries \ {name} \in SUBSET Names
    BY DEF TypeOK
  <2>2. CASE Chmod(d, name)
    <3>1. SymDiff(dirs[d].executable, {name}) \in SUBSET Names
      BY DEF TypeOK, SymDiff
    <3> QED
      BY <2>2, <3>1 DEF Chmod, TypeOK
  <2> QED
    BY <1>1, <1>2, <2>1, <2>2 DEF CreateFile, RemoveFile
<1>3. CASE Tick
  <2>1. clock' \in 0..MaxClock /\ 0..clock \subseteq 0..clock' /\ -1..clock \subseteq -1..clock'
    BY <1>3, PathType DEF Tick, TypeOK
  <2> QED
    BY <1>3, <2>1 DEF Tick, TypeOK
<1>4. ASSUME NEW name \in Names, Begin(name)
      PROVE  TypeOK'
  <2>1. 1 \in 0..Len(Path) /\ 0 \in 0..clock /\ done + 1 \in 0..MaxLookups
    BY <1>4, PathType DEF Begin, TypeOK
  <2>2. lookup' = [at |-> "stat", answer |-> FALSE, name |-> name, k |-> 1, modified |-> 0,
                   entries |-> {}]
    BY <1>4 DEF Begin, Idle
  <2>3. steady' \subseteq Dirs /\ UNCHANGED <<dirs, clock, cache>> /\ done' \in 0..MaxLookups
    BY <1>4, <2>1 DEF Begin
  <2>4. lookup' \in Lookups /\ lookup'.k # 0
    BY <2>1, <2>2 DEF Lookups
  <2> QED
    BY <2>3, <2>4 DEF TypeOK, Lookups
<1>5. ASSUME lookup.at # "idle", lookup' \in Lookups, lookup'.at # "idle" => lookup'.k # 0,
             UNCHANGED <<dirs, clock, done>>, steady' \subseteq Dirs,
             cache' \in [Dirs -> [modified : -1..clock, entries : SUBSET Names, read : -1..clock]]
      PROVE  TypeOK'
  BY <1>5 DEF TypeOK, Lookups
<1>6. CASE Stat
  <2>1. lookup.at # "idle" /\ Directory \in Dirs /\ lookup \in Lookups /\ lookup.k # 0
    BY <1>6, DirectoryType DEF Stat, TypeOK, Lookups
  <2>2. cache[Directory].entries \in SUBSET Names /\ dirs[Directory].modified \in 0..clock
    BY <2>1 DEF TypeOK
  <2>3. lookup' \in Lookups /\ lookup'.k # 0
    BY <1>6, <2>1, <2>2, GoOnType, SearchType DEF Stat, Lookups
  <2> QED
    BY <1>5, <1>6, <2>1, <2>3 DEF Stat, TypeOK
<1>7. CASE Read
  <2>1. lookup.at # "idle" /\ Directory \in Dirs
    BY <1>7, DirectoryType DEF Read
  <2>2. dirs[Directory].entries \in SUBSET Names /\ lookup.modified \in 0..clock
    BY <2>1 DEF TypeOK
  <2>3. lookup' \in Lookups /\ lookup'.k # 0
    BY <1>7, <2>1, <2>2, GoOnType, SearchType DEF Read
  <2>4. Cached(lookup.modified) \in [modified : -1..clock, entries : SUBSET Names, read : -1..clock]
    BY <2>2 DEF Cached, TypeOK
  <2> QED
    BY <1>5, <1>7, <2>1, <2>3, <2>4 DEF Read, TypeOK
<1>11. CASE ReadFails
  <2>1. lookup.at # "idle"
    BY <1>11 DEF ReadFails
  <2>2. lookup' \in Lookups /\ lookup'.k # 0
    BY <1>11, <2>1, GoOnType DEF ReadFails
  <2> QED
    BY <1>5, <1>11, <2>1, <2>2 DEF ReadFails, TypeOK
<1>8. CASE Check
  <2>1. lookup.at # "idle" /\ lookup \in Lookups /\ lookup.k # 0
    BY <1>8 DEF Check, TypeOK, Lookups
  <2>2. lookup' \in Lookups /\ lookup'.k # 0
    BY <1>8, <2>1, GoOnType DEF Check, Answer, Lookups
  <2> QED
    BY <1>5, <1>8, <2>1, <2>2 DEF Check, TypeOK
<1>9. CASE Return
  BY <1>9 DEF Return, TypeOK, Idle
<1>10. CASE UNCHANGED vars
  BY <1>10 DEF vars, TypeOK
<1> QED
  BY <1>2, <1>3, <1>4, <1>6, <1>7, <1>8, <1>9, <1>10, <1>11 DEF Next

\* Initially nothing is cached and nothing looked up.
LEMMA TypeInit == Init => TypeOK
<1> SUFFICES ASSUME Init PROVE TypeOK
  OBVIOUS
<1>1. dirs \in [Dirs -> [exists : BOOLEAN, entries : SUBSET Names, executable : SUBSET Names,
                         modified : 0..clock]]
  <2>1. [exists : BOOLEAN, entries : {{}}, executable : {{}}, modified : {0}]
          \subseteq [exists : BOOLEAN, entries : SUBSET Names, executable : SUBSET Names,
                     modified : 0..clock]
    BY DEF Init
  <2> QED
    BY <2>1 DEF Init
<1>2. cache \in [Dirs -> [modified : -1..clock, entries : SUBSET Names, read : -1..clock]]
  BY DEF Init, NotCached
<1>3. lookup \in Lookups
  BY PathType DEF Init, Idle, Lookups
<1> QED
  BY <1>1, <1>2, <1>3, PathType DEF Init, TypeOK, Lookups, Idle

\* No directory, no cached entry and no lookup bears a time that has not come.
THEOREM TypeCorrect == Spec => []TypeOK
<1>1. TypeOK /\ [Next]_vars => TypeOK'
  BY TypeStep
<1> QED
  BY <1>1, TypeInit, PTL DEF Spec

(***************************************************************************)
(* The cache.                                                              *)
(***************************************************************************)
\* A change stamps the directory no earlier than its entries were read.
LEMMA CacheStep ==
  ASSUME TypeOK, CacheInv, [Next]_vars
  PROVE  CacheInv'
<1>1. /\ \A d \in Dirs : cache[d].modified \in Int /\ cache[d].read \in Int /\ cache[d].read <= clock
      /\ \A d \in Dirs : cache[d].modified <= cache[d].read
      /\ clock \in Nat /\ lookup.modified \in Int /\ lookup.modified <= clock
  BY PathType DEF TypeOK, CacheInv
<1>2. CASE UNCHANGED <<dirs, cache>>
  BY <1>2 DEF CacheInv, StaleWithinATick
<1>3. ASSUME NEW e \in Dirs, NEW entries \in SUBSET Names, Changed(e, entries)
      PROVE  CacheInv'
  <2> SUFFICES ASSUME NEW d \in Dirs
               PROVE  (cache[d].modified <= cache[d].read /\ StaleWithinATick(d))'
    BY DEF CacheInv
  <2>1. UNCHANGED cache
    BY <1>3 DEF Changed
  <2>2. CASE d = e
    <3>1. dirs'[d].modified = clock
      BY <1>3, <2>2 DEF Changed, TypeOK
    <3> QED
      BY <1>1, <2>1, <3>1 DEF StaleWithinATick
  <2>3. CASE d # e
    <3>1. dirs'[d] = dirs[d]
      BY <1>3, <2>3 DEF Changed, TypeOK
    <3> QED
      BY <2>1, <3>1 DEF CacheInv, StaleWithinATick
  <2> QED
    BY <2>2, <2>3
<1>4. ASSUME NEW e \in Dirs, NEW name \in Names, Chmod(e, name)
      PROVE  CacheInv'
  <2>1. UNCHANGED cache /\ \A d \in Dirs : /\ dirs'[d].modified = dirs[d].modified
                                           /\ dirs'[d].entries = dirs[d].entries
    BY <1>4 DEF Chmod, TypeOK
  <2> QED
    BY <2>1 DEF CacheInv, StaleWithinATick
<1>5. CASE Read
  <2> SUFFICES ASSUME NEW d \in Dirs
               PROVE  (cache[d].modified <= cache[d].read /\ StaleWithinATick(d))'
    BY DEF CacheInv
  <2>1. UNCHANGED dirs /\ Directory \in Dirs
    BY <1>5, DirectoryType DEF Read
  <2>2. CASE d = Directory
    <3>1. cache'[d] = [modified |-> lookup.modified, entries |-> dirs[d].entries, read |-> clock]
      BY <1>5, <2>1, <2>2 DEF Read, Cached, TypeOK
    <3> QED
      BY <1>1, <2>1, <3>1 DEF StaleWithinATick
  <2>3. CASE d # Directory
    <3>1. cache'[d] = cache[d]
      BY <1>5, <2>1, <2>3 DEF Read, TypeOK
    <3> QED
      BY <2>1, <3>1 DEF CacheInv, StaleWithinATick
  <2> QED
    BY <2>2, <2>3
<1>6. ASSUME NEW d \in Dirs, NEW name \in Names, CreateFile(d, name) \/ RemoveFile(d, name)
      PROVE  CacheInv'
  <2>1. dirs[d].entries \cup {name} \in SUBSET Names /\ dirs[d].entries \ {name} \in SUBSET Names
    BY DEF TypeOK
  <2> QED
    BY <1>3, <1>6, <2>1 DEF CreateFile, RemoveFile
<1>7. CASE Tick \/ (\E name \in Names : Begin(name)) \/ Stat \/ ReadFails \/ Check \/ Return
           \/ UNCHANGED vars
  BY <1>2, <1>7 DEF Tick, Begin, Stat, ReadFails, Check, Return, vars
<1> QED
  BY <1>4, <1>5, <1>6, <1>7 DEF Next

(***************************************************************************)
(* The directories that hold the command all along.                        *)
(***************************************************************************)
\* A directory leaves them with the file, or with its mode.
LEMMA SteadyStep ==
  ASSUME TypeOK, SteadyInv, [Next]_vars
  PROVE  SteadyInv'
<1>1. ASSUME NEW e \in Dirs, NEW entries \in SUBSET Names, Changed(e, entries)
      PROVE  SteadyInv'
  <2>1. ASSUME NEW d \in steady'
        PROVE  Runnable(d, lookup.name)'
    <3>1. d \in Dirs /\ Runnable(d, lookup.name) /\ UNCHANGED lookup
      BY <1>1, <2>1 DEF Changed, SteadyInv, TypeOK
    <3>2. CASE d # e
      BY <1>1, <3>1, <3>2 DEF Changed, Runnable, TypeOK
    <3>3. CASE d = e
      <4>1. lookup.name \in entries \cap dirs[d].executable
        BY <1>1, <2>1, <3>3 DEF Changed
      <4>2. /\ dirs'[d].exists /\ dirs'[d].entries = entries
            /\ dirs'[d].executable = dirs[d].executable \cap entries
        BY <1>1, <3>3 DEF Changed, TypeOK
      <4> QED
        BY <3>1, <4>1, <4>2 DEF Runnable
    <3> QED
      BY <3>2, <3>3
  <2> QED
    BY <1>1, <2>1 DEF SteadyInv, Changed
<1>2. ASSUME NEW e \in Dirs, NEW name \in Names, Chmod(e, name)
      PROVE  SteadyInv'
  <2>1. ASSUME NEW d \in steady'
        PROVE  Runnable(d, lookup.name)'
    <3>1. d \in Dirs /\ Runnable(d, lookup.name) /\ UNCHANGED lookup
      BY <1>2, <2>1 DEF Chmod, SteadyInv, TypeOK
    <3>2. CASE d # e
      BY <1>2, <3>1, <3>2 DEF Chmod, Runnable, TypeOK
    <3>3. CASE d = e
      <4>1. name # lookup.name
        BY <1>2, <2>1, <3>3 DEF Chmod
      <4>2. /\ dirs'[d].exists = dirs[d].exists /\ dirs'[d].entries = dirs[d].entries
            /\ dirs'[d].executable = SymDiff(dirs[d].executable, {name})
        BY <1>2, <3>3 DEF Chmod, TypeOK
      <4> QED
        BY <3>1, <4>1, <4>2 DEF Runnable, SymDiff
    <3> QED
      BY <3>2, <3>3
  <2> QED
    BY <1>2, <2>1 DEF SteadyInv, Chmod
<1>3. ASSUME NEW d \in Dirs, NEW name \in Names, CreateFile(d, name) \/ RemoveFile(d, name)
      PROVE  SteadyInv'
  <2>1. dirs[d].entries \cup {name} \in SUBSET Names /\ dirs[d].entries \ {name} \in SUBSET Names
    BY DEF TypeOK
  <2> QED
    BY <1>1, <1>3, <2>1 DEF CreateFile, RemoveFile
<1>4. CASE UNCHANGED <<dirs, lookup, steady>>
  BY <1>4 DEF SteadyInv, Runnable
<1>5. ASSUME NEW name \in Names, Begin(name)
      PROVE  SteadyInv'
  <2>1. lookup'.name = name /\ lookup'.at = "stat" /\ UNCHANGED dirs
    BY <1>5 DEF Begin, Idle
  <2> QED
    BY <1>5, <2>1 DEF Begin, SteadyInv, Runnable
<1>6. ASSUME UNCHANGED dirs, steady' \subseteq steady, lookup'.name = lookup.name,
             lookup'.at # "idle"
      PROVE  SteadyInv'
  BY <1>6 DEF SteadyInv, Runnable
<1>7. CASE Stat
  <2>1. lookup.at # "idle" /\ Directory \in Dirs /\ lookup \in Lookups
    BY <1>7, DirectoryType DEF Stat, TypeOK, Lookups
  <2>2. cache[Directory].entries \in SUBSET Names
    BY <2>1 DEF TypeOK
  <2>3. lookup'.name = lookup.name /\ lookup'.at # "idle"
    BY <1>7, <2>1, <2>2, GoOnType, SearchType DEF Stat, Lookups
  <2> QED
    BY <1>6, <1>7, <2>3 DEF Stat
<1>8. CASE Read
  <2>1. lookup.at # "idle" /\ Directory \in Dirs
    BY <1>8, DirectoryType DEF Read
  <2>2. dirs[Directory].entries \in SUBSET Names
    BY <2>1 DEF TypeOK
  <2>3. lookup'.name = lookup.name /\ lookup'.at # "idle"
    BY <1>8, <2>1, <2>2, GoOnType, SearchType DEF Read
  <2> QED
    BY <1>6, <1>8, <2>3 DEF Read
<1>11. CASE ReadFails
  <2>1. lookup.at # "idle"
    BY <1>11 DEF ReadFails
  <2>2. lookup'.name = lookup.name /\ lookup'.at # "idle"
    BY <1>11, <2>1, GoOnType DEF ReadFails
  <2> QED
    BY <1>6, <1>11, <2>2 DEF ReadFails
<1>9. CASE Check
  <2>1. lookup.at # "idle" /\ lookup \in Lookups
    BY <1>9 DEF Check, TypeOK, Lookups
  <2>2. lookup'.name = lookup.name /\ lookup'.at # "idle"
    BY <1>9, <2>1, GoOnType DEF Check, Answer, Lookups
  <2> QED
    BY <1>6, <1>9, <2>2 DEF Check
<1>10. CASE Return
  BY <1>10 DEF Return, SteadyInv, Idle
<1> QED
  BY <1>2, <1>3, <1>4, <1>5, <1>7, <1>8, <1>9, <1>10, <1>11
     DEF Next, Tick, vars

(***************************************************************************)
(* The lookup.                                                             *)
(***************************************************************************)
\* Going on adds the directory that was searched.
LEMMA GoOnSearched ==
  ASSUME TypeOK, lookup.at # "idle", GoOn,
         \A j \in 1..lookup.k : Path[j] \in steady' => Missed(Path[j])'
  PROVE  LookupInv'
<1>1. lookup.k \in 1..Len(Path) /\ Len(Path) \in Nat
  BY DirectoryType, PathType
<1>2. \/ lookup'.at = "stat" /\ lookup'.k = lookup.k + 1
      \/ lookup'.at = "answered" /\ ~lookup'.answer /\ lookup.k = Len(Path)
  BY GoOnType
<1>3. Searched' = 1..lookup.k
  BY <1>1, <1>2 DEF Searched
<1> QED
  BY <1>3 DEF LookupInv

\* A directory that still held the command and was passed over had entries
\* without it in the cache.
LEMMA StatStep ==
  ASSUME IInv, Stat
  PROVE  LookupInv'
<1> USE DEF IInv
<1>1. /\ lookup.at = "stat" /\ lookup \in Lookups /\ UNCHANGED <<dirs, cache, steady>>
      /\ lookup.k \in 1..Len(Path) /\ Directory \in Dirs
  BY DirectoryType DEF Stat, TypeOK, Lookups
<1>2. \A j \in 1..(lookup.k - 1) : Path[j] \in steady => Missed(Path[j])
  BY <1>1 DEF LookupInv, Searched
<1>3. ASSUME GoOn, Directory \in steady => Missed(Directory)
      PROVE  LookupInv'
  <2>1. lookup'.name = lookup.name
    BY <1>1, <1>3, GoOnType
  <2>2. \A j \in 1..lookup.k : j \in 1..(lookup.k - 1) \/ j = lookup.k
    BY <1>1
  <2> QED
    BY <1>1, <1>2, <1>3, <2>1, <2>2, GoOnSearched DEF Missed, Directory
<1>4. CASE ~dirs[Directory].exists
  BY <1>1, <1>3, <1>4 DEF Stat, SteadyInv, Runnable
<1>5. CASE dirs[Directory].exists /\ Fresh(Directory)
  <2>1. Search(cache[Directory].entries) /\ cache[Directory].entries \in SUBSET Names
    BY <1>1, <1>5 DEF Stat, TypeOK
  <2>2. CASE lookup.name \in cache[Directory].entries
    <3>1. lookup'.at = "check" /\ lookup'.k = lookup.k /\ lookup'.name = lookup.name
      BY <1>1, <2>1, <2>2, SearchType DEF Search, Lookups
    <3>2. \A j \in Searched' : j \in 1..(lookup.k - 1)
      BY <3>1 DEF Searched
    <3> QED
      BY <1>1, <1>2, <3>1, <3>2 DEF LookupInv, Missed
  <2>3. CASE lookup.name \notin cache[Directory].entries
    <3>1. GoOn
      BY <2>1, <2>3 DEF Search
    <3>2. ASSUME Directory \in steady
          PROVE  Missed(Directory)
      <4>1. lookup.name \in dirs[Directory].entries
        BY <3>2 DEF SteadyInv, Runnable
      <4>2. StaleWithinATick(Directory)
        BY <1>1 DEF CacheInv
      <4> QED
        BY <1>5, <2>3, <4>1, <4>2 DEF StaleWithinATick, Fresh, Missed
    <3> QED
      BY <1>3, <3>1, <3>2
  <2> QED
    BY <2>2, <2>3
<1>6. CASE dirs[Directory].exists /\ ~Fresh(Directory)
  <2>1. lookup' = [lookup EXCEPT !.at = "read", !.modified = dirs[Directory].modified]
    BY <1>1, <1>6 DEF Stat
  <2>2. lookup'.at = "read" /\ lookup'.k = lookup.k /\ lookup'.name = lookup.name
    BY <1>1, <2>1 DEF Lookups
  <2>3. Searched' = 1..(lookup.k - 1)
    BY <2>2 DEF Searched
  <2> QED
    BY <1>1, <1>2, <2>2, <2>3 DEF LookupInv, Missed
<1> QED
  BY <1>4, <1>5, <1>6

\* Entries just read show a command that is there.
LEMMA ReadStep ==
  ASSUME IInv, Read
  PROVE  LookupInv'
<1> USE DEF IInv
<1>1. /\ lookup.at = "read" /\ lookup \in Lookups /\ UNCHANGED <<dirs, steady>>
      /\ lookup.k \in 1..Len(Path) /\ Directory \in Dirs
      /\ dirs[Directory].entries \in SUBSET Names
  BY DirectoryType DEF Read, TypeOK, Lookups
<1>2. \A j \in 1..(lookup.k - 1) : Path[j] \in steady => Missed(Path[j])
  BY <1>1 DEF LookupInv, Searched
<1>3. \A d \in Dirs : d # Directory => cache'[d] = cache[d]
  BY DEF Read, TypeOK
<1>4. Search(dirs[Directory].entries)
  BY DEF Read
<1>5. CASE lookup.name \in dirs[Directory].entries
  <2>1. lookup'.at = "check" /\ lookup'.k = lookup.k /\ lookup'.name = lookup.name
    BY <1>1, <1>4, <1>5, SearchType DEF Search, Lookups
  <2>2. \A j \in Searched' : j \in 1..(lookup.k - 1) /\ Path[j] # Directory /\ Path[j] \in Dirs
    BY <1>1, <2>1, PathType DEF Searched, Directory
  <2> QED
    BY <1>1, <1>2, <1>3, <2>1, <2>2 DEF LookupInv, Missed
<1>6. CASE lookup.name \notin dirs[Directory].entries
  <2>1. GoOn /\ Directory \notin steady
    BY <1>4, <1>6 DEF Search, SteadyInv, Runnable
  <2>2. lookup'.name = lookup.name
    BY <1>1, <2>1, GoOnType
  <2>3. ASSUME NEW j \in 1..lookup.k, Path[j] \in steady'
        PROVE  Missed(Path[j])'
    <3>1. Path[j] # Directory /\ Path[j] \in Dirs /\ j \in 1..(lookup.k - 1)
      BY <1>1, <2>1, <2>3, PathType DEF Directory
    <3> QED
      BY <1>1, <1>2, <1>3, <2>2, <2>3, <3>1 DEF Missed
  <2> QED
    BY <1>1, <2>1, <2>3, GoOnSearched
<1> QED
  BY <1>5, <1>6

\* A directory that cannot be read counts no longer.
LEMMA ReadFailsStep ==
  ASSUME IInv, ReadFails
  PROVE  LookupInv'
<1> USE DEF IInv
<1>1. /\ lookup.at = "read" /\ GoOn /\ UNCHANGED cache /\ steady' = steady \ {Directory}
      /\ lookup.k \in 1..Len(Path)
  BY DirectoryType DEF ReadFails
<1>2. \A j \in 1..(lookup.k - 1) : Path[j] \in steady => Missed(Path[j])
  BY <1>1 DEF LookupInv, Searched
<1>3. lookup'.name = lookup.name
  BY <1>1, GoOnType
<1>4. ASSUME NEW j \in 1..lookup.k, Path[j] \in steady'
      PROVE  Missed(Path[j])'
  <2>1. Path[j] \in steady /\ j \in 1..(lookup.k - 1)
    BY <1>1, <1>4 DEF Directory
  <2> QED
    BY <1>1, <1>2, <1>3, <2>1 DEF Missed
<1> QED
  BY <1>1, <1>4, GoOnSearched

\* A file that is there and executable is found.
LEMMA CheckStep ==
  ASSUME IInv, Check
  PROVE  LookupInv'
<1> USE DEF IInv
<1>1. /\ lookup.at = "check" /\ lookup \in Lookups /\ UNCHANGED <<cache, steady>>
      /\ lookup.k \in 1..Len(Path) /\ Directory \in Dirs
  BY DirectoryType DEF Check, TypeOK, Lookups
<1>2. CASE Runnable(Directory, lookup.name)
  <2>1. lookup' = [lookup EXCEPT !.at = "answered", !.answer = TRUE]
    BY <1>2 DEF Check, IsExecutable, Answer
  <2>2. lookup'.at = "answered" /\ lookup'.answer
    BY <1>1, <2>1 DEF Lookups
  <2> QED
    BY <2>2 DEF LookupInv, Searched
<1>3. CASE ~Runnable(Directory, lookup.name)
  <2>1. GoOn /\ Directory \notin steady
    BY <1>3 DEF Check, IsExecutable, SteadyInv
  <2>2. lookup'.name = lookup.name
    BY <1>1, <2>1, GoOnType
  <2>3. ASSUME NEW j \in 1..lookup.k, Path[j] \in steady'
        PROVE  Missed(Path[j])'
    <3>1. j \in Searched
      BY <1>1, <2>1, <2>3 DEF Searched, Directory
    <3> QED
      BY <1>1, <2>2, <2>3, <3>1 DEF LookupInv, Missed
  <2> QED
    BY <1>1, <2>1, <2>3, GoOnSearched
<1> QED
  BY <1>2, <1>3

\* Every step keeps what has been searched in vain.
LEMMA LookupStep ==
  ASSUME IInv, [Next]_vars
  PROVE  LookupInv'
<1>1. CASE UNCHANGED <<cache, lookup>> /\ steady' \subseteq steady
  BY <1>1 DEF IInv, LookupInv, Searched, Missed
<1>2. ASSUME NEW d \in Dirs, NEW name \in Names,
             CreateFile(d, name) \/ RemoveFile(d, name) \/ Chmod(d, name)
      PROVE  LookupInv'
  BY <1>1, <1>2 DEF CreateFile, RemoveFile, Chmod, Changed
<1>3. CASE Tick \/ UNCHANGED vars
  BY <1>1, <1>3 DEF Tick, vars
<1>4. ASSUME NEW name \in Names, Begin(name)
      PROVE  LookupInv'
  <2>1. lookup'.at = "stat" /\ lookup'.k = 1
    BY <1>4 DEF Begin, Idle
  <2> QED
    BY <2>1 DEF LookupInv, Searched
<1>5. CASE Return
  BY <1>5 DEF Return, Idle, LookupInv, Searched
<1> QED
  BY <1>2, <1>3, <1>4, <1>5, StatStep, ReadStep, ReadFailsStep, CheckStep DEF Next

\* The strengthened invariant holds and is kept.
LEMMA InvAlways == Spec => []IInv
<1>1. Init => IInv
  <2>1. Init => CacheInv
    BY DEF Init, CacheInv, StaleWithinATick, NotCached
  <2>2. Init => SteadyInv /\ LookupInv
    BY DEF Init, SteadyInv, LookupInv, Searched, Idle
  <2> QED
    BY <2>1, <2>2, TypeInit DEF IInv
<1>2. IInv /\ [Next]_vars => IInv'
  BY TypeStep, CacheStep, SteadyStep, LookupStep DEF IInv
<1> QED
  BY <1>1, <1>2, PTL DEF Spec

\* A command is missed, though a directory of PATH that can be read holds it
\* during a whole lookup, only on cached entries that lack it and were read
\* within the tick of the modification time they are kept under.
THEOREM MissedOnlyWithinATick == Spec => []MissesOnlyWithinATick
<1>1. IInv => MissesOnlyWithinATick
  <2> SUFFICES ASSUME IInv, lookup.at = "answered", ~lookup.answer, NEW d \in steady
               PROVE  Missed(d)
    BY DEF IInv, MissesOnlyWithinATick
  <2>1. PICK k \in 1..Len(Path) : Path[k] = d
    BY PathType DEF IInv, TypeOK
  <2>2. Searched = 1..Len(Path)
    BY DEF Searched
  <2> QED
    BY <2>1, <2>2 DEF IInv, LookupInv
<1> QED
  BY <1>1, InvAlways, PTL
=============================================================================
