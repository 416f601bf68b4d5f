------------------------------ MODULE PathCache ------------------------------
(***************************************************************************)
(* How the worker finds out whether a command exists (syntax.rs,           *)
(* PathResolver): it keeps the entries of each directory of PATH under the *)
(* modification time it read before them, while other processes go on      *)
(* changing the directories.  The clock of the file system ticks slower    *)
(* than directories can change.                                            *)
(***************************************************************************)
EXTENDS Integers, Sequences, SequencesExt, FiniteSetsExt

CONSTANTS Names,     \* file names
          Path,      \* the directories of PATH, in order
          MaxClock,  \* ticks
          MaxLookups

\* Splitting the value of PATH yields one element at least.
ASSUME PathAssumption ==
  Path \in Seq(STRING) /\ Path # <<>> /\ MaxClock \in Nat /\ MaxLookups \in Nat

Dirs == ToSet(Path)

VARIABLES dirs,    \* dirs[d]: exists, entries, executable ones, time of the last change
          clock,
          cache,   \* cache[d]: the entries read, under a modification time
          lookup,  \* the lookup in progress
          steady,  \* directories that held the wanted command since it began,
                   \* and could be read
          done     \* lookups begun

vars == <<dirs, clock, cache, lookup, steady, done>>

Idle == [at |-> "idle", answer |-> FALSE, name |-> "none", k |-> 0, modified |-> 0,
         entries |-> {}]
NotCached == [modified |-> -1, entries |-> {}, read |-> -1]

Runnable(d, name) == dirs[d].exists /\ name \in dirs[d].entries \cap dirs[d].executable

Init ==
  /\ dirs \in [Dirs -> [exists : BOOLEAN, entries : {{}}, executable : {{}}, modified : {0}]]
  /\ clock = 0
  /\ cache = [d \in Dirs |-> NotCached]
  /\ lookup = Idle
  /\ steady = {}
  /\ done = 0

-----------------------------------------------------------------------------
(***************************************************************************)
(* The rest of the system.  Changing the entries of a directory stamps it; *)
(* changing a mode does not.                                               *)
(***************************************************************************)
Changed(d, entries) ==
  /\ dirs' = [dirs EXCEPT ![d] = [exists |-> TRUE, entries |-> entries, modified |-> clock,
                                  executable |-> @.executable \cap entries]]
  /\ steady' = steady \ (IF lookup.name \in entries \cap dirs[d].executable THEN {} ELSE {d})
  /\ UNCHANGED <<clock, cache, lookup, done>>

CreateFile(d, name) == dirs[d].exists /\ name \notin dirs[d].entries /\ Changed(d, dirs[d].entries \cup {name})
RemoveFile(d, name) == dirs[d].exists /\ name \in dirs[d].entries /\ Changed(d, dirs[d].entries \ {name})

Chmod(d, name) ==
  /\ name \in dirs[d].entries
  /\ dirs' = [dirs EXCEPT ![d].executable = SymDiff(@, {name})]
  /\ steady' = steady \ (IF name = lookup.name THEN {d} ELSE {})
  /\ UNCHANGED <<clock, cache, lookup, done>>

Tick == clock < MaxClock /\ clock' = clock + 1 /\ UNCHANGED <<dirs, cache, lookup, steady, done>>

-----------------------------------------------------------------------------
(***************************************************************************)
(* A lookup, one system call at a time.                                    *)
(***************************************************************************)
Begin(name) ==
  /\ lookup.at = "idle" /\ done < MaxLookups
  /\ lookup' = [Idle EXCEPT !.at = "stat", !.name = name, !.k = 1]
  /\ steady' = {d \in Dirs : Runnable(d, name)}
  /\ done' = done + 1
  /\ UNCHANGED <<dirs, clock, cache>>

Directory == Path[lookup.k]

Answer(found) == lookup' = [lookup EXCEPT !.at = "answered", !.answer = found]

\* The next directory, or the answer that there is no such command.
GoOn ==
  IF lookup.k = Len(Path) THEN Answer(FALSE) ELSE lookup' = [lookup EXCEPT !.at = "stat", !.k = @ + 1]

\* With the entries at hand, the command is looked for among them.
Search(entries) ==
  IF lookup.name \in entries THEN lookup' = [lookup EXCEPT !.at = "check", !.entries = entries] ELSE GoOn

\* With a fault, for checking the properties: entries once read are good for
\* ever.
FreshFault(d) == cache[d].modified >= 0

Fresh(d) == cache[d].modified = dirs[d].modified

\* The directory's modification time: its cached entries may still do.
Stat ==
  /\ lookup.at = "stat"
  /\ CASE ~dirs[Directory].exists -> GoOn
       [] dirs[Directory].exists /\ Fresh(Directory) ->
            Search(cache[Directory].entries)
       [] OTHER -> lookup' = [lookup EXCEPT !.at = "read", !.modified = dirs[Directory].modified]
  /\ UNCHANGED <<dirs, clock, cache, steady, done>>

Cached(modified) ==
  [modified |-> modified, entries |-> dirs[Directory].entries, read |-> clock]

\* The entries are read, and kept under the time read before them.
Read ==
  /\ lookup.at = "read"
  /\ cache' = [cache EXCEPT ![Directory] = Cached(lookup.modified)]
  /\ Search(dirs[Directory].entries)
  /\ UNCHANGED <<dirs, clock, steady, done>>

\* The directory cannot be read: it is passed over, its cached entries stay.
\* It counts as one that does not hold the command.
ReadFails ==
  /\ lookup.at = "read" /\ GoOn
  /\ steady' = steady \ {Directory}
  /\ UNCHANGED <<dirs, clock, cache, done>>

IsExecutable(d, name) == Runnable(d, name)

\* The file itself: it may have gone, or lost its mode, since.
Check ==
  /\ lookup.at = "check"
  /\ IF IsExecutable(Directory, lookup.name) THEN Answer(TRUE) ELSE GoOn
  /\ UNCHANGED <<dirs, clock, cache, steady, done>>

Return == lookup.at = "answered" /\ lookup' = Idle /\ steady' = {}
          /\ UNCHANGED <<dirs, clock, cache, done>>

Next ==
  \/ \E d \in Dirs, name \in Names : CreateFile(d, name) \/ RemoveFile(d, name) \/ Chmod(d, name)
  \/ Tick
  \/ \E name \in Names : Begin(name)
  \/ Stat \/ Read \/ ReadFails \/ Check \/ Return

Spec == Init /\ [][Next]_vars

-----------------------------------------------------------------------------
\* The directories and their cached entries, no time of them after the clock.
TypeOK ==
  /\ clock \in 0..MaxClock
  /\ dirs \in [Dirs -> [exists : BOOLEAN, entries : SUBSET Names, executable : SUBSET Names,
                        modified : 0..clock]]
  /\ cache \in [Dirs -> [modified : -1..clock, entries : SUBSET Names, read : -1..clock]]
  /\ lookup \in [at : {"idle", "stat", "read", "check", "answered"}, answer : BOOLEAN,
                 name : Names \cup {"none"}, k : 0..Len(Path), modified : 0..clock,
                 entries : SUBSET Names]
  /\ lookup.at # "idle" => lookup.k # 0
  /\ steady \subseteq Dirs
  /\ done \in 0..MaxLookups

(***************************************************************************)
(* A command is missed, although a directory of PATH that could be read    *)
(* held it during the whole lookup, only when the entries in the cache     *)
(* were read in the very tick of the clock they are kept under: otherwise  *)
(* the modification time tells that they are old (entries_for).            *)
(***************************************************************************)
Missed(d) == lookup.name \notin cache[d].entries /\ cache[d].read = cache[d].modified

MissesOnlyWithinATick ==
  /\ TypeOK
  /\ (lookup.at = "answered" /\ ~lookup.answer) => \A d \in steady : Missed(d)
=============================================================================
