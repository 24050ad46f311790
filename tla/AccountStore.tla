---------------------------- MODULE AccountStore -----------------------------
(***************************************************************************)
(* account_store.rs: FileAccountStore::save, run by several threads of     *)
(* several processes that share the file.  Each save writes a temp file of *)
(* its own, flushes it and renames it over the store.                      *)
(*                                                                         *)
(* The file system is external: a call may fail, a process may be killed   *)
(* between any two calls, and a power failure may lose what was not        *)
(* flushed: the contents of a file, or the last rename.                    *)
(***************************************************************************)
EXTENDS Naturals

CONSTANTS Threads,     \* threads that call save
          Processes,
          ProcessOf,   \* ProcessOf[t]: the process a thread belongs to
          Pids,        \* process ids
          MaxSaves,    \* bound on the saves of a process between restarts
          MaxCrashes,  \* bound on kills and power failures
          Nothing      \* no file

ASSUME ProcessOfAssumption == ProcessOf \in [Threads -> Processes]
ASSUME BoundsAssumption == MaxSaves \in Nat /\ MaxCrashes \in Nat

VARIABLES
    pc,        \* pc[t]: where the save of t is
    tmp,       \* tmp[t]: the name of its temp file
    pid,       \* pid[p]: std::process::id() of p
    counter,   \* counter[p]: the COUNTER of unique_temp_path
    temps,     \* temps[name]: the temp file of that name, or Nothing
    store,     \* the file at `path`, or Nothing
    previous,  \* what a power failure may bring back instead of it
    crashes    \* number of kills and power failures

vars == <<pc, tmp, pid, counter, temps, store, previous, crashes>>

(* The thread whose credentials a file is for, whether all of them are in it,
   and whether it was flushed. *)
Files == [by : Threads, full : BOOLEAN, synced : BOOLEAN]
Names == Pids \X (0..MaxSaves)

ASSUME NothingAssumption == Nothing \notin Files /\ Nothing \notin Names

TypeOK ==
    /\ pc \in [Threads -> {"idle", "open", "write", "sync", "rename"}]
    /\ tmp \in [Threads -> Names \cup {Nothing}]
    /\ pid \in [Processes -> Pids]
    /\ counter \in [Processes -> 0..MaxSaves]
    /\ temps \in [Names -> Files \cup {Nothing}]
    /\ store \in Files \cup {Nothing}
    /\ previous \in Files \cup {Nothing}
    /\ crashes \in 0..MaxCrashes

(* The ids that p may get: one that no other process that runs has.  (All of
   them are in one PID namespace.) *)
FreePids(p, ids) == {i \in Pids : \A q \in Processes \ {p} : ids[q] # i}

Init ==
    /\ pc = [t \in Threads |-> "idle"]
    /\ pid \in {ids \in [Processes -> Pids] : \A p \in Processes : ids[p] \in FreePids(p, ids)}
    /\ tmp = [t \in Threads |-> Nothing]
    /\ counter = [p \in Processes |-> 0]
    /\ temps = [n \in Names |-> Nothing]
    /\ store = Nothing /\ previous = Nothing
    /\ crashes = 0

(* Mutant: the name is unique per process only. *)
PidTempPath(p) == <<pid[p], 0>>

(* Sibling path with the process id and the value of COUNTER. *)
UniqueTempPath(p) == <<pid[p], counter[p]>>

(* save is called: serialized, the parent directory is there, the temp name
   is taken.  An error before this point changes nothing. *)
Save(t) ==
    LET p == ProcessOf[t] IN
    /\ pc[t] = "idle"
    /\ counter[p] < MaxSaves
    /\ tmp' = [tmp EXCEPT ![t] = UniqueTempPath(p)]
    /\ counter' = [counter EXCEPT ![p] = @ + 1]
    /\ pc' = [pc EXCEPT ![t] = "open"]
    /\ UNCHANGED <<pid, temps, store, previous, crashes>>

(* save returns. *)
Done(t) ==
    /\ pc' = [pc EXCEPT ![t] = "idle"]
    /\ tmp' = [tmp EXCEPT ![t] = Nothing]

(* remove_file(&tmp), whose own error is ignored, and Err is returned. *)
RemoveAndFail(t) ==
    /\ temps' \in {temps, [temps EXCEPT ![tmp[t]] = Nothing]}
    /\ Done(t)
    /\ UNCHANGED <<pid, counter, store, previous, crashes>>

(* create_new: it fails if the name exists. *)
Open(t) ==
    /\ pc[t] = "open"
    /\ temps[tmp[t]] = Nothing
    /\ temps' = [temps EXCEPT ![tmp[t]] = [by |-> t, full |-> FALSE, synced |-> FALSE]]
    /\ pc' = [pc EXCEPT ![t] = "write"]
    /\ UNCHANGED <<tmp, pid, counter, store, previous, crashes>>

(* The file t has open, if its name was not removed meanwhile. *)
Mine(t) == temps[tmp[t]] # Nothing /\ temps[tmp[t]].by = t

(* write_all. *)
WriteAll(t) ==
    /\ pc[t] = "write"
    /\ temps' = IF Mine(t) THEN [temps EXCEPT ![tmp[t]].full = TRUE] ELSE temps
    /\ pc' = [pc EXCEPT ![t] = "sync"]
    /\ UNCHANGED <<tmp, pid, counter, store, previous, crashes>>

(* Mutant: the file is not flushed. *)
NoSync(t) ==
    /\ pc[t] = "sync"
    /\ pc' = [pc EXCEPT ![t] = "rename"]
    /\ UNCHANGED <<tmp, pid, counter, temps, store, previous, crashes>>

SyncAll(t) ==
    /\ pc[t] = "sync"
    /\ temps' = IF Mine(t) THEN [temps EXCEPT ![tmp[t]].synced = TRUE] ELSE temps
    /\ pc' = [pc EXCEPT ![t] = "rename"]
    /\ UNCHANGED <<tmp, pid, counter, store, previous, crashes>>

(* Opening, writing or flushing fails. *)
WriteFails(t) == pc[t] \in {"open", "write", "sync"} /\ RemoveAndFail(t)

(* The rename replaces the store in one step. *)
Rename(t) ==
    /\ pc[t] = "rename"
    /\ temps[tmp[t]] # Nothing
    /\ store' = temps[tmp[t]]
    /\ previous' \in {store, previous}
    /\ temps' = [temps EXCEPT ![tmp[t]] = Nothing]
    /\ Done(t)
    /\ UNCHANGED <<pid, counter, crashes>>

RenameFails(t) == pc[t] = "rename" /\ RemoveAndFail(t)

(* The directory reaches the disk. *)
DirectoryFlushed ==
    /\ previous # store
    /\ previous' = store
    /\ UNCHANGED <<pc, tmp, pid, counter, temps, store, crashes>>

(* Processes ps end; they start again with a COUNTER of 0, and may get the
   ids they had before. *)
Restart(ps) ==
    /\ crashes < MaxCrashes
    /\ crashes' = crashes + 1
    /\ pc' = [t \in Threads |-> IF ProcessOf[t] \in ps THEN "idle" ELSE pc[t]]
    /\ tmp' = [t \in Threads |-> IF ProcessOf[t] \in ps THEN Nothing ELSE tmp[t]]
    /\ counter' = [p \in Processes |-> IF p \in ps THEN 0 ELSE counter[p]]
    /\ pid' \in [Processes -> Pids]
    /\ \A p \in Processes : IF p \in ps THEN pid'[p] \in FreePids(p, pid') ELSE pid'[p] = pid[p]

Kill(p) == Restart({p}) /\ UNCHANGED <<temps, store, previous>>

(* What is found of file f after a power failure. *)
Survives(f) ==
    IF f = Nothing THEN {Nothing}
    ELSE IF f.synced THEN {f}
    ELSE {f, [f EXCEPT !.full = FALSE]}

(* The rename, or a temp file, may be lost; nobody reads the temp files that
   stay. *)
PowerFailure ==
    /\ Restart(Processes)
    /\ \E f \in {store, previous} : store' \in Survives(f)
    /\ previous' = store'
    /\ \E lost \in SUBSET {n \in Names : temps[n] # Nothing} :
          temps' = [n \in Names |-> IF n \in lost THEN Nothing ELSE temps[n]]

Next ==
    \/ \E t \in Threads :
          \/ Save(t) \/ Open(t) \/ WriteAll(t) \/ SyncAll(t) \/ WriteFails(t)
          \/ Rename(t) \/ RenameFails(t)
    \/ DirectoryFlushed
    \/ \E p \in Processes : Kill(p)
    \/ PowerFailure

Spec == Init /\ [][Next]_vars

-----------------------------------------------------------------------------

(* account_store.rs:69-70: "a crash mid-write doesn't leave us with a
   truncated, unreadable file": what load finds is complete. *)
NeverTruncated == store # Nothing => store.full

(* account_store.rs:101-102: "concurrent saves never share (or truncate) each
   other's temp file": between its creation and its rename, the temp file of a
   save is there, and no other save has the same name. *)
TempIsMine ==
    \A t \in Threads : pc[t] \in {"write", "sync", "rename"} =>
        /\ Mine(t)
        /\ \A u \in Threads \ {t} : pc[u] # "idle" => tmp[u] # tmp[t]
=============================================================================
