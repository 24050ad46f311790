------------------------ MODULE AccountRenewalProofs -------------------------
(***************************************************************************)
(* The two parts a caller relies on between issuances: the account file    *)
(* and the renewal gates.                                                  *)
(*                                                                         *)
(* AccountStore: no sequence of saves, failures, kills and power failures  *)
(* leaves a truncated account file behind, however many threads and        *)
(* processes save.  A temp name is a process id with a value of COUNTER    *)
(* below the one the process has by now, and no two running processes have *)
(* the same id.  So the names of the saves under way differ, the file      *)
(* under a name is that of the save that opened it, and what is renamed is *)
(* complete and flushed.                                                   *)
(*                                                                         *)
(* Renewal: for every threshold, lifetime, polling interval and number of  *)
(* failed issuances that RenewalAssumption allows.  NeverExpired is not    *)
(* inductive: it says nothing of the time that is left for the issuances   *)
(* that may still fail.  The invariant has it: after f failures the        *)
(* certificate has more left than MaxFailures + 1 - f rounds of a wait and *)
(* an issuance take.                                                       *)
(***************************************************************************)
EXTENDS AccountStore, Renewal, TLAPS

InFile == {"write", "sync", "rename"}

PidsDiffer == \A p \in Processes, q \in Processes : p # q => pid[p] # pid[q]

NameTaken ==
    \A t \in Threads : pc[t] # "idle" =>
        \E k \in 0..MaxSaves : k < counter[ProcessOf[t]] /\ tmp[t] = <<pid[ProcessOf[t]], k>>

NamesDiffer ==
    \A t \in Threads, u \in Threads :
        pc[t] # "idle" /\ pc[u] # "idle" /\ t # u => tmp[t] # tmp[u]

FileHeld ==
    \A t \in Threads :
        /\ pc[t] \in InFile => Mine(t)
        /\ pc[t] \in {"sync", "rename"} => temps[tmp[t]].full
        /\ pc[t] = "rename" => temps[tmp[t]].synced

Whole(f) == f # Nothing => f.full /\ f.synced

StoreInv ==
    /\ TypeOK /\ PidsDiffer /\ NameTaken /\ NamesDiffer /\ FileHeld
    /\ Whole(store) /\ Whole(previous)

-----------------------------------------------------------------------------

LEMMA InitStoreInv == Init => StoreInv
<1> SUFFICES ASSUME Init PROVE StoreInv
  BY Zenon
<1>1. TypeOK
  BY BoundsAssumption DEF Init, TypeOK
<1>2. PidsDiffer
  BY Zenon DEF Init, PidsDiffer, FreePids
<1>3. NameTaken /\ NamesDiffer /\ FileHeld
  BY Zenon DEF Init, NameTaken, NamesDiffer, FileHeld, InFile
<1>4. Whole(store) /\ Whole(previous)
  BY Zenon DEF Init, Whole
<1> QED
  BY <1>1, <1>2, <1>3, <1>4, Zenon DEF StoreInv

(* The name of a save under way is a name. *)
LEMMA TmpIsName == ASSUME StoreInv, NEW t \in Threads, pc[t] # "idle" PROVE tmp[t] \in Names
<1>1. PICK k \in 0..MaxSaves : k < counter[ProcessOf[t]] /\ tmp[t] = <<pid[ProcessOf[t]], k>>
  BY Zenon DEF StoreInv, NameTaken
<1>2. pid[ProcessOf[t]] \in Pids
  BY ProcessOfAssumption, Zenon DEF StoreInv, TypeOK
<1> QED
  BY <1>1, <1>2 DEF Names

(* A save takes a name that none of the others has. *)
LEMMA SaveKeeps == ASSUME StoreInv, NEW t \in Threads, Save(t) PROVE StoreInv'
<1> DEFINE p == ProcessOf[t]
<1>1. p \in Processes /\ counter[p] \in 0..MaxSaves /\ counter[p] < MaxSaves
  BY ProcessOfAssumption, ZenonT(30) DEF StoreInv, TypeOK, Save
<1>2. UniqueTempPath(p) \in Names
  BY <1>1, Zenon DEF StoreInv, TypeOK, UniqueTempPath, Names
<1>3. /\ pc' = [pc EXCEPT ![t] = "open"]
      /\ tmp' = [tmp EXCEPT ![t] = UniqueTempPath(p)]
      /\ counter' = [counter EXCEPT ![p] = counter[p] + 1]
      /\ UNCHANGED <<pid, temps, store, previous, crashes>>
      /\ pc[t] = "idle"
  BY Zenon DEF Save
<1>4. TypeOK'
  BY <1>1, <1>2, <1>3, BoundsAssumption DEF StoreInv, TypeOK
<1>5. PidsDiffer'
  BY <1>3, Zenon DEF StoreInv, PidsDiffer
<1>6. counter'[p] = counter[p] + 1 /\ \A q \in Processes : q # p => counter'[q] = counter[q]
  BY <1>1, <1>3, Zenon DEF StoreInv, TypeOK
<1>7. \A u \in Threads : u # t => pc'[u] = pc[u] /\ tmp'[u] = tmp[u]
  BY <1>3, Zenon DEF StoreInv, TypeOK
<1>8. pc'[t] = "open" /\ tmp'[t] = <<pid[p], counter[p]>>
  BY <1>3, Zenon DEF StoreInv, TypeOK, UniqueTempPath
<1>9. ASSUME NEW u \in Threads, u # t, pc[u] # "idle"
      PROVE  /\ tmp[u] # <<pid[p], counter[p]>>
             /\ \E k \in 0..MaxSaves : k < counter'[ProcessOf[u]] /\ tmp[u] = <<pid[ProcessOf[u]], k>>
  <2>1. PICK k \in 0..MaxSaves : k < counter[ProcessOf[u]] /\ tmp[u] = <<pid[ProcessOf[u]], k>>
    BY <1>9, Zenon DEF StoreInv, NameTaken
  <2>2. ProcessOf[u] \in Processes /\ counter[ProcessOf[u]] \in 0..MaxSaves
    BY ProcessOfAssumption, Zenon DEF StoreInv, TypeOK
  <2>3. k < counter'[ProcessOf[u]]
    BY <1>1, <1>6, <2>1, <2>2, BoundsAssumption
  <2>4. CASE ProcessOf[u] = p
    BY <1>1, <2>1, <2>3, <2>4, BoundsAssumption
  <2>5. CASE ProcessOf[u] # p
    <3>1. pid[ProcessOf[u]] # pid[p]
      BY <1>1, <2>2, <2>5, Zenon DEF StoreInv, PidsDiffer
    <3> QED
      BY <2>1, <2>3, <3>1
  <2> QED
    BY <2>4, <2>5, Zenon
<1>10. NameTaken'
  <2> SUFFICES ASSUME NEW u \in Threads, pc'[u] # "idle"
               PROVE  \E k \in 0..MaxSaves : k < counter'[ProcessOf[u]] /\ tmp'[u] = <<pid'[ProcessOf[u]], k>>
    BY Zenon DEF NameTaken
  <2>1. CASE u = t
    BY <1>1, <1>3, <1>6, <1>8, <2>1, BoundsAssumption
  <2>2. CASE u # t
    BY <1>3, <1>7, <1>9, <2>2, ZenonT(30)
  <2> QED
    BY <2>1, <2>2, Zenon
<1>11. NamesDiffer'
  BY <1>7, <1>8, <1>9 DEF StoreInv, NamesDiffer
<1>12. FileHeld'
  BY <1>3, <1>7, <1>8, ZenonT(30) DEF StoreInv, FileHeld, Mine, InFile
<1> QED
  BY <1>3, <1>4, <1>5, <1>10, <1>11, <1>12, Zenon DEF StoreInv, Whole

(* A save that returns gives up its name; its temp file may go with it. *)
LEMMA RemoveKeeps ==
    ASSUME StoreInv, NEW t \in Threads, pc[t] # "idle", RemoveAndFail(t) PROVE StoreInv'
<1>1. tmp[t] \in Names
  BY TmpIsName, Zenon
<1>2. /\ pc' = [pc EXCEPT ![t] = "idle"] /\ tmp' = [tmp EXCEPT ![t] = Nothing]
      /\ temps' \in {temps, [temps EXCEPT ![tmp[t]] = Nothing]}
      /\ UNCHANGED <<pid, counter, store, previous, crashes>>
  BY Zenon DEF RemoveAndFail, Done
<1>3. TypeOK'
  BY <1>1, <1>2, Zenon DEF StoreInv, TypeOK
<1>4. \A u \in Threads : u # t => pc'[u] = pc[u] /\ tmp'[u] = tmp[u]
  BY <1>2, Zenon DEF StoreInv, TypeOK
<1>5. pc'[t] = "idle"
  BY <1>2, Zenon DEF StoreInv, TypeOK
<1>6. PidsDiffer' /\ NameTaken' /\ NamesDiffer'
  BY <1>2, <1>4, <1>5 DEF StoreInv, PidsDiffer, NameTaken, NamesDiffer
<1>7. \A u \in Threads : u # t /\ pc[u] # "idle" => temps'[tmp[u]] = temps[tmp[u]]
  BY <1>1, <1>2, TmpIsName, Zenon DEF StoreInv, TypeOK, NamesDiffer
<1>8. FileHeld'
  BY <1>4, <1>5, <1>7 DEF StoreInv, FileHeld, Mine, InFile
<1> QED
  BY <1>2, <1>3, <1>6, <1>8, Zenon DEF StoreInv, Whole

(* The file of a save changes as the save goes on; nobody else's does. *)
LEMMA FileStepKeeps ==
    ASSUME StoreInv, NEW t \in Threads, pc[t] # "idle",
           NEW to \in {"write", "sync", "rename"}, NEW f \in Files,
           f.by = t, to \in {"sync", "rename"} => f.full, to = "rename" => f.synced,
           pc' = [pc EXCEPT ![t] = to], temps' = [temps EXCEPT ![tmp[t]] = f],
           UNCHANGED <<tmp, pid, counter, store, previous, crashes>>
    PROVE  StoreInv'
<1>1. tmp[t] \in Names
  BY TmpIsName, Zenon
<1>2. TypeOK'
  BY <1>1, Zenon DEF StoreInv, TypeOK
<1>3. \A u \in Threads : u # t => pc'[u] = pc[u]
  BY Zenon DEF StoreInv, TypeOK
<1>4. pc'[t] = to /\ to # "idle" /\ temps'[tmp[t]] = f
  BY <1>1, Zenon DEF StoreInv, TypeOK
<1>5. PidsDiffer' /\ NameTaken' /\ NamesDiffer'
  BY <1>3, <1>4 DEF StoreInv, PidsDiffer, NameTaken, NamesDiffer
<1>6. \A u \in Threads : u # t /\ pc[u] # "idle" => temps'[tmp[u]] = temps[tmp[u]]
  BY <1>1, TmpIsName, Zenon DEF StoreInv, TypeOK, NamesDiffer
<1>7. f # Nothing
  BY NothingAssumption, Zenon
<1>8. FileHeld'
  BY <1>3, <1>4, <1>6, <1>7 DEF StoreInv, FileHeld, Mine, InFile
<1> QED
  BY <1>2, <1>5, <1>8, Zenon DEF StoreInv, Whole

LEMMA OpenKeeps == ASSUME StoreInv, NEW t \in Threads, Open(t) PROVE StoreInv'
<1> DEFINE f == [by |-> t, full |-> FALSE, synced |-> FALSE]
<1>1. f \in Files /\ f.by = t
  BY Zenon DEF Files
<1>2. /\ pc[t] # "idle" /\ pc' = [pc EXCEPT ![t] = "write"] /\ temps' = [temps EXCEPT ![tmp[t]] = f]
      /\ UNCHANGED <<tmp, pid, counter, store, previous, crashes>>
  BY Zenon DEF Open
<1> HIDE DEF f
<1> QED
  BY <1>1, <1>2, FileStepKeeps, ZenonT(30)

(* The file that a save has open. *)
LEMMA HeldFile ==
    ASSUME StoreInv, NEW t \in Threads, pc[t] \in InFile
    PROVE  /\ Mine(t) /\ temps[tmp[t]] \in Files /\ temps[tmp[t]].by = t
           /\ pc[t] \in {"sync", "rename"} => temps[tmp[t]].full
           /\ pc[t] = "rename" => temps[tmp[t]].synced
<1>1. tmp[t] \in Names
  BY TmpIsName, Zenon DEF InFile
<1> QED
  BY <1>1, Zenon DEF StoreInv, TypeOK, FileHeld, Mine

LEMMA WriteAllKeeps == ASSUME StoreInv, NEW t \in Threads, WriteAll(t) PROVE StoreInv'
<1> DEFINE f == [temps[tmp[t]] EXCEPT !.full = TRUE]
<1>1. Mine(t) /\ temps[tmp[t]] \in Files /\ temps[tmp[t]].by = t /\ tmp[t] \in Names
  BY HeldFile, TmpIsName, Zenon DEF WriteAll, InFile
<1>2. f \in Files /\ f.by = t /\ f.full
  BY <1>1, ZenonT(30) DEF Files
<1>3. temps' = [temps EXCEPT ![tmp[t]] = f]
  BY <1>1, Zenon DEF WriteAll, StoreInv, TypeOK
<1>4. /\ pc[t] # "idle" /\ pc' = [pc EXCEPT ![t] = "sync"]
      /\ UNCHANGED <<tmp, pid, counter, store, previous, crashes>>
  BY Zenon DEF WriteAll
<1> HIDE DEF f
<1> QED
  BY <1>2, <1>3, <1>4, FileStepKeeps, ZenonT(30)

LEMMA SyncAllKeeps == ASSUME StoreInv, NEW t \in Threads, SyncAll(t) PROVE StoreInv'
<1> DEFINE f == [temps[tmp[t]] EXCEPT !.synced = TRUE]
<1>1. /\ Mine(t) /\ temps[tmp[t]] \in Files /\ temps[tmp[t]].by = t
      /\ temps[tmp[t]].full /\ tmp[t] \in Names
  BY HeldFile, TmpIsName, Zenon DEF SyncAll, InFile
<1>2. f \in Files /\ f.by = t /\ f.full /\ f.synced
  BY <1>1, ZenonT(30) DEF Files
<1>3. temps' = [temps EXCEPT ![tmp[t]] = f]
  BY <1>1, Zenon DEF SyncAll, StoreInv, TypeOK
<1>4. /\ pc[t] # "idle" /\ pc' = [pc EXCEPT ![t] = "rename"]
      /\ UNCHANGED <<tmp, pid, counter, store, previous, crashes>>
  BY Zenon DEF SyncAll
<1> HIDE DEF f
<1> QED
  BY <1>2, <1>3, <1>4, FileStepKeeps, ZenonT(30)

(* What is renamed is the complete, flushed file of the save. *)
LEMMA RenameKeeps == ASSUME StoreInv, NEW t \in Threads, Rename(t) PROVE StoreInv'
<1>1. /\ temps[tmp[t]] \in Files /\ temps[tmp[t]].full /\ temps[tmp[t]].synced
      /\ tmp[t] \in Names
  BY HeldFile, TmpIsName, Zenon DEF Rename, InFile
<1>2. /\ pc' = [pc EXCEPT ![t] = "idle"] /\ tmp' = [tmp EXCEPT ![t] = Nothing]
      /\ temps' = [temps EXCEPT ![tmp[t]] = Nothing]
      /\ store' = temps[tmp[t]] /\ previous' \in {store, previous}
      /\ UNCHANGED <<pid, counter, crashes>>
  BY Zenon DEF Rename, Done
<1>3. TypeOK'
  BY <1>1, <1>2, Zenon DEF StoreInv, TypeOK
<1>4. \A u \in Threads : u # t => pc'[u] = pc[u] /\ tmp'[u] = tmp[u]
  BY <1>2, Zenon DEF StoreInv, TypeOK
<1>5. pc'[t] = "idle"
  BY <1>2, Zenon DEF StoreInv, TypeOK
<1>6. PidsDiffer' /\ NameTaken' /\ NamesDiffer'
  BY <1>2, <1>4, <1>5, SMTT(30) DEF StoreInv, PidsDiffer, NameTaken, NamesDiffer
<1>7. \A u \in Threads : u # t /\ pc[u] # "idle" => temps'[tmp[u]] = temps[tmp[u]]
  BY <1>1, <1>2, TmpIsName, ZenonT(30) DEF StoreInv, TypeOK, NamesDiffer, Rename
<1>8. FileHeld'
  BY <1>4, <1>5, <1>7 DEF StoreInv, FileHeld, Mine, InFile
<1>9. Whole(store)' /\ Whole(previous)'
  BY <1>1, <1>2, Zenon DEF StoreInv, Whole
<1> QED
  BY <1>3, <1>6, <1>8, <1>9, Zenon DEF StoreInv

(* The ids of the processes that start again differ from all the others, so a
   COUNTER of 0 meets no name in use. *)
LEMMA RestartKeeps ==
    ASSUME StoreInv, NEW ps \in SUBSET Processes, Restart(ps)
    PROVE  /\ PidsDiffer' /\ NameTaken' /\ NamesDiffer'
           /\ pc' \in [Threads -> {"idle", "open", "write", "sync", "rename"}]
           /\ tmp' \in [Threads -> Names \cup {Nothing}]
           /\ pid' \in [Processes -> Pids]
           /\ counter' \in [Processes -> 0..MaxSaves]
           /\ crashes' \in 0..MaxCrashes
           /\ \A t \in Threads : pc'[t] # "idle" =>
                 ProcessOf[t] \notin ps /\ pc'[t] = pc[t] /\ tmp'[t] = tmp[t]
<1>1. \A t \in Threads : ProcessOf[t] \in Processes
  BY ProcessOfAssumption, Zenon
<1>2. \A t \in Threads : pc'[t] # "idle" =>
         ProcessOf[t] \notin ps /\ pc'[t] = pc[t] /\ tmp'[t] = tmp[t]
  BY Zenon DEF Restart
<1>3. /\ pc' \in [Threads -> {"idle", "open", "write", "sync", "rename"}]
      /\ tmp' \in [Threads -> Names \cup {Nothing}]
  BY Zenon DEF Restart, StoreInv, TypeOK
<1>4. pid' \in [Processes -> Pids] /\ counter' \in [Processes -> 0..MaxSaves]
  BY BoundsAssumption DEF Restart, StoreInv, TypeOK
<1>5. crashes' \in 0..MaxCrashes
  BY BoundsAssumption DEF Restart, StoreInv, TypeOK
<1>6. \A p \in Processes : p \notin ps => pid'[p] = pid[p] /\ counter'[p] = counter[p]
  BY Zenon DEF Restart
<1>7. \A p \in ps, q \in Processes : p # q => pid'[p] # pid'[q]
  BY Zenon DEF Restart, FreePids
<1>8. PidsDiffer'
  BY <1>6, <1>7, Zenon DEF StoreInv, PidsDiffer
<1>9. NameTaken'
  <2> SUFFICES ASSUME NEW u \in Threads, pc'[u] # "idle"
               PROVE  \E k \in 0..MaxSaves : k < counter'[ProcessOf[u]] /\ tmp'[u] = <<pid'[ProcessOf[u]], k>>
    BY Zenon DEF NameTaken
  <2>1. PICK k \in 0..MaxSaves : k < counter[ProcessOf[u]] /\ tmp[u] = <<pid[ProcessOf[u]], k>>
    BY <1>2, Zenon DEF StoreInv, NameTaken
  <2> QED
    BY <1>1, <1>2, <1>6, <2>1, Zenon
<1>10. NamesDiffer'
  BY <1>2, Zenon DEF StoreInv, NamesDiffer
<1> QED
  BY <1>2, <1>3, <1>4, <1>5, <1>8, <1>9, <1>10, Zenon

LEMMA KillKeeps == ASSUME StoreInv, NEW p \in Processes, Kill(p) PROVE StoreInv'
<1>1. Restart({p}) /\ UNCHANGED <<temps, store, previous>>
  BY Zenon DEF Kill
<1>2. TypeOK' /\ PidsDiffer' /\ NameTaken' /\ NamesDiffer'
  BY <1>1, RestartKeeps, Zenon DEF StoreInv, TypeOK
<1>3. \A t \in Threads : pc'[t] # "idle" => pc'[t] = pc[t] /\ tmp'[t] = tmp[t]
  BY <1>1, RestartKeeps, ZenonT(30)
<1>4. FileHeld'
  BY <1>1, <1>3, ZenonT(30) DEF StoreInv, FileHeld, Mine, InFile
<1> QED
  BY <1>1, <1>2, <1>4, Zenon DEF StoreInv, Whole

(* A flushed file survives as it is. *)
LEMMA PowerFailureKeeps == ASSUME StoreInv, PowerFailure PROVE StoreInv'
<1>1. Restart(Processes)
  BY Zenon DEF PowerFailure
<1>2. PICK f \in {store, previous} : store' \in Survives(f)
  BY Zenon DEF PowerFailure
<1>3. store' = f /\ previous' = f
  BY <1>2, Zenon DEF PowerFailure, Survives, StoreInv, Whole
<1>4. \A t \in Threads : pc'[t] = "idle"
  BY <1>1, RestartKeeps, ProcessOfAssumption, Zenon
<1>5. temps' \in [Names -> Files \cup {Nothing}]
  BY Zenon DEF PowerFailure, StoreInv, TypeOK
<1>6. TypeOK' /\ PidsDiffer' /\ NameTaken' /\ NamesDiffer'
  BY <1>1, <1>3, <1>5, RestartKeeps, ZenonT(30) DEF StoreInv, TypeOK
<1>7. FileHeld'
  BY <1>4, Zenon DEF FileHeld, InFile
<1> QED
  BY <1>3, <1>6, <1>7, Zenon DEF StoreInv, Whole

LEMMA DirectoryFlushedKeeps == ASSUME StoreInv, DirectoryFlushed PROVE StoreInv'
  BY ZenonT(30)
     DEF DirectoryFlushed, StoreInv, TypeOK, PidsDiffer, NameTaken, NamesDiffer, FileHeld, Mine, Whole

LEMMA NextStoreInv == StoreInv /\ [Next]_vars => StoreInv'
<1> SUFFICES ASSUME StoreInv, [Next]_vars PROVE StoreInv'
  BY Zenon
<1>1. ASSUME NEW t \in Threads, Save(t) PROVE StoreInv'
  BY <1>1, SaveKeeps, Zenon
<1>2. ASSUME NEW t \in Threads, Open(t) PROVE StoreInv'
  BY <1>2, OpenKeeps
<1>3. ASSUME NEW t \in Threads, WriteAll(t) PROVE StoreInv'
  BY <1>3, WriteAllKeeps
<1>4. ASSUME NEW t \in Threads, SyncAll(t) PROVE StoreInv'
  BY <1>4, SyncAllKeeps
<1>5. ASSUME NEW t \in Threads, WriteFails(t) \/ RenameFails(t) PROVE StoreInv'
  BY <1>5, RemoveKeeps, Zenon DEF WriteFails, RenameFails
<1>6. ASSUME NEW t \in Threads, Rename(t) PROVE StoreInv'
  BY <1>6, RenameKeeps
<1>7. CASE DirectoryFlushed
  BY <1>7, DirectoryFlushedKeeps, Zenon
<1>8. ASSUME NEW p \in Processes, Kill(p) PROVE StoreInv'
  BY <1>8, KillKeeps
<1>9. CASE PowerFailure
  BY <1>9, PowerFailureKeeps
<1>10. CASE UNCHANGED vars
  BY <1>10, ZenonT(30)
     DEF vars, StoreInv, TypeOK, PidsDiffer, NameTaken, NamesDiffer, FileHeld, Mine, Whole
<1> QED
  BY <1>1, <1>2, <1>3, <1>4, <1>5, <1>6, <1>7, <1>8, <1>9, <1>10, Zenon DEF Next

-----------------------------------------------------------------------------

(* FileAccountStore::save: whatever is killed, and whenever the power fails,
   the file that load finds is complete. *)
THEOREM StoreNeverTruncated == Spec => []NeverTruncated
<1>1. StoreInv => NeverTruncated
  BY Zenon DEF StoreInv, Whole, NeverTruncated
<1> QED
  BY <1>1, InitStoreInv, NextStoreInv, PTL DEF Spec

(* unique_temp_path: for any number of threads and processes, the temp file of
   a save is its own from the creation to the rename. *)
THEOREM TempFileIsMine == Spec => []TempIsMine
<1>1. StoreInv => TempIsMine
  BY Zenon DEF StoreInv, FileHeld, NamesDiffer, TempIsMine, InFile
<1> QED
  BY <1>1, InitStoreInv, NextStoreInv, PTL DEF Spec

-----------------------------------------------------------------------------
(* The renewal gates. *)

(* A wait and an issuance, as many times as may still be needed. *)
Left(f) == (MaxFailures + 1 - f) * (PollInterval + IssueTime)

RenewalTypeInv ==
    /\ gate \in Gates
    /\ cert \in [notBefore : Int, notAfter : Int, readable : BOOLEAN]
    /\ cert.notAfter - cert.notBefore \in Lifetimes
    /\ now \in Int /\ since \in Int /\ failures \in 0..MaxFailures
    /\ host \in {"wait", "issue"}

Clock ==
    /\ host = "wait" => now <= since + PollInterval
    /\ host = "issue" => now <= since + IssueTime

TimeLeft ==
    /\ host = "wait" => cert.notAfter - since > Left(failures)
    /\ host = "issue" => cert.notAfter - since > Left(failures) - PollInterval

RenewalInv == RenewalTypeInv /\ Clock /\ TimeLeft

(* Products of natural numbers. *)
LEMMA Products ==
    ASSUME NEW a \in Nat, NEW b \in Nat, NEW c \in Nat
    PROVE  /\ a * c \in Nat /\ (a + 1) * c = a * c + c /\ (a + b) * c = a * c + b * c
OBVIOUS

(* A failure uses up one round; the last round is always left. *)
LEMMA LeftFacts ==
    ASSUME NEW f \in 0..MaxFailures
    PROVE  /\ Left(f) \in Nat /\ Left(f) >= PollInterval + IssueTime
           /\ Reserve \in Nat /\ Left(f) <= Reserve /\ Left(0) = Reserve
           /\ f < MaxFailures => Left(f + 1) = Left(f) - (PollInterval + IssueTime)
<1> DEFINE c == PollInterval + IssueTime
           k == MaxFailures - f
<1>1. /\ c \in Nat /\ k \in Nat /\ f \in Nat /\ MaxFailures \in Nat
      /\ MaxFailures + 1 - f = k + 1 /\ MaxFailures + 1 = (k + 1) + f /\ MaxFailures + 1 - 0 = MaxFailures + 1
  BY RenewalAssumption
<1> HIDE DEF c, k
<1>2. (k + 1) * c = k * c + c /\ k * c \in Nat /\ f * c \in Nat /\ ((k + 1) + f) * c = (k + 1) * c + f * c
  BY <1>1, Products
<1>3. Left(f) = (k + 1) * c /\ Reserve = ((k + 1) + f) * c /\ Left(0) = Reserve
  BY <1>1, Zenon DEF Left, Reserve, c
<1>4. f < MaxFailures => Left(f + 1) = k * c
  <2>1. f < MaxFailures => MaxFailures + 1 - (f + 1) = k
    BY <1>1 DEF k
  <2> QED BY <2>1, Zenon DEF Left, c
<1> QED BY <1>1, <1>2, <1>3, <1>4 DEF c

(* renewal.rs:42-55, 143-181: a certificate that is found not to be due has
   more than the reserve left. *)
LEMMA NotDueHasTime ==
    ASSUME NEW g \in Gates, NEW c \in [notBefore : Int, notAfter : Int, readable : BOOLEAN],
           c.notAfter - c.notBefore \in Lifetimes, NEW t \in Int, ~Due(g, c, t)
    PROVE  c.notAfter - t > Reserve
<1> DEFINE life == c.notAfter - c.notBefore
<1>1. /\ life \in Nat /\ Total(c) = life
      /\ g.kind = "ratio" => life \div 3 >= Reserve
      /\ g.kind = "fixed" \/ g.days > 0 => g.days * Day >= Reserve
      /\ g.kind \in {"fixed", "ratio"} /\ g.days \in Nat /\ Day \in Nat
  BY RenewalAssumption DEF Total, NotNegative
<1>2. g.days * Day \in Nat /\ life \div 3 \in Nat /\ Reserve \in Nat
  <2>1. 0 \in 0..MaxFailures
    BY RenewalAssumption
  <2> QED BY <1>1, <2>1, LeftFacts, Products
<1> HIDE DEF life
<1>3. CASE g.kind = "fixed"
  <2>1. c.notAfter - t > g.days * Day
    BY <1>2, <1>3 DEF Due, NeedsRenewalAtChecked
  <2> QED BY <1>1, <1>2, <1>3, <2>1
<1>4. CASE g.kind = "ratio"
  <2>1. c.notAfter - t > RatioThreshold(c, g.days)
    BY <1>1, <1>2, <1>4 DEF Due, NeedsRenewalRatioAtChecked, RatioThreshold, Least
  <2>2. RatioThreshold(c, g.days) \in {life \div 3, g.days * Day}
        /\ (g.days = 0 => RatioThreshold(c, g.days) = life \div 3)
    BY <1>1, Zenon DEF RatioThreshold, Least
  <2> QED BY <1>1, <1>2, <1>4, <2>1, <2>2
<1> QED BY <1>1, <1>3, <1>4, Zenon

(* A new certificate has the reserve left, too. *)
LEMMA IssuedHasTime ==
    ASSUME NEW t \in Int, NEW c \in IssuedAt(t)
    PROVE  /\ c \in [notBefore : Int, notAfter : Int, readable : BOOLEAN]
           /\ c.notAfter - c.notBefore \in Lifetimes
           /\ c.notAfter - t > Reserve
<1>1. PICK life \in Lifetimes :
         c = [notBefore |-> t - Backdate, notAfter |-> t - Backdate + life, readable |-> TRUE]
  BY Zenon DEF IssuedAt
<1>2. life \in Nat /\ life - Backdate > Reserve /\ Backdate \in Nat
  BY RenewalAssumption, Zenon
<1>3. Reserve \in Nat
  <2>1. 0 \in 0..MaxFailures
    BY RenewalAssumption
  <2> QED BY <2>1, LeftFacts, Zenon
<1> QED BY <1>1, <1>2, <1>3, SMTT(30)

(* The first certificate. *)
LEMMA InitRenewalInv == RenewalInit => RenewalInv
<1> SUFFICES ASSUME RenewalInit PROVE RenewalInv
  OBVIOUS
<1>1. 0 \in 0..MaxFailures /\ PollInterval \in Nat
  BY RenewalAssumption
<1>2. /\ cert \in [notBefore : Int, notAfter : Int, readable : BOOLEAN]
      /\ cert.notAfter - cert.notBefore \in Lifetimes
      /\ cert.notAfter - 0 > Reserve
  BY IssuedHasTime DEF RenewalInit
<1>3. Left(0) = Reserve
  BY <1>1, LeftFacts, Zenon
<1> QED BY <1>1, <1>2, <1>3 DEF RenewalInit, RenewalInv, RenewalTypeInv, Clock, TimeLeft

(* Every step of the loop, of the CA and of time. *)
LEMMA NextRenewalInv == RenewalInv /\ [RenewalNext]_renewalVars => RenewalInv'
<1> SUFFICES ASSUME RenewalInv, [RenewalNext]_renewalVars PROVE RenewalInv'
  OBVIOUS
<1> USE DEF RenewalInv
<1>a. PollInterval \in Nat /\ IssueTime \in Nat /\ MaxFailures \in Nat
  BY RenewalAssumption, Zenon
<1>b. /\ Left(failures) \in Nat /\ Left(failures) >= PollInterval + IssueTime
      /\ Reserve \in Nat /\ Left(failures) <= Reserve /\ Left(0) = Reserve
      /\ failures < MaxFailures => Left(failures + 1) = Left(failures) - (PollInterval + IssueTime)
  BY LeftFacts, Zenon DEF RenewalTypeInv
<1>1. CASE Tick
  BY <1>1, <1>a DEF Tick, RenewalTypeInv, Clock, TimeLeft
<1>2. CASE Poll
  <2>1. /\ host = "wait" /\ since' = now /\ UNCHANGED <<gate, cert, now, failures>>
        /\ host' \in {"wait", "issue"}
        /\ host' = "wait" => ~Due(gate, cert, now)
    BY <1>2, Zenon DEF Poll
  <2>2. RenewalTypeInv' /\ Clock'
    BY <2>1, <1>a DEF RenewalTypeInv, Clock
  <2>3. host' = "wait" => cert.notAfter - now > Reserve
    BY <2>1, NotDueHasTime, Zenon DEF RenewalTypeInv
  <2>4. cert.notAfter - now > Left(failures) - PollInterval
    BY <2>1, <1>a, <1>b, SMTT(30) DEF RenewalTypeInv, Clock, TimeLeft
  <2>5. TimeLeft'
    BY <2>1, <2>3, <2>4, <1>b, SMTT(30) DEF RenewalTypeInv, TimeLeft
  <2> QED BY <2>2, <2>5, Zenon
<1>3. CASE Issued
  <2>1. cert' \in IssuedAt(now) /\ host' = "wait" /\ since' = now /\ failures' = 0 /\ UNCHANGED <<gate, now>>
    BY <1>3, Zenon DEF Issued
  <2>2. /\ cert' \in [notBefore : Int, notAfter : Int, readable : BOOLEAN]
        /\ cert'.notAfter - cert'.notBefore \in Lifetimes
        /\ cert'.notAfter - now > Reserve
    BY <2>1, IssuedHasTime, Zenon DEF RenewalTypeInv
  <2> QED BY <2>1, <2>2, <1>a, <1>b DEF RenewalTypeInv, Clock, TimeLeft
<1>4. CASE IssueFails
  BY <1>4, <1>a, <1>b, SMTT(30) DEF IssueFails, RenewalTypeInv, Clock, TimeLeft
<1>5. CASE Damage
  <2>1. /\ cert'.notAfter = cert.notAfter /\ cert'.notBefore = cert.notBefore
        /\ cert' \in [notBefore : Int, notAfter : Int, readable : BOOLEAN]
        /\ UNCHANGED <<gate, now, host, since, failures>>
    BY <1>5, ZenonT(30) DEF Damage, RenewalTypeInv
  <2> QED BY <2>1, Zenon DEF RenewalTypeInv, Clock, TimeLeft
<1>6. CASE UNCHANGED renewalVars
  BY <1>6, Zenon DEF renewalVars, RenewalTypeInv, Clock, TimeLeft
<1> QED BY <1>1, <1>2, <1>3, <1>4, <1>5, <1>6, Zenon DEF RenewalNext

(* RenewalInv holds in every state of the loop. *)
LEMMA RenewalInvariance == RenewalSpec => []RenewalInv
BY InitRenewalInv, NextRenewalInv, PTL DEF RenewalSpec

(* renewal.rs:24-55, 143-181: with a threshold that covers the polls and
   issuances that may fail, no certificate expires in use. *)
THEOREM RenewalInTime == RenewalSpec => []NeverExpired
<1>1. RenewalInv => NeverExpired
  <2> SUFFICES ASSUME RenewalInv PROVE NeverExpired
    BY Zenon
  <2>1. Left(failures) \in Nat /\ Left(failures) >= PollInterval + IssueTime
    BY LeftFacts, Zenon DEF RenewalInv, RenewalTypeInv
  <2>2. PollInterval \in Nat /\ IssueTime \in Nat
    BY RenewalAssumption, Zenon
  <2> QED BY <2>1, <2>2 DEF RenewalInv, RenewalTypeInv, Clock, TimeLeft, NeverExpired
<1> QED BY <1>1, RenewalInvariance, PTL

-----------------------------------------------------------------------------

(* What the ratio gate compares with. *)
LEMMA ThresholdFacts ==
    ASSUME RenewalInv, NEW days \in Nat
    PROVE  /\ days * Day \in Nat
           /\ Total(cert) = cert.notAfter - cert.notBefore /\ Total(cert) \in Nat
           /\ RatioThreshold(cert, days) \in Nat
           /\ 3 * RatioThreshold(cert, days) <= Total(cert)
           /\ days > 0 => RatioThreshold(cert, days) <= days * Day
<1>1. /\ cert.notAfter - cert.notBefore \in Nat /\ Day \in Nat
      /\ Total(cert) = cert.notAfter - cert.notBefore
  BY RenewalAssumption DEF RenewalInv, RenewalTypeInv, Total, NotNegative
<1>2. days * Day \in Nat
  BY <1>1, Products, Zenon
<1>3. Total(cert) \div 3 \in Nat /\ 3 * (Total(cert) \div 3) <= Total(cert)
  BY <1>1
<1> QED BY <1>1, <1>2, <1>3 DEF RatioThreshold, Least

(* renewal.rs:132-141: for any lifetime and floor, the ratio gate finds a
   readable certificate due only in the last third of its life, and only
   within the floor if there is one. *)
THEOREM RenewalNotEarly == RenewalSpec => NotEarly
<1> DEFINE Early == host = "wait" /\ host' = "issue" /\ gate.kind = "ratio" /\ cert.readable =>
                       /\ 3 * (cert.notAfter - now) <= cert.notAfter - cert.notBefore
                       /\ gate.days > 0 => cert.notAfter - now <= gate.days * Day
<1>1. RenewalInv /\ [RenewalNext]_renewalVars => [Early]_renewalVars
  <2> SUFFICES ASSUME RenewalInv, RenewalNext, host = "wait", host' = "issue", gate.kind = "ratio", cert.readable
               PROVE  /\ 3 * (cert.notAfter - now) <= cert.notAfter - cert.notBefore
                      /\ gate.days > 0 => cert.notAfter - now <= gate.days * Day
    BY Zenon
  <2>1. Due(gate, cert, now)
    BY Zenon DEF RenewalNext, Tick, Poll, Issued, IssueFails, Damage
  <2>2. gate.days \in Nat /\ cert.notAfter \in Int /\ now \in Int /\ cert.notAfter - now \in Int
    BY RenewalAssumption DEF RenewalInv, RenewalTypeInv
  <2>3. cert.notAfter - now <= 0 \/ cert.notAfter - now <= RatioThreshold(cert, gate.days)
    BY <2>1, Zenon DEF Due, Parses, NeedsRenewalRatioAtChecked
  <2> QED BY <2>2, <2>3, ThresholdFacts
<1> QED BY <1>1, RenewalInvariance, PTL DEF RenewalSpec, NotEarly

(* renewal.rs:149-151: where the window is exactly a third of the lifetime,
   the two gates give the same answer at every time. *)
THEOREM RenewalGatesAgree == RenewalSpec => []GatesAgree
<1>1. RenewalInv => GatesAgree
  <2> SUFFICES ASSUME RenewalInv, NEW g \in Gates, Total(cert) = 3 * (g.days * Day),
                      NEW t \in Around(cert, g.days)
               PROVE  NeedsRenewalAtChecked(cert, g.days, t) <=> NeedsRenewalRatioAtChecked(cert, g.days, t)
    BY Zenon DEF GatesAgree
  <2>1. g.days \in Nat /\ cert.notAfter \in Int /\ t \in Int
    BY RenewalAssumption DEF RenewalInv, RenewalTypeInv, Around
  <2>2. g.days * Day \in Nat
    BY <2>1, ThresholdFacts, Zenon
  <2>3. g.days = 0 => g.days * Day = 0
    BY <2>1, RenewalAssumption
  <2>4. RatioThreshold(cert, g.days) = g.days * Day
    BY <2>2, <2>3 DEF RatioThreshold, Least
  <2> QED BY <2>1, <2>2, <2>4 DEF NeedsRenewalAtChecked, NeedsRenewalRatioAtChecked
<1> QED BY <1>1, RenewalInvariance, PTL

(* Division of natural numbers. *)
LEMMA Quotient ==
    ASSUME NEW a \in Nat, NEW b \in Nat \ {0}
    PROVE  /\ a \div b \in Nat /\ (a \div b) * b <= a /\ a < (a \div b) * b + b
OBVIOUS

(* Comparing multiples of a positive number. *)
LEMMA Multiples ==
    ASSUME NEW m \in Int, NEW n \in Int, NEW b \in Nat \ {0}
    PROVE  /\ m * b \in Int /\ n * b \in Int
           /\ m < n => m * b + b <= n * b
OBVIOUS

(* renewal.rs:57-61, 89-125: for any length of the day, the days shown and the
   fixed gate never contradict each other, and none is left after the expiry. *)
THEOREM RenewalDaysMatch == RenewalSpec => []DaysMatchGate
<1>1. RenewalInv => DaysMatchGate
  <2> SUFFICES ASSUME RenewalInv, NEW g \in Gates, NEW t \in Around(cert, g.days)
               PROVE  LET days == RemainingDays(cert, t) IN
                      /\ IF t <= cert.notAfter THEN 0 <= days /\ days * Day <= cert.notAfter - t
                         ELSE days <= 0
                      /\ days < g.days => NeedsRenewalAtChecked(cert, g.days, t)
                      /\ NeedsRenewalAtChecked(cert, g.days, t) => days <= g.days
    BY Zenon DEF DaysMatchGate
  <2> DEFINE days == RemainingDays(cert, t)
             rest == cert.notAfter - t
  <2>1. g.days \in Nat /\ Day \in Nat \ {0} /\ cert.notAfter \in Int /\ t \in Int /\ rest \in Int
    BY RenewalAssumption DEF RenewalInv, RenewalTypeInv, Around
  <2>2. g.days * Day \in Nat
    BY <2>1, ThresholdFacts, Zenon
  <2>3. CASE rest >= 0
    <3>1. days = rest \div Day
      BY <2>3, Zenon DEF RemainingDays, Truncated
    <3> HIDE DEF days
    <3>2. days \in Nat /\ days * Day <= rest /\ rest < days * Day + Day
      <4> HIDE DEF rest
      <4> QED BY <2>1, <2>3, <3>1, Quotient
    <3>3. /\ days * Day \in Int
          /\ days < g.days => days * Day + Day <= g.days * Day
          /\ g.days < days => g.days * Day + Day <= days * Day
      BY <2>1, <3>2, Multiples, SMTT(30)
    <3> QED BY <2>1, <2>2, <2>3, <3>2, <3>3 DEF NeedsRenewalAtChecked, days
  <2>4. CASE rest < 0
    <3> DEFINE over == -rest
    <3>1. over \in Nat /\ days = -(over \div Day)
      BY <2>1, <2>4 DEF RemainingDays, Truncated
    <3> HIDE DEF days, over
    <3>2. over \div Day \in Nat
      BY <2>1, <3>1, Quotient, Zenon
    <3> QED BY <2>1, <2>2, <2>4, <3>1, <3>2 DEF NeedsRenewalAtChecked, days
  <2> QED BY <2>1, <2>3, <2>4, SMTT(30)
<1> QED BY <1>1, RenewalInvariance, PTL
=============================================================================
