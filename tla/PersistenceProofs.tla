-------------------------- MODULE PersistenceProofs --------------------------
(***************************************************************************)
(* ResumeSound for every set of threads, chains and pools, and however     *)
(* many saves, failures and outages there are.                             *)
(*                                                                         *)
(* What a process finds when it starts is what the saves of the one before *)
(* left, so ResumeSound needs an invariant of the saves: ArchiveInv.  Its  *)
(* heart is that a temporary file has one writer, which has synced it when *)
(* it is renamed, and that the destination, and whatever it may fall back  *)
(* to after a power loss, is a whole archive no older than the settled one.*)
(***************************************************************************)
EXTENDS Persistence, TLAPS

Stages == {"idle", "create", "write", "sync", "rename", "sync_parent"}
Live(t) == savers[t].pc # "idle"

\* What a name of the directory may stand for across a power loss.
Lasting(file) ==
  \/ file \in {NoFile, Foreign} /\ settled = 0
  \/ /\ file.bytes = "whole" /\ file.synced = TRUE
     /\ file.rank \in Nat /\ settled <= file.rank /\ file.rank <= ranks

SaverTypes ==
  /\ temp \in Nat /\ ranks \in Nat /\ settled \in Nat /\ settled <= ranks
  /\ DOMAIN savers = Threads
  /\ \A t \in Threads : savers[t].pc \in Stages

\* No two saves of a process use one name: the counter has passed them all.
OwnName ==
  /\ \A t \in Threads : Live(t) => savers[t].name \in Nat /\ savers[t].name < temp
  /\ \A t, u \in Threads : t # u /\ Live(t) /\ Live(u) => savers[t].name # savers[u].name

\* A temporary file is as far as the save that writes it.
Written ==
  \A t \in Threads :
    /\ savers[t].pc \in {"write", "sync", "rename"} => savers[t].name \in DOMAIN temps
    /\ savers[t].pc \in {"sync", "rename"} => temps[savers[t].name].bytes = "whole"
    /\ savers[t].pc = "rename" => temps[savers[t].name].synced = TRUE

Kept ==
  /\ dest \in survivors
  /\ \A file \in survivors : Lasting(file)
  /\ (\E t \in Threads : savers[t].pc = "sync_parent") => dest.bytes = "whole"

SaveInv == SaverTypes /\ OwnName /\ Written /\ Kept
ArchiveInv == SaveInv /\ ResumeSound

-----------------------------------------------------------------------------
(* Loading.                                                                *)

(* A pool that was not disabled is queued for verification again, whatever *)
(* status it was saved with (resume_status).                               *)
LEMMA ResumedStatus ==
  ASSUME NEW status
  PROVE  resume_status(status) \in {"Pending", "Disabled", "Unsupported"}
  BY DEF resume_status

(* What a process makes of a destination that has lasted.                  *)
LEMMA LoadSound ==
  ASSUME NEW chain, Lasting(dest)', resumed' = load(dest', chain)
  PROVE  ResumeSound'
  <1> DEFINE why == refusal(dest', chain)
             pools == dest'.archive.pools
  <1>1. CASE dest' \in {NoFile, Foreign} /\ settled' = 0
    <2>0. dest'.bytes \in {"none", "foreign"}
      BY <1>1 DEF NoFile, Foreign
    <2>1. why \in {"io", "version"}
      BY <2>0 DEF refusal
    <2>2. resumed'.why = why
      BY <2>1 DEF load, Outcome
    <2> QED
      BY <2>1, <2>2, <1>1 DEF ResumeSound
  <1>2. CASE dest'.bytes = "whole" /\ dest'.archive.chain # chain
    <2>1. why = "chain"
      BY <1>2 DEF refusal
    <2>2. resumed'.why = "chain" /\ resumed'.chain = chain
      BY <2>1 DEF load, Outcome
    <2> QED
      BY <2>2, <1>2 DEF ResumeSound
  <1>3. CASE /\ dest'.bytes = "whole" /\ dest'.rank \in Nat /\ settled' <= dest'.rank
             /\ dest'.archive.chain = chain
    <2>1. why = ""
      BY <1>3 DEF refusal
    <2>2. /\ resumed'.why = "" /\ resumed'.rank = dest'.rank
          /\ resumed'.pools = [k \in DOMAIN pools |-> resume_status(pools[k])]
      BY <2>1 DEF load, Outcome
    <2>3. \A k \in DOMAIN resumed'.pools :
            resumed'.pools[k] \in {"Pending", "Disabled", "Unsupported"}
      BY <2>2, ResumedStatus
    <2> QED
      BY <2>2, <2>3, <1>3 DEF ResumeSound
  <1> QED
    BY <1>1, <1>2, <1>3 DEF Lasting

(* While the process runs nothing has just been loaded.                    *)
LEMMA RunningSound ==
  ASSUME resumed' = NoLoad
  PROVE  ResumeSound'
  BY DEF ResumeSound, NoLoad, Outcome

-----------------------------------------------------------------------------
(* Saving.                                                                 *)

LEMMA InitArchive == Init => ArchiveInv
  <1> SUFFICES ASSUME Init PROVE ArchiveInv
    OBVIOUS
  <1>0. DOMAIN savers = Threads /\ \A t \in Threads : savers[t].pc = "idle"
    BY DEF Init, Idle
  <1>5. temp = 0 /\ ranks = 0 /\ settled = 0
    BY DEF Init
  <1>1. SaverTypes
    BY <1>0, <1>5 DEF SaverTypes, Stages
  <1>4. OwnName /\ Written
    BY <1>0 DEF OwnName, Written, Live
  <1>2. Kept
    BY DEF Init, Kept, Lasting, Idle
  <1>3. ResumeSound
    BY DEF Init, ResumeSound, NoLoad, Outcome
  <1> QED
    BY <1>1, <1>2, <1>3, <1>4 DEF ArchiveInv, SaveInv

(* A save that ends, by an error or having renamed its file, leaves the    *)
(* temporary files of the others alone: their names differ.                *)
LEMMA Leaves ==
  ASSUME SaveInv, NEW t \in Threads, Live(t),
         savers' = [savers EXCEPT ![t] = Idle],
         temps' = [n \in DOMAIN temps \ {savers[t].name} |-> temps[n]],
         UNCHANGED <<temp, dest, survivors, ranks, settled>>
  PROVE  SaveInv'
  <1>1. /\ DOMAIN savers' = Threads /\ savers'[t].pc = "idle"
        /\ \A u \in Threads : u # t => savers'[u] = savers[u]
    BY DEF SaveInv, SaverTypes, Idle
  <1>2. SaverTypes'
    BY <1>1 DEF SaveInv, SaverTypes, Stages
  <1>3. OwnName'
    BY <1>1 DEF SaveInv, OwnName, Live
  <1>4. \A u \in Threads : u # t /\ savers[u].pc \in {"write", "sync", "rename"} =>
          savers[u].name \in DOMAIN temps' /\ temps'[savers[u].name] = temps[savers[u].name]
    BY DEF SaveInv, OwnName, Written, Live
  <1>5. Written'
    BY <1>1, <1>4 DEF SaveInv, Written
  <1>6. Kept'
    BY <1>1 DEF SaveInv, Kept, Lasting
  <1> QED
    BY <1>2, <1>3, <1>5, <1>6 DEF SaveInv

LEMMA FailedStep ==
  ASSUME SaveInv, NEW t \in Threads, Live(t), FailedSave(t)
  PROVE  SaveInv'
  BY Leaves DEF FailedSave, process

LEMMA SaveStep ==
  ASSUME SaveInv, NEW t \in Threads, save(t)
  PROVE  SaveInv'
  <1>1. PICK archive : savers' = [savers EXCEPT ![t] = Saver("create", temp, archive)]
    BY DEF save
  <1>2. /\ DOMAIN savers' = Threads /\ savers'[t].pc = "create" /\ savers'[t].name = temp
        /\ \A u \in Threads : u # t => savers'[u] = savers[u]
    BY <1>1 DEF SaveInv, SaverTypes, Saver
  <1>3. temp \in Nat /\ temp' = temp + 1 /\ UNCHANGED <<temps, dest, survivors, ranks, settled>>
    BY DEF save, file_state, SaveInv, SaverTypes
  <1>4. SaverTypes'
    BY <1>2, <1>3 DEF SaveInv, SaverTypes, Stages
  <1>5. OwnName'
    BY <1>2, <1>3 DEF SaveInv, OwnName, Live
  <1>6. Written'
    BY <1>2, <1>3 DEF SaveInv, Written
  <1>7. Kept'
    BY <1>2, <1>3 DEF SaveInv, Kept, Lasting
  <1> QED
    BY <1>4, <1>5, <1>6, <1>7 DEF SaveInv

(* Creating, writing and syncing: the save goes on to its next call, and   *)
(* only the file of its own name changes.                                  *)
LEMMA FileStep ==
  ASSUME SaveInv, NEW t \in Threads, Live(t), NEW stage \in {"write", "sync", "rename"},
         Goes(t, stage), UNCHANGED <<temp, dest, survivors, ranks, settled>>,
         savers[t].name \in DOMAIN temps',
         \A n \in DOMAIN temps : n # savers[t].name => n \in DOMAIN temps' /\ temps'[n] = temps[n],
         stage \in {"sync", "rename"} => temps'[savers[t].name].bytes = "whole",
         stage = "rename" => temps'[savers[t].name].synced = TRUE
  PROVE  SaveInv'
  <1>1. /\ DOMAIN savers' = Threads /\ savers'[t].pc = stage /\ savers'[t].name = savers[t].name
        /\ \A u \in Threads : u # t => savers'[u] = savers[u]
    BY DEF SaveInv, SaverTypes, Goes, Saver
  <1>2. SaverTypes'
    BY <1>1 DEF SaveInv, SaverTypes, Stages
  <1>3. OwnName'
    BY <1>1 DEF SaveInv, OwnName, Live
  <1>4. \A u \in Threads : u # t /\ savers[u].pc \in {"write", "sync", "rename"} =>
          savers[u].name \in DOMAIN temps' /\ temps'[savers[u].name] = temps[savers[u].name]
    BY DEF SaveInv, OwnName, Written, Live
  <1>5. Written'
    BY <1>1, <1>4 DEF SaveInv, Written
  <1>6. Kept'
    BY <1>1 DEF SaveInv, Kept, Lasting
  <1> QED
    BY <1>2, <1>3, <1>5, <1>6 DEF SaveInv

LEMMA CreateStep ==
  ASSUME SaveInv, NEW t \in Threads, create_temporary(t)
  PROVE  SaveInv'
  <1>1. Live(t)
    BY DEF create_temporary, Calls, Live
  <1>2. CASE savers[t].name \in DOMAIN temps
    BY <1>1, <1>2, FailedStep DEF create_temporary
  <1>3. CASE savers[t].name \notin DOMAIN temps
    <2>1. /\ Goes(t, "write") /\ UNCHANGED <<temp, dest, survivors, ranks, settled>>
          /\ DOMAIN temps' = DOMAIN temps \cup {savers[t].name}
          /\ \A n \in DOMAIN temps : n # savers[t].name => temps'[n] = temps[n]
      BY <1>3 DEF create_temporary, process
    <2> QED
      BY <1>1, <2>1, FileStep
  <1> QED
    BY <1>2, <1>3

LEMMA WriteStep ==
  ASSUME SaveInv, NEW t \in Threads, write_temporary(t) \/ sync_temporary(t)
  PROVE  SaveInv'
  <1> DEFINE n == savers[t].name
  <1>1. Live(t) /\ n \in DOMAIN temps
    BY DEF write_temporary, sync_temporary, Calls, Live, SaveInv, Written
  <1>2. UNCHANGED <<temp, dest, survivors, ranks, settled>>
    BY DEF write_temporary, sync_temporary, process
  <1>3. CASE write_temporary(t)
    <2>1. temps' = [temps EXCEPT ![n] = File("whole", FALSE, savers[t].archive)] /\ Goes(t, "sync")
      BY <1>3 DEF write_temporary, Writes
    <2>2. temps'[n].bytes = "whole"
      BY <2>1, <1>1 DEF File
    <2> QED
      BY <1>1, <1>2, <2>1, <2>2, FileStep
  <1>4. CASE sync_temporary(t)
    <2>1. temps' = [temps EXCEPT ![n] = File("whole", TRUE, savers[t].archive)] /\ Goes(t, "rename")
      BY <1>4 DEF sync_temporary, Writes, SaveInv, Written, Calls
    <2>2. temps'[n].bytes = "whole" /\ temps'[n].synced = TRUE
      BY <2>1, <1>1 DEF File
    <2> QED
      BY <1>1, <1>2, <2>1, <2>2, FileStep
  <1> QED
    BY <1>3, <1>4

(* The file that reaches the destination is whole and synced, and newer    *)
(* than every archive that may come back.                                  *)
LEMMA RenameStep ==
  ASSUME SaveInv, NEW t \in Threads, rename_temporary(t)
  PROVE  SaveInv'
  <1> DEFINE n == savers[t].name
  <1>1. /\ DOMAIN savers' = Threads /\ savers'[t].pc = "sync_parent" /\ savers'[t].name = n
        /\ \A u \in Threads : u # t => savers'[u] = savers[u]
    BY DEF rename_temporary, SaveInv, SaverTypes, Goes, Saver
  <1>2. /\ Live(t) /\ n \in DOMAIN temps /\ temps[n].bytes = "whole" /\ temps[n].synced = TRUE
    BY DEF rename_temporary, Calls, Live, SaveInv, Written
  <1>3. dest'.bytes = "whole" /\ dest'.synced = TRUE /\ dest'.rank = ranks + 1
    BY <1>2 DEF rename_temporary
  <1>4. /\ ranks' = ranks + 1 /\ UNCHANGED <<temp, settled>>
        /\ survivors' = survivors \cup {dest'}
        /\ temps' = [m \in DOMAIN temps \ {n} |-> temps[m]]
    BY DEF rename_temporary, process
  <1>5. SaverTypes'
    BY <1>1, <1>4 DEF SaveInv, SaverTypes, Stages
  <1>6. OwnName'
    BY <1>1, <1>2, <1>4 DEF SaveInv, OwnName, Live
  <1>7. \A u \in Threads : u # t /\ savers[u].pc \in {"write", "sync", "rename"} =>
          savers[u].name \in DOMAIN temps' /\ temps'[savers[u].name] = temps[savers[u].name]
    BY <1>2, <1>4 DEF SaveInv, OwnName, Written, Live
  <1>8. Written'
    BY <1>1, <1>7 DEF SaveInv, Written
  <1>9. Kept'
    <2>1. \A file \in survivors : Lasting(file)'
      BY <1>4 DEF SaveInv, SaverTypes, Kept, Lasting
    <2>2. Lasting(dest)'
      BY <1>3, <1>4 DEF SaveInv, SaverTypes, Lasting
    <2> QED
      BY <1>3, <1>4, <2>1, <2>2 DEF Kept
  <1> QED
    BY <1>5, <1>6, <1>8, <1>9 DEF SaveInv

(* Once the directory is synced the archive it names is the settled one.   *)
LEMMA SyncParentStep ==
  ASSUME SaveInv, NEW t \in Threads, sync_parent_best_effort(t)
  PROVE  SaveInv'
  <1>1. /\ DOMAIN savers' = Threads /\ savers'[t].pc = "idle"
        /\ \A u \in Threads : u # t => savers'[u] = savers[u]
    BY DEF sync_parent_best_effort, SaveInv, SaverTypes, Idle
  <1>2. UNCHANGED <<temp, temps, dest, ranks>>
    BY DEF sync_parent_best_effort, process
  <1>3. dest.bytes = "whole" /\ Lasting(dest) /\ dest \notin {NoFile, Foreign}
    BY DEF sync_parent_best_effort, Calls, SaveInv, Kept, NoFile, Foreign
  <1>4. dest.rank \in Nat /\ settled <= dest.rank /\ dest.rank <= ranks /\ dest.synced = TRUE
    BY <1>3 DEF Lasting
  <1>5. \/ survivors' = {dest} /\ settled' = dest.rank
        \/ UNCHANGED <<survivors, settled>>
    BY DEF sync_parent_best_effort
  <1>6. SaverTypes'
    BY <1>1, <1>2, <1>4, <1>5 DEF SaveInv, SaverTypes, Stages
  <1>7. OwnName' /\ Written'
    BY <1>1, <1>2 DEF SaveInv, OwnName, Written, Live
  <1>8. Kept'
    <2>1. CASE survivors' = {dest} /\ settled' = dest.rank
      BY <2>1, <1>2, <1>3, <1>4 DEF Kept, Lasting
    <2>2. CASE UNCHANGED <<survivors, settled>>
      BY <2>2, <1>1, <1>2, <1>3 DEF SaveInv, Kept, Lasting
    <2> QED
      BY <1>5, <2>1, <2>2
  <1> QED
    BY <1>6, <1>7, <1>8 DEF SaveInv

-----------------------------------------------------------------------------
(* The end of a process.                                                   *)

(* Synced bytes are still there after a power loss.                        *)
LEMMA NothingTorn ==
  ASSUME NEW file, Lasting(file)
  PROVE  Torn(file) = file
  BY DEF Torn, Lasting, NoFile, Foreign

LEMMA RestartStep ==
  ASSUME ArchiveInv, NEW chain, killed(chain) \/ power_lost(chain)
  PROVE  ArchiveInv'
  <1>1. dest' \in survivors /\ dest' \in survivors' /\ survivors' \subseteq survivors
    <2>1. CASE killed(chain)
      BY <2>1 DEF killed, ArchiveInv, SaveInv, Kept
    <2>2. CASE power_lost(chain)
      <3>1. PICK file \in survivors : dest' = Torn(file) /\ survivors' = {dest'}
        BY <2>2 DEF power_lost
      <3>2. Torn(file) = file
        BY <3>1, NothingTorn DEF ArchiveInv, SaveInv, Kept
      <3> QED
        BY <3>1, <3>2
    <2> QED
      BY <2>1, <2>2
  <1>2. /\ resumed' = load(dest', chain) /\ temp' = 0 /\ UNCHANGED <<ranks, settled>>
        /\ savers' = [t \in Threads |-> Idle]
    BY DEF killed, power_lost, Restart
  <1>3. DOMAIN savers' = Threads /\ \A t \in Threads : savers'[t].pc = "idle"
    BY <1>2 DEF Idle
  <1>4. SaverTypes'
    BY <1>2, <1>3 DEF ArchiveInv, SaveInv, SaverTypes, Stages
  <1>5. OwnName' /\ Written'
    BY <1>3 DEF OwnName, Written, Live
  <1>6. \A file \in survivors' : Lasting(file)'
    BY <1>1, <1>2 DEF ArchiveInv, SaveInv, Kept, Lasting
  <1>7. Kept'
    BY <1>1, <1>3, <1>6 DEF Kept
  <1>8. ResumeSound'
    BY <1>1, <1>2, <1>6, LoadSound
  <1> QED
    BY <1>4, <1>5, <1>7, <1>8 DEF ArchiveInv, SaveInv

LEMMA RunningStep ==
  ASSUME ArchiveInv, resumed' = NoLoad, Update \/ \E t \in Threads : Save(t)
  PROVE  ArchiveInv'
  <1>1. CASE Update
    BY <1>1, RunningSound
       DEF Update, file_state, ArchiveInv, SaveInv, SaverTypes, OwnName, Written, Live, Kept, Lasting
  <1>2. ASSUME NEW t \in Threads, Save(t)
        PROVE  SaveInv'
    <2>1. CASE io_error(t)
      BY <2>1, FailedStep DEF io_error, Live, ArchiveInv
    <2> QED
      BY <1>2, <2>1, SaveStep, CreateStep, WriteStep, RenameStep, SyncParentStep
         DEF Save, ArchiveInv
  <1> QED
    BY <1>1, <1>2, RunningSound DEF ArchiveInv

(* Whatever saves were under way, failed or were cut short, a process that *)
(* starts finds a whole archive at least as recent as the last one whose   *)
(* directory entry was synced, or another chain's, and puts no pool in     *)
(* service before it has been verified (save_registrations,                *)
(* load_registrations, atomic_write).                                      *)
THEOREM ResumeIsSound == Spec => []ResumeSound
  <1>1. ArchiveInv /\ [Next]_vars => ArchiveInv'
    <2> SUFFICES ASSUME ArchiveInv, [Next]_vars
                 PROVE  ArchiveInv'
      OBVIOUS
    <2>1. CASE UNCHANGED vars
      BY <2>1 DEF vars, ArchiveInv, SaveInv, SaverTypes, OwnName, Written, Live, Kept, Lasting,
                  ResumeSound
    <2>2. CASE Next
      BY <2>2, RunningStep, RestartStep DEF Next
    <2> QED
      BY <2>1, <2>2
  <1>2. ArchiveInv => ResumeSound
    BY DEF ArchiveInv
  <1> QED
    BY InitArchive, <1>1, <1>2, PTL DEF Spec

=============================================================================
