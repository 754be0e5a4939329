----------------------------- MODULE Persistence -----------------------------
(***************************************************************************)
(* The registration archive: what a process saves of its registry, the     *)
(* file that replaces the previous one, and what the next process makes of *)
(* it.  Threads of one process may save at the same time; the process may  *)
(* be killed between any two system calls, or the machine may lose power.  *)
(*                                                                         *)
(* The file system is external: a rename is atomic; the bytes of a file    *)
(* survive a power loss once they were synced, and a rename once the       *)
(* directory was.  A file is the archive it was written from, its rank     *)
(* among the archives that reached the destination, and the state of its   *)
(* bytes: "whole", "torn" (any prefix) or "foreign" (another version).     *)
(***************************************************************************)
EXTENDS Integers, FiniteSets

CONSTANTS ArchiveChains,     \* chain ids that share a path
          Keys, Encodable,   \* pool keys, and those this archive version can hold
          MaxRegistrations,  \* MAX_REGISTRATIONS
          Threads,           \* threads that save at the same time
          MaxSaves, MaxFailures, MaxOutages  \* bounds: saves, I/O errors, restarts

VARIABLES registry, \* the running process's pools and their status
          temp,     \* NEXT_TEMP_FILE, which names the next temporary file
          savers,   \* the save each thread is in
          temps,    \* the temporary files of the directory
          dest,     \* the destination file
          survivors, \* what the destination may be after a power loss
          ranks,    \* how many archives have reached the destination
          settled,  \* the rank of the last one whose directory entry was synced
          resumed,  \* the outcome of the load of a process that has just started
          spent     \* saves, I/O errors and outages so far

vars == <<registry, temp, savers, temps, dest, survivors, ranks, settled, resumed, spent>>

\* Pending, cold and degraded pools are resumed as ready ones are, unsupported ones as disabled ones.
Statuses == {"Ready", "Disabled"}
NoFile == [bytes |-> "none"]
Foreign == [bytes |-> "foreign", rank |-> 0, synced |-> TRUE]
File(bytes, synced, archive) == [bytes |-> bytes, synced |-> synced, archive |-> archive]
Idle == [pc |-> "idle"]
Outcome(why, chain, rank, pools) == [why |-> why, chain |-> chain, rank |-> rank, pools |-> pools]
NoLoad == Outcome("none", 0, 0, <<>>)

-----------------------------------------------------------------------------
(* AmmRegistrationArchive *)

\* Opaque pools, metadata of another protocol and lists over their limits have no encoding.
Encodes(pools) == DOMAIN pools \subseteq Encodable

\* An archive of all registrations, or none: nothing is written of a registry that is refused.
capture(chain) ==
  {archive \in {[chain |-> chain, pools |-> registry]} :
     Cardinality(DOMAIN archive.pools) <= MaxRegistrations /\ Encodes(archive.pools)}

\* Whatever has to be verified again is queued again.
resume_status(status) ==
  IF status \in {"Disabled", "Unsupported"} THEN status ELSE "Pending"

\* Length, magic, version, checksum and chain, in this order.
refusal(file, chain) ==
  IF file.bytes = "none" THEN "io"
  ELSE IF file.bytes = "foreign" THEN "version"
  ELSE IF file.bytes = "torn" THEN "corrupt"
  ELSE IF file.archive.chain # chain THEN "chain"
  ELSE ""

load(file, chain) ==
  IF refusal(file, chain) # "" THEN Outcome(refusal(file, chain), chain, 0, <<>>)
  ELSE Outcome("", chain, file.rank,
               [k \in DOMAIN file.archive.pools |-> resume_status(file.archive.pools[k])])

-----------------------------------------------------------------------------
(* save: every system call of atomic_write is a step. *)

Calls(t, pc) == savers[t].pc = pc
Spend(what) == spent' = [spent EXCEPT ![what] = @ + 1]
Saver(pc, name, archive) == [pc |-> pc, name |-> name, archive |-> archive]
Goes(t, pc) == savers' = [savers EXCEPT ![t] = Saver(pc, @.name, @.archive)]
Writes(t, bytes, synced) ==
  temps' = [temps EXCEPT ![savers[t].name] = File(bytes, synced, savers[t].archive)]
process == <<registry, temp>>
file_state == <<temps, dest, survivors, ranks, settled>>

save(t) ==
  /\ Calls(t, "idle") /\ spent.saves < MaxSaves
  /\ \E chain \in ArchiveChains : \E archive \in capture(chain) :
       savers' = [savers EXCEPT ![t] = Saver("create", temp, archive)]
  /\ temp' = temp + 1
  /\ Spend("saves") /\ UNCHANGED <<registry, file_state>>

\* An error ends the save and removes the temporary file of its name.
FailedSave(t) ==
  /\ savers' = [savers EXCEPT ![t] = Idle]
  /\ temps' = [n \in DOMAIN temps \ {savers[t].name} |-> temps[n]]
  /\ UNCHANGED <<process, dest, survivors, ranks, settled>>

\* create_new refuses a name that a killed process has left behind.
create_temporary(t) ==
  /\ Calls(t, "create")
  /\ IF savers[t].name \in DOMAIN temps THEN FailedSave(t)
     ELSE /\ temps' = [n \in DOMAIN temps \cup {savers[t].name} |->
                         IF n = savers[t].name THEN File("torn", FALSE, savers[t].archive) ELSE temps[n]]
          /\ Goes(t, "write")
          /\ UNCHANGED <<process, dest, survivors, ranks, settled>>
  /\ UNCHANGED spent

write_temporary(t) ==
  /\ Calls(t, "write")
  /\ Writes(t, "whole", FALSE)
  /\ Goes(t, "sync")
  /\ UNCHANGED <<process, dest, survivors, ranks, settled, spent>>

\* Mutant of sync_temporary: the bytes are left to the operating system.
flush_temporary(t) ==
  /\ Calls(t, "sync") /\ Goes(t, "rename")
  /\ UNCHANGED <<process, file_state, spent>>

sync_temporary(t) ==
  /\ Calls(t, "sync")
  /\ Writes(t, temps[savers[t].name].bytes, TRUE)
  /\ Goes(t, "rename")
  /\ UNCHANGED <<process, dest, survivors, ranks, settled, spent>>

rename_temporary(t) ==
  /\ Calls(t, "rename")
  /\ LET file == temps[savers[t].name]
     IN  dest' = [bytes |-> file.bytes, synced |-> file.synced, archive |-> file.archive, rank |-> ranks + 1]
  /\ survivors' = survivors \cup {dest'}
  /\ temps' = [n \in DOMAIN temps \ {savers[t].name} |-> temps[n]]
  /\ ranks' = ranks + 1
  /\ Goes(t, "sync_parent")
  /\ UNCHANGED <<process, settled, spent>>

\* The save has succeeded whether or not the directory can be synced.
sync_parent_best_effort(t) ==
  /\ Calls(t, "sync_parent")
  /\ savers' = [savers EXCEPT ![t] = Idle]
  /\ \/ survivors' = {dest} /\ settled' = dest.rank /\ UNCHANGED spent
     \/ spent.failures < MaxFailures /\ Spend("failures") /\ UNCHANGED <<survivors, settled>>
  /\ UNCHANGED <<process, temps, dest, ranks>>

io_error(t) ==
  /\ savers[t].pc \in {"create", "write", "sync", "rename"} /\ spent.failures < MaxFailures
  /\ FailedSave(t) /\ Spend("failures")

-----------------------------------------------------------------------------
(* The process around it: pools are registered, verified and degraded; it  *)
(* stops, by itself or with the machine, and the next one resumes.         *)

Update ==
  /\ \E k \in Keys, status \in Statuses :
       registry' = [j \in DOMAIN registry \cup {k} |-> IF j = k THEN status ELSE registry[j]]
  /\ registry' # registry
  /\ UNCHANGED <<temp, savers, file_state, spent>>

Torn(file) == IF file.bytes = "whole" /\ ~file.synced THEN [file EXCEPT !.bytes = "torn"] ELSE file

\* The new process may have the number of the one that stopped (in a container it has),
\* so that the names of its temporary files begin where the others' did.
Restart(file, chain) ==
  /\ resumed' = load(file, chain)
  /\ registry' = resumed'.pools
  /\ temp' = 0
  /\ savers' = [t \in Threads |-> Idle]
  /\ spent.outages < MaxOutages /\ Spend("outages")
  /\ UNCHANGED <<ranks, settled>>

killed(chain) == Restart(dest, chain) /\ UNCHANGED <<temps, dest, survivors>>

power_lost(chain) ==
  \E file \in survivors :
    /\ dest' = Torn(file) /\ survivors' = {dest'}
    /\ temps' = [n \in DOMAIN temps |-> Torn(temps[n])]
    /\ Restart(dest', chain)

Init ==
  /\ registry = <<>> /\ temp = 0 /\ savers = [t \in Threads |-> Idle]
  /\ temps = <<>> /\ dest \in {NoFile, Foreign} /\ survivors = {dest} /\ ranks = 0 /\ settled = 0
  /\ resumed = NoLoad /\ spent = [saves |-> 0, failures |-> 0, outages |-> 0]

Save(t) ==
  \/ save(t) \/ create_temporary(t) \/ write_temporary(t) \/ sync_temporary(t)
  \/ rename_temporary(t) \/ sync_parent_best_effort(t) \/ io_error(t)

Next ==
  \/ resumed' = NoLoad /\ (Update \/ \E t \in Threads : Save(t))
  \/ \E chain \in ArchiveChains : killed(chain) \/ power_lost(chain)

Spec == Init /\ [][Next]_vars

-----------------------------------------------------------------------------
(* Whenever a process starts, after whatever failures and crashes of        *)
(* concurrent saves, it finds a whole archive: one no older than the last   *)
(* save that synced the directory, refused only for belonging to another    *)
(* chain, and with every pool that must be verified again not yet in        *)
(* service.  It finds none only if no save ever settled.                    *)
ResumeSound ==
  /\ resumed.why \in {"none", "", "chain", "io", "version"}
  /\ resumed.why \in {"io", "version"} => settled = 0
  /\ resumed.why = "chain" => dest.archive.chain # resumed.chain
  /\ resumed.why = "" =>
       /\ resumed.rank >= settled
       /\ \A k \in DOMAIN resumed.pools : resumed.pools[k] \in {"Pending", "Disabled", "Unsupported"}

=============================================================================
