----------------------- MODULE ColdStartWorkerProofs -----------------------
(***************************************************************************)
(* Theorems about ColdStartWorker, for every set of works and batches,     *)
(* capacity, concurrency, burst and number of rounds: SlotsAccounted, and  *)
(* where the jobs are (HandoffFreesSlot, NothingLeftBehind and             *)
(* CancelledStaysCancelled).                                               *)
(*                                                                         *)
(* SlotsAccounted is not inductive alone: a slot would be counted twice if *)
(* a work could be in two commands, or under a lease while still in the    *)
(* channel, or reserved again after it was born.  SlotInv says it is not.  *)
(***************************************************************************)
EXTENDS ColdStartWorker, FiniteSetTheorems, SequenceTheorems, WellFoundedInduction, TLAPS

Command == [op : {"jobs", "cancel"}, works : Seq(Work)]

Owing == InChannel \cup Reserved \cup held

SubmissionType ==
  [step : {"idle", "reserve", "check", "send"}, batch : Seq(Work),
   reply : SUBSET Work, ok : BOOLEAN]

SlotTypes ==
  /\ commands \in Seq(Command)
  /\ \A i \in DOMAIN commands : commands[i].op = "jobs" => commands[i].works \in Batches
  /\ submission \in SubmissionType
  /\ submission.step # "idle" => submission.batch \in Batches
  /\ held \in SUBSET Work
  /\ attempt \in [Work -> {"unborn", "queued", "running", "closed"}]

(* A job is in one command at most, and is not under a lease as well.      *)
OnePlace ==
  /\ \A i, j \in DOMAIN commands :
       i # j /\ commands[i].op = "jobs" /\ commands[j].op = "jobs" =>
         ToSet(commands[i].works) \cap ToSet(commands[j].works) = {}
  /\ InChannel \cap held = {}

(* A job is handed over once: what is reserved has no attempt yet, what is *)
(* in the channel or under a lease has had one.                            *)
BornOnce ==
  /\ \A w \in InChannel \cup held : attempt[w] # "unborn"
  /\ submission.step # "idle" =>
       \A w \in ToSet(submission.batch) : attempt[w] = "unborn"

FlushesJobs ==
  pc = "flush_cancel" => commands # <<>> /\ Head(commands).op = "jobs"

SlotInv == SlotTypes /\ OnePlace /\ BornOnce /\ FlushesJobs /\ SlotsAccounted

-----------------------------------------------------------------------------
(* What is said of batches and of the channel.                             *)

(* A batch names each of its works once, so it takes Len(b) slots.         *)
LEMMA BatchSlots ==
  ASSUME NEW b \in Batches
  PROVE  /\ b \in Seq(Work) /\ Len(b) \in Nat
         /\ ToSet(b) \in SUBSET Work
         /\ IsFiniteSet(ToSet(b)) /\ Cardinality(ToSet(b)) = Len(b)
  <1>1. b \in Seq(Work) /\ Len(b) \in Nat /\ DOMAIN b = 1 .. Len(b)
        /\ \A i, j \in DOMAIN b : b[i] = b[j] => i = j
    BY WorkerAssumption
  <1>2. ToSet(b) \in SUBSET Work
    BY <1>1 DEF ToSet
  <1>3. b \in Bijection(1 .. Len(b), ToSet(b))
    BY <1>1 DEF ToSet, Bijection, Injection, Surjection, IsInjective
  <1>4. IsFiniteSet(1 .. Len(b)) /\ Cardinality(1 .. Len(b)) = Len(b)
    BY <1>1, FS_Interval
  <1> QED
    BY <1>1, <1>2, <1>3, <1>4, FS_Bijection DEF ExistsBijection

(* Works are finite, so every set of them has a size.                      *)
LEMMA WorksFinite ==
  ASSUME NEW S \in SUBSET Work
  PROVE  IsFiniteSet(S) /\ Cardinality(S) \in Nat
  BY WorkerAssumption, FS_Subset, FS_CardinalityType

(* Sending adds the jobs of the command to the channel, a cancellation     *)
(* adds none.                                                              *)
LEMMA ChannelAppend ==
  ASSUME NEW c \in Seq(Command), NEW d \in Command
  PROVE  /\ Append(c, d) \in Seq(Command)
         /\ d.op = "jobs" => JobsIn(Append(c, d)) = JobsIn(c) \cup ToSet(d.works)
         /\ d.op # "jobs" => JobsIn(Append(c, d)) = JobsIn(c)
  <1>1. /\ Append(c, d) \in Seq(Command)
        /\ DOMAIN Append(c, d) = 1 .. Len(c) + 1 /\ DOMAIN c = 1 .. Len(c)
        /\ Append(c, d)[Len(c) + 1] = d
        /\ \A i \in 1 .. Len(c) : Append(c, d)[i] = c[i]
        /\ Len(c) \in Nat
    OBVIOUS
  <1>2. ToSet(d.works) \in SUBSET Work
    BY DEF ToSet, Command
  <1> QED
    BY <1>1, <1>2 DEF JobsIn

(* Receiving takes the jobs of the first command out of the channel.       *)
LEMMA ChannelTail ==
  ASSUME NEW c \in Seq(Command), c # <<>>,
         \A i, j \in DOMAIN c : i # j /\ c[i].op = "jobs" /\ c[j].op = "jobs" =>
           ToSet(c[i].works) \cap ToSet(c[j].works) = {}
  PROVE  /\ Tail(c) \in Seq(Command) /\ Head(c) \in Command
         /\ 1 \in DOMAIN c /\ Head(c) = c[1]
         /\ \A i \in DOMAIN Tail(c) : i + 1 \in DOMAIN c /\ Tail(c)[i] = c[i + 1]
         /\ Head(c).op = "jobs" =>
              /\ ToSet(Head(c).works) \in SUBSET JobsIn(c)
              /\ JobsIn(Tail(c)) = JobsIn(c) \ ToSet(Head(c).works)
         /\ Head(c).op # "jobs" => JobsIn(Tail(c)) = JobsIn(c)
  <1>1. /\ Tail(c) \in Seq(Command) /\ Head(c) \in Command
        /\ Len(c) \in Nat \ {0} /\ DOMAIN c = 1 .. Len(c)
        /\ Head(c) = c[1] /\ DOMAIN Tail(c) = 1 .. Len(c) - 1
        /\ \A i \in 1 .. Len(c) - 1 : Tail(c)[i] = c[i + 1]
    BY EmptySeq, HeadTailProperties
  <1>2. ToSet(Head(c).works) \in SUBSET Work
    BY <1>1 DEF ToSet, Command
  <1>3. \A w \in JobsIn(Tail(c)) : w \in JobsIn(c)
    BY <1>1 DEF JobsIn
  <1>4. \A w \in JobsIn(c) : w \in JobsIn(Tail(c)) \/ (Head(c).op = "jobs" /\ w \in ToSet(Head(c).works))
    <2> SUFFICES ASSUME NEW w \in JobsIn(c), ~(Head(c).op = "jobs" /\ w \in ToSet(Head(c).works))
                 PROVE  w \in JobsIn(Tail(c))
      OBVIOUS
    <2>1. PICK i \in DOMAIN c : c[i].op = "jobs" /\ w \in ToSet(c[i].works)
      BY DEF JobsIn
    <2>2. i # 1
      BY <1>1, <2>1
    <2>3. i - 1 \in DOMAIN Tail(c) /\ Tail(c)[i - 1] = c[i]
      BY <1>1, <2>2
    <2> QED
      BY <2>1, <2>3 DEF JobsIn
  <1>5. ASSUME Head(c).op = "jobs"
        PROVE  /\ ToSet(Head(c).works) \in SUBSET JobsIn(c)
               /\ ToSet(Head(c).works) \cap JobsIn(Tail(c)) = {}
    <2>1. ToSet(Head(c).works) \in SUBSET JobsIn(c)
      BY <1>1, <1>2, <1>5 DEF JobsIn
    <2>2. \A i \in DOMAIN Tail(c) : Tail(c)[i].op = "jobs" =>
            ToSet(Head(c).works) \cap ToSet(Tail(c)[i].works) = {}
      <3> SUFFICES ASSUME NEW i \in DOMAIN Tail(c), Tail(c)[i].op = "jobs"
                   PROVE  ToSet(Head(c).works) \cap ToSet(Tail(c)[i].works) = {}
        OBVIOUS
      <3>1. i + 1 \in DOMAIN c /\ 1 \in DOMAIN c /\ i + 1 # 1 /\ Tail(c)[i] = c[i + 1]
        BY <1>1
      <3>2. c[1].op = "jobs" /\ c[i + 1].op = "jobs"
        BY <1>1, <1>5, <3>1
      <3> QED
        BY <1>1, <3>1, <3>2
    <2> QED
      BY <2>1, <2>2 DEF JobsIn
  <1>6. 1 \in DOMAIN c /\ \A i \in DOMAIN Tail(c) : i + 1 \in DOMAIN c /\ Tail(c)[i] = c[i + 1]
    BY <1>1
  <1>7. Head(c).op = "jobs" => JobsIn(Tail(c)) = JobsIn(c) \ ToSet(Head(c).works)
    BY <1>3, <1>4, <1>5
  <1>8. Head(c).op # "jobs" => JobsIn(Tail(c)) = JobsIn(c)
    BY <1>3, <1>4
  <1> QED
    BY <1>1, <1>5, <1>6, <1>7, <1>8

-----------------------------------------------------------------------------
(* What steps do to the slots.                                             *)

(* The sets behind the counter are sets of works.                          *)
LEMMA OwingFinite ==
  ASSUME SlotInv
  PROVE  /\ InChannel \in SUBSET Work /\ Reserved \in SUBSET Work /\ held \in SUBSET Work
         /\ IsFiniteSet(Owing) /\ Cardinality(Owing) \in Nat
         /\ accepted_jobs = Cardinality(Owing)
         /\ accepted_jobs <= queue_capacity
         /\ queue_capacity \in Nat
         /\ InChannel \cap held = {} /\ Reserved \cap (InChannel \cup held) = {}
  <1>1. InChannel \in SUBSET Work
    BY DEF InChannel, JobsIn
  <1>2. Reserved \in SUBSET Work
    BY BatchSlots DEF SlotInv, SlotTypes, Reserved
  <1>3. held \in SUBSET Work
    BY DEF SlotInv, SlotTypes
  <1>4. Owing \in SUBSET Work
    BY <1>1, <1>2, <1>3 DEF Owing
  <1>5. Reserved \cap (InChannel \cup held) = {}
    BY DEF SlotInv, BornOnce, Reserved
  <1> QED
    BY <1>1, <1>2, <1>3, <1>4, <1>5, WorksFinite, WorkerAssumption
       DEF SlotInv, OnePlace, SlotsAccounted, Owing

(* A step that leaves the channel, the leases, the attempts and the        *)
(* submission alone keeps the accounts.                                    *)
LEMMA Quiet ==
  ASSUME SlotInv, pc' = "flush_cancel" => pc = "flush_cancel",
         UNCHANGED <<commands, submission, held, attempt, accepted_jobs>>
  PROVE  SlotInv'
  BY DEF SlotInv, SlotTypes, OnePlace, BornOnce, FlushesJobs, SlotsAccounted,
         InChannel, Reserved, JobsIn

(* Releasing a lease gives back one slot if it was held, none otherwise.   *)
LEMMA LeaseFreed ==
  ASSUME SlotInv, NEW w, Release({w}),
         InChannel' = InChannel, Reserved' = Reserved
  PROVE  SlotsAccounted'
  <1>2. held' = held \ {w}
    BY DEF Release
  <1>3. Owing' = IF w \in held THEN Owing \ {w} ELSE Owing
    BY <1>2, OwingFinite DEF Owing
  <1>4. accepted_jobs' = IF w \in held THEN accepted_jobs - 1 ELSE accepted_jobs
    <2>1. CASE w \in held
      <3>1. {w} \cap held = {w}
        BY <2>1
      <3> QED
        BY <2>1, <3>1, FS_Singleton DEF Release
    <2>2. CASE w \notin held
      <3>1. {w} \cap held = {}
        BY <2>2
      <3>2. Cardinality({w} \cap held) = 0
        BY <3>1, FS_EmptySet
      <3>3. accepted_jobs' = accepted_jobs - 0 /\ accepted_jobs \in Nat
        BY <3>2, OwingFinite DEF Release
      <3> QED
        BY <2>2, <3>3
    <2> QED
      BY <2>1, <2>2
  <1>5. accepted_jobs' = Cardinality(Owing') /\ accepted_jobs' <= queue_capacity
    <2>1. CASE w \in held
      <3>1. w \in Owing
        BY <2>1 DEF Owing
      <3>2. Cardinality(Owing \ {w}) = Cardinality(Owing) - 1
        BY <3>1, OwingFinite, FS_RemoveElement
      <3> QED
        BY <1>3, <1>4, <2>1, <3>2, OwingFinite
    <2>2. CASE w \notin held
      BY <1>3, <1>4, <2>2, OwingFinite
    <2> QED
      BY <2>1, <2>2
  <1> QED
    BY <1>5 DEF SlotsAccounted, Owing

(* The release of a lease, with everything else left alone.                *)
LEMMA Freed ==
  ASSUME SlotInv, NEW w, Release({w}),
         pc' = "flush_cancel" => pc = "flush_cancel",
         UNCHANGED <<commands, submission, attempt>>
  PROVE  SlotInv'
  <1>1. InChannel' = InChannel /\ Reserved' = Reserved
    BY DEF InChannel, JobsIn, Reserved
  <1>2. held' = held \ {w}
    BY DEF Release
  <1>3. SlotTypes'
    BY <1>2 DEF SlotInv, SlotTypes
  <1>4. OnePlace' /\ BornOnce' /\ FlushesJobs'
    BY <1>1, <1>2 DEF SlotInv, OnePlace, BornOnce, FlushesJobs
  <1> QED
    BY <1>1, <1>3, <1>4, LeaseFreed DEF SlotInv

(* A handler of the actor that moves attempts on, and may begin to submit  *)
(* a batch without attempts, keeps the accounts.                           *)
LEMMA AttemptsMove ==
  ASSUME SlotInv, submission.step = "idle",
         UNCHANGED <<commands, held, accepted_jobs, pc>>,
         attempt' \in [Work -> {"unborn", "queued", "running", "closed"}],
         \A w \in Work : attempt[w] # "unborn" => attempt'[w] # "unborn",
         \/ submission' = submission
         \/ \E b \in Batches : \E r \in SUBSET Work : \E ok \in BOOLEAN :
              /\ submission' = Submission(b, r, ok)
              /\ \A w \in ToSet(b) : attempt'[w] = "unborn"
  PROVE  SlotInv'
  <1>1. /\ submission' \in SubmissionType
        /\ submission'.step \in {"idle", "reserve"}
        /\ submission'.step # "idle" => submission'.batch \in Batches
        /\ submission'.step # "idle" => \A w \in ToSet(submission'.batch) : attempt'[w] = "unborn"
    <2>1. CASE submission' = submission
      BY <2>1 DEF SlotInv, SlotTypes
    <2>2. CASE \E b \in Batches : \E r \in SUBSET Work : \E ok \in BOOLEAN :
                 /\ submission' = Submission(b, r, ok)
                 /\ \A w \in ToSet(b) : attempt'[w] = "unborn"
      BY <2>2, BatchSlots DEF Submission, SubmissionType
    <2> QED
      BY <2>1, <2>2
  <1>2. Reserved = {} /\ Reserved' = {} /\ InChannel' = InChannel /\ held' = held
    BY <1>1 DEF Reserved, InChannel, JobsIn
  <1>3. InChannel \cup held \in SUBSET Work
    BY OwingFinite
  <1>4. SlotTypes'
    BY <1>1 DEF SlotInv, SlotTypes
  <1>5. OnePlace' /\ FlushesJobs' /\ SlotsAccounted'
    BY <1>2 DEF SlotInv, OnePlace, FlushesJobs, SlotsAccounted
  <1>6. BornOnce'
    BY <1>1, <1>2, <1>3 DEF SlotInv, BornOnce
  <1> QED
    BY <1>4, <1>5, <1>6 DEF SlotInv

(* Taking the first command out of the channel: its jobs get leases, so    *)
(* they owe their slot in another way; a cancellation releases a lease.    *)
LEMMA CommandHandled ==
  ASSUME SlotInv, commands # <<>>, handle_worker_command,
         UNCHANGED <<submission, attempt>>, pc' # "flush_cancel"
  PROVE  SlotInv'
  <1> DEFINE first == Head(commands)
  <1>1. /\ commands' = Tail(commands)
        /\ \/ first.op = "jobs" /\ enqueue_command(first.works)
           \/ first.op = "cancel" /\ CancelQueuedOrRunning(Head(first.works))
    BY DEF handle_worker_command
  <1>2. commands \in Seq(Command) /\ commands' \in Seq(Command) /\ first \in Command
    BY <1>1, ChannelTail DEF SlotInv, SlotTypes, OnePlace
  <1>3. /\ 1 \in DOMAIN commands /\ first = commands[1]
        /\ \A i \in DOMAIN commands' : i + 1 \in DOMAIN commands /\ commands'[i] = commands[i + 1]
        /\ DOMAIN commands' \subseteq Nat /\ DOMAIN commands \subseteq Nat
    BY <1>1, <1>2, ChannelTail DEF SlotInv, SlotTypes, OnePlace
  <1>4. /\ first.op = "jobs" => /\ ToSet(first.works) \in SUBSET InChannel
                                /\ InChannel' = InChannel \ ToSet(first.works)
        /\ first.op # "jobs" => InChannel' = InChannel
    BY <1>1, <1>2, ChannelTail DEF SlotInv, OnePlace, InChannel
  <1>5. Reserved' = Reserved
    BY DEF Reserved
  <1>6. \A i \in DOMAIN commands' : commands'[i].op = "jobs" => commands'[i].works \in Batches
    BY <1>3 DEF SlotInv, SlotTypes
  <1>7. \A i, j \in DOMAIN commands' :
          i # j /\ commands'[i].op = "jobs" /\ commands'[j].op = "jobs" =>
            ToSet(commands'[i].works) \cap ToSet(commands'[j].works) = {}
    <2> SUFFICES ASSUME NEW i \in DOMAIN commands', NEW j \in DOMAIN commands', i # j,
                        commands'[i].op = "jobs", commands'[j].op = "jobs"
                 PROVE  ToSet(commands'[i].works) \cap ToSet(commands'[j].works) = {}
      OBVIOUS
    <2>1. i + 1 # j + 1
      BY <1>3
    <2> QED
      BY <1>3, <2>1 DEF SlotInv, OnePlace
  <1>8. CASE first.op = "jobs"
    <2>1. held' = held \cup ToSet(first.works) /\ accepted_jobs' = accepted_jobs
      BY <1>1, <1>8 DEF enqueue_command
    <2>2. Owing' = Owing
      BY <1>4, <1>5, <1>8, <2>1 DEF Owing
    <2>3. held' \in SUBSET Work
      BY <1>4, <1>8, <2>1, OwingFinite
    <2>4. InChannel' \cap held' = {} /\ InChannel' \cup held' = InChannel \cup held
      BY <1>4, <1>8, <2>1, OwingFinite
    <2>5. SlotTypes'
      BY <1>2, <1>6, <2>3 DEF SlotInv, SlotTypes
    <2>6. OnePlace'
      BY <1>7, <2>4 DEF OnePlace
    <2>7. BornOnce'
      BY <2>4 DEF SlotInv, BornOnce
    <2>8. SlotsAccounted'
      BY <2>1, <2>2, OwingFinite DEF SlotsAccounted, Owing
    <2> QED
      BY <2>5, <2>6, <2>7, <2>8 DEF SlotInv, FlushesJobs
  <1>9. CASE first.op = "cancel"
    <2> DEFINE w == Head(first.works)
    <2>2. CancelQueuedOrRunning(w)
      BY <1>1, <1>9
    <2>3. \/ Release({w})
          \/ held' = held /\ accepted_jobs' = accepted_jobs
      BY <2>2 DEF CancelQueuedOrRunning, KeepLeases
    <2>4. InChannel' = InChannel
      BY <1>4, <1>9
    <2>5. CASE held' = held /\ accepted_jobs' = accepted_jobs
      <3>1. SlotTypes' /\ OnePlace' /\ BornOnce' /\ SlotsAccounted'
        BY <1>2, <1>5, <1>6, <1>7, <2>4, <2>5
           DEF SlotInv, SlotTypes, OnePlace, BornOnce, SlotsAccounted
      <3> QED
        BY <3>1 DEF SlotInv, FlushesJobs
    <2>6. CASE Release({w})
      <3>1. held' = held \ {w}
        BY <2>6 DEF Release
      <3>2. SlotTypes' /\ OnePlace' /\ BornOnce'
        BY <1>2, <1>6, <1>7, <2>4, <3>1 DEF SlotInv, SlotTypes, OnePlace, BornOnce
      <3>3. SlotsAccounted'
        BY <1>5, <2>4, <2>6, LeaseFreed
      <3> QED
        BY <3>2, <3>3 DEF SlotInv, FlushesJobs
    <2> QED
      BY <2>3, <2>5, <2>6
  <1> QED
    BY <1>1, <1>8, <1>9

-----------------------------------------------------------------------------
(* The steps of the actor.                                                 *)

LEMMA InitSlots == Init => SlotInv
  <1> SUFFICES ASSUME Init PROVE SlotInv
    OBVIOUS
  <1>1. InChannel = {} /\ Reserved = {} /\ held = {}
    BY DEF Init, InChannel, JobsIn, Reserved, NoSubmission
  <1>2. SlotsAccounted
    BY <1>1, FS_EmptySet, WorkerAssumption DEF SlotsAccounted, Init
  <1>3. SlotTypes
    BY DEF Init, SlotTypes, NoSubmission, SubmissionType
  <1>4. OnePlace /\ BornOnce /\ FlushesJobs
    BY <1>1 DEF Init, OnePlace, BornOnce, FlushesJobs, NoSubmission
  <1> QED
    BY <1>2, <1>3, <1>4 DEF SlotInv

(* Slots that are given back together are those of a part of what is owed. *)
LEMMA SlotsReturned ==
  ASSUME SlotInv, NEW b \in Batches, ToSet(b) \subseteq Owing,
         accepted_jobs' = accepted_jobs - Len(b), Owing' = Owing \ ToSet(b)
  PROVE  SlotsAccounted'
  <1>1. Cardinality(Owing \ ToSet(b)) = Cardinality(Owing) - Cardinality(Owing \cap ToSet(b))
    BY OwingFinite, FS_Difference
  <1>2. Owing \cap ToSet(b) = ToSet(b)
    OBVIOUS
  <1>3. accepted_jobs' = Cardinality(Owing')
    BY <1>1, <1>2, BatchSlots, OwingFinite
  <1> QED
    BY <1>3, BatchSlots, OwingFinite DEF SlotsAccounted, Owing

(* The handler ends without having sent: nothing is reserved any longer.   *)
LEMMA SubmissionEnds ==
  ASSUME SlotInv, submission.step # "idle", EndSubmission,
         UNCHANGED <<commands, held, attempt, pc>>, SlotsAccounted'
  PROVE  SlotInv'
  <1>1. submission' = NoSubmission /\ InChannel' = InChannel
    BY DEF EndSubmission, InChannel, JobsIn
  <1>2. SlotTypes'
    BY <1>1 DEF SlotInv, SlotTypes, NoSubmission, SubmissionType
  <1>3. OnePlace' /\ BornOnce' /\ FlushesJobs'
    BY <1>1 DEF SlotInv, OnePlace, BornOnce, FlushesJobs, NoSubmission
  <1> QED
    BY <1>2, <1>3 DEF SlotInv

LEMMA ReserveStep == SlotInv /\ Reserve => SlotInv'
  <1> SUFFICES ASSUME SlotInv, Reserve PROVE SlotInv'
    OBVIOUS
  <1> DEFINE b == submission.batch
  <1>1. /\ submission.step = "reserve" /\ b \in Batches
        /\ UNCHANGED <<commands, held, attempt, pc>>
    BY DEF Reserve, SlotInv, SlotTypes, loop_vars
  <1>2. Reserved = {} /\ InChannel' = InChannel /\ held' = held
    BY <1>1 DEF Reserved, InChannel, JobsIn
  <1>3. CASE /\ accepted_jobs + Len(b) <= queue_capacity
             /\ accepted_jobs' = accepted_jobs + Len(b)
             /\ submission' = [submission EXCEPT !.step = "check"]
    <2>1. /\ submission' \in SubmissionType /\ submission'.step = "check"
          /\ submission'.batch = b
      BY <1>3 DEF SlotInv, SlotTypes, SubmissionType
    <2>2. Reserved' = ToSet(b) /\ Owing' = Owing \cup ToSet(b)
      BY <1>2, <2>1 DEF Reserved, Owing
    <2>3. ToSet(b) \cap Owing = {}
      BY <1>1, <1>2 DEF SlotInv, BornOnce, Owing
    <2>4. Cardinality(Owing') = Cardinality(Owing) + Len(b)
      <3>1. Cardinality(Owing \cup ToSet(b)) =
              Cardinality(Owing) + Cardinality(ToSet(b)) - Cardinality(Owing \cap ToSet(b))
        BY <1>1, OwingFinite, BatchSlots, FS_Union
      <3>2. Cardinality(Owing \cap ToSet(b)) = 0
        BY <2>3, FS_EmptySet
      <3> QED
        BY <1>1, <2>2, <3>1, <3>2, OwingFinite, BatchSlots
    <2>5. SlotsAccounted'
      BY <1>1, <1>3, <2>4, OwingFinite, BatchSlots DEF SlotsAccounted, Owing
    <2>6. SlotTypes'
      BY <1>1, <2>1 DEF SlotInv, SlotTypes
    <2>7. OnePlace' /\ BornOnce' /\ FlushesJobs'
      BY <1>1, <1>2, <2>1 DEF SlotInv, OnePlace, BornOnce, FlushesJobs
    <2> QED
      BY <2>5, <2>6, <2>7 DEF SlotInv
  <1>4. CASE EndSubmission /\ UNCHANGED accepted_jobs
    <2>1. Reserved' = {}
      BY <1>4 DEF EndSubmission, Reserved, NoSubmission
    <2>2. SlotsAccounted'
      BY <1>2, <1>4, <2>1 DEF SlotInv, SlotsAccounted
    <2> QED
      BY <1>1, <1>4, <2>2, SubmissionEnds
  <1> QED
    BY <1>3, <1>4 DEF Reserve

(* A reservation that is not sent is returned in full.                     *)
LEMMA ReservationReturned ==
  ASSUME SlotInv, submission.step \in {"check", "send"}, EndSubmission,
         accepted_jobs' = accepted_jobs - Len(submission.batch),
         UNCHANGED <<commands, held, attempt, pc>>
  PROVE  SlotInv'
  <1> DEFINE b == submission.batch
  <1>1. b \in Batches /\ Reserved = ToSet(b)
    BY DEF SlotInv, SlotTypes, Reserved
  <1>2. Reserved' = {} /\ InChannel' = InChannel
    BY DEF EndSubmission, Reserved, NoSubmission, InChannel, JobsIn
  <1>3. Owing' = Owing \ ToSet(b) /\ ToSet(b) \subseteq Owing
    BY <1>1, <1>2, OwingFinite DEF Owing
  <1>4. SlotsAccounted'
    BY <1>1, <1>3, SlotsReturned
  <1> QED
    BY <1>4, SubmissionEnds

LEMMA CheckShutdownStep == SlotInv /\ CheckShutdown => SlotInv'
  <1> SUFFICES ASSUME SlotInv, CheckShutdown PROVE SlotInv'
    OBVIOUS
  <1>1. submission.step = "check" /\ UNCHANGED <<commands, held, attempt, pc>>
    BY DEF CheckShutdown, loop_vars
  <1>2. CASE submission' = [submission EXCEPT !.step = "send"] /\ UNCHANGED accepted_jobs
    <2>1. /\ submission' \in SubmissionType /\ submission'.step = "send"
          /\ submission'.batch = submission.batch
      BY <1>2 DEF SlotInv, SlotTypes, SubmissionType
    <2>2. Reserved' = Reserved /\ InChannel' = InChannel
      BY <1>1, <2>1 DEF Reserved, InChannel, JobsIn
    <2>3. SlotTypes'
      BY <1>1, <2>1 DEF SlotInv, SlotTypes
    <2>4. OnePlace' /\ BornOnce' /\ FlushesJobs' /\ SlotsAccounted'
      BY <1>1, <1>2, <2>1, <2>2 DEF SlotInv, OnePlace, BornOnce, FlushesJobs, SlotsAccounted
    <2> QED
      BY <2>3, <2>4 DEF SlotInv
  <1>3. CASE EndSubmission /\ accepted_jobs' = accepted_jobs - Len(submission.batch)
    BY <1>1, <1>3, ReservationReturned
  <1> QED
    BY <1>2, <1>3 DEF CheckShutdown

(* What is sent moves from the reservation to the channel.                 *)
LEMMA SendStep == SlotInv /\ Send => SlotInv'
  <1> SUFFICES ASSUME SlotInv, Send PROVE SlotInv'
    OBVIOUS
  <1> DEFINE b == submission.batch
  <1>1. /\ submission.step = "send" /\ EndSubmission /\ UNCHANGED <<held, pc>>
        /\ submission' = NoSubmission
    BY DEF Send, loop_vars, EndSubmission
  <1>2. CASE accepted_jobs' = accepted_jobs - Len(b) /\ UNCHANGED <<commands, attempt>>
    BY <1>1, <1>2, ReservationReturned
  <1>3. CASE /\ ~ReceiverClosed /\ commands' = Append(commands, Jobs(b))
             /\ attempt' = [w \in Work |-> IF w \in ToSet(b) THEN "queued" ELSE attempt[w]]
             /\ UNCHANGED accepted_jobs
    <2>1. b \in Batches /\ Reserved = ToSet(b) /\ b \in Seq(Work) /\ ToSet(b) \in SUBSET Work
      BY <1>1, BatchSlots DEF SlotInv, SlotTypes, Reserved
    <2>2. Jobs(b) \in Command /\ Jobs(b).op = "jobs" /\ Jobs(b).works = b
      BY <2>1 DEF Jobs, Command
    <2>3. commands \in Seq(Command)
      BY DEF SlotInv, SlotTypes
    <2>4. commands' \in Seq(Command) /\ InChannel' = InChannel \cup ToSet(b)
      BY <1>3, <2>2, <2>3, ChannelAppend DEF InChannel
    <2>5. /\ DOMAIN commands' = DOMAIN commands \cup {Len(commands) + 1}
          /\ Len(commands) + 1 \notin DOMAIN commands
          /\ commands'[Len(commands) + 1] = Jobs(b)
          /\ \A i \in DOMAIN commands : commands'[i] = commands[i]
      BY <1>3, <2>2, <2>3
    <2>6. Reserved' = {} /\ Owing' = Owing
      BY <1>1, <2>1, <2>4 DEF Reserved, NoSubmission, Owing
    <2>7. ToSet(b) \cap (InChannel \cup held) = {}
      BY <2>1, OwingFinite
    <2>8. SlotTypes'
      <3>1. attempt' \in [Work -> {"unborn", "queued", "running", "closed"}]
        BY <1>3 DEF SlotInv, SlotTypes
      <3>2. \A i \in DOMAIN commands' : commands'[i].op = "jobs" => commands'[i].works \in Batches
        BY <2>1, <2>2, <2>5 DEF SlotInv, SlotTypes
      <3>3. NoSubmission \in SubmissionType /\ NoSubmission.step = "idle"
        BY DEF NoSubmission, SubmissionType
      <3> QED
        BY <1>1, <2>4, <3>1, <3>2, <3>3 DEF SlotInv, SlotTypes
    <2>9. OnePlace'
      <3>1. \A i \in DOMAIN commands : commands[i].op = "jobs" =>
              ToSet(commands[i].works) \cap ToSet(b) = {}
        <4> SUFFICES ASSUME NEW i \in DOMAIN commands, commands[i].op = "jobs"
                     PROVE  ToSet(commands[i].works) \cap ToSet(b) = {}
          OBVIOUS
        <4>1. ToSet(commands[i].works) \subseteq InChannel
          BY BatchSlots DEF SlotInv, SlotTypes, InChannel, JobsIn
        <4> QED
          BY <2>7, <4>1
      <3>2. \A i, j \in DOMAIN commands' :
              i # j /\ commands'[i].op = "jobs" /\ commands'[j].op = "jobs" =>
                ToSet(commands'[i].works) \cap ToSet(commands'[j].works) = {}
        BY <2>2, <2>5, <3>1 DEF SlotInv, OnePlace
      <3>3. InChannel' \cap held' = {}
        BY <1>1, <2>4, <2>7, OwingFinite
      <3> QED
        BY <3>2, <3>3 DEF OnePlace
    <2>10. BornOnce'
      <3>1. \A w \in Work : attempt'[w] = IF w \in ToSet(b) THEN "queued" ELSE attempt[w]
        BY <1>3
      <3>2. InChannel' \cup held' \in SUBSET Work
        BY <1>1, <2>1, <2>4, OwingFinite
      <3>3. \A w \in InChannel' \cup held' : attempt'[w] # "unborn"
        BY <1>1, <2>4, <3>1, <3>2 DEF SlotInv, BornOnce
      <3> QED
        BY <1>1, <3>3 DEF BornOnce, NoSubmission
    <2>11. FlushesJobs'
      BY <1>1, <1>3 DEF FlushesJobs, ReceiverClosed
    <2>12. SlotsAccounted'
      BY <1>3, <2>6, OwingFinite DEF SlotsAccounted, Owing
    <2> QED
      BY <2>8, <2>9, <2>10, <2>11, <2>12 DEF SlotInv
  <1> QED
    BY <1>2, <1>3 DEF Send

(* A detached work is cancelled through the channel, which carries no job  *)
(* for it.                                                                 *)
LEMMA DetachStep ==
  ASSUME SlotInv, NEW w \in Work, Detach(w)
  PROVE  SlotInv'
  <1>1. /\ submission.step = "idle" /\ attempt' = [attempt EXCEPT ![w] = "closed"]
        /\ UNCHANGED <<held, accepted_jobs, pc, submission>>
    BY DEF Detach, Idle, loop_vars
  <1>2. /\ attempt' \in [Work -> {"unborn", "queued", "running", "closed"}]
        /\ \A v \in Work : attempt[v] # "unborn" => attempt'[v] # "unborn"
    BY <1>1 DEF SlotInv, SlotTypes
  <1>3. CASE commands' = commands
    BY <1>1, <1>2, <1>3, AttemptsMove
  <1>4. CASE ~ReceiverClosed /\ commands' = Append(commands, Cancel(w))
    <2>1. Cancel(w) \in Command /\ Cancel(w).op = "cancel"
      BY DEF Cancel, Command
    <2>2. commands \in Seq(Command)
      BY DEF SlotInv, SlotTypes
    <2>3. commands' \in Seq(Command) /\ InChannel' = InChannel
      BY <1>4, <2>1, <2>2, ChannelAppend DEF InChannel
    <2>4. /\ DOMAIN commands' = DOMAIN commands \cup {Len(commands) + 1}
          /\ commands'[Len(commands) + 1].op = "cancel"
          /\ \A i \in DOMAIN commands : commands'[i] = commands[i]
      BY <1>4, <2>1, <2>2
    <2>5. Reserved' = Reserved
      BY <1>1 DEF Reserved
    <2>6. SlotTypes'
      BY <1>1, <1>2, <2>3, <2>4 DEF SlotInv, SlotTypes
    <2>7. OnePlace'
      BY <1>1, <2>3, <2>4 DEF SlotInv, OnePlace
    <2>8. BornOnce'
      <3>1. InChannel \cup held \in SUBSET Work
        BY OwingFinite
      <3> QED
        BY <1>1, <1>2, <2>3, <3>1 DEF SlotInv, BornOnce
    <2>9. FlushesJobs'
      BY <1>1, <1>4 DEF FlushesJobs, ReceiverClosed
    <2>10. SlotsAccounted'
      BY <1>1, <2>3, <2>5 DEF SlotInv, SlotsAccounted
    <2> QED
      BY <2>6, <2>7, <2>8, <2>9, <2>10 DEF SlotInv
  <1> QED
    BY <1>3, <1>4 DEF Detach

(* A handler of the control queue moves one attempt on and may begin to    *)
(* submit a batch that has none.                                           *)
LEMMA HandleControlStep ==
  ASSUME SlotInv, NEW w \in Work, HandleControl(w)
  PROVE  SlotInv'
  <1> DEFINE msg == Head(mail[w])
  <1>1. submission.step = "idle" /\ UNCHANGED <<commands, held, accepted_jobs, pc>>
    BY DEF HandleControl, Idle, shared_vars, loop_vars
  <1>2. attempt \in [Work -> {"unborn", "queued", "running", "closed"}]
    BY DEF SlotInv, SlotTypes
  <1>3. CASE /\ submission' = submission
             /\ \/ attempt' = attempt
                \/ attempt' = [attempt EXCEPT ![w] = "running"]
                \/ attempt' = [attempt EXCEPT ![w] = "queued"]
                \/ attempt' = [attempt EXCEPT ![w] = "closed"]
    <2>1. /\ attempt' \in [Work -> {"unborn", "queued", "running", "closed"}]
          /\ \A v \in Work : attempt[v] # "unborn" => attempt'[v] # "unborn"
      BY <1>2, <1>3
    <2> QED
      BY <1>1, <1>3, <2>1, AttemptsMove
  <1>4. CASE \E ok \in BOOLEAN : Open(w) /\ CloseAttempt(w, msg, ok)
    <2>1. PICK ok \in BOOLEAN : Open(w) /\ CloseAttempt(w, msg, ok)
      BY <1>4
    <2>2. attempt[w] # "unborn" /\ attempt' = [attempt EXCEPT ![w] = "closed"]
      BY <2>1 DEF Open, CloseAttempt
    <2>3. /\ attempt' \in [Work -> {"unborn", "queued", "running", "closed"}]
          /\ \A v \in Work : attempt[v] # "unborn" => attempt'[v] # "unborn"
      BY <1>2, <2>2
    <2>4. CASE submission' = submission
      BY <1>1, <2>3, <2>4, AttemptsMove
    <2>5. CASE \E b \in Unborn : submission' = Submission(b, IF AwaitsAnswer(w, msg.op) THEN {w} ELSE {}, ok)
      <3>1. PICK b \in Unborn : submission' = Submission(b, IF AwaitsAnswer(w, msg.op) THEN {w} ELSE {}, ok)
        BY <2>5
      <3>2. b \in Batches /\ ToSet(b) \in SUBSET Work /\ \A v \in ToSet(b) : attempt[v] = "unborn"
        BY BatchSlots DEF Unborn, ToSet
      <3>3. \A v \in ToSet(b) : attempt'[v] = "unborn"
        BY <1>2, <2>2, <3>2
      <3>4. (IF AwaitsAnswer(w, msg.op) THEN {w} ELSE {}) \in SUBSET Work
        OBVIOUS
      <3> QED
        BY <1>1, <2>1, <2>3, <3>1, <3>2, <3>3, <3>4, AttemptsMove
    <2> QED
      BY <2>1, <2>4, <2>5 DEF CloseAttempt
  <1>5. \/ StartRound(w, msg)
        \/ ReportRound(w, msg)
        \/ CommitWork(w, msg)
        \/ FailWork(w, msg)
        \/ CancelScheduled(w, msg)
    BY DEF HandleControl
  <1>6. CASE StartRound(w, msg)
    BY <1>3, <1>6 DEF StartRound
  <1>7. CASE ReportRound(w, msg)
    BY <1>3, <1>7 DEF ReportRound
  <1>8. CASE CommitWork(w, msg)
    BY <1>3, <1>4, <1>8 DEF CommitWork, Refuse
  <1>9. CASE FailWork(w, msg)
    BY <1>3, <1>4, <1>9 DEF FailWork, Refuse
  <1>10. CASE CancelScheduled(w, msg)
    BY <1>3, <1>10 DEF CancelScheduled
  <1> QED
    BY <1>5, <1>6, <1>7, <1>8, <1>9, <1>10

LEMMA ActorSlots == SlotInv /\ Actor => SlotInv'
  <1> SUFFICES ASSUME SlotInv, Actor PROVE SlotInv'
    OBVIOUS
  <1>1. CASE ActorStops
    BY <1>1, Quiet DEF ActorStops, loop_vars
  <1>2. ASSUME NEW w \in Work, ControlClosed(w) PROVE SlotInv'
    BY <1>2, Quiet DEF ControlClosed, shared_vars, loop_vars, actor_vars
  <1> QED
    BY <1>1, <1>2, ReserveStep, CheckShutdownStep, SendStep, HandleControlStep DEF Actor

LEMMA RequestSlots == SlotInv /\ Requests => SlotInv'
  <1> SUFFICES ASSUME SlotInv, Requests PROVE SlotInv'
    OBVIOUS
  <1>1. CASE WorkerShutdown
    BY <1>1, Quiet DEF WorkerShutdown, loop_vars, actor_vars
  <1>2. CASE RuntimeShutdown
    BY <1>2, Quiet DEF RuntimeShutdown, shared_vars, loop_vars
  <1>3. ASSUME NEW b \in Batches, Submit(b) PROVE SlotInv'
    <2>1. /\ submission.step = "idle" /\ submission' = Submission(b, {}, FALSE)
          /\ UNCHANGED <<commands, held, accepted_jobs, pc, attempt>>
      BY <1>3 DEF Submit, Idle, shared_vars, loop_vars
    <2>2. \A w \in ToSet(b) : attempt'[w] = "unborn"
      BY <1>3, <2>1 DEF Submit, Unborn, ToSet
    <2>3. attempt' \in [Work -> {"unborn", "queued", "running", "closed"}]
      BY <2>1 DEF SlotInv, SlotTypes
    <2>4. {} \in SUBSET Work /\ FALSE \in BOOLEAN
      OBVIOUS
    <2> QED
      BY <2>1, <2>2, <2>3, <2>4, AttemptsMove
  <1>4. ASSUME NEW w \in Work, CancelWork(w) PROVE SlotInv'
    <2>1. /\ submission.step = "idle" /\ attempt' = [attempt EXCEPT ![w] = "closed"]
          /\ UNCHANGED <<commands, held, accepted_jobs, pc, submission>>
      BY <1>4 DEF CancelWork, Idle, shared_vars, loop_vars
    <2>2. /\ attempt' \in [Work -> {"unborn", "queued", "running", "closed"}]
          /\ \A v \in Work : attempt[v] # "unborn" => attempt'[v] # "unborn"
      BY <2>1 DEF SlotInv, SlotTypes
    <2> QED
      BY <2>1, <2>2, AttemptsMove
  <1> QED
    BY <1>1, <1>2, <1>3, <1>4, DetachStep DEF Requests

-----------------------------------------------------------------------------
(* The steps of the children and of the loop.                              *)

LEMMA ChildSlots ==
  ASSUME SlotInv, NEW w \in Work, Child(w)
  PROVE  SlotInv'
  <1>1. UNCHANGED <<commands, submission, attempt, pc>>
    BY DEF Child, BeginQuantum, ShutdownBeforeStart, FetchRound, Resume, Killed,
           child_frame, actor_vars
  <1>2. KeepLeases \/ Release({w})
    BY DEF Child, BeginQuantum, ShutdownBeforeStart, FetchRound, Resume, Killed, CommitPrepared
  <1>3. CASE KeepLeases
    BY <1>1, <1>3, Quiet DEF KeepLeases
  <1>4. CASE Release({w})
    BY <1>1, <1>4, Freed
  <1> QED
    BY <1>2, <1>3, <1>4

(* The last cancellation of a command returns the slots of the command.    *)
LEMMA LoopCancelledStep == SlotInv /\ LoopCancelled => SlotInv'
  <1> SUFFICES ASSUME SlotInv, LoopCancelled PROVE SlotInv'
    OBVIOUS
  <1>1. UNCHANGED <<submission, attempt>>
    BY DEF LoopCancelled, loop_frame, actor_vars
  <1>2. CASE KeepLeases /\ UNCHANGED <<pc, commands>>
    BY <1>1, <1>2, Quiet DEF KeepLeases
  <1>3. CASE /\ pc = "flush_cancel" /\ pc' = "flush"
             /\ accepted_jobs' = accepted_jobs - Len(Head(commands).works)
             /\ commands' = Tail(commands) /\ UNCHANGED held
    <2> DEFINE b == Head(commands).works
    <2>1. commands \in Seq(Command) /\ commands # <<>> /\ Head(commands).op = "jobs"
      BY <1>3 DEF SlotInv, SlotTypes, FlushesJobs
    <2>2. /\ commands' \in Seq(Command)
          /\ 1 \in DOMAIN commands /\ Head(commands) = commands[1]
          /\ \A i \in DOMAIN commands' : i + 1 \in DOMAIN commands /\ commands'[i] = commands[i + 1]
          /\ ToSet(b) \in SUBSET InChannel /\ InChannel' = InChannel \ ToSet(b)
      BY <1>3, <2>1, ChannelTail DEF SlotInv, OnePlace, InChannel
    <2>3. b \in Batches
      BY <2>1, <2>2 DEF SlotInv, SlotTypes
    <2>4. Reserved' = Reserved /\ held' = held
      BY <1>1, <1>3 DEF Reserved
    <2>5. Owing' = Owing \ ToSet(b) /\ ToSet(b) \subseteq Owing
      BY <2>2, <2>4, OwingFinite DEF Owing
    <2>6. SlotsAccounted'
      BY <1>3, <2>3, <2>5, SlotsReturned
    <2>7. SlotTypes'
      BY <1>1, <1>3, <2>2 DEF SlotInv, SlotTypes
    <2>8. OnePlace'
      <3>1. DOMAIN commands' \subseteq Nat
        BY <2>2
      <3>2. \A i, j \in DOMAIN commands' : i # j => i + 1 # j + 1
        BY <3>1
      <3> QED
        BY <2>2, <2>4, <3>2 DEF SlotInv, OnePlace
    <2>9. BornOnce' /\ FlushesJobs'
      BY <1>1, <1>3, <2>2, <2>4 DEF SlotInv, BornOnce, FlushesJobs
    <2> QED
      BY <2>6, <2>7, <2>8, <2>9 DEF SlotInv
  <1>4. CASE /\ pc' \in {"top", "drop", "join"} /\ UNCHANGED commands
             /\ Release({Head(flushing)})
    BY <1>1, <1>4, Freed
  <1> QED
    BY <1>2, <1>3, <1>4 DEF LoopCancelled

LEMMA LoopSlots == SlotInv /\ Loop => SlotInv'
  <1> SUFFICES ASSUME SlotInv, Loop PROVE SlotInv'
    OBVIOUS
  <1> USE DEF loop_frame, actor_vars, KeepLeases
  <1>1. CASE LoopTop \/ SpawnQuantum \/ SelectShutdown \/ DropQueued \/ Stop \/ LoopAsks
    BY <1>1, Quiet DEF LoopTop, SpawnQuantum, SelectShutdown, DropQueued, Stop, LoopAsks
  <1>2. CASE DrainCommands
    <2>1. CASE commands # <<>> /\ handle_worker_command
      BY <1>2, <2>1, CommandHandled DEF DrainCommands
    <2>2. CASE UNCHANGED <<commands, held, accepted_jobs>> /\ pc' = "dispatch"
      BY <1>2, <2>2, Quiet DEF DrainCommands
    <2> QED
      BY <1>2, <2>1, <2>2 DEF DrainCommands
  <1>3. CASE SelectCommand
    BY <1>3, CommandHandled DEF SelectCommand
  <1>4. CASE FlushCommands
    <2>1. CASE pc' = "drop" /\ UNCHANGED commands
      BY <1>4, <2>1, Quiet DEF FlushCommands
    <2>2. CASE /\ commands # <<>> /\ Head(commands).op = "cancel"
               /\ commands' = Tail(commands) /\ UNCHANGED pc
      <3>1. /\ commands' \in Seq(Command) /\ InChannel' = InChannel
            /\ \A i \in DOMAIN commands' : i + 1 \in DOMAIN commands /\ commands'[i] = commands[i + 1]
        BY <2>2, ChannelTail DEF SlotInv, SlotTypes, OnePlace, InChannel
      <3>2. UNCHANGED <<submission, attempt, held, accepted_jobs>> /\ pc' # "flush_cancel"
        BY <1>4, <2>2 DEF FlushCommands
      <3>3. SlotTypes'
        BY <3>1, <3>2 DEF SlotInv, SlotTypes
      <3>4. OnePlace'
        <4>1. DOMAIN commands' \subseteq Nat
          BY <3>1
        <4>2. \A i, j \in DOMAIN commands' : i # j => i + 1 # j + 1
          BY <4>1
        <4> QED
          BY <3>1, <3>2, <4>2 DEF SlotInv, OnePlace
      <3>5. BornOnce' /\ FlushesJobs' /\ SlotsAccounted'
        BY <3>1, <3>2 DEF SlotInv, BornOnce, FlushesJobs, SlotsAccounted, Reserved
      <3> QED
        BY <3>3, <3>4, <3>5 DEF SlotInv
    <2>3. CASE commands # <<>> /\ Head(commands).op = "jobs" /\ UNCHANGED commands
      <3>1. UNCHANGED <<commands, submission, attempt, held, accepted_jobs>>
        BY <1>4, <2>3 DEF FlushCommands
      <3> QED
        BY <2>3, <3>1 DEF SlotInv, SlotTypes, OnePlace, BornOnce, FlushesJobs,
                          SlotsAccounted, InChannel, Reserved, JobsIn
    <2> QED
      BY <1>4, <2>1, <2>2, <2>3 DEF FlushCommands
  <1>5. ASSUME NEW w \in Work, JoinChild(w) PROVE SlotInv'
    <2>1. UNCHANGED <<commands, submission, attempt>> /\ pc' # "flush_cancel"
      BY <1>5 DEF JoinChild
    <2>2. Release({w}) \/ UNCHANGED <<held, accepted_jobs>>
      BY <1>5 DEF JoinChild
    <2> QED
      BY <2>1, <2>2, Quiet, Freed
  <1>6. ASSUME NEW w \in Work, JoinClosing(w) PROVE SlotInv'
    <2>1. UNCHANGED <<commands, submission, attempt>> /\ pc' # "flush_cancel"
      BY <1>6 DEF JoinClosing
    <2>2. Release({w}) \/ UNCHANGED <<held, accepted_jobs>>
      BY <1>6 DEF JoinClosing
    <2> QED
      BY <2>1, <2>2, Quiet, Freed
  <1> QED
    BY <1>1, <1>2, <1>3, <1>4, <1>5, <1>6, LoopCancelledStep DEF Loop

(* The accounts behind SlotsAccounted are kept by every step: each slot    *)
(* that submit_command admits is in one place until it is released.        *)
THEOREM SlotInvariance == Spec => []SlotInv
  <1>1. SlotInv /\ [Next]_vars => SlotInv'
    <2> SUFFICES ASSUME SlotInv, [Next]_vars PROVE SlotInv'
      OBVIOUS
    <2>1. CASE UNCHANGED vars
      BY <2>1, Quiet DEF vars, shared_vars, loop_vars, actor_vars
    <2>2. CASE Next
      BY <2>2, ActorSlots, RequestSlots, ChildSlots, LoopSlots DEF Next
    <2> QED
      BY <2>1, <2>2
  <1> QED
    BY <1>1, InitSlots, PTL DEF Spec

(* The admission counter of every worker, whatever its capacity and the    *)
(* work it is given, is the number of jobs reserved, in the channel or     *)
(* under a lease: submit_command, AdmissionLease::release and the closing  *)
(* loop free each slot exactly once.                                       *)
THEOREM SlotsAreAccounted == Spec => []SlotsAccounted
  <1>1. SlotInv => SlotsAccounted
    BY DEF SlotInv
  <1> QED
    BY <1>1, SlotInvariance, PTL

-----------------------------------------------------------------------------
(* Least elements, which stand in for induction.                           *)

LEMMA LeastNat ==
  ASSUME NEW T \in SUBSET Nat, T # {}
  PROVE  \E n \in T : \A m \in T : n <= m
  <1>1. \E n \in T : \A m \in T : ~(<<m, n>> \in OpToRel(<, Nat))
    BY WFMin, NatLessThanWellFounded
  <1>2. PICK n \in T : \A m \in T : ~(<<m, n>> \in OpToRel(<, Nat))
    BY <1>1
  <1>3. \A m \in T : ~(m < n)
    BY <1>2 DEF OpToRel
  <1>4. \A m \in T : m \in Nat
    OBVIOUS
  <1>5. \A m \in T : n <= m
    BY <1>3, <1>4
  <1> QED
    BY <1>5

LEMMA MinOfNats ==
  ASSUME NEW T \in SUBSET Nat, T # {}
  PROVE  Min(T) \in T /\ \A m \in T : Min(T) <= m
  BY LeastNat DEF Min

-----------------------------------------------------------------------------
(* Sequences without repetition.                                           *)

Once(s) == \A i, j \in DOMAIN s : s[i] = s[j] => i = j

LEMMA HeadIn ==
  ASSUME NEW S, NEW s \in Seq(S), s # <<>>
  PROVE  Head(s) \in S /\ Head(s) \in ToSet(s) /\ ToSet(s) \subseteq S
  <1>1. Len(s) \in Nat \ {0} /\ DOMAIN s = 1 .. Len(s) /\ Head(s) = s[1]
    BY EmptySeq, HeadTailProperties
  <1> QED
    BY <1>1 DEF ToSet

LEMMA OneLong == ASSUME NEW s, Len(s) = 1 PROVE s # <<>>
  OBVIOUS

LEMMA AppendOnce ==
  ASSUME NEW S, NEW s \in Seq(S), NEW w \in S, Once(s), w \notin ToSet(s)
  PROVE  /\ Append(s, w) \in Seq(S) /\ Once(Append(s, w))
         /\ ToSet(Append(s, w)) = ToSet(s) \cup {w}
  <1>1. /\ Append(s, w) \in Seq(S) /\ Len(s) \in Nat /\ DOMAIN s = 1 .. Len(s)
        /\ DOMAIN Append(s, w) = 1 .. Len(s) + 1
        /\ Append(s, w)[Len(s) + 1] = w
        /\ \A i \in 1 .. Len(s) : Append(s, w)[i] = s[i]
    OBVIOUS
  <1>2. \A i \in 1 .. Len(s) : s[i] # w
    BY <1>1 DEF ToSet
  <1>3. Once(Append(s, w))
    BY <1>1, <1>2 DEF Once
  <1>4. ToSet(Append(s, w)) = ToSet(s) \cup {w}
    BY <1>1 DEF ToSet
  <1> QED
    BY <1>1, <1>3, <1>4

LEMMA TailOnce ==
  ASSUME NEW S, NEW s \in Seq(S), s # <<>>, Once(s)
  PROVE  /\ Tail(s) \in Seq(S) /\ Head(s) \in ToSet(s) /\ Once(Tail(s))
         /\ ToSet(Tail(s)) = ToSet(s) \ {Head(s)}
  <1>1. /\ Tail(s) \in Seq(S) /\ Len(s) \in Nat \ {0} /\ DOMAIN s = 1 .. Len(s)
        /\ Head(s) = s[1] /\ DOMAIN Tail(s) = 1 .. Len(s) - 1
        /\ \A i \in 1 .. Len(s) - 1 : Tail(s)[i] = s[i + 1]
    BY EmptySeq, HeadTailProperties
  <1>2. Once(Tail(s))
    BY <1>1 DEF Once
  <1>3. Head(s) \in ToSet(s)
    BY <1>1 DEF ToSet
  <1>4. ToSet(Tail(s)) \subseteq ToSet(s) \ {Head(s)}
    BY <1>1 DEF ToSet, Once
  <1>5. ASSUME NEW v \in ToSet(s), v # Head(s) PROVE v \in ToSet(Tail(s))
    <2>1. PICK i \in DOMAIN s : s[i] = v
      BY DEF ToSet
    <2>2. i - 1 \in DOMAIN Tail(s) /\ Tail(s)[i - 1] = v
      BY <1>1, <1>5, <2>1
    <2> QED
      BY <2>2 DEF ToSet
  <1> QED
    BY <1>1, <1>2, <1>3, <1>4, <1>5

LEMMA RemoveFirstOnce ==
  ASSUME NEW S, NEW s \in Seq(S), Once(s), NEW w \in ToSet(s)
  PROVE  /\ RemoveFirst(s, w) \in Seq(S) /\ Once(RemoveFirst(s, w))
         /\ ToSet(RemoveFirst(s, w)) = ToSet(s) \ {w}
  <1> DEFINE I == {i \in 1 .. Len(s) : s[i] = w}
             k == Min(I)
             r == RemoveAt(s, k)
  <1>1. Len(s) \in Nat /\ DOMAIN s = 1 .. Len(s) /\ \A i \in 1 .. Len(s) : s[i] \in S
    OBVIOUS
  <1>2. I # {} /\ I \in SUBSET Nat
    BY <1>1 DEF ToSet
  <1>3. k \in 1 .. Len(s) /\ s[k] = w
    BY <1>2, MinOfNats
  <1>4. RemoveFirst(s, w) = r
    BY <1>2 DEF RemoveFirst, SelectInSeq
  <1> HIDE DEF k
  <1>5. /\ r \in Seq(S) /\ Len(r) = Len(s) - 1 /\ DOMAIN r = 1 .. Len(s) - 1
        /\ \A i \in 1 .. k - 1 : r[i] = s[i]
        /\ \A i \in k .. Len(s) - 1 : r[i] = s[i + 1]
    <2> DEFINE a == SubSeq(s, 1, k - 1)
               b == SubSeq(s, k + 1, Len(s))
    <2>1. a \in Seq(S) /\ Len(a) = k - 1 /\ \A i \in 1 .. k - 1 : a[i] = s[i]
      BY <1>1, <1>3, SubSeqProperties
    <2>2. b \in Seq(S) /\ Len(b) = Len(s) - k /\ \A i \in 1 .. Len(s) - k : b[i] = s[k + i]
      <3>1. k + 1 \in 1 .. Len(s) + 1 /\ Len(s) \in k .. Len(s) /\ (k + 1) - 1 = k
        BY <1>1, <1>3
      <3>2. /\ b \in Seq(S)
            /\ Len(b) = IF k + 1 <= Len(s) THEN Len(s) - (k + 1) + 1 ELSE 0
            /\ \A i \in 1 .. Len(s) - (k + 1) + 1 : b[i] = s[k + 1 + i - 1]
        BY <1>1, <3>1, SubSeqProperties
      <3> HIDE DEF b
      <3>3. Len(s) - (k + 1) + 1 = Len(s) - k
        BY <1>1, <1>3
      <3>4. \A i \in 1 .. Len(s) - k : k + 1 + i - 1 = k + i
        BY <1>1, <1>3
      <3>5. \A i \in 1 .. Len(s) - k : b[i] = s[k + i]
        BY <3>2, <3>3, <3>4, Zenon
      <3>6. Len(b) = Len(s) - k
        <4>1. k \in Int /\ Len(s) \in Int /\ k <= Len(s)
          BY <1>1, <1>3
        <4>2. Len(b) = IF k + 1 <= Len(s) THEN Len(s) - k ELSE 0
          BY <3>2, <3>3, Zenon
        <4>3. ~(k + 1 <= Len(s)) => Len(s) - k = 0
          BY <4>1
        <4> QED
          BY <4>2, <4>3, Zenon
      <3> QED
        BY <3>2, <3>5, <3>6
    <2>3. r = a \o b
      BY DEF RemoveAt
    <2> HIDE DEF a, b, r
    <2>4. /\ r \in Seq(S) /\ Len(r) = Len(a) + Len(b) /\ DOMAIN r = 1 .. Len(r)
          /\ \A i \in 1 .. Len(r) : r[i] = IF i <= Len(a) THEN a[i] ELSE b[i - Len(a)]
      <3>1. /\ r \in Seq(S) /\ Len(r) = Len(a) + Len(b)
            /\ \A i \in 1 .. Len(a) + Len(b) : r[i] = IF i <= Len(a) THEN a[i] ELSE b[i - Len(a)]
        BY <2>1, <2>2, <2>3, ConcatProperties, Zenon
      <3>2. DOMAIN r = 1 .. Len(r)
        BY <3>1
      <3> QED
        BY <3>1, <3>2, Zenon
    <2>5. Len(r) = Len(s) - 1
      BY <1>1, <1>3, <2>1, <2>2, <2>4
    <2>6. \A i \in 1 .. k - 1 : r[i] = s[i]
      BY <1>1, <1>3, <2>1, <2>4, <2>5
    <2>7. ASSUME NEW i \in k .. Len(s) - 1 PROVE r[i] = s[i + 1]
      <3>1. i \in 1 .. Len(r) /\ ~(i <= Len(a)) /\ i - Len(a) = i - k + 1
            /\ i - k + 1 \in 1 .. Len(s) - k /\ k + (i - k + 1) = i + 1
        BY <1>1, <1>3, <2>1, <2>5
      <3>2. r[i] = b[i - k + 1]
        BY <2>4, <3>1
      <3> QED
        BY <2>2, <3>1, <3>2
    <2> QED
      BY <2>4, <2>5, <2>6, <2>7
  <1> HIDE DEF r
  <1>6. Once(r)
    <2> SUFFICES ASSUME NEW i \in DOMAIN r, NEW j \in DOMAIN r, i < j, r[i] = r[j] PROVE FALSE
      BY <1>1, <1>5 DEF Once
    <2> DEFINE at(n) == IF n < k THEN n ELSE n + 1
    <2>1. \A n \in DOMAIN r : at(n) \in 1 .. Len(s) /\ r[n] = s[at(n)]
      BY <1>1, <1>3, <1>5
    <2>2. at(i) # at(j)
      BY <1>1, <1>3, <1>5
    <2> HIDE DEF at
    <2> QED
      BY <1>1, <2>1, <2>2 DEF Once
  <1>7. ToSet(r) \subseteq ToSet(s) \ {w}
    <2> SUFFICES ASSUME NEW i \in DOMAIN r PROVE r[i] \in ToSet(s) \ {w}
      BY DEF ToSet
    <2>1. CASE i \in 1 .. k - 1
      <3>1. i \in DOMAIN s /\ i # k /\ r[i] = s[i]
        BY <1>1, <1>3, <1>5, <2>1
      <3> QED
        BY <1>1, <1>3, <3>1 DEF ToSet, Once
    <2>2. CASE i \in k .. Len(s) - 1
      BY <1>1, <1>3, <1>5, <2>2 DEF ToSet, Once
    <2> QED
      BY <1>3, <1>5, <2>1, <2>2
  <1>8. ASSUME NEW v \in ToSet(s), v # w PROVE v \in ToSet(r)
    <2>1. PICK i \in DOMAIN s : s[i] = v
      BY DEF ToSet
    <2>2. CASE i < k
      BY <1>1, <1>3, <1>5, <2>1, <2>2 DEF ToSet
    <2>3. CASE i > k
      <3>1. i - 1 \in DOMAIN r /\ r[i - 1] = v
        BY <1>1, <1>3, <1>5, <2>1, <2>3
      <3> QED
        BY <3>1 DEF ToSet
    <2> QED
      BY <1>1, <1>3, <1>8, <2>1, <2>2, <2>3
  <1> QED
    BY <1>4, <1>5, <1>6, <1>7, <1>8

-----------------------------------------------------------------------------
(* The priority queue.                                                     *)

Queue ==
  [by_class : [Class -> Seq(Work)], last_class : Nat, consecutive : Nat, aging_cursor : Nat]

(* A job is queued once, in its own class.                                 *)
QueuedOnce(q) ==
  \A c \in Class : /\ Once(q.by_class[c])
                   /\ \A w \in ToSet(q.by_class[c]) : ClassOf[w] = c

(* One class of the queue is changed.                                      *)
LEMMA ClassChanged ==
  ASSUME NEW q \in Queue, QueuedOnce(q), NEW r \in Queue, NEW c \in Class, NEW s \in Seq(Work),
         r.by_class = [q.by_class EXCEPT ![c] = s],
         Once(s), \A w \in ToSet(s) : ClassOf[w] = c
  PROVE  /\ QueuedOnce(r)
         /\ QueuedJobs(r) = (QueuedJobs(q) \ ToSet(q.by_class[c])) \cup ToSet(s)
  <1>1. /\ q.by_class \in [Class -> Seq(Work)]
        /\ r.by_class[c] = s /\ \A d \in Class : d # c => r.by_class[d] = q.by_class[d]
    BY DEF Queue
  <1>2. QueuedOnce(r)
    BY <1>1 DEF QueuedOnce
  <1>3. \A d \in Class : d # c => ToSet(q.by_class[d]) \cap ToSet(q.by_class[c]) = {}
    BY DEF QueuedOnce
  <1>4. \A w : w \in QueuedJobs(r) <=> \E d \in Class : w \in ToSet(r.by_class[d])
    BY DEF QueuedJobs
  <1>5. \A w : w \in QueuedJobs(q) <=> \E d \in Class : w \in ToSet(q.by_class[d])
    BY DEF QueuedJobs
  <1>6. QueuedJobs(r) = (QueuedJobs(q) \ ToSet(q.by_class[c])) \cup ToSet(s)
    BY <1>1, <1>3, <1>4, <1>5
  <1> QED
    BY <1>2, <1>6

(* What is queued is a set of works; it is empty when no class waits.      *)
LEMMA QueueJobs ==
  ASSUME NEW q \in Queue
  PROVE  /\ QueuedJobs(q) \in SUBSET Work
         /\ WaitingClasses(q) \in SUBSET Nat
         /\ WaitingClasses(q) = {} => QueuedJobs(q) = {}
         /\ \A c \in WaitingClasses(q) :
              /\ c \in Class /\ q.by_class[c] \in Seq(Work) /\ q.by_class[c] # <<>>
              /\ ToSet(q.by_class[c]) \subseteq QueuedJobs(q)
  <1>1. \A c \in Class : q.by_class[c] \in Seq(Work) /\ ToSet(q.by_class[c]) \subseteq Work
    BY DEF Queue, ToSet
  <1>2. \A w : w \in QueuedJobs(q) <=> \E c \in Class : w \in ToSet(q.by_class[c])
    BY DEF QueuedJobs
  <1>3. Class \in SUBSET Nat
    BY QueueAssumption DEF Class
  <1>4. \A c \in Class : q.by_class[c] = <<>> => ToSet(q.by_class[c]) = {}
    BY DEF ToSet
  <1>5. WaitingClasses(q) \in SUBSET Nat
    BY <1>3 DEF WaitingClasses
  <1>6. WaitingClasses(q) = {} => QueuedJobs(q) = {}
    BY <1>2, <1>4 DEF WaitingClasses
  <1>7. \A c \in WaitingClasses(q) : c \in Class /\ q.by_class[c] # <<>>
    BY DEF WaitingClasses
  <1>8. QueuedJobs(q) \in SUBSET Work /\ \A c \in Class : ToSet(q.by_class[c]) \subseteq QueuedJobs(q)
    BY <1>1, <1>2
  <1> QED
    BY <1>1, <1>5, <1>6, <1>7, <1>8

LEMMA PushJob ==
  ASSUME NEW q \in Queue, QueuedOnce(q), NEW w \in Work, w \notin QueuedJobs(q)
  PROVE  /\ push(q, ClassOf[w], w) \in Queue /\ QueuedOnce(push(q, ClassOf[w], w))
         /\ QueuedJobs(push(q, ClassOf[w], w)) = QueuedJobs(q) \cup {w}
  <1> DEFINE c == ClassOf[w]
             r == push(q, c, w)
             s == Append(q.by_class[c], w)
  <1>1. c \in Class /\ q.by_class[c] \in Seq(Work)
    BY WorkerAssumption DEF Queue
  <1>2. w \notin ToSet(q.by_class[c]) /\ ToSet(q.by_class[c]) \subseteq QueuedJobs(q)
    BY <1>1 DEF QueuedJobs
  <1>3. Once(q.by_class[c]) /\ \A v \in ToSet(q.by_class[c]) : ClassOf[v] = c
    BY <1>1 DEF QueuedOnce
  <1>4. s \in Seq(Work) /\ Once(s) /\ ToSet(s) = ToSet(q.by_class[c]) \cup {w}
    BY <1>1, <1>2, <1>3, AppendOnce
  <1>5. r \in Queue /\ r.by_class = [q.by_class EXCEPT ![c] = s]
    BY <1>1, <1>4 DEF push, Queue
  <1> HIDE DEF c, r, s
  <1>6. \A v \in ToSet(s) : ClassOf[v] = c
    BY <1>3, <1>4 DEF c
  <1>7. QueuedOnce(r) /\ QueuedJobs(r) = (QueuedJobs(q) \ ToSet(q.by_class[c])) \cup ToSet(s)
    BY <1>1, <1>4, <1>5, <1>6, ClassChanged
  <1> QED
    BY <1>2, <1>4, <1>5, <1>7 DEF r, c

(* remove_where takes a job out altogether.                                *)
LEMMA RemoveJob ==
  ASSUME NEW q \in Queue, QueuedOnce(q), NEW w \in Work
  PROVE  /\ remove_where(q, w) \in Queue /\ QueuedOnce(remove_where(q, w))
         /\ QueuedJobs(remove_where(q, w)) = QueuedJobs(q) \ {w}
  <1> DEFINE holding == {c \in Class : w \in ToSet(q.by_class[c])}
             c == Min(holding)
             s == RemoveFirst(q.by_class[c], w)
             r == [q EXCEPT !.by_class[c] = s]
  <1>1. CASE holding = {}
    <2>1. w \notin QueuedJobs(q)
      BY <1>1 DEF QueuedJobs
    <2> QED
      BY <1>1, <2>1 DEF remove_where
  <1>2. CASE holding # {}
    <2>1. holding \in SUBSET Nat
      BY QueueAssumption DEF Class
    <2>2. c \in Class /\ w \in ToSet(q.by_class[c])
      BY <1>2, <2>1, MinOfNats
    <2>3. remove_where(q, w) = r
      BY <1>2 DEF remove_where
    <2> HIDE DEF c, holding
    <2>4. q.by_class[c] \in Seq(Work) /\ Once(q.by_class[c])
          /\ \A v \in ToSet(q.by_class[c]) : ClassOf[v] = c
      BY <2>2 DEF Queue, QueuedOnce
    <2>5. s \in Seq(Work) /\ Once(s) /\ ToSet(s) = ToSet(q.by_class[c]) \ {w}
      BY <2>2, <2>4, RemoveFirstOnce
    <2> HIDE DEF s
    <2>6. r \in Queue /\ r.by_class = [q.by_class EXCEPT ![c] = s]
      BY <2>2, <2>5 DEF Queue
    <2> HIDE DEF r
    <2>7. QueuedOnce(r) /\ QueuedJobs(r) = (QueuedJobs(q) \ ToSet(q.by_class[c])) \cup ToSet(s)
      BY <2>2, <2>4, <2>5, <2>6, ClassChanged
    <2>8. ToSet(q.by_class[c]) \subseteq QueuedJobs(q)
      BY <2>2 DEF QueuedJobs
    <2> QED
      BY <2>2, <2>3, <2>5, <2>6, <2>7, <2>8
  <1> QED
    BY <1>1, <1>2

(* pop takes out one job, whichever class the burst and the cursor select. *)
LEMMA PopJob ==
  ASSUME NEW q \in Queue, QueuedOnce(q), WaitingClasses(q) # {}
  PROVE  /\ pop(q).job \in QueuedJobs(q)
         /\ pop(q).queue \in Queue /\ QueuedOnce(pop(q).queue)
         /\ QueuedJobs(pop(q).queue) = QueuedJobs(q) \ {pop(q).job}
  <1> DEFINE highest == Min(WaitingClasses(q))
             lower == {c \in WaitingClasses(q) : c > highest}
             after == {c \in lower : q.aging_cursor <= highest \/ c > q.aging_cursor}
             aged == IF BurstUsed(q, highest) THEN Aged(q, highest) ELSE NoClass
             c == IF aged # NoClass THEN aged ELSE highest
             n == IF q.last_class = c THEN Min({q.consecutive + 1, PRIORITY_BURST_QUANTA}) ELSE 1
             r == [by_class |-> [q.by_class EXCEPT ![c] = Tail(q.by_class[c])], last_class |-> c,
                   consecutive |-> n, aging_cursor |-> IF aged # NoClass THEN aged ELSE q.aging_cursor]
             w == Head(q.by_class[c])
  <1>1. pop(q).job = w /\ pop(q).queue = r
    BY DEF pop
  <1>2. highest \in WaitingClasses(q) /\ WaitingClasses(q) \in SUBSET Nat
    BY MinOfNats, QueueJobs
  <1> HIDE DEF highest
  <1>3. lower # {} => Aged(q, highest) \in WaitingClasses(q)
    <2>1. lower # {} => Min(IF after # {} THEN after ELSE lower) \in lower
      BY <1>2, MinOfNats
    <2> QED
      BY <2>1 DEF Aged
  <1>4. lower = {} => Aged(q, highest) = NoClass
    BY DEF Aged
  <1> HIDE DEF lower, after
  <1>5. aged # NoClass => aged \in WaitingClasses(q)
    BY <1>3, <1>4
  <1> HIDE DEF aged
  <1>6. c \in WaitingClasses(q)
    BY <1>2, <1>5
  <1> HIDE DEF c
  <1>7. /\ c \in Class /\ c \in Nat /\ q.by_class[c] \in Seq(Work) /\ q.by_class[c] # <<>>
        /\ ToSet(q.by_class[c]) \subseteq QueuedJobs(q)
    BY <1>2, <1>6, QueueJobs
  <1>8. Once(q.by_class[c]) /\ \A v \in ToSet(q.by_class[c]) : ClassOf[v] = c
    BY <1>7 DEF QueuedOnce
  <1> DEFINE s == Tail(q.by_class[c])
  <1>9. s \in Seq(Work) /\ w \in ToSet(q.by_class[c]) /\ Once(s)
        /\ ToSet(s) = ToSet(q.by_class[c]) \ {w}
    BY <1>7, <1>8, TailOnce
  <1> HIDE DEF s
  <1>10. n \in Nat
    <2>1. {q.consecutive + 1, PRIORITY_BURST_QUANTA} \in SUBSET Nat
      BY QueueAssumption DEF Queue
    <2> QED
      BY <2>1, MinOfNats
  <1>11. (IF aged # NoClass THEN aged ELSE q.aging_cursor) \in Nat
    BY <1>2, <1>5 DEF Queue
  <1>12. r \in Queue /\ r.by_class = [q.by_class EXCEPT ![c] = s]
    BY <1>7, <1>9, <1>10, <1>11 DEF Queue, s
  <1> HIDE DEF r, w
  <1>13. QueuedOnce(r) /\ QueuedJobs(r) = (QueuedJobs(q) \ ToSet(q.by_class[c])) \cup ToSet(s)
    BY <1>7, <1>8, <1>9, <1>12, ClassChanged
  <1>14. w \in QueuedJobs(q) /\ QueuedJobs(r) = QueuedJobs(q) \ {w}
    BY <1>7, <1>9, <1>13
  <1> QED
    BY <1>1, <1>12, <1>13, <1>14

(* g is the queue after each job of the batch, as enqueue_command's loop   *)
(* leaves it.                                                              *)
Pushed(g, q, b) ==
  g = [n \in 0 .. Len(b) |-> IF n = 0 THEN q ELSE push(g[n - 1], ClassOf[b[n]], b[n])]

LEMMA PushedExists ==
  ASSUME NEW q, NEW b \in Seq(Work)
  PROVE  \E g : Pushed(g, q, b)
  <1> DEFINE Step(g, n) == IF n = 0 THEN q ELSE push(g[n - 1], ClassOf[b[n]], b[n])
             Upto(k) == \E g : g = [n \in 0 .. k |-> Step(g, n)]
             T == {k \in Nat : ~Upto(k)}
  <1>1. ASSUME T # {} PROVE FALSE
    <2>1. PICK k \in T : \A m \in T : k <= m
      BY <1>1, LeastNat
    <2>2. k \in Nat /\ ~Upto(k)
      BY <2>1
    <2>3. k # 0
      <3>1. ASSUME k = 0 PROVE Upto(0)
        <4> DEFINE g == [n \in 0 .. 0 |-> q]
        <4>1. g = [n \in 0 .. 0 |-> Step(g, n)]
          OBVIOUS
        <4> QED
          BY <4>1
      <3> QED
        BY <2>2, <3>1
    <2>4. k - 1 \in Nat /\ k - 1 \notin T
      BY <2>1, <2>2, <2>3
    <2>5. Upto(k - 1)
      BY <2>4
    <2>6. PICK g : g = [n \in 0 .. k - 1 |-> Step(g, n)]
      BY <2>5
    <2> DEFINE h == [n \in 0 .. k |-> IF n = k THEN Step(g, k) ELSE g[n]]
    <2>7. \A n \in 0 .. k : h[n] = Step(h, n)
      <3> SUFFICES ASSUME NEW n \in 0 .. k PROVE h[n] = Step(h, n)
        OBVIOUS
      <3>1. n # 0 => n - 1 \in 0 .. k /\ n - 1 # k /\ h[n - 1] = g[n - 1]
        BY <2>2
      <3>2. Step(h, n) = Step(g, n)
        BY <3>1
      <3>3. n # k => n \in 0 .. k - 1
        BY <2>2
      <3>4. n # k => g[n] = Step(g, n)
        BY <2>6, <3>3, Zenon
      <3>5. h[n] = IF n = k THEN Step(g, k) ELSE g[n]
        OBVIOUS
      <3> QED
        BY <3>2, <3>4, <3>5, Zenon
    <2>8. h = [n \in 0 .. k |-> h[n]]
      OBVIOUS
    <2> HIDE DEF h
    <2>9. h = [n \in 0 .. k |-> Step(h, n)]
      BY <2>7, <2>8, Zenon
    <2> QED
      BY <2>2, <2>9, Zenon
  <1>2. Upto(Len(b))
    BY <1>1
  <1> QED
    BY <1>2, Zenon DEF Pushed

(* enqueue_command queues every job of a batch once.                       *)
LEMMA PushAllJobs ==
  ASSUME queued \in Queue, QueuedOnce(queued), NEW b \in Batches,
         ToSet(b) \cap QueuedJobs(queued) = {}
  PROVE  /\ PushAll(b) \in Queue /\ QueuedOnce(PushAll(b))
         /\ QueuedJobs(PushAll(b)) = QueuedJobs(queued) \cup ToSet(b)
  <1>1. b \in Seq(Work) /\ Len(b) \in Nat /\ DOMAIN b = 1 .. Len(b) /\ Once(b)
    BY WorkerAssumption DEF Once
  <1> DEFINE f == CHOOSE g : g = [n \in 0 .. Len(b) |->
                    IF n = 0 THEN queued ELSE push(g[n - 1], ClassOf[b[n]], b[n])]
  <1>2. PushAll(b) = f[Len(b)]
    BY DEF PushAll
  <1>3. f = [n \in 0 .. Len(b) |-> IF n = 0 THEN queued ELSE push(f[n - 1], ClassOf[b[n]], b[n])]
    <2>1. \E g : Pushed(g, queued, b)
      BY <1>1, PushedExists
    <2> QED
      BY <2>1, Zenon DEF Pushed
  <1> HIDE DEF f
  <1> DEFINE Pushes(n) == {b[i] : i \in 1 .. n}
             Good(n) == /\ f[n] \in Queue /\ QueuedOnce(f[n])
                        /\ QueuedJobs(f[n]) = QueuedJobs(queued) \cup Pushes(n)
             T == {n \in 0 .. Len(b) : ~Good(n)}
  <1>4. ASSUME T # {} PROVE FALSE
    <2>1. T \in SUBSET Nat
      BY <1>1
    <2>2. PICK n \in T : \A m \in T : n <= m
      BY <1>4, <2>1, LeastNat
    <2>3. n \in 0 .. Len(b) /\ ~Good(n)
      BY <2>2
    <2>4. n # 0
      <3>1. f[0] = queued
        BY <1>1, <1>3
      <3>2. Pushes(0) = {}
        OBVIOUS
      <3> QED
        BY <2>3, <3>1, <3>2
    <2>5. n - 1 \in 0 .. Len(b) /\ n - 1 \notin T /\ n \in 1 .. Len(b)
      BY <1>1, <2>2, <2>3, <2>4
    <2>6. Good(n - 1)
      BY <2>5
    <2>7. f[n] = push(f[n - 1], ClassOf[b[n]], b[n])
      BY <1>3, <2>3, <2>4, Zenon
    <2>8. b[n] \in Work /\ b[n] \in ToSet(b) /\ b[n] \notin Pushes(n - 1)
      BY <1>1, <2>5 DEF ToSet, Once
    <2>9. Pushes(n) = Pushes(n - 1) \cup {b[n]}
      BY <2>5
    <2>10. b[n] \notin QueuedJobs(f[n - 1])
      BY <2>6, <2>8
    <2>11. /\ f[n] \in Queue /\ QueuedOnce(f[n])
           /\ QueuedJobs(f[n]) = QueuedJobs(f[n - 1]) \cup {b[n]}
      BY <2>6, <2>7, <2>8, <2>10, PushJob
    <2> QED
      BY <2>3, <2>6, <2>9, <2>11
  <1>5. Good(Len(b))
    BY <1>1, <1>4
  <1>6. Pushes(Len(b)) = ToSet(b)
    BY <1>1 DEF ToSet
  <1> QED
    BY <1>2, <1>5, <1>6

-----------------------------------------------------------------------------
(* The inductive invariant.                                                *)

LoopPlace ==
  {"top", "drain", "dispatch", "select", "select_cancel", "flush", "flush_cancel",
   "drop", "drop_cancel", "join", "join_cancel", "stopped"}
Cancelling == {"select_cancel", "drop_cancel", "join_cancel"}
Message == [op : Waits, round : Nat]

(* A child before it hands its result over or gives up.                    *)
Early == {"spawned", "start", "begin", "fetch", "more", "report", "continue"}

Commits(w) == \E i \in DOMAIN mail[w] : mail[w][i].op = "commit"

(* An attempt that a running actor still waits for.                        *)
Live(w) == Open(w) /\ runtime = "running"

JobTypes ==
  /\ pc \in LoopPlace /\ flushing \in Seq(Work)
  /\ queued \in Queue /\ QueuedOnce(queued)
  /\ externally_cancelled \in SUBSET Work
  /\ task \in [Work -> TaskState] /\ round \in [Work -> Nat]
  /\ mail \in [Work -> Seq(Message)]
  /\ answer \in [Work -> {"none", "asked", "ok", "err"}]
  /\ runtime \in {"running", "stopping", "stopped"}

(* A queued job has its lease and no child.                                *)
Waiting == \A w \in QueuedJobs(queued) : w \in held /\ task[w] = "none"

(* A job that is not admitted, or still in the channel, has not run.       *)
Untouched ==
  \A w \in Work :
    /\ w \in InChannel \/ attempt[w] = "unborn" => task[w] = "none" /\ ~Commits(w)
    /\ attempt[w] = "unborn" => answer[w] = "none"

(* A child keeps its lease until it hands over or is aborted, and a lease  *)
(* belongs to a job that is queued, running or being cancelled.            *)
Leased ==
  /\ \A w \in Work : task[w] \in Early /\ w \notin externally_cancelled => w \in held
  /\ \A w \in externally_cancelled : w \notin held /\ task[w] # "none"
  /\ \A w \in held : w \in QueuedJobs(queued) \/ task[w] # "none" \/ w \in ToSet(flushing)

(* What the loop cancels has left the queue and the children, or is in the *)
(* closed channel.                                                         *)
Flushing ==
  /\ pc \in Cancelling => /\ Len(flushing) = 1 /\ task[Head(flushing)] = "none"
                          /\ Head(flushing) \notin QueuedJobs(queued)
  /\ pc = "flush_cancel" => flushing # <<>> /\ ToSet(flushing) \subseteq InChannel
  /\ pc \notin Cancelling \cup {"flush_cancel"} => flushing = <<>>
  /\ \A w \in ToSet(flushing) : attempt[w] # "unborn"

(* The order of closing: the channel, the queue, the children.             *)
Closing ==
  /\ pc \in {"drop", "drop_cancel", "join", "join_cancel", "stopped"} => commands = <<>>
  /\ pc \in {"join", "join_cancel", "stopped"} => QueuedJobs(queued) = {}
  /\ pc = "stopped" => Children = {}

(* The worker is told to cancel attempts that are over, and an answer that *)
(* follows a submission is about one.                                      *)
Withdrawn ==
  /\ \A i \in DOMAIN commands : commands[i].op = "cancel" =>
       /\ Head(commands[i].works) \in Work
       /\ attempt[Head(commands[i].works)] = "closed"
  /\ \A w \in externally_cancelled : attempt[w] = "closed"
  /\ \A w \in submission.reply : attempt[w] = "closed"

(* Somebody will end each live attempt.                                    *)
Carried ==
  /\ \A w \in Work : Live(w) =>
       \/ w \in InChannel \/ w \in QueuedJobs(queued) \/ w \in ToSet(flushing)
       \/ task[w] \notin {"none", "finished"}
  /\ pc = "flush_cancel" =>
       \A w \in ToSet(Head(commands).works) : Live(w) => w \in ToSet(flushing)

(* The answers a live attempt may get do not let its child or the loop     *)
(* go away.                                                                *)
Keeps(w) ==
  \/ task[w] \in {"start", "begin", "more", "report"} /\ answer[w] # "asked"
  \/ task[w] = "commit" /\ answer[w] = "err"
  \/ answer[w] = "asked" /\ flushing # <<>> /\ Head(flushing) = w

Answered == \A w \in Work : Live(w) /\ answer[w] # "none" => Keeps(w)

JobInv ==
  /\ JobTypes /\ Waiting /\ Untouched /\ Leased /\ Flushing /\ Closing
  /\ Withdrawn /\ Carried /\ Answered /\ HandoffFreesSlot

LEMMA InitJobs == Init => JobInv
  <1> SUFFICES ASSUME Init PROVE JobInv
    OBVIOUS
  <1>1. queued \in Queue /\ QueuedOnce(queued) /\ QueuedJobs(queued) = {}
    <2>1. EmptyQueue \in Queue
      BY DEF EmptyQueue, Queue, NoClass
    <2>2. \A c \in Class : EmptyQueue.by_class[c] = <<>>
      BY DEF EmptyQueue
    <2> QED
      BY <2>1, <2>2 DEF Init, QueuedOnce, Once, ToSet, QueuedJobs
  <1>2. InChannel = {} /\ ToSet(flushing) = {}
    BY DEF Init, InChannel, JobsIn, ToSet
  <1>3. \A w \in Work : mail[w] = <<>> /\ ~Commits(w) /\ task[w] = "none" /\ ~Open(w)
    BY DEF Init, Commits, Open
  <1>4. JobTypes
    BY <1>1 DEF Init, JobTypes, LoopPlace, TaskState
  <1>5. Waiting /\ Untouched /\ Leased /\ Flushing /\ Closing
    BY <1>1, <1>2, <1>3 DEF Init, Waiting, Untouched, Leased, Flushing, Closing, Cancelling, Early
  <1>6. Withdrawn /\ Carried /\ Answered /\ HandoffFreesSlot
    BY <1>3 DEF Init, Withdrawn, Carried, Answered, Live, HandoffFreesSlot, NoSubmission
  <1> QED
    BY <1>4, <1>5, <1>6 DEF JobInv

-----------------------------------------------------------------------------
(* The actor.                                                              *)

(* A handler that leaves the worker, its channel and its children alone:   *)
(* attempts only end, mail only shrinks, and a live attempt gets answers   *)
(* that keep it.                                                           *)
LEMMA ActorMoves ==
  ASSUME JobInv, SlotInv,
         UNCHANGED <<commands, pc, flushing, queued, held, externally_cancelled, task, round>>,
         runtime' \in {"running", "stopping", "stopped"},
         runtime' = "running" => runtime = "running",
         mail' \in [Work -> Seq(Message)],
         answer' \in [Work -> {"none", "asked", "ok", "err"}],
         \A w \in Work : /\ Commits(w)' => Commits(w)
                         /\ attempt[w] = "closed" => attempt'[w] = "closed"
                         /\ attempt'[w] = "unborn" => attempt[w] = "unborn" /\ answer'[w] = answer[w]
                         /\ Open(w)' => Open(w)
                         /\ Live(w)' /\ answer'[w] # answer[w] => Keeps(w)',
         submission'.reply \subseteq Work,
         \A w \in submission'.reply : attempt'[w] = "closed"
  PROVE  JobInv'
  <1>1. InChannel' = InChannel /\ \A w \in Work : Live(w)' => Live(w)
    BY DEF InChannel, JobsIn, Live
  <1>2. JobTypes'
    BY DEF JobInv, JobTypes
  <1>3. Waiting' /\ Leased' /\ Closing'
    BY <1>1 DEF JobInv, Waiting, Leased, Closing, Children
  <1>9. Flushing'
    <2>1. ToSet(flushing) \subseteq Work
      BY DEF JobInv, JobTypes, ToSet
    <2> QED
      BY <1>1, <2>1 DEF JobInv, Flushing
  <1>4. Untouched'
    BY <1>1 DEF JobInv, Untouched
  <1>5. Withdrawn'
    <2>1. externally_cancelled \in SUBSET Work
      BY DEF JobInv, JobTypes
    <2> QED
      BY <2>1 DEF JobInv, Withdrawn
  <1>6. Carried'
    <2>1. pc = "flush_cancel" => ToSet(Head(commands).works) \subseteq Work
      BY ChannelTail, BatchSlots DEF SlotInv, SlotTypes, FlushesJobs, OnePlace
    <2> QED
      BY <1>1, <2>1 DEF JobInv, Carried
  <1>7. Answered'
    BY <1>1 DEF JobInv, Answered, Keeps
  <1>8. HandoffFreesSlot'
    BY DEF JobInv, HandoffFreesSlot, Commits
  <1> QED
    BY <1>2, <1>3, <1>4, <1>5, <1>6, <1>7, <1>8, <1>9 DEF JobInv

(* What a message taken from the mail is, and what is left of the mail.    *)
LEMMA MailTaken ==
  ASSUME JobInv, NEW w \in Work, mail[w] # <<>>, mail' = [mail EXCEPT ![w] = Tail(@)]
  PROVE  /\ Head(mail[w]) \in Message /\ Head(mail[w]).op \in Waits
         /\ mail' \in [Work -> Seq(Message)]
         /\ \A v \in Work : Commits(v)' => Commits(v)
  <1>1. mail \in [Work -> Seq(Message)] /\ mail[w] \in Seq(Message)
    BY DEF JobInv, JobTypes
  <1>2. /\ Tail(mail[w]) \in Seq(Message) /\ Head(mail[w]) \in Message
        /\ \A i \in DOMAIN Tail(mail[w]) : i + 1 \in DOMAIN mail[w] /\ Tail(mail[w])[i] = mail[w][i + 1]
    BY <1>1, EmptySeq, HeadTailProperties
  <1>3. mail' \in [Work -> Seq(Message)] /\ mail'[w] = Tail(mail[w])
        /\ \A v \in Work : v # w => mail'[v] = mail[v]
    BY <1>1, <1>2
  <1>4. \A v \in Work : Commits(v)' => Commits(v)
    BY <1>2, <1>3 DEF Commits
  <1>5. Head(mail[w]).op \in Waits
    BY <1>2 DEF Message
  <1> QED
    BY <1>2, <1>3, <1>4, <1>5

(* Whoever waits for an answer is about a job that was submitted.          *)
LEMMA AwaitedBorn ==
  ASSUME JobInv, NEW w \in Work, NEW op \in Waits, AwaitsAnswer(w, op)
  PROVE  attempt[w] # "unborn"
  <1>1. op # "none"
    BY DEF Waits
  <1>2. flushing # <<>> => Head(flushing) \in ToSet(flushing)
    BY HeadIn DEF JobInv, JobTypes
  <1> QED
    BY <1>1, <1>2 DEF AwaitsAnswer, JobInv, Untouched, Flushing

(* The answers a submission gives at its end are about closed attempts.    *)
LEMMA SubmissionAnswers ==
  ASSUME JobInv, SlotInv, EndSubmission, \A w \in Work : attempt[w] = "closed" => attempt'[w] = "closed"
  PROVE  /\ submission'.reply = {}
         /\ answer' \in [Work -> {"none", "asked", "ok", "err"}]
         /\ \A w \in Work : Live(w)' \/ attempt'[w] = "unborn" => answer'[w] = answer[w]
  <1>1. /\ answer' = [w \in Work |-> IF w \notin submission.reply THEN answer[w]
                                     ELSE IF submission.ok THEN "ok" ELSE "err"]
        /\ submission' = NoSubmission
    BY DEF EndSubmission
  <1>2. answer \in [Work -> {"none", "asked", "ok", "err"}]
    BY DEF JobInv, JobTypes
  <1>3. \A w \in Work : w \in submission.reply => attempt'[w] = "closed"
    BY DEF JobInv, Withdrawn
  <1>4. \A w \in Work : w \in submission.reply => ~(Live(w)') /\ attempt'[w] # "unborn"
    BY <1>3 DEF Live, Open
  <1>5. answer' \in [Work -> {"none", "asked", "ok", "err"}]
    BY <1>1, <1>2
  <1>6. submission'.reply = {}
    BY <1>1 DEF NoSubmission
  <1> QED
    BY <1>1, <1>4, <1>5, <1>6

LEMMA AdmissionJobs ==
  ASSUME JobInv, SlotInv, Reserve \/ CheckShutdown
  PROVE  JobInv'
  <1>1. UNCHANGED <<commands, pc, flushing, queued, held, externally_cancelled, task, round,
                    runtime, attempt, mail>>
    BY DEF Reserve, CheckShutdown, loop_vars, child_vars
  <1>2. \/ submission'.reply = submission.reply /\ answer' = answer
        \/ EndSubmission
    BY DEF Reserve, CheckShutdown, SlotInv, SlotTypes, SubmissionType
  <1>3. /\ answer' \in [Work -> {"none", "asked", "ok", "err"}]
        /\ \A w \in Work : Live(w)' \/ attempt'[w] = "unborn" => answer'[w] = answer[w]
        /\ submission'.reply \subseteq Work
        /\ \A w \in submission'.reply : attempt'[w] = "closed"
    <2>1. submission.reply \subseteq Work
      BY DEF SlotInv, SlotTypes, SubmissionType
    <2>2. CASE submission'.reply = submission.reply /\ answer' = answer
      BY <1>1, <2>1, <2>2 DEF JobInv, JobTypes, Withdrawn
    <2>3. CASE EndSubmission
      <3>1. \A w \in Work : attempt[w] = "closed" => attempt'[w] = "closed"
        BY <1>1
      <3> QED
        BY <2>3, <3>1, SubmissionAnswers
    <2> QED
      BY <1>2, <2>2, <2>3
  <1>4. /\ mail' \in [Work -> Seq(Message)] /\ runtime' \in {"running", "stopping", "stopped"}
        /\ \A w \in Work : (Commits(w)' => Commits(w)) /\ (Open(w)' => Open(w))
    BY <1>1 DEF JobInv, JobTypes, Commits, Open
  <1> QED
    BY <1>1, <1>3, <1>4, ActorMoves

LEMMA HandleControlJobs ==
  ASSUME JobInv, SlotInv, NEW w \in Work, HandleControl(w)
  PROVE  JobInv'
  <1> DEFINE msg == Head(mail[w])
  <1>1. /\ runtime = "running" /\ submission.step = "idle" /\ mail[w] # <<>>
        /\ mail' = [mail EXCEPT ![w] = Tail(@)]
        /\ UNCHANGED <<commands, pc, flushing, queued, held, externally_cancelled, task, round, runtime>>
    BY DEF HandleControl, Idle, shared_vars, loop_vars, child_vars
  <1>2. /\ msg.op \in Waits /\ mail' \in [Work -> Seq(Message)]
        /\ \A v \in Work : Commits(v)' => Commits(v)
    BY <1>1, MailTaken
  <1>3. /\ attempt \in [Work -> {"unborn", "queued", "running", "closed"}]
        /\ answer \in [Work -> {"none", "asked", "ok", "err"}]
        /\ submission.reply \subseteq Work
        /\ \A v \in submission.reply : attempt[v] = "closed"
    BY DEF SlotInv, SlotTypes, SubmissionType, JobInv, JobTypes, Withdrawn
  <1>13. AwaitsAnswer(w, msg.op) => attempt[w] # "unborn"
    BY <1>2, AwaitedBorn
  <1> HIDE DEF msg
  <1>4. ASSUME NEW a \in {"ok", "err"}, Answer(w, msg.op, a),
               Live(w)' /\ AwaitsAnswer(w, msg.op) =>
                 \/ task[w] \in {"start", "begin", "more", "report"}
                 \/ task[w] = "commit" /\ a = "err"
        PROVE  /\ answer' \in [Work -> {"none", "asked", "ok", "err"}]
               /\ \A v \in Work : Live(v)' /\ answer'[v] # answer[v] => Keeps(v)'
               /\ \A v \in Work : attempt[v] = "unborn" => answer'[v] = answer[v]
    <2>1. CASE AwaitsAnswer(w, msg.op)
      <3>1. answer' = [answer EXCEPT ![w] = a]
        BY <1>4, <2>1 DEF Answer
      <3> QED
        BY <1>1, <1>3, <1>4, <1>13, <2>1, <3>1 DEF Keeps
    <2>2. CASE ~AwaitsAnswer(w, msg.op)
      BY <1>3, <1>4, <2>2 DEF Answer
    <2> QED
      BY <2>1, <2>2
  <1>5. ASSUME attempt' \in [Work -> {"unborn", "queued", "running", "closed"}],
               \A v \in Work : v # w => attempt'[v] = attempt[v],
               \/ attempt'[w] = attempt[w]
               \/ attempt'[w] = "closed"
               \/ Open(w) /\ attempt'[w] \in {"queued", "running"},
               submission'.reply \subseteq Work,
               \A v \in submission'.reply : v \in submission.reply \/ attempt'[v] = "closed",
               answer' \in [Work -> {"none", "asked", "ok", "err"}],
               \A v \in Work : Live(v)' /\ answer'[v] # answer[v] => Keeps(v)',
               \A v \in Work : attempt[v] = "unborn" => answer'[v] = answer[v]
        PROVE  JobInv'
    <2>1. \A v \in Work : /\ attempt[v] = "closed" => attempt'[v] = "closed"
                          /\ attempt'[v] = "unborn" => attempt[v] = "unborn"
                          /\ Open(v)' => Open(v)
      BY <1>3, <1>5 DEF Open
    <2>2. \A v \in submission'.reply : attempt'[v] = "closed"
      BY <1>3, <1>5, <2>1
    <2>3. runtime' \in {"running", "stopping", "stopped"}
      BY <1>1 DEF JobInv, JobTypes
    <2> QED
      BY <1>1, <1>2, <1>5, <2>1, <2>2, <2>3, ActorMoves
  <1>6. ASSUME NEW ok \in BOOLEAN, CloseAttempt(w, msg, ok) PROVE JobInv'
    <2>1. attempt' = [attempt EXCEPT ![w] = "closed"]
      BY <1>6 DEF CloseAttempt
    <2>2. attempt' \in [Work -> {"unborn", "queued", "running", "closed"}] /\ attempt'[w] = "closed"
          /\ \A v \in Work : v # w => attempt'[v] = attempt[v]
      BY <1>3, <2>1
    <2>3. ~(Live(w)')
      BY <2>2 DEF Live, Open
    <2>4. CASE Answer(w, msg.op, IF ok THEN "ok" ELSE "err") /\ UNCHANGED submission
      <3>1. (IF ok THEN "ok" ELSE "err") \in {"ok", "err"}
        OBVIOUS
      <3> QED
        BY <1>3, <1>4, <1>5, <2>2, <2>3, <2>4, <3>1
    <2>5. CASE /\ \E b \in Unborn : submission' = Submission(b, IF AwaitsAnswer(w, msg.op) THEN {w} ELSE {}, ok)
               /\ UNCHANGED answer
      <3>1. submission'.reply \subseteq {w}
        BY <2>5 DEF Submission
      <3> QED
        BY <1>3, <1>5, <2>2, <2>5, <3>1
    <2> QED
      BY <1>6, <2>4, <2>5 DEF CloseAttempt
  <1>7. ASSUME Refuse(w, msg), msg.op = "commit" \/ ~Open(w) PROVE JobInv'
    <2>1. Answer(w, msg.op, "err") /\ UNCHANGED <<attempt, submission>>
      BY <1>7 DEF Refuse
    <2>2. Live(w)' /\ AwaitsAnswer(w, msg.op) => task[w] = "commit"
      BY <1>7, <2>1 DEF Live, Open, AwaitsAnswer
    <2> QED
      BY <1>3, <1>4, <1>5, <2>1, <2>2
  <1>8. CASE msg.op \in {"start", "begin"} /\ StartRound(w, msg)
    <2> DEFINE ok == attempt[w] = "queued" /\ completed[w] = msg.round
    <2>1. /\ attempt' = IF ok THEN [attempt EXCEPT ![w] = "running"] ELSE attempt
          /\ Answer(w, msg.op, IF ok THEN "ok" ELSE "err") /\ UNCHANGED submission
      BY <1>8 DEF StartRound
    <2>2. AwaitsAnswer(w, msg.op) => task[w] \in {"start", "begin"}
      BY <1>8 DEF AwaitsAnswer
    <2>3. (IF ok THEN "ok" ELSE "err") \in {"ok", "err"}
      OBVIOUS
    <2>4. /\ attempt' \in [Work -> {"unborn", "queued", "running", "closed"}]
          /\ \A v \in Work : v # w => attempt'[v] = attempt[v]
          /\ attempt'[w] = attempt[w] \/ (Open(w) /\ attempt'[w] \in {"queued", "running"})
      BY <1>3, <2>1 DEF Open
    <2> HIDE DEF ok
    <2> QED
      BY <1>3, <1>4, <1>5, <2>1, <2>2, <2>3, <2>4
  <1>9. CASE msg.op \in {"more", "report"} /\ ReportRound(w, msg)
    <2> DEFINE ok == attempt[w] = "running" /\ completed[w] = msg.round
    <2>1. /\ attempt' = IF ok /\ msg.op = "more" THEN [attempt EXCEPT ![w] = "queued"] ELSE attempt
          /\ Answer(w, msg.op, IF ok THEN "ok" ELSE "err") /\ UNCHANGED submission
      BY <1>9 DEF ReportRound
    <2>2. AwaitsAnswer(w, msg.op) => task[w] \in {"more", "report"}
      BY <1>9 DEF AwaitsAnswer
    <2>3. (IF ok THEN "ok" ELSE "err") \in {"ok", "err"}
      OBVIOUS
    <2>4. /\ attempt' \in [Work -> {"unborn", "queued", "running", "closed"}]
          /\ \A v \in Work : v # w => attempt'[v] = attempt[v]
          /\ attempt'[w] = attempt[w] \/ (Open(w) /\ attempt'[w] \in {"queued", "running"})
      BY <1>3, <2>1 DEF Open
    <2> HIDE DEF ok
    <2> QED
      BY <1>3, <1>4, <1>5, <2>1, <2>2, <2>3, <2>4
  <1>10. CASE msg.op = "commit" /\ CommitWork(w, msg)
    BY <1>6, <1>7, <1>10 DEF CommitWork
  <1>11. CASE msg.op = "fail" /\ FailWork(w, msg)
    <2>1. TRUE \in BOOLEAN
      OBVIOUS
    <2> QED
      BY <1>6, <1>7, <1>11, <2>1 DEF FailWork
  <1>12. CASE msg.op = "cancel" /\ CancelScheduled(w, msg)
    <2>1. /\ attempt' = IF Open(w) THEN [attempt EXCEPT ![w] = "closed"] ELSE attempt
          /\ Answer(w, msg.op, "ok") /\ UNCHANGED submission
      BY <1>12 DEF CancelScheduled
    <2>2. /\ attempt' \in [Work -> {"unborn", "queued", "running", "closed"}]
          /\ \A v \in Work : v # w => attempt'[v] = attempt[v]
          /\ attempt'[w] = attempt[w] \/ attempt'[w] = "closed"
          /\ ~(Live(w)')
      BY <1>3, <2>1 DEF Open, Live
    <2> QED
      BY <1>3, <1>4, <1>5, <2>1, <2>2
  <1> QED
    BY <1>8, <1>9, <1>10, <1>11, <1>12 DEF HandleControl, msg

LEMMA ControlClosedJobs ==
  ASSUME JobInv, SlotInv, NEW w \in Work, ControlClosed(w)
  PROVE  JobInv'
  <1>1. /\ runtime = "stopped" /\ mail[w] # <<>> /\ mail' = [mail EXCEPT ![w] = Tail(@)]
        /\ Answer(w, Head(mail[w]).op, "err")
        /\ UNCHANGED <<commands, pc, flushing, queued, held, externally_cancelled, task, round,
                       runtime, attempt, submission>>
    BY DEF ControlClosed, shared_vars, loop_vars, child_vars, actor_vars
  <1>2. answer' \in [Work -> {"none", "asked", "ok", "err"}]
    BY <1>1 DEF Answer, JobInv, JobTypes
  <1>3. \A v \in Work : ~(Live(v)')
    BY <1>1 DEF Live
  <1>5. Head(mail[w]).op \in Waits
    BY <1>1, MailTaken
  <1>6. \A v \in Work : attempt[v] = "unborn" => answer'[v] = answer[v]
    BY <1>1, <1>5, AwaitedBorn DEF Answer, JobInv, JobTypes
  <1>4. /\ submission'.reply \subseteq Work
        /\ \A v \in submission'.reply : attempt'[v] = "closed"
        /\ \A v \in Work : Open(v)' => Open(v)
    BY <1>1 DEF SlotInv, SlotTypes, SubmissionType, JobInv, Withdrawn, Open
  <1> QED
    BY <1>1, <1>2, <1>3, <1>4, <1>6, MailTaken, ActorMoves

(* Requests and changes of the two flags that leave mail and answers.      *)
LEMMA FlagsJobs ==
  ASSUME JobInv, SlotInv,
         ActorStops \/ WorkerShutdown \/ RuntimeShutdown \/ (\E b \in Batches : Submit(b))
         \/ (\E w \in Work : CancelWork(w))
  PROVE  JobInv'
  <1>1. /\ UNCHANGED <<commands, pc, flushing, queued, held, externally_cancelled, task, round,
                       mail, answer>>
        /\ runtime' \in {"running", "stopping", "stopped"}
        /\ runtime' = "running" => runtime = "running"
    BY DEF ActorStops, WorkerShutdown, RuntimeShutdown, Submit, CancelWork, JobInv, JobTypes,
           shared_vars, loop_vars, child_vars, actor_vars, mail_vars
  <1>2. /\ attempt \in [Work -> {"unborn", "queued", "running", "closed"}]
        /\ submission.reply \subseteq Work
        /\ \A v \in submission.reply : attempt[v] = "closed"
    BY DEF SlotInv, SlotTypes, SubmissionType, JobInv, Withdrawn
  <1>3. submission'.reply = submission.reply \/ submission'.reply = {}
    BY DEF ActorStops, WorkerShutdown, RuntimeShutdown, Submit, CancelWork, Submission, actor_vars
  <1>4. \/ attempt' = attempt
        \/ \E w \in Work : attempt' = [attempt EXCEPT ![w] = "closed"]
    BY DEF ActorStops, WorkerShutdown, RuntimeShutdown, Submit, CancelWork, actor_vars
  <1>5. \A v \in Work : /\ attempt[v] = "closed" => attempt'[v] = "closed"
                        /\ attempt'[v] = "unborn" => attempt[v] = "unborn"
                        /\ Open(v)' => Open(v)
    BY <1>2, <1>4 DEF Open
  <1>6. /\ submission'.reply \subseteq Work
        /\ \A v \in submission'.reply : attempt'[v] = "closed"
    BY <1>2, <1>3, <1>5
  <1>7. /\ mail' \in [Work -> Seq(Message)] /\ answer' \in [Work -> {"none", "asked", "ok", "err"}]
        /\ \A w \in Work : Commits(w)' => Commits(w)
    BY <1>1 DEF JobInv, JobTypes, Commits
  <1> QED
    BY <1>1, <1>5, <1>6, <1>7, ActorMoves

(* The jobs of a command go into the channel as their attempts are born.   *)
LEMMA SendJobs ==
  ASSUME JobInv, SlotInv, Send
  PROVE  JobInv'
  <1>1. /\ submission.step = "send" /\ EndSubmission
        /\ UNCHANGED <<pc, flushing, queued, held, externally_cancelled, task, round, runtime, mail>>
    BY DEF Send, loop_vars, child_vars
  <1>2. /\ attempt \in [Work -> {"unborn", "queued", "running", "closed"}]
        /\ submission.batch \in Batches /\ submission.batch \in Seq(Work)
        /\ ToSet(submission.batch) \in SUBSET Work
        /\ \A w \in ToSet(submission.batch) : attempt[w] = "unborn"
    BY <1>1, BatchSlots DEF SlotInv, SlotTypes, BornOnce
  <1>3. runtime' \in {"running", "stopping", "stopped"} /\ mail' \in [Work -> Seq(Message)]
        /\ \A w \in Work : Commits(w)' <=> Commits(w)
    BY <1>1 DEF JobInv, JobTypes, Commits
  <1>4. CASE UNCHANGED <<commands, attempt>>
    <2>1. \A w \in Work : attempt[w] = "closed" => attempt'[w] = "closed"
      BY <1>4
    <2>2. /\ submission'.reply = {} /\ answer' \in [Work -> {"none", "asked", "ok", "err"}]
          /\ \A w \in Work : Live(w)' \/ attempt'[w] = "unborn" => answer'[w] = answer[w]
      BY <1>1, <2>1, SubmissionAnswers
    <2>3. \A w \in Work : Open(w)' => Open(w)
      BY <1>4 DEF Open
    <2> QED
      BY <1>1, <1>3, <1>4, <2>1, <2>2, <2>3, ActorMoves
  <1>5. CASE /\ ~ReceiverClosed /\ commands' = Append(commands, Jobs(submission.batch))
             /\ attempt' = [w \in Work |-> IF w \in ToSet(submission.batch) THEN "queued" ELSE attempt[w]]
    <2> DEFINE b == ToSet(submission.batch)
               d == Jobs(submission.batch)
    <2>1. \A w \in Work : attempt'[w] = IF w \in b THEN "queued" ELSE attempt[w]
      BY <1>5
    <2>2. /\ submission'.reply = {} /\ answer' \in [Work -> {"none", "asked", "ok", "err"}]
          /\ \A w \in Work : Live(w)' \/ attempt'[w] = "unborn" => answer'[w] = answer[w]
      <3>1. \A w \in Work : attempt[w] = "closed" => attempt'[w] = "closed"
        BY <1>2, <2>1
      <3> QED
        BY <1>1, <3>1, SubmissionAnswers
    <2>3. commands \in Seq(Command) /\ d \in Command /\ d.op = "jobs" /\ d.works = submission.batch
      BY <1>2 DEF SlotInv, SlotTypes, Jobs, Command
    <2>4. InChannel' = InChannel \cup b
      BY <1>5, <2>3, ChannelAppend DEF InChannel
    <2>5. \A i \in DOMAIN commands' : commands'[i].op = "cancel" => i \in DOMAIN commands /\ commands'[i] = commands[i]
      <3>1. /\ DOMAIN Append(commands, d) = 1 .. Len(commands) + 1 /\ Len(commands) \in Nat
            /\ DOMAIN commands = 1 .. Len(commands)
            /\ Append(commands, d)[Len(commands) + 1] = d
            /\ \A i \in 1 .. Len(commands) : Append(commands, d)[i] = commands[i]
        BY <2>3
      <3> HIDE DEF d
      <3>2. \A i \in DOMAIN Append(commands, d) : i \in 1 .. Len(commands) \/ i = Len(commands) + 1
        BY <3>1
      <3> QED
        BY <1>5, <2>3, <3>1, <3>2 DEF d
    <2>6. \A w \in Work : attempt[w] = "unborn" => answer[w] = "none" /\ task[w] = "none" /\ ~Commits(w)
      BY DEF JobInv, Untouched
    <2> HIDE DEF b, d
    <2>7. pc # "flush_cancel" /\ pc \notin {"drop", "drop_cancel", "join", "join_cancel", "stopped"}
      BY <1>5 DEF ReceiverClosed
    <2>8. b \subseteq Work /\ \A w \in b : attempt[w] = "unborn"
      BY <1>2 DEF b
    <2>9. JobTypes'
      BY <1>1, <1>3, <2>2 DEF JobInv, JobTypes
    <2>10. Waiting' /\ Leased'
      BY <1>1 DEF JobInv, Waiting, Leased
    <2>11. Untouched'
      BY <1>1, <1>3, <2>1, <2>2, <2>4, <2>6, <2>8 DEF JobInv, Untouched
    <2>12. Flushing' /\ Closing'
      <3>1. ToSet(flushing) \subseteq Work
        BY DEF JobInv, JobTypes, ToSet
      <3> QED
        BY <1>1, <2>1, <2>7, <3>1 DEF JobInv, Flushing, Closing, Cancelling
    <2>13. Withdrawn'
      <3>1. externally_cancelled \subseteq Work
        BY DEF JobInv, JobTypes
      <3>2. \A w \in Work : attempt[w] = "closed" => attempt'[w] = "closed"
        BY <2>1, <2>8
      <3> QED
        BY <1>1, <2>2, <2>5, <3>1, <3>2 DEF JobInv, Withdrawn
    <2>14. Carried'
      BY <1>1, <2>1, <2>4, <2>7 DEF JobInv, Carried, Live, Open
    <2>15. Answered'
      <3>1. \A w \in Work : Live(w)' => Live(w) \/ w \in b
        BY <1>1, <2>1 DEF Live, Open
      <3> QED
        BY <1>1, <2>2, <2>6, <2>8, <3>1 DEF JobInv, Answered, Keeps
    <2>16. HandoffFreesSlot'
      BY <1>1 DEF JobInv, HandoffFreesSlot
    <2> QED
      BY <2>9, <2>10, <2>11, <2>12, <2>13, <2>14, <2>15, <2>16 DEF JobInv
  <1> QED
    BY <1>4, <1>5 DEF Send

(* The worker is told of an attempt that is closed in the same step.       *)
LEMMA DetachJobs ==
  ASSUME JobInv, SlotInv, NEW u \in Work, Detach(u)
  PROVE  JobInv'
  <1>1. /\ Open(u) /\ attempt' = [attempt EXCEPT ![u] = "closed"]
        /\ commands' = commands \/ (~ReceiverClosed /\ commands' = Append(commands, Cancel(u)))
        /\ UNCHANGED <<pc, flushing, queued, held, externally_cancelled, task, round, runtime,
                       submission, mail, answer>>
    BY DEF Detach, loop_vars, child_vars, mail_vars
  <1>2. /\ attempt \in [Work -> {"unborn", "queued", "running", "closed"}]
        /\ commands \in Seq(Command)
    BY DEF SlotInv, SlotTypes
  <1>3. /\ \A w \in Work : /\ attempt[w] = "closed" => attempt'[w] = "closed"
                           /\ attempt'[w] = "unborn" => attempt[w] = "unborn"
                           /\ Open(w)' => Open(w)
        /\ attempt'[u] = "closed"
    BY <1>1, <1>2 DEF Open
  <1>4. /\ InChannel' = InChannel
        /\ \A i \in DOMAIN commands' : \/ i \in DOMAIN commands /\ commands'[i] = commands[i]
                                       \/ commands'[i] = Cancel(u)
    <2>1. CASE commands' = commands
      BY <2>1 DEF InChannel, JobsIn
    <2>2. CASE commands' = Append(commands, Cancel(u))
      <3>1. Cancel(u) \in Command /\ Cancel(u).op # "jobs"
        BY DEF Cancel, Command
      <3>2. InChannel' = InChannel
        BY <1>2, <2>2, <3>1, ChannelAppend DEF InChannel
      <3>3. /\ DOMAIN Append(commands, Cancel(u)) = 1 .. Len(commands) + 1 /\ Len(commands) \in Nat
            /\ DOMAIN commands = 1 .. Len(commands)
            /\ Append(commands, Cancel(u))[Len(commands) + 1] = Cancel(u)
            /\ \A i \in 1 .. Len(commands) : Append(commands, Cancel(u))[i] = commands[i]
        BY <1>2, <3>1
      <3>4. \A i \in DOMAIN Append(commands, Cancel(u)) : i \in 1 .. Len(commands) \/ i = Len(commands) + 1
        BY <3>3
      <3> QED
        BY <2>2, <3>2, <3>3, <3>4
    <2> QED
      BY <1>1, <2>1, <2>2
  <1>5. pc \in {"flush_cancel", "drop", "drop_cancel", "join", "join_cancel", "stopped"} => commands' = commands
    BY <1>1 DEF ReceiverClosed
  <1>6. Cancel(u).op = "cancel" /\ Head(Cancel(u).works) = u
    BY DEF Cancel
  <1>7. JobTypes' /\ Waiting' /\ Leased' /\ HandoffFreesSlot'
    BY <1>1 DEF JobInv, JobTypes, Waiting, Leased, HandoffFreesSlot
  <1>8. Untouched'
    BY <1>1, <1>3, <1>4 DEF JobInv, Untouched, Commits
  <1>9. Flushing' /\ Closing'
    <2>1. ToSet(flushing) \subseteq Work
      BY DEF JobInv, JobTypes, ToSet
    <2> QED
      BY <1>1, <1>3, <1>4, <1>5, <2>1 DEF JobInv, Flushing, Closing, Children
  <1>10. Withdrawn'
    <2>1. externally_cancelled \subseteq Work /\ submission.reply \subseteq Work
      BY DEF JobInv, JobTypes, SlotInv, SlotTypes, SubmissionType
    <2> QED
      BY <1>1, <1>3, <1>4, <1>6, <2>1 DEF JobInv, Withdrawn
  <1>11. Carried'
    <2>1. pc = "flush_cancel" => ToSet(Head(commands).works) \subseteq Work
      BY ChannelTail, BatchSlots DEF SlotInv, SlotTypes, FlushesJobs, OnePlace
    <2> QED
      BY <1>1, <1>3, <1>4, <1>5, <2>1 DEF JobInv, Carried, Live
  <1>12. Answered'
    BY <1>1, <1>3 DEF JobInv, Answered, Keeps, Live
  <1> QED
    BY <1>7, <1>8, <1>9, <1>10, <1>11, <1>12 DEF JobInv

-----------------------------------------------------------------------------
(* The children.                                                           *)

(* The loop cancels nothing that still has a child.                        *)
LEMMA FlushedIdle ==
  ASSUME JobInv, flushing # <<>>
  PROVE  Head(flushing) \in Work /\ task[Head(flushing)] = "none"
  <1>1. Head(flushing) \in Work /\ Head(flushing) \in ToSet(flushing)
    BY HeadIn DEF JobInv, JobTypes
  <1> QED
    BY <1>1 DEF JobInv, Flushing, Untouched, Cancelling

(* A step of one child, with what it may do to its lease, its mail and its *)
(* answer.                                                                 *)
LEMMA ChildMoves ==
  ASSUME JobInv, SlotInv, NEW w \in Work, task[w] # "none",
         UNCHANGED <<commands, pc, flushing, queued, externally_cancelled, attempt, submission, runtime>>,
         round' \in [Work -> Nat], task' \in [Work -> TaskState],
         mail' \in [Work -> Seq(Message)],
         answer' \in [Work -> {"none", "asked", "ok", "err"}],
         \A v \in Work : v # w => task'[v] = task[v] /\ mail'[v] = mail[v] /\ answer'[v] = answer[v],
         task'[w] # "none", Live(w) => task'[w] # "finished",
         Live(w) /\ answer'[w] # "none" => Keeps(w)',
         held' \subseteq held, \A v \in held : v # w => v \in held',
         Commits(w)' => w \notin held',
         task'[w] \in Early /\ w \notin externally_cancelled => w \in held'
  PROVE  JobInv'
  <1>1. InChannel' = InChannel /\ \A v \in Work : Live(v)' <=> Live(v)
    BY DEF InChannel, JobsIn, Live, Open
  <1>2. w \notin InChannel /\ attempt[w] # "unborn" /\ w \notin QueuedJobs(queued)
    BY DEF JobInv, Untouched, Waiting
  <1>3. QueuedJobs(queued) \subseteq Work
    BY QueueJobs DEF JobInv, JobTypes
  <1>4. JobTypes'
    BY DEF JobInv, JobTypes
  <1>5. Waiting'
    BY <1>2, <1>3 DEF JobInv, Waiting
  <1>6. Untouched'
    <2>1. \A v \in Work : v # w => (Commits(v)' <=> Commits(v))
      BY DEF Commits
    <2> QED
      BY <1>1, <1>2, <2>1 DEF JobInv, Untouched
  <1>7. Leased'
    <2>1. externally_cancelled \subseteq Work
      BY DEF JobInv, JobTypes
    <2>2. \A v \in held' : v \in QueuedJobs(queued) \/ task'[v] # "none" \/ v \in ToSet(flushing)
      <3> SUFFICES ASSUME NEW v \in held', v \notin QueuedJobs(queued), v \notin ToSet(flushing)
                   PROVE  task'[v] # "none"
        OBVIOUS
      <3>1. task[v] # "none"
        BY DEF JobInv, Leased
      <3>2. v \in Work
        BY DEF SlotInv, SlotTypes
      <3> QED
        BY <3>1, <3>2
    <2> QED
      BY <2>1, <2>2 DEF JobInv, Leased
  <1>8. Flushing'
    <2>1. pc \in Cancelling => flushing # <<>>
      <3>1. pc \in Cancelling => Len(flushing) = 1
        BY DEF JobInv, Flushing
      <3> QED
        BY <3>1, OneLong
    <2>2. pc \in Cancelling => Head(flushing) # w /\ Head(flushing) \in Work
      BY <2>1, FlushedIdle
    <2> QED
      BY <1>1, <2>2 DEF JobInv, Flushing
  <1>9. Closing'
    <2>1. pc # "stopped"
      BY DEF JobInv, Closing, Children
    <2> QED
      BY <2>1 DEF JobInv, Closing
  <1>10. Withdrawn'
    BY DEF JobInv, Withdrawn
  <1>13. Carried'
    <2>1. pc = "flush_cancel" => ToSet(Head(commands).works) \subseteq Work
      BY ChannelTail, BatchSlots DEF SlotInv, SlotTypes, FlushesJobs, OnePlace
    <2> QED
      BY <1>1, <2>1 DEF JobInv, Carried
  <1>11. Answered'
    BY <1>1 DEF JobInv, Answered, Keeps
  <1>12. HandoffFreesSlot'
    BY DEF JobInv, HandoffFreesSlot, Commits
  <1> QED
    BY <1>4, <1>5, <1>6, <1>7, <1>8, <1>9, <1>10, <1>11, <1>12, <1>13 DEF JobInv

(* What Ask and Return do, and CancelJob for a live attempt.               *)
LEMMA Asked ==
  ASSUME JobInv, NEW w \in Work, NEW op \in Waits, Ask(w, op)
  PROVE  /\ mail' \in [Work -> Seq(Message)] /\ task' \in [Work -> TaskState]
         /\ task'[w] = op
         /\ \A v \in Work : v # w => task'[v] = task[v] /\ mail'[v] = mail[v]
         /\ Commits(w)' => Commits(w) \/ op = "commit"
  <1>1. /\ mail \in [Work -> Seq(Message)] /\ task \in [Work -> TaskState] /\ round[w] \in Nat
    BY DEF JobInv, JobTypes
  <1> DEFINE msg == [op |-> op, round |-> round[w]]
  <1>2. msg \in Message /\ msg.op = op
    BY <1>1 DEF Message
  <1> HIDE DEF msg
  <1>3. mail[w] \in Seq(Message) /\ Append(mail[w], msg) \in Seq(Message)
    BY <1>1, <1>2
  <1>4. mail' = [mail EXCEPT ![w] = Append(mail[w], msg)] /\ task' = [task EXCEPT ![w] = op]
    BY DEF Ask, msg
  <1>5. /\ mail' \in [Work -> Seq(Message)] /\ mail'[w] = Append(mail[w], msg)
        /\ \A v \in Work : v # w => mail'[v] = mail[v]
    BY <1>1, <1>3, <1>4
  <1>6. /\ task' \in [Work -> TaskState] /\ task'[w] = op
        /\ \A v \in Work : v # w => task'[v] = task[v]
    BY <1>1, <1>4 DEF TaskState
  <1>7. Commits(w)' => Commits(w) \/ op = "commit"
    <2>1. \A i \in DOMAIN Append(mail[w], msg) :
            \/ i \in DOMAIN mail[w] /\ Append(mail[w], msg)[i] = mail[w][i]
            \/ Append(mail[w], msg)[i] = msg
      BY <1>2, <1>3
    <2> QED
      BY <1>2, <1>5, <2>1 DEF Commits
  <1> QED
    BY <1>5, <1>6, <1>7

LEMMA ReturnedChild ==
  ASSUME JobInv, NEW w \in Work, NEW state \in TaskState, Return(w, state)
  PROVE  /\ mail' \in [Work -> Seq(Message)] /\ task' \in [Work -> TaskState]
         /\ task'[w] = state
         /\ \A v \in Work : v # w => task'[v] = task[v] /\ mail'[v] = mail[v]
         /\ Commits(w)' => Commits(w)
  BY DEF Return, JobInv, JobTypes, Commits

LEMMA CancelledJob ==
  ASSUME JobInv, NEW w \in Work, CancelJob(w)
  PROVE  /\ mail' \in [Work -> Seq(Message)] /\ task' \in [Work -> TaskState]
         /\ task'[w] \in {"cancel", "finished"} /\ (Live(w) => task'[w] = "cancel")
         /\ \A v \in Work : v # w => task'[v] = task[v] /\ mail'[v] = mail[v]
         /\ Commits(w)' => Commits(w)
  <1>1. "cancel" \in Waits /\ "finished" \in TaskState /\ "cancel" # "commit"
    BY DEF Waits, TaskState, Returned
  <1>2. CASE runtime = "running"
    <2>1. Ask(w, "cancel")
      BY <1>2 DEF CancelJob
    <2> QED
      BY <1>1, <2>1, Asked
  <1>3. CASE runtime # "running"
    <2>1. Return(w, "finished")
      BY <1>3 DEF CancelJob
    <2> QED
      BY <1>1, <1>3, <2>1, ReturnedChild DEF Live
  <1> QED
    BY <1>2, <1>3

LEMMA ChildJobs ==
  ASSUME JobInv, SlotInv, NEW w \in Work, Child(w)
  PROVE  JobInv'
  <1>1. UNCHANGED <<commands, pc, flushing, queued, externally_cancelled, attempt, submission, runtime>>
    BY DEF Child, BeginQuantum, ShutdownBeforeStart, FetchRound, Resume, Killed,
           child_frame, actor_vars
  <1>2. /\ round \in [Work -> Nat] /\ task \in [Work -> TaskState]
        /\ answer \in [Work -> {"none", "asked", "ok", "err"}]
        /\ held \subseteq Work
    BY DEF JobInv, JobTypes, SlotInv, SlotTypes
  <1>3. task[w] # "none" => ~(flushing # <<>> /\ Head(flushing) = w)
    BY FlushedIdle
  <1>4. Live(w) /\ answer[w] # "none" /\ task[w] # "none" =>
          \/ task[w] \in {"start", "begin", "more", "report"}
          \/ task[w] = "commit" /\ answer[w] = "err"
    BY <1>3 DEF JobInv, Answered, Keeps
  <1>5. Commits(w) => w \notin held
    BY DEF JobInv, HandoffFreesSlot, Commits
  <1>6. task[w] \in Early /\ w \notin externally_cancelled => w \in held
    BY DEF JobInv, Leased
  (* A step that keeps the leases.                                         *)
  <1>7. ASSUME task[w] # "none", KeepLeases, round' \in [Work -> Nat],
               mail' \in [Work -> Seq(Message)], task' \in [Work -> TaskState],
               \A v \in Work : v # w => task'[v] = task[v] /\ mail'[v] = mail[v],
               Commits(w)' => Commits(w),
               task'[w] # "none", Live(w) => task'[w] # "finished",
               task'[w] \in Early /\ w \notin externally_cancelled => w \in held,
               \/ answer' = [answer EXCEPT ![w] = "none"]
               \/ answer' = answer /\ (Live(w) => answer[w] = "none")
        PROVE  JobInv'
    <2>1. /\ answer' \in [Work -> {"none", "asked", "ok", "err"}]
          /\ \A v \in Work : v # w => answer'[v] = answer[v]
          /\ Live(w) => answer'[w] = "none"
      BY <1>2, <1>7
    <2>2. held' = held
      BY <1>7 DEF KeepLeases
    <2> QED
      BY <1>1, <1>5, <1>7, <2>1, <2>2, ChildMoves
  <1>8. CASE BeginQuantum(w)
    <2>1. /\ task[w] = "spawned" /\ w \notin externally_cancelled /\ KeepLeases
          /\ answer' = answer /\ round' = round
          /\ CancelJob(w) \/ Ask(w, "start") \/ Ask(w, "begin")
      BY <1>8 DEF BeginQuantum
    <2>2. w \in held /\ (Live(w) => answer[w] = "none")
      BY <1>4, <1>6, <2>1 DEF Early
    <2>3. "start" \in Waits /\ "begin" \in Waits
      BY DEF Waits
    <2> QED
      BY <1>2, <1>7, <2>1, <2>2, <2>3, Asked, CancelledJob
  <1>9. CASE ShutdownBeforeStart(w)
    <2>1. /\ task[w] # "none" /\ CancelJob(w) /\ KeepLeases /\ round' = round
          /\ answer' = [answer EXCEPT ![w] = "none"]
      BY <1>9 DEF ShutdownBeforeStart
    <2> QED
      BY <1>2, <1>7, <2>1, CancelledJob DEF Early
  <1>10. CASE FetchRound(w)
    <2>1. /\ task[w] = "fetch" /\ KeepLeases /\ answer' = answer /\ round' = round
          /\ \/ \E op \in {"report", "more", "fail"} : Ask(w, op)
             \/ CancelJob(w)
             \/ Return(w, "panicked")
      BY <1>10 DEF FetchRound
    <2>2. (w \notin externally_cancelled => w \in held) /\ (Live(w) => answer[w] = "none")
      BY <1>4, <1>6, <2>1 DEF Early
    <2>3. CASE \E op \in {"report", "more", "fail"} : Ask(w, op)
      <3>1. PICK op \in {"report", "more", "fail"} : Ask(w, op)
        BY <2>3
      <3>2. op \in Waits /\ op # "commit" /\ op # "none" /\ op # "finished"
        BY DEF Waits
      <3> QED
        BY <1>2, <1>7, <2>1, <2>2, <3>1, <3>2, Asked
    <2>4. CASE CancelJob(w)
      BY <1>2, <1>7, <2>1, <2>2, <2>4, CancelledJob
    <2>5. CASE Return(w, "panicked")
      <3>1. "panicked" \in TaskState /\ "panicked" \notin Early
        BY DEF TaskState, Returned, Early
      <3> QED
        BY <1>2, <1>7, <2>1, <2>2, <2>5, <3>1, ReturnedChild
    <2> QED
      BY <2>1, <2>3, <2>4, <2>5
  <1>11. CASE Killed(w)
    <2>1. /\ w \in externally_cancelled /\ Return(w, "killed") /\ KeepLeases /\ round' = round
          /\ answer' = [answer EXCEPT ![w] = "none"]
      BY <1>11 DEF Killed
    <2>2. task[w] # "none" /\ "killed" \in TaskState
      BY <2>1 DEF JobInv, Leased, TaskState, Returned
    <2> QED
      BY <1>2, <1>7, <2>1, <2>2, ReturnedChild
  <1>12. CASE Resume(w)
    <2>1. /\ task[w] \in Waits /\ answer[w] # "none" /\ w \notin externally_cancelled
          /\ answer' = [answer EXCEPT ![w] = "none"]
      BY <1>12 DEF Resume
    <2>2. task[w] # "none"
      BY <2>1 DEF Waits
    <2>3. CASE /\ task[w] \in {"start", "begin"} /\ KeepLeases /\ UNCHANGED round
               /\ Return(w, "fetch") \/ CancelJob(w)
      <3>1. "fetch" \in TaskState /\ w \in held
        BY <1>6, <2>1, <2>3 DEF TaskState, Early
      <3> QED
        BY <1>2, <1>7, <2>1, <2>2, <2>3, <3>1, ReturnedChild, CancelledJob
    <2>4. CASE /\ task[w] = "more" /\ Return(w, "continue") /\ KeepLeases
               /\ round' = [round EXCEPT ![w] = @ + 1]
      <3>1. "continue" \in TaskState /\ w \in held
        BY <1>6, <2>1, <2>4 DEF TaskState, Returned, Early
      <3>2. round' \in [Work -> Nat]
        BY <1>2, <2>4
      <3> QED
        BY <1>2, <1>7, <2>1, <2>2, <2>4, <3>1, <3>2, ReturnedChild
    <2>5. CASE task[w] = "report" /\ CommitPrepared(w) /\ UNCHANGED round
      <3>1. Ask(w, "commit") /\ held' = held \ {w} /\ "commit" \in Waits /\ "commit" \notin Early
        BY <2>5 DEF CommitPrepared, Release, Waits, Early
      <3>2. /\ answer' \in [Work -> {"none", "asked", "ok", "err"}] /\ answer'[w] = "none"
            /\ \A v \in Work : v # w => answer'[v] = answer[v]
            /\ round' \in [Work -> Nat]
        BY <1>2, <2>1, <2>5
      <3> QED
        BY <1>1, <2>2, <3>1, <3>2, Asked, ChildMoves
    <2>6. CASE task[w] \in {"more", "report", "commit"} /\ Ask(w, "fail") /\ KeepLeases /\ UNCHANGED round
      <3>1. "fail" \in Waits /\ "fail" \notin Early
        BY DEF Waits, Early
      <3> QED
        BY <1>2, <1>7, <2>1, <2>2, <2>6, <3>1, Asked
    <2>7. CASE /\ task[w] \in {"fail", "cancel"} \/ (task[w] = "commit" /\ answer[w] = "ok")
               /\ Return(w, "finished") /\ KeepLeases /\ UNCHANGED round
      <3>1. "finished" \in TaskState /\ "finished" \notin Early
        BY DEF TaskState, Returned, Early
      <3>2. ~Live(w)
        BY <1>4, <2>1, <2>2, <2>7
      <3> QED
        BY <1>2, <1>7, <2>1, <2>2, <2>7, <3>1, <3>2, ReturnedChild
    <2> QED
      BY <1>12, <2>3, <2>4, <2>5, <2>6, <2>7 DEF Resume
  <1> QED
    BY <1>8, <1>9, <1>10, <1>11, <1>12 DEF Child

-----------------------------------------------------------------------------
(* The loop.                                                               *)

Resting == pc \notin Cancelling \cup {"flush_cancel"}

(* Only the place of the loop changes.                                     *)
LEMMA LoopMoves ==
  ASSUME JobInv, Resting, pc' \in LoopPlace, Resting',
         pc' \in {"drop", "join", "stopped"} => commands = <<>>,
         pc' \in {"join", "stopped"} => QueuedJobs(queued) = {},
         pc' = "stopped" => Children = {},
         UNCHANGED <<commands, flushing, queued, held, externally_cancelled, task, round,
                     runtime, attempt, submission, mail, answer>>
  PROVE  JobInv'
  <1>1. InChannel' = InChannel /\ \A w \in Work : (Live(w)' <=> Live(w)) /\ (Commits(w)' <=> Commits(w))
    BY DEF InChannel, JobsIn, Live, Open, Commits
  <1>2. JobTypes' /\ Waiting' /\ Leased' /\ Withdrawn' /\ HandoffFreesSlot'
    BY DEF JobInv, JobTypes, Waiting, Leased, Withdrawn, HandoffFreesSlot
  <1>3. Untouched' /\ Flushing' /\ Closing'
    BY <1>1 DEF JobInv, Untouched, Flushing, Closing, Resting, LoopPlace, Cancelling, Children
  <1>4. Carried' /\ Answered'
    BY <1>1 DEF JobInv, Carried, Answered, Keeps, Resting
  <1> QED
    BY <1>2, <1>3, <1>4 DEF JobInv

(* A command is folded in: its jobs are queued, a cancelled job leaves the *)
(* queue or is aborted.                                                    *)
LEMMA CommandJobs ==
  ASSUME JobInv, SlotInv, commands # <<>>, handle_worker_command,
         pc \in {"drain", "select"}, pc' \in {"drain", "top"},
         UNCHANGED <<flushing, task, round, runtime, attempt, submission, mail, answer>>
  PROVE  JobInv'
  <1> DEFINE first == Head(commands)
  <1>1. /\ commands \in Seq(Command) /\ commands' = Tail(commands)
        /\ \/ first.op = "jobs" /\ enqueue_command(first.works)
           \/ first.op = "cancel" /\ CancelQueuedOrRunning(Head(first.works))
    BY DEF handle_worker_command, SlotInv, SlotTypes
  <1>2. /\ 1 \in DOMAIN commands /\ first = commands[1]
        /\ \A i \in DOMAIN commands' : i + 1 \in DOMAIN commands /\ commands'[i] = commands[i + 1]
        /\ first.op = "jobs" => /\ ToSet(first.works) \in SUBSET InChannel
                                /\ InChannel' = InChannel \ ToSet(first.works)
        /\ first.op # "jobs" => InChannel' = InChannel
    BY <1>1, ChannelTail DEF SlotInv, OnePlace, InChannel
  <1>3. first.op = "jobs" => first.works \in Batches
    BY <1>2 DEF SlotInv, SlotTypes
  <1>4. first.op = "cancel" => Head(first.works) \in Work /\ attempt[Head(first.works)] = "closed"
    BY <1>2 DEF JobInv, Withdrawn
  <1> HIDE DEF first
  <1>5. flushing = <<>> /\ ToSet(flushing) = {}
    BY DEF JobInv, Flushing, Cancelling, ToSet
  <1>6. /\ InChannel \subseteq Work /\ InChannel \cap held = {} /\ held \subseteq Work
        /\ queued \in Queue /\ QueuedOnce(queued) /\ QueuedJobs(queued) \subseteq Work
        /\ externally_cancelled \subseteq Work
    BY OwingFinite, QueueJobs DEF JobInv, JobTypes
  <1>7. \A w \in Work : (Live(w)' <=> Live(w)) /\ (Commits(w)' <=> Commits(w))
    BY DEF Live, Open, Commits
  <1>8. Flushing' /\ Closing'
    BY <1>5 DEF JobInv, Flushing, Closing, Cancelling, ToSet
  <1>9. Answered'
    BY <1>7 DEF JobInv, Answered, Keeps
  <1>10. \A i \in DOMAIN commands' : commands'[i].op = "cancel" =>
           Head(commands'[i].works) \in Work /\ attempt'[Head(commands'[i].works)] = "closed"
    BY <1>2 DEF JobInv, Withdrawn
  <1>11. CASE first.op = "jobs"
    <2> DEFINE b == ToSet(first.works)
    <2>1. queued' = PushAll(first.works) /\ held' = held \cup b /\ externally_cancelled' = externally_cancelled
      BY <1>1, <1>11 DEF enqueue_command
    <2>2. b \subseteq InChannel /\ InChannel' = InChannel \ b
      BY <1>2, <1>11
    <2>3. b \cap QueuedJobs(queued) = {}
      BY <1>6, <2>2 DEF JobInv, Waiting
    <2>4. queued' \in Queue /\ QueuedOnce(queued') /\ QueuedJobs(queued') = QueuedJobs(queued) \cup b
      BY <1>3, <1>6, <1>11, <2>1, <2>3, PushAllJobs
    <2> HIDE DEF b
    <2>5. \A w \in b : w \in Work /\ task[w] = "none" /\ ~Commits(w)
      BY <1>6, <2>2 DEF JobInv, Untouched
    <2>6. JobTypes'
      BY <2>1, <2>4 DEF JobInv, JobTypes, LoopPlace
    <2>7. Waiting'
      BY <2>1, <2>4, <2>5 DEF JobInv, Waiting
    <2>8. Untouched'
      BY <1>7, <2>2 DEF JobInv, Untouched
    <2>9. Leased'
      BY <1>6, <2>1, <2>4, <2>5 DEF JobInv, Leased
    <2>10. Withdrawn'
      BY <1>10, <2>1 DEF JobInv, Withdrawn
    <2>11. Carried'
      BY <1>7, <2>2, <2>4 DEF JobInv, Carried
    <2>12. HandoffFreesSlot'
      BY <2>1, <2>5 DEF JobInv, HandoffFreesSlot, Commits
    <2> QED
      BY <1>8, <1>9, <2>6, <2>7, <2>8, <2>9, <2>10, <2>11, <2>12 DEF JobInv
  <1>12. CASE first.op = "cancel"
    <2> DEFINE w == Head(first.works)
    <2>1. w \in Work /\ attempt[w] = "closed" /\ ~Live(w) /\ InChannel' = InChannel
      BY <1>2, <1>4, <1>12 DEF Live, Open
    <2>2. CancelQueuedOrRunning(w)
      BY <1>1, <1>12
    <2> HIDE DEF w
    <2>3. /\ queued' \in Queue /\ QueuedOnce(queued') /\ QueuedJobs(queued') \subseteq QueuedJobs(queued)
          /\ \A v \in QueuedJobs(queued) : v # w => v \in QueuedJobs(queued')
          /\ held' \subseteq held /\ \A v \in held : v # w => v \in held'
          /\ externally_cancelled \subseteq externally_cancelled'
          /\ externally_cancelled' \subseteq externally_cancelled \cup {w}
          /\ \/ w \notin held' /\ w \notin QueuedJobs(queued') /\ task[w] = "none" /\ externally_cancelled' = externally_cancelled
             \/ w \notin held' /\ w \notin QueuedJobs(queued') /\ task[w] # "none" /\ w \in externally_cancelled'
             \/ UNCHANGED <<queued, held, externally_cancelled>>
      <3>1. CASE w \in QueuedJobs(queued) /\ queued' = remove_where(queued, w) /\ Release({w}) /\ UNCHANGED externally_cancelled
        <4>1. queued' \in Queue /\ QueuedOnce(queued') /\ QueuedJobs(queued') = QueuedJobs(queued) \ {w}
          BY <1>6, <2>1, <3>1, RemoveJob
        <4>2. held' = held \ {w}
          BY <3>1 DEF Release
        <4>3. task[w] = "none"
          BY <3>1 DEF JobInv, Waiting
        <4> QED
          BY <3>1, <4>1, <4>2, <4>3
      <3>2. CASE /\ w \in Children \ externally_cancelled
                 /\ externally_cancelled' = externally_cancelled \cup {w}
                 /\ Release({w}) /\ UNCHANGED queued
        <4>1. held' = held \ {w} /\ task[w] # "none"
          BY <3>2 DEF Release, Children
        <4>2. w \notin QueuedJobs(queued)
          BY <4>1 DEF JobInv, Waiting
        <4> QED
          BY <1>6, <3>2, <4>1, <4>2
      <3>3. CASE KeepLeases /\ UNCHANGED <<queued, externally_cancelled>>
        BY <1>6, <3>3 DEF KeepLeases
      <3> QED
        BY <2>2, <3>1, <3>2, <3>3 DEF CancelQueuedOrRunning
    <2>4. JobTypes'
      BY <1>6, <2>1, <2>3 DEF JobInv, JobTypes, LoopPlace
    <2>5. Waiting'
      BY <2>3 DEF JobInv, Waiting
    <2>6. Untouched'
      BY <1>7, <2>1 DEF JobInv, Untouched
    <2>7. Leased'
      <3>1. \A v \in Work : task[v] \in Early /\ v \notin externally_cancelled' => v \in held'
        BY <2>3 DEF JobInv, Leased, Early
      <3>2. \A v \in externally_cancelled' : v \notin held' /\ task[v] # "none"
        BY <1>6, <2>1, <2>3 DEF JobInv, Leased
      <3>3. \A v \in held' : v \in QueuedJobs(queued') \/ task[v] # "none" \/ v \in ToSet(flushing)
        BY <2>3 DEF JobInv, Leased
      <3> QED
        BY <3>1, <3>2, <3>3 DEF Leased
    <2>8. Withdrawn'
      BY <1>10, <2>1, <2>3 DEF JobInv, Withdrawn
    <2>9. Carried'
      BY <1>7, <2>1, <2>3 DEF JobInv, Carried
    <2>10. HandoffFreesSlot'
      BY <2>3 DEF JobInv, HandoffFreesSlot
    <2> QED
      BY <1>8, <1>9, <2>4, <2>5, <2>6, <2>7, <2>8, <2>9, <2>10 DEF JobInv
  <1> QED
    BY <1>1, <1>11, <1>12

(* The job that pop selects gets a child.                                  *)
LEMMA SpawnJobs ==
  ASSUME JobInv, SlotInv, SpawnQuantum
  PROVE  JobInv'
  <1>1. /\ pc = "dispatch" /\ held' = held
        /\ UNCHANGED <<commands, flushing, externally_cancelled, round, runtime, attempt, submission, mail, answer>>
    BY DEF SpawnQuantum, KeepLeases, mail_vars, loop_frame, actor_vars
  <1>2. CASE pc' = "select" /\ UNCHANGED <<queued, task>>
    <2>1. Resting /\ Resting' /\ pc' \in LoopPlace /\ pc' \notin {"drop", "join", "stopped"}
      BY <1>1, <1>2 DEF Resting, Cancelling, LoopPlace
    <2> QED
      BY <1>1, <1>2, <2>1, LoopMoves
  <1>3. CASE /\ WaitingClasses(queued) # {} /\ queued' = pop(queued).queue
             /\ task' = [task EXCEPT ![pop(queued).job] = "spawned"] /\ UNCHANGED pc
    <2> DEFINE w == pop(queued).job
    <2>1. /\ w \in QueuedJobs(queued) /\ queued' \in Queue /\ QueuedOnce(queued')
          /\ QueuedJobs(queued') = QueuedJobs(queued) \ {w}
      BY <1>3, PopJob DEF JobInv, JobTypes
    <2>2. /\ QueuedJobs(queued) \subseteq Work /\ InChannel \cap held = {} /\ held \subseteq Work
          /\ externally_cancelled \subseteq Work
      BY QueueJobs, OwingFinite DEF JobInv, JobTypes
    <2> HIDE DEF w
    <2>3. w \in Work /\ w \in held /\ task[w] = "none" /\ w \notin InChannel /\ attempt[w] # "unborn"
      BY <2>1, <2>2 DEF JobInv, Waiting, SlotInv, BornOnce
    <2>4. /\ task' \in [Work -> TaskState] /\ task'[w] = "spawned"
          /\ \A v \in Work : v # w => task'[v] = task[v]
      BY <1>3, <2>3 DEF w, JobInv, JobTypes, TaskState
    <2>5. flushing = <<>> /\ ToSet(flushing) = {}
      BY <1>1 DEF JobInv, Flushing, Cancelling, ToSet
    <2>6. /\ InChannel' = InChannel
          /\ \A v \in Work : (Live(v)' <=> Live(v)) /\ (Commits(v)' <=> Commits(v))
      BY <1>1 DEF InChannel, JobsIn, Live, Open, Commits
    <2>7. JobTypes'
      BY <1>1, <1>3, <2>1, <2>4 DEF JobInv, JobTypes
    <2>8. Waiting' /\ Untouched'
      BY <1>1, <2>1, <2>2, <2>3, <2>4, <2>6 DEF JobInv, Waiting, Untouched
    <2>9. Leased'
      BY <1>1, <2>1, <2>2, <2>3, <2>4 DEF JobInv, Leased
    <2>10. Flushing' /\ Closing'
      BY <1>1, <1>3, <2>5 DEF JobInv, Flushing, Closing, Cancelling
    <2>11. Withdrawn' /\ HandoffFreesSlot'
      BY <1>1 DEF JobInv, Withdrawn, HandoffFreesSlot
    <2>12. Carried'
      BY <1>1, <1>3, <2>1, <2>4, <2>6 DEF JobInv, Carried
    <2>13. Answered'
      BY <1>1, <2>3, <2>4, <2>5, <2>6 DEF JobInv, Answered, Keeps
    <2> QED
      BY <2>7, <2>8, <2>9, <2>10, <2>11, <2>12, <2>13 DEF JobInv
  <1> QED
    BY <1>2, <1>3 DEF SpawnQuantum

(* One job leaves the queue or the children and is cancelled by the loop.  *)
LEMMA FlushesOne ==
  ASSUME JobInv, SlotInv, NEW w \in Work, Resting, pc' \in Cancelling, flushing' = <<w>>,
         pc' \in {"drop_cancel", "join_cancel"} => commands = <<>>,
         pc' = "join_cancel" => QueuedJobs(queued) = {},
         attempt[w] # "unborn", Live(w) => answer[w] = "none",
         queued' \in Queue, QueuedOnce(queued'), w \notin QueuedJobs(queued'),
         QueuedJobs(queued') \subseteq QueuedJobs(queued),
         \A v \in QueuedJobs(queued) : v # w => v \in QueuedJobs(queued'),
         task' \in [Work -> TaskState], task'[w] = "none",
         \A v \in Work : v # w => task'[v] = task[v],
         held' = held, externally_cancelled' = externally_cancelled \ {w},
         UNCHANGED <<commands, round, runtime, attempt, submission, mail, answer>>
  PROVE  JobInv'
  <1>1. /\ InChannel' = InChannel
        /\ \A v \in Work : (Live(v)' <=> Live(v)) /\ (Commits(v)' <=> Commits(v))
    BY DEF InChannel, JobsIn, Live, Open, Commits
  <1>2. ToSet(flushing) = {} /\ flushing = <<>>
    BY DEF JobInv, Flushing, Resting, ToSet
  <1>3. ToSet(flushing') = {w} /\ Head(flushing') = w /\ Len(flushing') = 1 /\ flushing' \in Seq(Work)
    BY DEF ToSet
  <1>4. QueuedJobs(queued) \subseteq Work /\ held \subseteq Work /\ externally_cancelled \subseteq Work
    BY QueueJobs DEF JobInv, JobTypes, SlotInv, SlotTypes
  <1>5. JobTypes'
    BY <1>3 DEF JobInv, JobTypes, Cancelling, LoopPlace
  <1>6. Waiting' /\ Untouched'
    BY <1>1, <1>4 DEF JobInv, Waiting, Untouched
  <1>7. Leased'
    <2>1. \A v \in Work : task'[v] \in Early /\ v \notin externally_cancelled' => v \in held'
      BY DEF JobInv, Leased, Early
    <2>2. \A v \in externally_cancelled' : v \notin held' /\ task'[v] # "none"
      BY <1>4 DEF JobInv, Leased
    <2>3. \A v \in held' : v \in QueuedJobs(queued') \/ task'[v] # "none" \/ v \in ToSet(flushing')
      BY <1>2, <1>3, <1>4 DEF JobInv, Leased
    <2> QED
      BY <2>1, <2>2, <2>3 DEF Leased
  <1>8. Flushing'
    BY <1>3 DEF Flushing, Cancelling
  <1>9. Closing'
    BY DEF Closing, Cancelling
  <1>10. Withdrawn' /\ HandoffFreesSlot'
    BY DEF JobInv, Withdrawn, HandoffFreesSlot
  <1>11. Carried'
    BY <1>1, <1>2, <1>3 DEF JobInv, Carried, Cancelling
  <1>12. Answered'
    BY <1>1, <1>2, <1>3 DEF JobInv, Answered, Keeps
  <1> QED
    BY <1>5, <1>6, <1>7, <1>8, <1>9, <1>10, <1>11, <1>12 DEF JobInv

(* A child is joined: its job goes back to the queue under its lease, or   *)
(* nobody waits for it any longer and the lease ends.                      *)
LEMMA ChildEnds ==
  ASSUME JobInv, SlotInv, NEW w \in Work, task[w] \in Returned, Joined(w),
         \/ pc = "select" /\ pc' = "top"
         \/ pc = "join" /\ pc' = "join",
         \/ /\ pc' = "top" /\ w \in held /\ held' = held
            /\ queued' = push(queued, ClassOf[w], w)
         \/ queued' = queued /\ held' = held \ {w} /\ ~Live(w),
         UNCHANGED <<flushing, commands, round, runtime, attempt, submission, mail, answer>>
  PROVE  JobInv'
  <1>1. /\ InChannel' = InChannel
        /\ \A v \in Work : (Live(v)' <=> Live(v)) /\ (Commits(v)' <=> Commits(v))
    BY DEF InChannel, JobsIn, Live, Open, Commits
  <1>2. ToSet(flushing) = {} /\ flushing = <<>>
    BY DEF JobInv, Flushing, Cancelling, ToSet
  <1>3. QueuedJobs(queued) \subseteq Work /\ held \subseteq Work /\ externally_cancelled \subseteq Work
    BY QueueJobs DEF JobInv, JobTypes, SlotInv, SlotTypes
  <1>4. w \notin QueuedJobs(queued) /\ w \notin InChannel /\ attempt[w] # "unborn"
    BY DEF JobInv, Waiting, Untouched, Returned
  <1>5. /\ task' \in [Work -> TaskState] /\ task'[w] = "none"
        /\ \A v \in Work : v # w => task'[v] = task[v]
        /\ externally_cancelled' = externally_cancelled \ {w}
    BY DEF Joined, JobInv, JobTypes, TaskState
  <1>6. /\ queued' \in Queue /\ QueuedOnce(queued')
        /\ \/ pc' = "top" /\ w \in held /\ held' = held /\ QueuedJobs(queued') = QueuedJobs(queued) \cup {w}
           \/ queued' = queued /\ held' = held \ {w} /\ ~Live(w)
    <2>1. queued \in Queue /\ QueuedOnce(queued)
      BY DEF JobInv, JobTypes
    <2>2. /\ push(queued, ClassOf[w], w) \in Queue /\ QueuedOnce(push(queued, ClassOf[w], w))
          /\ QueuedJobs(push(queued, ClassOf[w], w)) = QueuedJobs(queued) \cup {w}
      BY <1>4, <2>1, PushJob
    <2> QED
      BY <2>1, <2>2
  <1>7. JobTypes'
    BY <1>5, <1>6 DEF JobInv, JobTypes, LoopPlace
  <1>8. Waiting'
    BY <1>3, <1>4, <1>5, <1>6 DEF JobInv, Waiting
  <1>9. Untouched'
    BY <1>1, <1>4, <1>5 DEF JobInv, Untouched
  <1>10. Leased'
    <2>1. \A v \in Work : task'[v] \in Early /\ v \notin externally_cancelled' => v \in held'
      BY <1>5, <1>6 DEF JobInv, Leased, Early
    <2>2. \A v \in externally_cancelled' : v \notin held' /\ task'[v] # "none"
      BY <1>3, <1>5, <1>6 DEF JobInv, Leased
    <2>3. \A v \in held' : v \in QueuedJobs(queued') \/ task'[v] # "none" \/ v \in ToSet(flushing')
      BY <1>2, <1>3, <1>5, <1>6 DEF JobInv, Leased
    <2> QED
      BY <2>1, <2>2, <2>3 DEF Leased
  <1>11. Flushing'
    BY <1>2 DEF Flushing, Cancelling, ToSet
  <1>12. Closing'
    BY <1>6 DEF JobInv, Closing
  <1>13. Withdrawn'
    BY <1>5 DEF JobInv, Withdrawn
  <1>14. HandoffFreesSlot'
    BY <1>6 DEF JobInv, HandoffFreesSlot
  <1>15. Carried'
    BY <1>1, <1>2, <1>5, <1>6 DEF JobInv, Carried
  <1>16. Answered'
    BY <1>1, <1>2, <1>5 DEF JobInv, Answered, Keeps, Returned
  <1> QED
    BY <1>7, <1>8, <1>9, <1>10, <1>11, <1>12, <1>13, <1>14, <1>15, <1>16 DEF JobInv

LEMMA JoinChildJobs ==
  ASSUME JobInv, SlotInv, NEW w \in Work, JoinChild(w)
  PROVE  JobInv'
  <1>1. /\ pc = "select" /\ task[w] \in Returned /\ Joined(w)
        /\ UNCHANGED <<commands, round, runtime, attempt, submission, mail, answer>>
    BY DEF JoinChild, mail_vars, loop_frame, actor_vars
  <1>2. /\ task' \in [Work -> TaskState] /\ task'[w] = "none"
        /\ \A v \in Work : v # w => task'[v] = task[v]
        /\ externally_cancelled' = externally_cancelled \ {w}
    BY <1>1 DEF Joined, JobInv, JobTypes, TaskState
  <1>3. flushing = <<>> /\ ToSet(flushing) = {} /\ Resting
    BY <1>1 DEF JobInv, Flushing, Cancelling, ToSet, Resting
  <1>4. w \notin QueuedJobs(queued) /\ w \notin InChannel /\ attempt[w] # "unborn"
    BY <1>1 DEF JobInv, Waiting, Untouched, Returned
  <1>5. w \in externally_cancelled => ~Live(w) /\ w \notin held
    BY DEF JobInv, Withdrawn, Leased, Live, Open
  <1>6. CASE task[w] = "continue" /\ Requeue(w) /\ KeepLeases /\ pc' = "top" /\ UNCHANGED flushing
    <2>1. CASE w \in externally_cancelled
      <3>1. queued' = queued /\ held' = held \ {w}
        BY <1>5, <1>6, <2>1 DEF Requeue, KeepLeases
      <3> QED
        BY <1>1, <1>5, <1>6, <2>1, <3>1, ChildEnds
    <2>2. CASE w \notin externally_cancelled
      <3>1. queued' = push(queued, ClassOf[w], w) /\ held' = held /\ w \in held
        BY <1>6, <2>2 DEF Requeue, KeepLeases, JobInv, Leased, Early
      <3> QED
        BY <1>1, <1>6, <3>1, ChildEnds
    <2> QED
      BY <2>1, <2>2
  <1>7. CASE /\ task[w] # "continue" /\ ~Panicked(w) /\ Release({w}) /\ pc' = "top"
             /\ UNCHANGED <<queued, flushing>>
    <2>1. task[w] = "finished" \/ w \in externally_cancelled
      BY <1>1, <1>7 DEF Panicked, Returned
    <2>2. task[w] = "finished" => ~Live(w)
      BY <1>3, <1>4 DEF JobInv, Carried
    <2>3. held' = held \ {w}
      BY <1>7 DEF Release
    <2> QED
      BY <1>1, <1>5, <1>7, <2>1, <2>2, <2>3, ChildEnds
  <1>8. CASE Panicked(w) /\ pc' = "select_cancel" /\ flushing' = <<w>> /\ KeepLeases /\ UNCHANGED queued
    <2>1. Live(w) => answer[w] = "none"
      BY <1>1, <1>3 DEF JobInv, Answered, Keeps, Returned
    <2>2. queued \in Queue /\ QueuedOnce(queued) /\ held' = held /\ pc' \in Cancelling
      BY <1>8 DEF JobInv, JobTypes, KeepLeases, Cancelling
    <2> QED
      BY <1>1, <1>2, <1>3, <1>4, <1>8, <2>1, <2>2, FlushesOne
  <1> QED
    BY <1>6, <1>7, <1>8 DEF JoinChild

LEMMA JoinClosingJobs ==
  ASSUME JobInv, SlotInv, NEW w \in Work, JoinClosing(w)
  PROVE  JobInv'
  <1>1. /\ pc = "join" /\ task[w] \in Returned /\ Joined(w)
        /\ UNCHANGED <<queued, commands, round, runtime, attempt, submission, mail, answer>>
    BY DEF JoinClosing, mail_vars, loop_frame, actor_vars
  <1>2. /\ task' \in [Work -> TaskState] /\ task'[w] = "none"
        /\ \A v \in Work : v # w => task'[v] = task[v]
        /\ externally_cancelled' = externally_cancelled \ {w}
    BY <1>1 DEF Joined, JobInv, JobTypes, TaskState
  <1>3. flushing = <<>> /\ ToSet(flushing) = {} /\ Resting
    BY <1>1 DEF JobInv, Flushing, Cancelling, ToSet, Resting
  <1>4. w \notin QueuedJobs(queued) /\ w \notin InChannel /\ attempt[w] # "unborn"
    BY <1>1 DEF JobInv, Waiting, Untouched, Returned
  <1>5. CASE OwedCancellation(w) /\ pc' = "join_cancel" /\ flushing' = <<w>> /\ KeepLeases
    <2>1. Live(w) => answer[w] = "none"
      BY <1>1, <1>3 DEF JobInv, Answered, Keeps, Returned
    <2>2. queued \in Queue /\ QueuedOnce(queued) /\ held' = held /\ pc' \in Cancelling
      BY <1>5 DEF JobInv, JobTypes, KeepLeases, Cancelling
    <2>3. commands = <<>> /\ QueuedJobs(queued) = {}
      BY <1>1 DEF JobInv, Closing
    <2> QED
      BY <1>1, <1>2, <1>3, <1>4, <1>5, <2>1, <2>2, <2>3, FlushesOne
  <1>6. CASE ~OwedCancellation(w) /\ Release({w}) /\ UNCHANGED <<pc, flushing>>
    <2>1. task[w] = "finished" => ~Live(w)
      BY <1>3, <1>4 DEF JobInv, Carried
    <2>2. w \in externally_cancelled => ~Live(w)
      BY DEF JobInv, Withdrawn, Live, Open
    <2>3. held' = held \ {w} /\ ~Live(w)
      BY <1>6, <2>1, <2>2 DEF Release, OwedCancellation
    <2> QED
      BY <1>1, <1>6, <2>3, ChildEnds
  <1> QED
    BY <1>5, <1>6 DEF JoinClosing

(* The closed channel: a cancellation is dropped, the jobs of a command    *)
(* are cancelled one by one.                                               *)
LEMMA FlushCommandsJobs ==
  ASSUME JobInv, SlotInv, FlushCommands
  PROVE  JobInv'
  <1>1. /\ pc = "flush" /\ held' = held
        /\ UNCHANGED <<queued, externally_cancelled, task, round, runtime, attempt, submission, mail, answer>>
    BY DEF FlushCommands, KeepLeases, mail_vars, loop_frame, actor_vars
  <1>2. flushing = <<>> /\ ToSet(flushing) = {} /\ Resting
    BY <1>1 DEF JobInv, Flushing, Cancelling, ToSet, Resting
  <1>3. \A w \in Work : (Live(w)' <=> Live(w)) /\ (Commits(w)' <=> Commits(w))
    BY <1>1 DEF Live, Open, Commits
  <1>4. CASE commands = <<>> /\ pc' = "drop" /\ UNCHANGED <<commands, flushing>>
    <2>1. Resting' /\ pc' \in LoopPlace
      BY <1>4 DEF Resting, Cancelling, LoopPlace
    <2> QED
      BY <1>1, <1>2, <1>4, <2>1, LoopMoves
  <1>5. CASE /\ commands # <<>> /\ Head(commands).op = "cancel"
             /\ commands' = Tail(commands) /\ UNCHANGED <<pc, flushing>>
    <2>1. /\ \A i \in DOMAIN commands' : i + 1 \in DOMAIN commands /\ commands'[i] = commands[i + 1]
          /\ InChannel' = InChannel
      BY <1>5, ChannelTail DEF SlotInv, SlotTypes, OnePlace, InChannel
    <2>2. JobTypes' /\ Waiting' /\ Leased' /\ HandoffFreesSlot'
      BY <1>1, <1>5 DEF JobInv, JobTypes, Waiting, Leased, HandoffFreesSlot
    <2>3. Untouched' /\ Flushing' /\ Closing'
      BY <1>1, <1>2, <1>3, <1>5, <2>1 DEF JobInv, Untouched, Flushing, Closing, Cancelling
    <2>4. Withdrawn'
      BY <1>1, <2>1 DEF JobInv, Withdrawn
    <2>5. Carried' /\ Answered'
      BY <1>1, <1>3, <1>5, <2>1 DEF JobInv, Carried, Answered, Keeps
    <2> QED
      BY <2>2, <2>3, <2>4, <2>5 DEF JobInv
  <1>6. CASE /\ commands # <<>> /\ Head(commands).op = "jobs" /\ pc' = "flush_cancel"
             /\ flushing' = Head(commands).works /\ UNCHANGED commands
    <2>1. /\ ToSet(flushing') \subseteq InChannel /\ Head(commands) = commands[1]
          /\ 1 \in DOMAIN commands /\ InChannel \subseteq Work
      BY <1>6, ChannelTail, OwingFinite DEF SlotInv, SlotTypes, OnePlace, InChannel
    <2>2. flushing' \in Batches
      BY <1>6, <2>1 DEF SlotInv, SlotTypes
    <2>3. flushing' \in Seq(Work) /\ flushing' # <<>>
      BY <2>2, WorkerAssumption
    <2>4. \A w \in ToSet(flushing') : attempt[w] # "unborn"
      BY <2>1 DEF SlotInv, BornOnce
    <2>5. InChannel' = InChannel
      BY <1>6 DEF InChannel, JobsIn
    <2>6. JobTypes'
      BY <1>1, <1>6, <2>3 DEF JobInv, JobTypes, LoopPlace
    <2>7. Waiting' /\ Withdrawn' /\ HandoffFreesSlot'
      BY <1>1, <1>6 DEF JobInv, Waiting, Withdrawn, HandoffFreesSlot
    <2>8. Untouched' /\ Closing'
      BY <1>1, <1>3, <1>6, <2>5 DEF JobInv, Untouched, Closing
    <2>9. Leased'
      BY <1>1, <1>2 DEF JobInv, Leased
    <2>10. Flushing'
      BY <1>1, <1>6, <2>1, <2>3, <2>4, <2>5 DEF Flushing, Cancelling
    <2>11. Carried'
      BY <1>1, <1>2, <1>3, <1>6, <2>5 DEF JobInv, Carried
    <2>12. Answered'
      BY <1>1, <1>2, <1>3 DEF JobInv, Answered, Keeps
    <2> QED
      BY <2>6, <2>7, <2>8, <2>9, <2>10, <2>11, <2>12 DEF JobInv
  <1> QED
    BY <1>4, <1>5, <1>6 DEF FlushCommands

LEMMA DropQueuedJobs ==
  ASSUME JobInv, SlotInv, DropQueued
  PROVE  JobInv'
  <1>1. /\ pc = "drop" /\ held' = held
        /\ UNCHANGED <<commands, externally_cancelled, task, round, runtime, attempt, submission, mail, answer>>
    BY DEF DropQueued, KeepLeases, mail_vars, loop_frame, actor_vars
  <1>2. flushing = <<>> /\ ToSet(flushing) = {} /\ Resting /\ commands = <<>>
    BY <1>1 DEF JobInv, Flushing, Cancelling, ToSet, Resting, Closing
  <1>3. queued \in Queue /\ QueuedOnce(queued) /\ task \in [Work -> TaskState]
    BY DEF JobInv, JobTypes
  <1>4. CASE WaitingClasses(queued) = {} /\ pc' = "join" /\ UNCHANGED <<flushing, queued>>
    <2>1. Resting' /\ pc' \in LoopPlace /\ QueuedJobs(queued) = {}
      BY <1>3, <1>4, QueueJobs DEF Resting, Cancelling, LoopPlace
    <2> QED
      BY <1>1, <1>2, <1>4, <2>1, LoopMoves
  <1>5. CASE WaitingClasses(queued) # {}
    <2> DEFINE c == Min(WaitingClasses(queued))
               w == Head(queued.by_class[c])
    <2>1. flushing' = <<w>> /\ queued' = remove_where(queued, w) /\ pc' = "drop_cancel"
      BY <1>5 DEF DropQueued
    <2>2. c \in WaitingClasses(queued)
      BY <1>3, <1>5, QueueJobs, MinOfNats
    <2>3. /\ queued.by_class[c] \in Seq(Work) /\ queued.by_class[c] # <<>>
          /\ ToSet(queued.by_class[c]) \subseteq QueuedJobs(queued)
      BY <1>3, <2>2, QueueJobs
    <2> HIDE DEF c
    <2>4. w \in Work /\ w \in QueuedJobs(queued)
      BY <2>3, HeadIn
    <2> HIDE DEF w
    <2>5. /\ queued' \in Queue /\ QueuedOnce(queued')
          /\ QueuedJobs(queued') = QueuedJobs(queued) \ {w}
      BY <1>3, <2>1, <2>4, RemoveJob
    <2>6. w \in held /\ task[w] = "none"
      BY <2>4 DEF JobInv, Waiting
    <2>7. attempt[w] # "unborn" /\ w \notin externally_cancelled
      BY <2>6 DEF SlotInv, BornOnce, JobInv, Leased
    <2>8. Live(w) => answer[w] = "none"
      BY <1>2, <2>4, <2>6 DEF JobInv, Answered, Keeps
    <2>9. externally_cancelled' = externally_cancelled \ {w} /\ pc' \in Cancelling
          /\ pc' # "join_cancel"
      BY <1>1, <2>1, <2>7 DEF Cancelling
    <2>10. /\ w \notin QueuedJobs(queued') /\ QueuedJobs(queued') \subseteq QueuedJobs(queued)
           /\ \A v \in QueuedJobs(queued) : v # w => v \in QueuedJobs(queued')
      BY <2>5
    <2> QED
      BY <1>1, <1>2, <1>3, <2>1, <2>4, <2>5, <2>6, <2>7, <2>8, <2>9, <2>10, FlushesOne
  <1> QED
    BY <1>4, <1>5 DEF DropQueued

(* The loop asks the actor to cancel, and waits.                           *)
LEMMA LoopAsksJobs ==
  ASSUME JobInv, SlotInv, LoopAsks
  PROVE  JobInv'
  <1> DEFINE w == Head(flushing)
             msg == [op |-> "cancel", round |-> round[w]]
  <1>1. /\ flushing # <<>> /\ held' = held
        /\ mail' = [mail EXCEPT ![w] = Append(mail[w], msg)]
        /\ answer' = [answer EXCEPT ![w] = "asked"]
        /\ UNCHANGED <<commands, pc, flushing, queued, externally_cancelled, task, round,
                       runtime, attempt, submission>>
    BY DEF LoopAsks, KeepLeases, loop_frame, actor_vars
  <1>2. w \in Work /\ w \in ToSet(flushing) /\ attempt[w] # "unborn"
    BY <1>1, HeadIn DEF JobInv, JobTypes, Flushing
  <1> HIDE DEF w
  <1>3. /\ mail \in [Work -> Seq(Message)] /\ answer \in [Work -> {"none", "asked", "ok", "err"}]
        /\ mail[w] \in Seq(Message) /\ msg \in Message /\ msg.op = "cancel"
    BY <1>2 DEF JobInv, JobTypes, Message, Waits
  <1> HIDE DEF msg
  <1>4. /\ Append(mail[w], msg) \in Seq(Message)
        /\ \A i \in DOMAIN Append(mail[w], msg) :
             \/ i \in DOMAIN mail[w] /\ Append(mail[w], msg)[i] = mail[w][i]
             \/ Append(mail[w], msg)[i] = msg
    BY <1>3
  <1>5. /\ mail' \in [Work -> Seq(Message)] /\ mail'[w] = Append(mail[w], msg)
        /\ \A v \in Work : v # w => mail'[v] = mail[v]
    BY <1>1, <1>2, <1>3, <1>4
  <1>6. /\ answer' \in [Work -> {"none", "asked", "ok", "err"}] /\ answer'[w] = "asked"
        /\ \A v \in Work : v # w => answer'[v] = answer[v]
    BY <1>1, <1>2, <1>3
  <1>7. \A v \in Work : Commits(v)' => Commits(v)
    BY <1>3, <1>4, <1>5 DEF Commits
  <1>8. InChannel' = InChannel /\ \A v \in Work : Live(v)' <=> Live(v)
    BY <1>1 DEF InChannel, JobsIn, Live, Open
  <1>9. JobTypes'
    BY <1>1, <1>5, <1>6 DEF JobInv, JobTypes
  <1>10. Waiting' /\ Leased' /\ Withdrawn' /\ Closing'
    BY <1>1 DEF JobInv, Waiting, Leased, Withdrawn, Closing, Children
  <1>11. Untouched'
    BY <1>1, <1>2, <1>6, <1>7, <1>8 DEF JobInv, Untouched
  <1>12. Flushing'
    BY <1>1, <1>8 DEF JobInv, Flushing
  <1>13. Carried'
    <2>1. pc = "flush_cancel" => ToSet(Head(commands).works) \subseteq Work
      BY ChannelTail, BatchSlots DEF SlotInv, SlotTypes, FlushesJobs, OnePlace
    <2> QED
      BY <1>1, <1>8, <2>1 DEF JobInv, Carried
  <1>14. Answered'
    BY <1>1, <1>6, <1>8 DEF JobInv, Answered, Keeps, w
  <1>15. HandoffFreesSlot'
    BY <1>1, <1>7 DEF JobInv, HandoffFreesSlot, Commits
  <1> QED
    BY <1>9, <1>10, <1>11, <1>12, <1>13, <1>14, <1>15 DEF JobInv

LEMMA TailRest ==
  ASSUME NEW S, NEW s \in Seq(S), s # <<>>
  PROVE  /\ Tail(s) \in Seq(S) /\ ToSet(Tail(s)) \subseteq ToSet(s)
         /\ \A v \in ToSet(s) : v # Head(s) => v \in ToSet(Tail(s))
         /\ Len(s) > 1 => Tail(s) # <<>>
         /\ Len(s) = 1 => Tail(s) = <<>> /\ ToSet(s) = {Head(s)}
  <1>1. /\ Tail(s) \in Seq(S) /\ Len(s) \in Nat \ {0} /\ DOMAIN s = 1 .. Len(s)
        /\ Head(s) = s[1] /\ DOMAIN Tail(s) = 1 .. Len(s) - 1 /\ Len(Tail(s)) = Len(s) - 1
        /\ \A i \in 1 .. Len(s) - 1 : Tail(s)[i] = s[i + 1]
    BY EmptySeq, HeadTailProperties
  <1>2. ToSet(Tail(s)) \subseteq ToSet(s)
    BY <1>1 DEF ToSet
  <1>3. ASSUME NEW v \in ToSet(s), v # Head(s) PROVE v \in ToSet(Tail(s))
    <2>1. PICK i \in DOMAIN s : s[i] = v
      BY DEF ToSet
    <2>2. i - 1 \in DOMAIN Tail(s) /\ Tail(s)[i - 1] = v
      BY <1>1, <1>3, <2>1
    <2> QED
      BY <2>2 DEF ToSet
  <1>4. Len(s) > 1 => Tail(s) # <<>>
    <2>1. Len(s) > 1 => Len(Tail(s)) # 0
      BY <1>1
    <2>2. Tail(s) = <<>> => Len(Tail(s)) = 0
      BY EmptySeq
    <2> QED
      BY <2>1, <2>2, Zenon
  <1>5. Len(s) = 1 => Tail(s) = <<>>
    BY <1>1, EmptySeq
  <1>6. Len(s) = 1 => ToSet(s) = {Head(s)}
    BY <1>1 DEF ToSet
  <1> QED
    BY <1>1, <1>2, <1>3, <1>4, <1>5, <1>6

(* The loop has cancelled a job: nobody waits for it any longer.           *)
LEMMA LoopCancelledJobs ==
  ASSUME JobInv, SlotInv, LoopCancelled
  PROVE  JobInv'
  <1> DEFINE w == Head(flushing)
             b == ToSet(Head(commands).works)
  <1>1. /\ flushing # <<>> /\ flushing' = Tail(flushing)
        /\ answer[w] \in {"ok", "err"} \/ runtime # "running"
        /\ answer' = [answer EXCEPT ![w] = "none"]
        /\ UNCHANGED <<queued, externally_cancelled, task, mail, round, runtime, attempt, submission>>
    BY DEF LoopCancelled, loop_frame, actor_vars
  <1>2. /\ w \in Work /\ w \in ToSet(flushing) /\ task[w] = "none"
        /\ flushing \in Seq(Work) /\ flushing' \in Seq(Work) /\ ToSet(flushing') \subseteq ToSet(flushing)
        /\ \A v \in ToSet(flushing) : v # w => v \in ToSet(flushing')
        /\ Len(flushing) > 1 => flushing' # <<>>
        /\ Len(flushing) = 1 => flushing' = <<>> /\ ToSet(flushing) = {w}
    BY <1>1, HeadIn, FlushedIdle, TailRest DEF JobInv, JobTypes
  <1>3. ~Live(w)
    BY <1>1, <1>2 DEF JobInv, Answered, Keeps, Live
  <1>4. /\ answer' \in [Work -> {"none", "asked", "ok", "err"}] /\ answer'[w] = "none"
        /\ \A v \in Work : v # w => answer'[v] = answer[v]
    BY <1>1, <1>2 DEF JobInv, JobTypes
  <1>5. \A v \in Work : (Live(v)' <=> Live(v)) /\ (Commits(v)' <=> Commits(v))
    BY <1>1 DEF Live, Open, Commits
  <1>6. InChannel \subseteq Work /\ held \subseteq Work /\ InChannel \cap held = {}
    BY OwingFinite
  <1>7. Answered'
    <2>1. \A v \in Work : v # w /\ Keeps(v) => Keeps(v)'
      BY <1>1, <1>4 DEF Keeps, w
    <2> QED
      BY <1>3, <1>4, <1>5, <2>1 DEF JobInv, Answered
  <1>8. pc = "flush_cancel" => w \in InChannel /\ w \notin held
    BY <1>2, <1>6 DEF JobInv, Flushing
  <1>9. CASE pc = "flush_cancel" /\ Len(flushing) > 1 /\ KeepLeases /\ UNCHANGED <<pc, commands>>
    <2> HIDE DEF w
    <2>1. held' = held /\ InChannel' = InChannel
      BY <1>9 DEF KeepLeases, InChannel, JobsIn
    <2>2. JobTypes'
      BY <1>1, <1>2, <1>4, <1>9 DEF JobInv, JobTypes
    <2>3. Waiting' /\ Withdrawn' /\ HandoffFreesSlot'
      BY <1>1, <1>9, <2>1 DEF JobInv, Waiting, Withdrawn, HandoffFreesSlot
    <2>4. Untouched' /\ Closing'
      BY <1>1, <1>4, <1>5, <1>9, <2>1 DEF JobInv, Untouched, Closing, Children
    <2>5. Leased'
      BY <1>1, <1>2, <1>8, <1>9, <2>1 DEF JobInv, Leased
    <2>6. Flushing'
      BY <1>1, <1>2, <1>9, <2>1 DEF JobInv, Flushing, Cancelling
    <2>7. Carried'
      <3>1. b \subseteq Work /\ b' = b
        BY <1>9, ChannelTail, BatchSlots DEF SlotInv, SlotTypes, FlushesJobs, OnePlace
      <3>2. \A v \in b : Live(v) => v \in ToSet(flushing)
        BY <1>9 DEF JobInv, Carried
      <3>3. \A v \in b' : Live(v)' => v \in ToSet(flushing')
        BY <1>2, <1>3, <1>5, <3>1, <3>2
      <3>4. \A v \in Work : Live(v)' =>
              \/ v \in InChannel' \/ v \in QueuedJobs(queued') \/ v \in ToSet(flushing')
              \/ task'[v] \notin {"none", "finished"}
        BY <1>1, <1>2, <1>3, <1>5, <2>1 DEF JobInv, Carried
      <3> QED
        BY <3>3, <3>4 DEF Carried
    <2> QED
      BY <1>7, <2>2, <2>3, <2>4, <2>5, <2>6, <2>7 DEF JobInv
  <1>10. CASE /\ pc = "flush_cancel" /\ Len(flushing) = 1 /\ pc' = "flush"
              /\ commands' = Tail(commands) /\ UNCHANGED held
    <2> HIDE DEF w
    <2>1. /\ InChannel' = InChannel \ b /\ b \subseteq InChannel
          /\ \A i \in DOMAIN commands' : i + 1 \in DOMAIN commands /\ commands'[i] = commands[i + 1]
      BY <1>10, ChannelTail DEF SlotInv, SlotTypes, OnePlace, FlushesJobs, InChannel
    <2>2. \A v \in b : ~Live(v)
      BY <1>2, <1>3, <1>6, <1>10, <2>1 DEF JobInv, Carried
    <2> HIDE DEF b
    <2>3. flushing' = <<>> /\ ToSet(flushing') = {}
      BY <1>2, <1>10 DEF ToSet
    <2>4. JobTypes'
      BY <1>1, <1>2, <1>4, <1>10 DEF JobInv, JobTypes, LoopPlace
    <2>5. Waiting' /\ HandoffFreesSlot'
      BY <1>1, <1>10 DEF JobInv, Waiting, HandoffFreesSlot
    <2>6. Withdrawn'
      BY <1>1, <2>1 DEF JobInv, Withdrawn
    <2>7. Untouched'
      BY <1>1, <1>4, <1>5, <2>1 DEF JobInv, Untouched
    <2>8. Leased'
      BY <1>1, <1>2, <1>8, <1>10 DEF JobInv, Leased
    <2>9. Flushing' /\ Closing'
      BY <1>10, <2>3 DEF Flushing, Closing, Cancelling
    <2>10. Carried'
      BY <1>1, <1>2, <1>3, <1>5, <1>10, <2>1, <2>2 DEF JobInv, Carried
    <2> QED
      BY <1>7, <2>4, <2>5, <2>6, <2>7, <2>8, <2>9, <2>10 DEF JobInv
  <1>11. CASE /\ pc # "flush_cancel" /\ Release({w}) /\ UNCHANGED commands
              /\ pc' = CASE pc = "select_cancel" -> "top"
                         [] pc = "drop_cancel" -> "drop"
                         [] OTHER -> "join"
    <2>1. pc \in Cancelling /\ held' = held \ {w}
      BY <1>1, <1>11 DEF JobInv, Flushing, Release
    <2>2. \/ pc = "select_cancel" /\ pc' = "top"
          \/ pc = "drop_cancel" /\ pc' = "drop"
          \/ pc = "join_cancel" /\ pc' = "join"
      BY <1>11, <2>1 DEF Cancelling
    <2>3. flushing' = <<>> /\ ToSet(flushing') = {} /\ w \notin QueuedJobs(queued)
      BY <1>2, <2>1 DEF JobInv, Flushing, ToSet
    <2>4. InChannel' = InChannel
      BY <1>11 DEF InChannel, JobsIn
    <2> HIDE DEF w
    <2>5. JobTypes'
      BY <1>1, <1>2, <1>4, <2>2 DEF JobInv, JobTypes, LoopPlace
    <2>6. Waiting' /\ HandoffFreesSlot'
      BY <1>1, <2>1, <2>3 DEF JobInv, Waiting, HandoffFreesSlot
    <2>7. Withdrawn'
      BY <1>1, <1>11 DEF JobInv, Withdrawn
    <2>8. Untouched'
      BY <1>1, <1>4, <1>5, <2>4 DEF JobInv, Untouched
    <2>9. Leased'
      <3>1. \A v \in Work : task[v] \in Early /\ v \notin externally_cancelled => v \in held'
        BY <1>2, <2>1 DEF JobInv, Leased, Early
      <3>2. \A v \in held' : v \in QueuedJobs(queued) \/ task[v] # "none" \/ v \in ToSet(flushing')
        BY <1>2, <2>1 DEF JobInv, Leased
      <3> QED
        BY <1>1, <2>1, <3>1, <3>2 DEF JobInv, Leased
    <2>10. Flushing'
      BY <2>2, <2>3 DEF Flushing, Cancelling
    <2>11. Closing'
      BY <1>1, <1>11, <2>2 DEF JobInv, Closing
    <2>12. Carried'
      BY <1>1, <1>2, <1>3, <1>5, <2>2, <2>4 DEF JobInv, Carried
    <2> QED
      BY <1>7, <2>5, <2>6, <2>7, <2>8, <2>9, <2>10, <2>11, <2>12 DEF JobInv
  <1> QED
    BY <1>9, <1>10, <1>11 DEF LoopCancelled

LEMMA LoopJobs ==
  ASSUME JobInv, SlotInv, Loop
  PROVE  JobInv'
  <1>1. CASE LoopTop \/ SelectShutdown
    <2>1. /\ Resting /\ Resting' /\ pc' \in {"flush", "drain"}
          /\ UNCHANGED <<commands, flushing, queued, held, externally_cancelled, task, round,
                         runtime, attempt, submission, mail, answer>>
      BY <1>1 DEF LoopTop, SelectShutdown, Resting, Cancelling, mail_vars, loop_frame, actor_vars
    <2>2. pc' \in LoopPlace /\ pc' \notin {"drop", "join", "stopped"}
      BY <2>1 DEF LoopPlace
    <2> QED
      BY <2>1, <2>2, LoopMoves
  <1>2. CASE Stop
    <2>1. /\ pc = "join" /\ Resting /\ Resting' /\ pc' = "stopped" /\ Children = {}
          /\ UNCHANGED <<commands, flushing, queued, held, externally_cancelled, task, round,
                         runtime, attempt, submission, mail, answer>>
      BY <1>2 DEF Stop, Resting, Cancelling, mail_vars, loop_frame, actor_vars
    <2>2. pc' \in LoopPlace /\ commands = <<>> /\ QueuedJobs(queued) = {}
      BY <2>1 DEF LoopPlace, JobInv, Closing
    <2> QED
      BY <2>1, <2>2, LoopMoves
  <1>3. CASE DrainCommands
    <2>1. /\ pc = "drain"
          /\ UNCHANGED <<flushing, task, round, runtime, attempt, submission, mail, answer>>
      BY <1>3 DEF DrainCommands, mail_vars, loop_frame, actor_vars
    <2>2. CASE commands # <<>> /\ handle_worker_command /\ UNCHANGED pc
      BY <2>1, <2>2, CommandJobs
    <2>3. CASE pc' = "dispatch" /\ KeepLeases /\ UNCHANGED <<commands, queued, externally_cancelled>>
      <3>1. Resting /\ Resting' /\ pc' \in LoopPlace /\ pc' \notin {"drop", "join", "stopped"} /\ held' = held
        BY <2>1, <2>3 DEF Resting, Cancelling, LoopPlace, KeepLeases
      <3> QED
        BY <2>1, <2>3, <3>1, LoopMoves
    <2> QED
      BY <1>3, <2>2, <2>3 DEF DrainCommands
  <1>4. CASE SelectCommand
    <2>1. /\ pc = "select" /\ pc' = "top" /\ commands # <<>> /\ handle_worker_command
          /\ UNCHANGED <<flushing, task, round, runtime, attempt, submission, mail, answer>>
      BY <1>4 DEF SelectCommand, mail_vars, loop_frame, actor_vars
    <2> QED
      BY <2>1, CommandJobs
  <1> QED
    BY <1>1, <1>2, <1>3, <1>4, SpawnJobs, FlushCommandsJobs, DropQueuedJobs, LoopAsksJobs,
       LoopCancelledJobs, JoinChildJobs, JoinClosingJobs DEF Loop

-----------------------------------------------------------------------------
(* The theorems.                                                           *)

LEMMA StillJobs ==
  ASSUME JobInv, SlotInv, UNCHANGED vars
  PROVE  JobInv'
  <1> USE DEF vars, shared_vars, loop_vars, child_vars, actor_vars, mail_vars
  <1>1. JobTypes' /\ Waiting' /\ Leased' /\ Withdrawn' /\ HandoffFreesSlot'
    BY DEF JobInv, JobTypes, Waiting, Leased, Withdrawn, HandoffFreesSlot
  <1>2. /\ InChannel' = InChannel
        /\ \A v \in Work : (Live(v)' <=> Live(v)) /\ (Commits(v)' <=> Commits(v))
    BY DEF InChannel, JobsIn, Live, Open, Commits
  <1>3. Untouched' /\ Flushing' /\ Closing'
    BY <1>2 DEF JobInv, Untouched, Flushing, Closing, Children
  <1>4. Carried'
    <2>1. pc = "flush_cancel" => ToSet(Head(commands).works) \subseteq Work
      BY ChannelTail, BatchSlots DEF SlotInv, SlotTypes, FlushesJobs, OnePlace
    <2> QED
      BY <1>2, <2>1 DEF JobInv, Carried
  <1>5. Answered'
    BY <1>2 DEF JobInv, Answered, Keeps
  <1> QED
    BY <1>1, <1>3, <1>4, <1>5 DEF JobInv

(* Where every job of the worker is, whatever the actor, the children and  *)
(* the loop do: a job is in the channel, queued, running or being          *)
(* cancelled as long as a running actor waits for it, a child keeps its    *)
(* lease until it hands over or is aborted, and the closing loop empties   *)
(* the channel, the queue and the children in that order.                  *)
THEOREM JobInvariance == Spec => []JobInv
  <1>1. SlotInv /\ JobInv /\ [Next]_vars => JobInv'
    <2> SUFFICES ASSUME SlotInv, JobInv, [Next]_vars PROVE JobInv'
      OBVIOUS
    <2>1. CASE Actor
      BY <2>1, AdmissionJobs, SendJobs, FlagsJobs, HandleControlJobs, ControlClosedJobs DEF Actor
    <2>2. CASE Requests
      BY <2>2, FlagsJobs, DetachJobs DEF Requests
    <2>3. ASSUME NEW w \in Work, Child(w) PROVE JobInv'
      BY <2>3, ChildJobs
    <2>4. CASE Loop
      BY <2>4, LoopJobs
    <2>5. CASE UNCHANGED vars
      BY <2>5, StillJobs
    <2> QED
      BY <2>1, <2>2, <2>3, <2>4, <2>5 DEF Next
  <1> QED
    BY <1>1, InitJobs, SlotInvariance, PTL DEF Spec

(* commit_prepared releases the lease before it hands its result over: in  *)
(* every worker, a commit on its way to the actor occupies no slot.        *)
THEOREM HandoffAlwaysFrees == Spec => []HandoffFreesSlot
  <1>1. JobInv => HandoffFreesSlot
    BY DEF JobInv
  <1> QED
    BY <1>1, JobInvariance, PTL

(* A job that the worker was told to cancel loses its lease for good, and  *)
(* only jobs with a lease are queued: the join of a continuation never     *)
(* requeues what a cancel command aborted meanwhile.                       *)
THEOREM CancelledNeverQueued == Spec => []CancelledStaysCancelled
  <1>1. JobInv => CancelledStaysCancelled
    BY DEF JobInv, Waiting, CancelledStaysCancelled
  <1> QED
    BY <1>1, JobInvariance, PTL

(* The closing loop of every worker returns every slot, and cancels every  *)
(* attempt that a running actor still knows, before it stops.              *)
THEOREM NothingIsLeft == Spec => []NothingLeftBehind
  <1>1. SlotInv /\ JobInv => NothingLeftBehind
    <2> SUFFICES ASSUME SlotInv, JobInv, pc = "stopped", submission.step = "idle"
                 PROVE  /\ accepted_jobs = 0
                        /\ runtime = "running" => \A w \in Work : ~Open(w)
      BY DEF NothingLeftBehind
    <2>1. /\ commands = <<>> /\ QueuedJobs(queued) = {} /\ Children = {}
          /\ flushing = <<>> /\ ToSet(flushing) = {}
      BY DEF JobInv, Closing, Flushing, Cancelling, ToSet
    <2>2. InChannel = {} /\ Reserved = {} /\ \A w \in Work : task[w] = "none"
      BY <2>1 DEF InChannel, JobsIn, Reserved, Children
    <2>3. held = {}
      BY <2>1, <2>2 DEF JobInv, Leased, SlotInv, SlotTypes
    <2>4. accepted_jobs = 0
      BY <2>2, <2>3, FS_EmptySet DEF SlotInv, SlotsAccounted
    <2>5. \A w \in Work : ~Live(w)
      BY <2>1, <2>2 DEF JobInv, Carried
    <2> QED
      BY <2>4, <2>5 DEF Live
  <1> QED
    BY <1>1, SlotInvariance, JobInvariance, PTL
=============================================================================
