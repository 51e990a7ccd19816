----------------------------- MODULE ProcessProofs -----------------------------
(***************************************************************************)
(* Proofs about Process, for every number of processes, runs and kills and *)
(* every set of configuration files: types, the lock, the state file as a  *)
(* register, and what reaches the operator.                                *)
(***************************************************************************)
EXTENDS Process, TLAPS

\* A run that is under way has a number.
RunNumbered == \A p \in Proc : pc[p] # "done" => run[p] # 0

TypeInv == TypeOK /\ RunNumbered

\* Every step keeps the types.
LEMMA TypeInvariance == Spec => []TypeInv
<1> USE DEF diskVars, runVars, pollVars, newsVars, Goto, At, End, Meets, Tells,
            Place, Locked, Trouble
<1>1. Init => TypeInv
  BY ProcessAssumption DEF Init, TypeInv, TypeOK, RunNumbered, Time
<1>2. TypeInv /\ [Next]_vars => TypeInv'
  <2> SUFFICES ASSUME TypeInv, [Next]_vars PROVE TypeInv'
    OBVIOUS
  <2> USE DEF TypeInv, TypeOK, RunNumbered
  <2>1. CASE Edit \/ Tick
    BY <2>1, ProcessAssumption DEF Edit, Tick, Time
  <2>2. ASSUME NEW p \in Proc, Start(p) PROVE TypeInv'
    BY <2>2, ProcessAssumption DEF Start
  <2>3. ASSUME NEW p \in Proc, LoadConfig(p) \/ ConfigFails(p) PROVE TypeInv'
    <3>1. CASE LoadConfig(p)
      BY <3>1 DEF LoadConfig
    <3>2. CASE ConfigFails(p)
      BY <3>2 DEF ConfigFails
    <3> QED
      BY <2>3, <3>1, <3>2
  <2>4. ASSUME NEW p \in Proc, NewNotifier(p) \/ NotifierFails(p) PROVE TypeInv'
    <3>1. CASE NewNotifier(p)
      BY <3>1 DEF NewNotifier
    <3>2. CASE NotifierFails(p)
      BY <3>2 DEF NotifierFails
    <3> QED
      BY <2>4, <3>1, <3>2
  <2>5. ASSUME NEW p \in Proc, acquire_lock(p) \/ LockFails(p) PROVE TypeInv'
    <3>1. CASE acquire_lock(p)
      BY <3>1 DEF acquire_lock
    <3>2. CASE LockFails(p)
      BY <3>2 DEF LockFails
    <3> QED
      BY <2>5, <3>1, <3>2
  <2>6. ASSUME NEW p \in Proc, load_state(p) PROVE TypeInv'
    BY <2>6 DEF load_state, Contents
  <2>7. ASSUME NEW p \in Proc, NewClient(p) PROVE TypeInv'
    BY <2>7 DEF NewClient
  <2>8. ASSUME NEW p \in Proc, LoadFails(p) \/ ClientFails(p) PROVE TypeInv'
    <3>1. CASE LoadFails(p)
      BY <3>1 DEF LoadFails, Fatal
    <3>2. CASE ClientFails(p)
      BY <3>2 DEF ClientFails, Fatal
    <3> QED
      BY <2>8, <3>1, <3>2
  <2>9. ASSUME NEW p \in Proc, NEW bad \in SUBSET {"deposit", "chain"},
               NEW seen \in SUBSET {now}, Pass(p, bad, seen)
        PROVE  TypeInv'
    <3>1. run[p] \in 1 .. MaxRuns
      BY <2>9, ProcessAssumption DEF Pass
    <3>2. state' \in [Proc -> SUBSET (1 .. MaxRuns)]
      BY <2>9, <3>1 DEF Pass
    <3>3. /\ errors' \in [Proc -> SUBSET Trouble]
          /\ trouble' \in [Proc -> SUBSET Trouble]
          /\ told' \in [Proc -> SUBSET Trouble]
      BY <2>9 DEF Pass
    <3>4. /\ updated_at' \in [1 .. MaxRuns -> SUBSET Time]
          /\ failed_at' \in [Proc -> SUBSET Time]
      BY <2>9, <3>1 DEF Pass
    <3> QED
      BY <2>9, <3>2, <3>3, <3>4 DEF Pass
  <2>10. ASSUME NEW p \in Proc, TruncateTmp(p) \/ WriteTmp(p) \/ Rename(p)
         PROVE  TypeInv'
    <3>1. Partial \in Contents
      BY DEF Partial, Contents
    <3>2. Whole(state[p]) \in Contents
      BY DEF Whole, Contents
    <3>3. file' \in SUBSET Contents /\ tmp' \in SUBSET Contents
      BY <2>10, <3>1, <3>2 DEF TruncateTmp, WriteTmp, Rename
    <3> QED
      BY <2>10, <3>3 DEF TruncateTmp, WriteTmp, Rename
  <2>11. ASSUME NEW p \in Proc, SaveFails(p) \/ Alert(p) PROVE TypeInv'
    <3>1. CASE SaveFails(p)
      BY <3>1 DEF SaveFails
    <3>2. CASE Alert(p)
      BY <3>2 DEF Alert
    <3> QED
      BY <2>11, <3>1, <3>2
  <2>12. ASSUME NEW p \in Proc, Kill(p) PROVE TypeInv'
    BY <2>12, ProcessAssumption DEF Kill
  <2>13. CASE UNCHANGED vars
    BY <2>13 DEF vars
  <2> QED
    BY <2>1, <2>2, <2>3, <2>4, <2>5, <2>6, <2>7, <2>8, <2>9, <2>10, <2>11,
       <2>12, <2>13 DEF Next, Step
<1> QED
  BY <1>1, <1>2, PTL DEF Spec

\* Every variable keeps its type, and only a process past the lock holds it: no
\* exit and no kill leaves the lock behind.
THEOREM TypeCorrect == Spec => []TypeOK
BY TypeInvariance, PTL DEF TypeInv

-----------------------------------------------------------------------------
(* The lock.                                                               *)

\* A process past acquire_lock holds the lock, and at most one process does.
LockInv ==
  /\ \A p \in Proc : pc[p] \in Locked => p \in lock
  /\ \A p, q \in lock : p = q

\* No two processes are past the lock.
THEOREM LockCorrect == Spec => []LockInv
<1> USE DEF diskVars, runVars, pollVars, newsVars, Goto, At, End, Meets, Tells, Locked
<1>1. Init => LockInv
  BY DEF Init, LockInv
<1>2. TypeInv /\ LockInv /\ [Next]_vars => LockInv'
  <2> SUFFICES ASSUME TypeInv, LockInv, [Next]_vars PROVE LockInv'
    OBVIOUS
  <2> USE DEF TypeInv, TypeOK, LockInv
  <2>1. CASE Edit \/ Tick
    BY <2>1 DEF Edit, Tick
  <2>2. ASSUME NEW p \in Proc,
               Start(p) \/ LoadConfig(p) \/ ConfigFails(p)
                 \/ NewNotifier(p) \/ NotifierFails(p)
        PROVE  LockInv'
    BY <2>2 DEF Start, LoadConfig, ConfigFails, NewNotifier, NotifierFails
  <2>3. ASSUME NEW p \in Proc, acquire_lock(p) PROVE LockInv'
    BY <2>3 DEF acquire_lock, LockFree
  <2>4. ASSUME NEW p \in Proc,
               LockFails(p) \/ LoadFails(p) \/ ClientFails(p) \/ Alert(p)
                 \/ Kill(p)
        PROVE  LockInv'
    BY <2>4 DEF LockFails, LoadFails, ClientFails, Fatal, Alert, Kill
  <2>5. ASSUME NEW p \in Proc,
               load_state(p) \/ NewClient(p)
                 \/ \E bad \in SUBSET {"deposit", "chain"}, seen \in SUBSET {now} :
                      Pass(p, bad, seen)
        PROVE  LockInv'
    BY <2>5 DEF load_state, NewClient, Pass
  <2>6. ASSUME NEW p \in Proc,
               TruncateTmp(p) \/ WriteTmp(p) \/ Rename(p) \/ SaveFails(p)
        PROVE  LockInv'
    BY <2>6 DEF TruncateTmp, WriteTmp, Rename, SaveFails
  <2>7. CASE UNCHANGED vars
    BY <2>7 DEF vars
  <2> QED
    BY <2>1, <2>2, <2>3, <2>4, <2>5, <2>6, <2>7 DEF Next, Step
<1> QED
  BY <1>1, <1>2, TypeInvariance, PTL DEF Spec

-----------------------------------------------------------------------------
(* The state file.                                                         *)

\* Run numbers are given out once, and a saved pass had one.
Numbering ==
  /\ \A p \in Proc : run[p] <= runs
  /\ \A p, q \in Proc : run[p] = run[q] /\ run[p] # 0 => p = q
  /\ \A r \in Saved : r <= runs

\* Nothing but a rename touches the state file, and what is renamed is whole.
FileInv ==
  /\ \A f \in file : f.whole
  /\ \A p \in Proc : pc[p] = "rename" => tmp = {Whole(state[p])}

\* Under the lock, the memory of a process is the file, and after its pass the
\* file and that pass: no other process can have saved in between.
MemoryInv ==
  \A p \in Proc :
    /\ pc[p] \in {"client", "pass"} => state[p] = Saved
    /\ pc[p] \in {"save", "write", "rename"} => state[p] = Saved \cup {run[p]}

BeforeSave == {"config", "notifier", "lock", "load", "client", "pass", "save",
               "write", "rename"}

\* A pass is in the file once its process has renamed it there, not before.
SavedInv ==
  \A p \in Proc :
    /\ pc[p] \in BeforeSave => run[p] \notin Saved
    /\ /\ pc[p] = "alert" \/ (pc[p] = "done" /\ run[p] # 0)
       /\ trouble[p] \subseteq {"deposit", "chain"}
       => run[p] \in Saved

DiskInv == Numbering /\ FileInv /\ MemoryInv /\ SavedInv

\* Two processes past the lock are the same.
LEMMA OnePastLock ==
  ASSUME LockInv, NEW p \in Proc, NEW q \in Proc,
         pc[p] \in Locked, pc[q] \in Locked
  PROVE  p = q
BY DEF LockInv

\* Renaming the temporary file adds the process's pass to the file, and changes
\* nothing else of it.
LEMMA RenameSaves ==
  ASSUME DiskInv, NEW p \in Proc, Rename(p)
  PROVE  /\ Saved' = Saved \cup {run[p]}
         /\ run[p] \notin Saved
         /\ \A f \in file' : f.whole
<1>1. pc[p] = "rename"
  BY DEF Rename, At
<1>2. file' = {Whole(state[p])}
  BY <1>1 DEF DiskInv, FileInv, Rename
<1>3. state[p] = Saved \cup {run[p]}
  BY <1>1 DEF DiskInv, MemoryInv
<1>4. Saved' = state[p]
  BY <1>2 DEF Saved, Whole
<1>5. run[p] \notin Saved
  BY <1>1 DEF DiskInv, SavedInv, BeforeSave
<1> QED
  BY <1>2, <1>3, <1>4, <1>5 DEF Whole

\* The state file, the memory of the processes and what is saved stay in step.
THEOREM DiskCorrect == Spec => []DiskInv
<1> USE DEF diskVars, runVars, pollVars, newsVars, Goto, At, End, Meets, Tells
<1>1. Init => DiskInv
  BY DEF Init, DiskInv, Numbering, FileInv, MemoryInv, SavedInv, BeforeSave,
         Saved
<1>2. TypeInv /\ LockInv /\ DiskInv /\ [Next]_vars => DiskInv'
  <2> SUFFICES ASSUME TypeInv, LockInv, DiskInv, [Next]_vars PROVE DiskInv'
    OBVIOUS
  <2>1. UNCHANGED file => UNCHANGED Saved
    BY DEF Saved
  <2>2. Saved \subseteq 1 .. MaxRuns
    BY DEF TypeInv, TypeOK, Contents, Saved
  <2>3. /\ pc \in [Proc -> Place] /\ run \in [Proc -> 0 .. MaxRuns]
        /\ state \in [Proc -> SUBSET (1 .. MaxRuns)]
        /\ trouble \in [Proc -> SUBSET Trouble]
        /\ runs \in 0 .. MaxRuns
        /\ RunNumbered
    BY DEF TypeInv, TypeOK
  <2> USE DEF DiskInv, Numbering, FileInv, MemoryInv, SavedInv, BeforeSave
  <2>4. CASE Edit \/ Tick
    BY <2>1, <2>4 DEF Edit, Tick
  <2>5. ASSUME NEW p \in Proc, Start(p) PROVE DiskInv'
    <3>1. \A q \in Proc : run[q] # runs + 1
      BY <2>3, ProcessAssumption
    <3>2. runs + 1 \notin Saved
      BY <2>2, <2>3, ProcessAssumption
    <3>3. /\ run' = [run EXCEPT ![p] = runs + 1] /\ runs' = runs + 1
          /\ Saved' = Saved
      BY <2>1, <2>5 DEF Start
    <3>4. \A q \in Proc : run[q] \in Nat /\ run[q] <= runs
      BY <2>3, ProcessAssumption
    <3>5. \A r \in Saved : r \in Nat /\ r <= runs
      BY <2>2, ProcessAssumption
    <3>6. runs \in Nat
      BY <2>3, ProcessAssumption
    <3>7. Numbering'
      BY <2>3, <3>1, <3>3, <3>4, <3>5, <3>6
    <3> QED
      BY <2>1, <2>3, <2>5, <3>2, <3>7 DEF Start
  <2>6. ASSUME NEW p \in Proc, LoadConfig(p) \/ NewNotifier(p) PROVE DiskInv'
    BY <2>1, <2>3, <2>6 DEF LoadConfig, NewNotifier
  <2>7. ASSUME NEW p \in Proc, ConfigFails(p) \/ NotifierFails(p) PROVE DiskInv'
    BY <2>1, <2>3, <2>7 DEF ConfigFails, NotifierFails
  <2>8. ASSUME NEW p \in Proc, acquire_lock(p) \/ NewClient(p) PROVE DiskInv'
    BY <2>1, <2>3, <2>8 DEF acquire_lock, NewClient
  <2>9. ASSUME NEW p \in Proc, LockFails(p) \/ LoadFails(p) \/ ClientFails(p)
        PROVE  DiskInv'
    <3>1. CASE LockFails(p)
      BY <2>1, <2>3, <3>1 DEF LockFails
    <3>2. CASE LoadFails(p)
      BY <2>1, <2>3, <3>2 DEF LoadFails, Fatal
    <3>3. CASE ClientFails(p)
      BY <2>1, <2>3, <3>3 DEF ClientFails, Fatal
    <3> QED
      BY <2>9, <3>1, <3>2, <3>3
  <2>10. ASSUME NEW p \in Proc, load_state(p) PROVE DiskInv'
    <3>1. state'[p] = Saved
      BY <2>3, <2>10 DEF load_state, Saved
    <3> QED
      BY <2>1, <2>3, <2>10, <3>1 DEF load_state
  <2>11. ASSUME NEW p \in Proc, NEW bad \in SUBSET {"deposit", "chain"},
                NEW seen \in SUBSET {now}, Pass(p, bad, seen)
         PROVE  DiskInv'
    BY <2>1, <2>3, <2>11 DEF Pass
  <2>12. ASSUME NEW p \in Proc, TruncateTmp(p) \/ WriteTmp(p) PROVE DiskInv'
    <3>1. \A q \in Proc : pc'[q] = "rename" => q = p
      BY <2>3, <2>12, OnePastLock DEF TruncateTmp, WriteTmp, Locked
    <3> QED
      BY <2>1, <2>3, <2>12, <3>1 DEF TruncateTmp, WriteTmp
  <2>13. ASSUME NEW p \in Proc, Rename(p) PROVE DiskInv'
    <3>1. \A q \in Proc : pc[q] \in Locked => q = p
      BY <2>13, OnePastLock DEF Rename, Locked
    <3>2. /\ Saved' = Saved \cup {run[p]}
          /\ \A f \in file' : f.whole
      BY <2>13, RenameSaves
    <3>3. \A q \in Proc : q # p /\ pc[q] \in BeforeSave => run[q] # run[p]
      BY <2>3 DEF RunNumbered
    <3>4. Numbering' /\ FileInv' /\ MemoryInv'
      BY <2>3, <2>13, <3>1, <3>2 DEF Rename, Locked
    <3>5. SavedInv'
      BY <2>3, <2>13, <3>2, <3>3 DEF Rename
    <3> QED
      BY <3>4, <3>5
  <2>14. ASSUME NEW p \in Proc, SaveFails(p) PROVE DiskInv'
    BY <2>1, <2>3, <2>14 DEF SaveFails
  <2>15. ASSUME NEW p \in Proc, Alert(p) \/ Kill(p) PROVE DiskInv'
    BY <2>1, <2>3, <2>15 DEF Alert, Kill
  <2>16. CASE UNCHANGED vars
    BY <2>1, <2>16 DEF vars
  <2> QED
    BY <2>4, <2>5, <2>6, <2>7, <2>8, <2>9, <2>10, <2>11, <2>12, <2>13, <2>14,
       <2>15, <2>16 DEF Next, Step
<1> QED
  BY <1>1, <1>2, TypeInvariance, LockCorrect, PTL DEF Spec

\* A run that ended without a word about its configuration, lock, state or
\* client has its results in the state file, where later runs leave them.
THEOREM FinishedIsSavedHolds == Spec => []FinishedIsSaved
<1>1. DiskInv => FinishedIsSaved
  BY DEF DiskInv, SavedInv, FinishedIsSaved
<1> QED
  BY <1>1, DiskCorrect, PTL

\* Temporary file, rename, lock and kills together implement a register that is
\* read and written as a whole: only a rename changes it, and adds one pass.
THEOREM AtomicStateHolds == Spec => AtomicState
<1>1. Init => Register!Init
  BY DEF Init, Register!Init, Saved
<1>2. DiskInv /\ [Next]_vars => [\E r \in Saved' : Register!Save(r)]_Saved
  <2> SUFFICES ASSUME DiskInv, [Next]_vars, Saved' # Saved
               PROVE  \E r \in Saved' : Register!Save(r)
    OBVIOUS
  <2>1. file' # file
    BY DEF Saved
  <2>2. PICK p \in Proc : Rename(p)
    BY <2>1 DEF Next, Step, vars, diskVars, Edit, Tick, Start, LoadConfig,
      ConfigFails, NewNotifier, NotifierFails, acquire_lock, LockFails,
      load_state, LoadFails, NewClient, ClientFails, Fatal, Pass, TruncateTmp,
      WriteTmp, SaveFails, Alert, Kill
  <2> QED
    BY <2>2, RenameSaves DEF Register!Save
<1>3. DiskInv => \A f \in file : f.whole
  BY DEF DiskInv, FileInv
<1> QED
  BY <1>1, <1>2, <1>3, DiskCorrect, PTL DEF Spec, AtomicState, Register!Spec

-----------------------------------------------------------------------------
(* What reaches the operator, and what reaches the explorer.               *)

AfterPass == {"save", "write", "rename", "alert"}

\* Until its pass nothing went wrong in a run that is under way. From then on,
\* what did was told or will be told at the end, but for a failed chain of which
\* the state file has recent data.
NewsInv ==
  \A p \in Proc :
    /\ pc[p] \in {"config", "notifier", "lock", "load", "client", "pass"}
         => trouble[p] = {} /\ errors[p] = {}
    /\ pc[p] \in AfterPass =>
         \A what \in trouble[p] \ (told[p] \cup errors[p]) :
           what = "chain" /\ RecentPollSaved(p)
    /\ pc[p] = "done" =>
         \A what \in trouble[p] \ told[p] :
           what \in {"config", "chat_id"} \/ (what = "chain" /\ RecentPollSaved(p))

\* No step takes a run out of the state file, or changes when a run in it polled
\* the chain.
LEMMA SavedKept ==
  ASSUME TypeInv, DiskInv, [Next]_vars
  PROVE  /\ Saved \subseteq Saved'
         /\ \A r \in Saved : updated_at'[r] = updated_at[r]
<1>1. Saved \subseteq Saved'
  <2>1. CASE file' = file
    BY <2>1 DEF Saved
  <2>2. CASE file' # file
    <3>1. PICK p \in Proc : Rename(p)
      BY <2>2 DEF Next, Step, vars, diskVars, Edit, Tick, Start, LoadConfig,
        ConfigFails, NewNotifier, NotifierFails, acquire_lock, LockFails,
        load_state, LoadFails, NewClient, ClientFails, Fatal, Pass, TruncateTmp,
        WriteTmp, SaveFails, Alert, Kill
    <3> QED
      BY <3>1, RenameSaves
  <2> QED
    BY <2>1, <2>2
<1>2. \A r \in Saved : updated_at'[r] = updated_at[r]
  <2>1. CASE updated_at' = updated_at
    BY <2>1
  <2>2. CASE updated_at' # updated_at
    <3>1. PICK p \in Proc, bad \in SUBSET {"deposit", "chain"},
               seen \in SUBSET {now} : Pass(p, bad, seen)
      BY <2>2 DEF Next, Step, vars, pollVars, Edit, Tick, Start, LoadConfig,
        ConfigFails, NewNotifier, NotifierFails, acquire_lock, LockFails,
        load_state, LoadFails, NewClient, ClientFails, Fatal, TruncateTmp,
        WriteTmp, Rename, SaveFails, Alert, Kill
    <3>2. run[p] \notin Saved
      BY <3>1 DEF Pass, At, DiskInv, SavedInv, BeforeSave
    <3>3. Saved \subseteq 1 .. MaxRuns
      BY DEF TypeInv, TypeOK, Contents, Saved
    <3>4. updated_at' = [updated_at EXCEPT ![run[p]] = seen]
      BY <3>1 DEF Pass
    <3> QED
      BY <3>2, <3>3, <3>4 DEF TypeInv, TypeOK
  <2> QED
    BY <2>1, <2>2
<1> QED
  BY <1>1, <1>2

\* The recent poll that silenced a failed chain stays in the file until the
\* process is started anew.
LEMMA RecentPollKept ==
  ASSUME TypeInv, DiskInv, [Next]_vars, NEW p \in Proc,
         pc[p] \in AfterPass \cup {"done"}, pc'[p] # "config", RecentPollSaved(p)
  PROVE  RecentPollSaved(p)'
<1>1. state'[p] = state[p] /\ failed_at'[p] = failed_at[p]
  <2>1. /\ pc \in [Proc -> Place] /\ failed_at \in [Proc -> SUBSET Time]
        /\ state \in [Proc -> SUBSET (1 .. MaxRuns)]
    BY DEF TypeInv, TypeOK
  <2>2. ASSUME NEW q \in Proc, Start(q) PROVE q # p
    BY <2>1, <2>2 DEF Start, Goto
  <2>3. ASSUME NEW q \in Proc, Start(q) \/ load_state(q)
                 \/ \E bad \in SUBSET {"deposit", "chain"}, seen \in SUBSET {now} :
                      Pass(q, bad, seen)
        PROVE  q # p /\ \A x \in Proc \ {q} : /\ state'[x] = state[x]
                                            /\ failed_at'[x] = failed_at[x]
    BY <2>1, <2>2, <2>3 DEF Start, load_state, Pass, At, AfterPass, pollVars
  <2>4. CASE UNCHANGED <<state, failed_at>>
    BY <2>4
  <2> QED
    BY <2>3, <2>4 DEF Next, Step, vars, runVars, pollVars, Edit, Tick,
      LoadConfig, ConfigFails, NewNotifier, NotifierFails, acquire_lock,
      LockFails, LoadFails, NewClient, ClientFails, Fatal, TruncateTmp, WriteTmp,
      Rename, SaveFails, Alert, Kill
<1>2. PICK r \in state[p] \cap Saved :
        \E u \in updated_at[r], t \in failed_at[p] :
          t - u <= CHAIN_STALE_THRESHOLD
  BY DEF RecentPollSaved
<1>3. r \in state'[p] \cap Saved' /\ updated_at'[r] = updated_at[r]
  BY <1>1, <1>2, SavedKept
<1> QED
  BY <1>1, <1>2, <1>3 DEF RecentPollSaved

\* A pass keeps a failed chain to itself only if the state it loaded, which is
\* what the file has, holds a recent poll.
LEMMA SilencedByPoll ==
  ASSUME TypeInv, DiskInv, NEW p \in Proc,
         NEW bad \in SUBSET {"deposit", "chain"}, NEW seen \in SUBSET {now},
         Pass(p, bad, seen), "chain" \in bad, ~ is_chain_stale(p)
  PROVE  RecentPollSaved(p)'
<1>1. pc[p] = "pass" /\ state[p] = Saved /\ run[p] \notin Saved
  BY DEF Pass, At, DiskInv, MemoryInv, SavedInv, BeforeSave
<1>2. PICK r \in state[p] : \E u \in updated_at[r] :
                              ~ (now - u > CHAIN_STALE_THRESHOLD)
  BY DEF is_chain_stale, Polls
<1>3. PICK u \in updated_at[r] : ~ (now - u > CHAIN_STALE_THRESHOLD)
  BY <1>2
<1>4. r \in 1 .. MaxRuns /\ r # run[p]
  BY <1>1, <1>2 DEF TypeInv, TypeOK
<1>5. /\ updated_at' = [updated_at EXCEPT ![run[p]] = seen]
      /\ failed_at' = [failed_at EXCEPT ![p] = {t \in {now} : "chain" \in bad}]
      /\ state' = [state EXCEPT ![p] = @ \cup {run[p]}]
      /\ file' = file
  BY DEF Pass, diskVars
<1>6. u \in updated_at'[r] /\ now \in failed_at'[p]
  BY <1>3, <1>4, <1>5 DEF TypeInv, TypeOK
<1>7. r \in state'[p] /\ r \in Saved'
  BY <1>1, <1>2, <1>5 DEF TypeInv, TypeOK, Saved
<1>8. now - u <= CHAIN_STALE_THRESHOLD
  <2>1. now \in Int /\ u \in Int
    BY <1>3, <1>4 DEF TypeInv, TypeOK, Time
  <2> QED
    BY <1>3, <2>1, ProcessAssumption
<1> QED
  BY <1>6, <1>7, <1>8 DEF RecentPollSaved

\* A run that ends by itself has told the operator of what went wrong in it, but
\* for what happens before there is a notifier and for a failed chain of which
\* the state file has recent data: the escalation of ChainDepositCheck rests on
\* polls that were saved, whatever was killed or failed to save in between.
THEOREM NothingUntoldHolds == Spec => []NothingUntold
<1> USE DEF diskVars, runVars, newsVars, Goto, At, End, Meets, Tells, AfterPass
<1>1. Init => NewsInv
  BY DEF Init, NewsInv
<1>2. TypeInv /\ DiskInv /\ NewsInv /\ [Next]_vars => NewsInv'
  <2> SUFFICES ASSUME TypeInv, DiskInv, NewsInv, [Next]_vars PROVE NewsInv'
    OBVIOUS
  <2>1. /\ pc \in [Proc -> Place]
        /\ errors \in [Proc -> SUBSET Trouble]
        /\ trouble \in [Proc -> SUBSET Trouble]
        /\ told \in [Proc -> SUBSET Trouble]
    BY DEF TypeInv, TypeOK
  <2>0. \A p \in Proc :
          /\ pc[p] \in AfterPass \cup {"done"} /\ pc'[p] # "config"
          /\ RecentPollSaved(p)
          => RecentPollSaved(p)'
    BY RecentPollKept
  <2> USE DEF NewsInv
  <2>2. CASE Edit \/ Tick
    BY <2>0, <2>1, <2>2 DEF Edit, Tick
  <2>3. ASSUME NEW p \in Proc, Start(p) PROVE NewsInv'
    BY <2>0, <2>1, <2>3 DEF Start
  <2>4. ASSUME NEW p \in Proc,
               LoadConfig(p) \/ NewNotifier(p) \/ acquire_lock(p)
                 \/ load_state(p) \/ NewClient(p)
        PROVE  NewsInv'
    BY <2>0, <2>1, <2>4
    DEF LoadConfig, NewNotifier, acquire_lock, load_state, NewClient
  <2>5. ASSUME NEW p \in Proc, ConfigFails(p) \/ NotifierFails(p) PROVE NewsInv'
    BY <2>0, <2>1, <2>5 DEF ConfigFails, NotifierFails
  <2>6. ASSUME NEW p \in Proc, LockFails(p) \/ LoadFails(p) \/ ClientFails(p)
        PROVE  NewsInv'
    BY <2>0, <2>1, <2>6 DEF LockFails, LoadFails, ClientFails, Fatal
  <2>7. ASSUME NEW p \in Proc, NEW bad \in SUBSET {"deposit", "chain"},
               NEW seen \in SUBSET {now}, Pass(p, bad, seen)
        PROVE  NewsInv'
    <3>1. /\ trouble'[p] = bad
          /\ "deposit" \in bad => "deposit" \in told'[p]
          /\ "chain" \in bad /\ is_chain_stale(p) => "chain" \in errors'[p]
      BY <2>1, <2>7 DEF Pass
    <3>2. "chain" \in bad /\ ~ is_chain_stale(p) => RecentPollSaved(p)'
      BY <2>7, SilencedByPoll
    <3>3. pc'[p] = "save" /\ \A what \in bad : what = "deposit" \/ what = "chain"
      BY <2>1, <2>7 DEF Pass
    <3>4. \A q \in Proc \ {p} : /\ pc'[q] = pc[q] /\ trouble'[q] = trouble[q]
                                /\ told'[q] = told[q] /\ errors'[q] = errors[q]
      BY <2>1, <2>7 DEF Pass
    <3> QED
      BY <2>0, <2>1, <3>1, <3>2, <3>3, <3>4
  <2>8. ASSUME NEW p \in Proc, TruncateTmp(p) \/ WriteTmp(p) \/ Rename(p)
        PROVE  NewsInv'
    BY <2>0, <2>1, <2>8 DEF TruncateTmp, WriteTmp, Rename
  <2>9. ASSUME NEW p \in Proc, SaveFails(p) PROVE NewsInv'
    BY <2>0, <2>1, <2>9 DEF SaveFails
  <2>10. ASSUME NEW p \in Proc, Alert(p) \/ Kill(p) PROVE NewsInv'
    BY <2>0, <2>1, <2>10 DEF Alert, Kill
  <2>11. CASE UNCHANGED vars
    BY <2>0, <2>1, <2>11 DEF vars
  <2> QED
    BY <2>2, <2>3, <2>4, <2>5, <2>6, <2>7, <2>8, <2>9, <2>10, <2>11
    DEF Next, Step
<1>3. NewsInv => NothingUntold
  BY DEF NewsInv, NothingUntold
<1> QED
  BY <1>1, <1>2, <1>3, TypeInvariance, DiskCorrect, PTL DEF Spec

\* What a process works with passed the check when it was loaded.
ConfigInv == \A p \in Proc : \A c \in config[p] : load(c)

\* No pass works with an address that the explorer cannot parse, whatever the
\* operator writes into the file and when.
THEOREM AddressesParseHolds == Spec => []AddressesParse
<1>1. Init => ConfigInv
  BY DEF Init, ConfigInv
<1>2. TypeInv /\ ConfigInv /\ [Next]_vars => ConfigInv'
  <2> SUFFICES ASSUME TypeInv, ConfigInv, [Next]_vars PROVE ConfigInv'
    OBVIOUS
  <2>1. config \in [Proc -> SUBSET ConfigFile]
    BY DEF TypeInv, TypeOK
  <2>2. ASSUME NEW p \in Proc, LoadConfig(p) PROVE ConfigInv'
    BY <2>1, <2>2 DEF ConfigInv, LoadConfig
  <2>3. ASSUME NEW p \in Proc, Start(p) PROVE ConfigInv'
    BY <2>1, <2>3 DEF ConfigInv, Start
  <2>4. CASE UNCHANGED config
    BY <2>4 DEF ConfigInv
  <2> QED
    BY <2>2, <2>3, <2>4 DEF Next, Step, vars, runVars, Edit, Tick,
      ConfigFails, NewNotifier, NotifierFails, acquire_lock, LockFails,
      load_state, LoadFails, NewClient, ClientFails, Fatal, Pass, TruncateTmp,
      WriteTmp, Rename, SaveFails, Alert, Kill
<1>3. TypeInv /\ ConfigInv => AddressesParse
  BY ProcessAssumption
  DEF ConfigInv, AddressesParse, load, validate_eth_address, parse_address
<1> QED
  BY <1>1, <1>2, <1>3, TypeInvariance, PTL DEF Spec

=============================================================================
