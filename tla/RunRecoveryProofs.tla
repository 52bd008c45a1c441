--------------------------- MODULE RunRecoveryProofs ---------------------------
(***************************************************************************)
(* Theorems about a run, its crashes and the runs that resume it, for any  *)
(* number of runs, operations, files and edits, and for saves that may     *)
(* fail.  Their hypothesis MaxDepth <= 1 says that an interrupted run is   *)
(* resumed any number of times, and a resuming run is not resumed itself:  *)
(* for the latter the code breaks NoBlindReplay (RunRecovery_chain.cfg).   *)
(***************************************************************************)
EXTENDS RunRecovery, TLAPS

(* The ledger file every run of the family works on.                        *)
Journal == saved[First]

(* Every run resumes the first one, in the scope of the first one.          *)
Family ==
  /\ status[First] # "absent"
  /\ scope[First] = First
  /\ First \notin branch
  /\ origin[First] = Missing
  /\ \A r \in Runs : origin[r] \in {Missing, First}
  /\ \A r \in Runs : status[r] # "absent" =>
       r = First \/ r \in branch \/ origin[r] = First
  /\ Running => /\ scope[active] = First
                /\ active = First \/ origin[active] = First

(* While no save has failed, the file is what the process remembers.        *)
MemoryIsFile ==
  /\ ~Running => ~persistError /\ hand = Idle
  /\ Running /\ ~persistError => mem = Journal
  /\ persistError => hand.step \in {"idle", "failed"}

(* The call in hand is pending in the file, and open once it was started.   *)
HandIsPending ==
  \A op \in Ops : hand.op = op =>
    /\ hand.step \in {"begun", "ready", "ran", "declined", "unsure"} =>
         Journal.phase[op] = "pending"
    /\ hand.step \in {"ready", "ran", "declined", "unsure"} => outcome[op] = "open"

(* An operation in doubt is marked in the file, and is not about to start.  *)
DoubtIsInFile ==
  \A op \in Ops : outcome[op] = "open" =>
    /\ Journal.phase[op] \in {"pending", "unknown"}
    /\ ~(hand.op = op /\ hand.step = "begun")

CommittedIsDone ==
  \A op \in Ops : Journal.phase[op] = "committed" => outcome[op] = "done"

(* begin() would answer skip for a write that still stands, which therefore *)
(* is not about to start.                                                   *)
StandingIsInFile ==
  \A op \in Ops : StillStands(op) =>
    /\ Journal.phase[op] = "committed"
    /\ Journal.post[op] = files[Target[op]]

LedgerInv ==
  /\ HandIsPending
  /\ DoubtIsInFile
  /\ CommittedIsDone
  /\ StandingIsInFile

Inv ==
  /\ TypeOK
  /\ Family
  /\ MemoryIsFile
  /\ LedgerInv

-----------------------------------------------------------------------------
(* What the record operators return.                                        *)
LEMMA EmptyIsJournal ==
  /\ EmptyJournal \in Journals
  /\ \A op \in Ops : EmptyJournal.phase[op] = "none"
BY DEF EmptyJournal, Journals, Phases

LEMMA IntentIsJournal ==
  ASSUME NEW j \in Journals, NEW op \in Ops, NEW fs \in [Paths -> Versions]
  PROVE  /\ AfterIntent(j, op, fs) \in Journals
         /\ AfterIntent(j, op, fs).phase = [j.phase EXCEPT ![op] = "pending"]
         /\ AfterIntent(j, op, fs).post = j.post
<1>1. ImagesAfter(j, op, fs) \in [Paths -> Versions \cup {Missing}]
  BY LedgerAssumption DEF ImagesAfter, FileWrites, Journals
<1>2. [j.phase EXCEPT ![op] = "pending"] \in [Ops -> Phases]
  BY DEF Journals, Phases
<1> QED
  BY <1>1, <1>2 DEF AfterIntent, Journals

LEMMA CommitIsJournal ==
  ASSUME NEW j \in Journals, NEW op \in Ops, NEW fs \in [Paths -> Versions]
  PROVE  /\ AfterCommit(j, op, fs) \in Journals
         /\ AfterCommit(j, op, fs).phase = [j.phase EXCEPT ![op] = "committed"]
         /\ Target[op] # Missing =>
              AfterCommit(j, op, fs).post = [j.post EXCEPT ![op] = fs[Target[op]]]
         /\ Target[op] = Missing => AfterCommit(j, op, fs).post = j.post
<1>1. (IF Target[op] = Missing THEN j.post
       ELSE [j.post EXCEPT ![op] = fs[Target[op]]]) \in [Ops -> Versions \cup {Missing}]
  BY LedgerAssumption DEF Journals
<1>2. [j.phase EXCEPT ![op] = "committed"] \in [Ops -> Phases]
  BY DEF Journals, Phases
<1> QED
  BY <1>1, <1>2 DEF AfterCommit, Journals

LEMMA FailIsJournal ==
  ASSUME NEW j \in Journals, NEW op \in Ops, NEW phase \in Phases
  PROVE  /\ AfterFail(j, op, phase) \in Journals
         /\ AfterFail(j, op, phase).phase = [j.phase EXCEPT ![op] = phase]
         /\ AfterFail(j, op, phase).post = j.post
BY DEF AfterFail, Journals

LEMMA JournalFields ==
  ASSUME NEW j \in Journals
  PROVE  /\ j.phase \in [Ops -> Phases]
         /\ j.post \in [Ops -> Versions \cup {Missing}]
BY DEF Journals

LEMMA VersionsTyped ==
  /\ Absent \in Versions
  /\ \A n \in Nat : [by |-> Outside, at |-> n] \in Versions
  /\ \A op \in Ops, n \in Nat : [by |-> op, at |-> n] \in Versions
BY DEF Versions, Absent

HandSteps == {"begun", "ready", "ran", "declined", "unsure", "succeeded", "failed"}

Hands == {Idle} \cup [op : Ops, step : HandSteps]

LEMMA HandsTyped ==
  /\ Idle \in Hands /\ Idle.step = "idle"
  /\ \A op \in Ops : Idle.op # op
  /\ \A op \in Ops, step \in HandSteps :
       /\ [op |-> op, step |-> step] \in Hands
       /\ [op |-> op, step |-> step].op = op
       /\ [op |-> op, step |-> step].step = step
BY LedgerAssumption DEF Hands, HandSteps, Idle

(* A write is the only thing a tool does to the files.                      *)
LEMMA WritesTyped ==
  ASSUME TypeOK, NEW op \in Ops, Writes(op)
  PROVE  /\ files' \in [Paths -> Versions] /\ edits' \in 0..MaxEdits
         /\ \A p \in Paths : files'[p] = files[p] \/ files'[p].by = op
<1>1. CASE op \in FileWrites
  <2> DEFINE v == [by |-> op, at |-> edits + 1]
  <2>1. edits + 1 \in 0..MaxEdits
    BY <1>1, RecoveryAssumption DEF Writes, TypeOK
  <2>2. v \in Versions /\ v.by = op
    BY <2>1, VersionsTyped
  <2>3. files' = [files EXCEPT ![Target[op]] = v] /\ edits' = edits + 1
    BY <1>1 DEF Writes
  <2> HIDE DEF v
  <2> QED
    BY <2>1, <2>2, <2>3 DEF TypeOK
<1>2. CASE op \notin FileWrites
  BY <1>2 DEF Writes, world, TypeOK
<1> QED
  BY <1>1, <1>2

-----------------------------------------------------------------------------
(* The recursive function depth is what its definition says, for families   *)
(* of depth one.                                                            *)
LEMMA DepthLaw ==
  ASSUME origin \in [Runs -> Runs \cup {Missing}],
         \A r \in Runs : origin[r] # Missing => origin[origin[r]] = Missing,
         NEW r \in Runs
  PROVE  depth[r] = IF r \in branch THEN MaxDepth
                    ELSE IF origin[r] = Missing THEN 0 ELSE 1 + depth[origin[r]]
<1> DEFINE f ==
      [q \in Runs |->
         IF q \in branch THEN MaxDepth
         ELSE IF origin[q] = Missing THEN 0
              ELSE 1 + (IF origin[q] \in branch THEN MaxDepth ELSE 0)]
<1>1. f = [q \in Runs |-> IF q \in branch THEN MaxDepth
                          ELSE IF origin[q] = Missing THEN 0 ELSE 1 + f[origin[q]]]
  BY RecoveryAssumption
<1> HIDE DEF f
<1>2. depth = CHOOSE d : d = [q \in Runs |->
                IF q \in branch THEN MaxDepth
                ELSE IF origin[q] = Missing THEN 0 ELSE 1 + d[origin[q]]]
  BY DEF depth
<1>3. depth = [q \in Runs |->
                IF q \in branch THEN MaxDepth
                ELSE IF origin[q] = Missing THEN 0 ELSE 1 + depth[origin[q]]]
  BY <1>1, <1>2
<1> QED
  BY <1>3

(* Only the first run can be resumed.                                       *)
LEMMA OnlyFirstIsResumed ==
  ASSUME MaxDepth <= 1, TypeOK, Family,
         NEW r \in Runs, status[r] # "absent", depth[r] < MaxDepth
  PROVE  r = First
<1>1. MaxDepth \in {0, 1} /\ First \in Runs /\ Missing \notin Runs
  BY RecoveryAssumption
<1>2. /\ origin \in [Runs -> Runs \cup {Missing}]
      /\ \A q \in Runs : origin[q] # Missing => origin[origin[q]] = Missing
  BY <1>1 DEF TypeOK, Family
<1>3. depth[First] = 0
  BY <1>1, <1>2, DepthLaw DEF Family
<1>4. r \notin branch
  BY <1>1, <1>2, DepthLaw
<1>5. origin[r] # First
  <2> SUFFICES ASSUME origin[r] = First PROVE FALSE
    OBVIOUS
  <2>1. depth[r] = 1
    BY <1>1, <1>2, <1>3, <1>4, DepthLaw
  <2> QED
    BY <1>1, <2>1
<1> QED
  BY <1>4, <1>5 DEF Family

-----------------------------------------------------------------------------
(* A successful save brings the memory of the process into the file.        *)
LEMMA PersistSaves ==
  ASSUME TypeOK, Family, Running, Persist, mem' \in Journals
  PROVE  /\ saved' \in [Runs -> Journals]
         /\ Journal' = mem'
         /\ persistError' = FALSE
<1>1. scope[active] = First /\ First \in Runs
  BY RecoveryAssumption DEF Family
<1> QED
  BY <1>1 DEF Persist, TypeOK, Journal

LEMMA FailedPersist ==
  ASSUME TypeOK, PersistFails
  PROVE  /\ saved' \in [Runs -> Journals]
         /\ Journal' = Journal
         /\ persistError' = TRUE
BY DEF PersistFails, TypeOK, Journal

LEMMA FamilyKept ==
  ASSUME Family, UNCHANGED <<history, active>>
  PROVE  Family'
BY DEF Family, history, Running

(* What the file says of an operation is about its outcome, its place in    *)
(* the hand of the run and its file; nothing else disturbs it.              *)
LEMMA LedgerKept ==
  ASSUME LedgerInv, Journal' = Journal, UNCHANGED <<outcome, files>>,
         hand' = hand \/ hand' = Idle \/ hand'.step \in {"failed", "succeeded"}
  PROVE  LedgerInv'
<1>1. Idle.step = "idle"
  BY HandsTyped
<1>2. HandIsPending'
  BY <1>1 DEF LedgerInv, HandIsPending
<1>3. DoubtIsInFile'
  BY <1>1 DEF LedgerInv, DoubtIsInFile
<1>4. CommittedIsDone' /\ StandingIsInFile'
  BY DEF LedgerInv, CommittedIsDone, StandingIsInFile, StillStands
<1> QED
  BY <1>2, <1>3, <1>4 DEF LedgerInv

LEMMA StepsTyped ==
  ASSUME TypeOK, Running, NEW op \in Ops, NEW ok \in BOOLEAN,
         NoteIntent(active, op) \/ NoteCommit(active, op, ok)
  PROVE  steps' \in [Runs -> [Ops -> StepStates]]
<1>1. active \in Runs
  BY DEF TypeOK, Running
<1>2. PICK s \in StepStates : steps' = [steps EXCEPT ![active][op] = s]
  BY <1>1 DEF NoteIntent, NoteCommit, TypeOK, StepStates
<1> QED
  BY <1>1, <1>2 DEF TypeOK

LEMMA InitInv == Init => Inv
<1> SUFFICES ASSUME Init PROVE Inv
  OBVIOUS
<1>1. Missing \notin Runs /\ First \in Runs /\ MaxEdits \in Nat
  BY RecoveryAssumption
<1>2. hand = Idle /\ Idle.step = "idle" /\ \A op \in Ops : Idle.op # op
  BY HandsTyped DEF Init
<1>3. Journal = EmptyJournal
  BY <1>1 DEF Init, Journal
<1>4. TypeOK
  <2>1. /\ status \in [Runs -> Statuses]
        /\ steps \in [Runs -> [Ops -> StepStates]]
        /\ outcome \in [Ops -> {"none", "open", "done", "declined"}]
    BY DEF Init, Statuses, StepStates
  <2>2. /\ scope \in [Runs -> Runs]
        /\ origin \in [Runs -> Runs \cup {Missing}]
        /\ branch \subseteq Runs /\ snapshots \subseteq Runs
        /\ waiting \in [Runs -> BOOLEAN]
        /\ active \in Runs \cup {Missing} /\ persistError \in BOOLEAN
    BY <1>1 DEF Init
  <2>3. saved \in [Runs -> Journals] /\ mem \in Journals
    BY EmptyIsJournal DEF Init
  <2>4. files \in [Paths -> Versions] /\ edits \in 0..MaxEdits
    BY <1>1, VersionsTyped DEF Init
  <2> QED
    BY <1>2, <2>1, <2>2, <2>3, <2>4 DEF TypeOK
<1>5. Family
  BY <1>1 DEF Init, Family, Running
<1>6. MemoryIsFile
  BY <1>1, <1>2, <1>3 DEF Init, MemoryIsFile, Running
<1>7. HandIsPending /\ DoubtIsInFile
  BY <1>2 DEF Init, HandIsPending, DoubtIsInFile
<1>8. CommittedIsDone /\ StandingIsInFile
  BY <1>3, EmptyIsJournal DEF Init, CommittedIsDone, StandingIsInFile, StillStands, FileWrites
<1> QED
  BY <1>4, <1>5, <1>6, <1>7, <1>8 DEF Inv, LedgerInv

-----------------------------------------------------------------------------
LEMMA BeginSkipKeepsInv ==
  ASSUME Inv, NEW op \in Ops, BeginSkip(op)
  PROVE  Inv'
<1>0. TypeOK /\ Family /\ MemoryIsFile /\ LedgerInv
  BY DEF Inv
<1>1. /\ Running /\ hand = Idle /\ ~persistError
      /\ UNCHANGED <<status, scope, origin, branch, waiting, snapshots, active,
                     mem, hand, files, edits, outcome>>
  BY DEF BeginSkip, history, world
<1>2. mem \in Journals /\ mem = Journal
  BY <1>0, <1>1 DEF TypeOK, MemoryIsFile
<1>3. /\ saved' \in [Runs -> Journals]
      /\ Journal' = Journal
      /\ persistError' \in BOOLEAN
  BY <1>0, <1>1, <1>2, PersistSaves, FailedPersist DEF BeginSkip
<1>4. steps' \in [Runs -> [Ops -> StepStates]]
  BY <1>0, <1>1, StepsTyped DEF BeginSkip, TypeOK
<1>5. TypeOK'
  BY <1>0, <1>1, <1>3, <1>4 DEF TypeOK
<1>6. Family'
  BY <1>0, <1>1, FamilyKept DEF history
<1>7. MemoryIsFile'
  BY <1>1, <1>2, <1>3, HandsTyped DEF MemoryIsFile, Running
<1>8. LedgerInv'
  BY <1>0, <1>1, <1>3, LedgerKept
<1> QED
  BY <1>5, <1>6, <1>7, <1>8 DEF Inv

(* begin() lets an operation through that is neither in doubt nor a write   *)
(* that still stands.                                                       *)
LEMMA BegunIsFresh ==
  ASSUME Inv, NEW op \in Ops, Begin(op)
  PROVE  outcome[op] # "open" /\ ~StillStands(op)
<1>0. TypeOK /\ MemoryIsFile /\ LedgerInv
  BY DEF Inv
<1>1. Running /\ ~persistError /\ ~InDoubt(mem, op) /\ ~Skips(mem, op, files)
  BY DEF Begin
<1>2. mem = Journal
  BY <1>0, <1>1 DEF MemoryIsFile
<1>3. mem.phase[op] \notin {"pending", "unknown"}
  BY <1>1, RecoveryAssumption DEF InDoubt
<1>4. ASSUME StillStands(op) PROVE FALSE
  <2>1. mem.phase[op] = "committed" /\ mem.post[op] = files[Target[op]]
    BY <1>0, <1>2, <1>4 DEF LedgerInv, StandingIsInFile
  <2>2. Effect[op] = "write" /\ ~CannotVerify(op) /\ ~TargetChanged(mem, op, files)
    BY <1>4, <2>1 DEF StillStands, FileWrites, CannotVerify, TargetChanged
  <2> QED
    BY <1>1, <2>1, <2>2 DEF Skips
<1> QED
  BY <1>0, <1>2, <1>3, <1>4 DEF LedgerInv, DoubtIsInFile

LEMMA BeginKeepsInv ==
  ASSUME Inv, NEW op \in Ops, Begin(op)
  PROVE  Inv'
<1>0. TypeOK /\ Family /\ MemoryIsFile /\ LedgerInv
  BY DEF Inv
<1>1. /\ Running /\ hand = Idle /\ ~persistError
      /\ UNCHANGED <<status, scope, origin, branch, steps, waiting, snapshots,
                     active, files, edits, outcome>>
  BY DEF Begin, history, checkpoints, world
<1>2. mem \in Journals /\ mem = Journal /\ files \in [Paths -> Versions]
  BY <1>0, <1>1 DEF TypeOK, MemoryIsFile
<1>3. /\ mem' \in Journals
      /\ mem'.phase = [mem.phase EXCEPT ![op] = "pending"]
      /\ mem'.post = mem.post
  BY <1>2, IntentIsJournal DEF Begin
<1>4. outcome[op] # "open" /\ ~StillStands(op)
  BY BegunIsFresh
<1>5. Family'
  BY <1>0, <1>1, FamilyKept DEF history
<1>6. CASE Persist /\ Goto(op, "begun")
  <2>1. /\ saved' \in [Runs -> Journals]
        /\ Journal' = mem'
        /\ persistError' = FALSE
    BY <1>0, <1>1, <1>3, <1>6, PersistSaves
  <2>2. hand' \in Hands /\ hand'.op = op /\ hand'.step = "begun"
    BY <1>6, HandsTyped DEF Goto, HandSteps
  <2>3. TypeOK'
    BY <1>0, <1>1, <1>3, <2>1, <2>2 DEF TypeOK, Hands, HandSteps
  <2>4. MemoryIsFile'
    BY <1>1, <2>1 DEF MemoryIsFile, Running
  <2>5. mem.phase \in [Ops -> Phases]
    BY <1>2, JournalFields
  <2>6. HandIsPending' /\ DoubtIsInFile'
    BY <1>0, <1>1, <1>2, <1>3, <1>4, <2>1, <2>2, <2>5
       DEF LedgerInv, HandIsPending, DoubtIsInFile
  <2>7. CommittedIsDone'
    BY <1>0, <1>1, <1>2, <1>3, <2>1, <2>5 DEF LedgerInv, CommittedIsDone
  <2>8. StandingIsInFile'
    BY <1>0, <1>1, <1>2, <1>3, <1>4, <2>1, <2>5
       DEF LedgerInv, StandingIsInFile, StillStands
  <2> QED
    BY <1>5, <2>3, <2>4, <2>6, <2>7, <2>8 DEF Inv, LedgerInv
<1>7. CASE PersistFails /\ UNCHANGED hand
  <2>1. /\ saved' \in [Runs -> Journals]
        /\ Journal' = Journal
        /\ persistError' = TRUE
    BY <1>0, <1>7, FailedPersist
  <2>2. TypeOK'
    BY <1>0, <1>1, <1>3, <1>7, <2>1 DEF TypeOK
  <2>3. MemoryIsFile'
    BY <1>1, <1>7, <2>1, HandsTyped DEF MemoryIsFile, Running
  <2>4. LedgerInv'
    BY <1>0, <1>1, <1>7, <2>1, LedgerKept
  <2> QED
    BY <1>5, <2>2, <2>3, <2>4 DEF Inv
<1> QED
  BY <1>6, <1>7 DEF Begin

LEMMA DispatchKeepsInv ==
  ASSUME Inv, NEW op \in Ops, Dispatch(op)
  PROVE  Inv'
<1>0. TypeOK /\ Family /\ MemoryIsFile /\ LedgerInv
  BY DEF Inv
<1>1. /\ Running
      /\ hand.op = op /\ hand.step = "begun"
      /\ UNCHANGED <<status, scope, origin, branch, waiting, snapshots, active,
                     saved, mem, persistError, files, edits>>
      /\ outcome' = [outcome EXCEPT ![op] = "open"]
  BY DEF Dispatch, At, history, ledger, world
<1>2. hand' \in Hands /\ hand'.op = op /\ hand'.step = "ready"
  BY HandsTyped DEF Dispatch, Goto, HandSteps
<1>3. steps' \in [Runs -> [Ops -> StepStates]]
  BY <1>0, <1>1, StepsTyped DEF Dispatch
<1>4. outcome' \in [Ops -> {"none", "open", "done", "declined"}]
  BY <1>0, <1>1 DEF TypeOK
<1>5. TypeOK'
  BY <1>0, <1>1, <1>2, <1>3, <1>4 DEF TypeOK, Hands, HandSteps
<1>6. Family'
  BY <1>0, <1>1, FamilyKept DEF history
<1>7. Journal' = Journal /\ Journal.phase[op] = "pending"
  BY <1>0, <1>1 DEF Journal, LedgerInv, HandIsPending
<1>8. MemoryIsFile'
  BY <1>0, <1>1, <1>7 DEF MemoryIsFile, Running
<1>9. HandIsPending' /\ DoubtIsInFile'
  BY <1>0, <1>1, <1>2, <1>7 DEF TypeOK, LedgerInv, HandIsPending, DoubtIsInFile
<1>10. CommittedIsDone' /\ StandingIsInFile'
  BY <1>0, <1>1, <1>7 DEF TypeOK, LedgerInv, CommittedIsDone, StandingIsInFile, StillStands
<1> QED
  BY <1>5, <1>6, <1>8, <1>9, <1>10 DEF Inv, LedgerInv

(* While the tool is asked for, runs and returns, the ledger does not       *)
(* change; the file of the operation may.                                   *)
LEMMA ToolKeepsInv ==
  ASSUME Inv, NEW op \in Ops, Ask(op) \/ Answer(op) \/ Run(op)
  PROVE  Inv'
<1>0. TypeOK /\ Family /\ MemoryIsFile /\ LedgerInv
  BY DEF Inv
<1>1. /\ Running
      /\ hand.op = op /\ hand.step = "ready"
      /\ UNCHANGED <<status, scope, origin, branch, steps, snapshots, active,
                     saved, mem, persistError, outcome>>
  BY DEF Ask, Answer, Run, At, history, checkpoints, ledger
<1>2. /\ hand' \in Hands /\ hand'.op = op
      /\ hand'.step \in {"ready", "ran", "declined", "unsure"}
  <2>1. hand \in Hands
    BY <1>0 DEF TypeOK, Hands, HandSteps
  <2>2. CASE UNCHANGED hand
    BY <1>1, <2>1, <2>2
  <2>3. CASE ~UNCHANGED hand
    <3>1. PICK step \in {"ran", "declined", "unsure"} :
            hand' = [op |-> op, step |-> step]
      BY <2>3 DEF Ask, Answer, Run, Goto
    <3> QED
      BY <3>1, HandsTyped DEF HandSteps
  <2> QED
    BY <2>2, <2>3
<1>3. waiting' \in [Runs -> BOOLEAN]
  <2>1. waiting' = waiting \/ \E b \in BOOLEAN : waiting' = [waiting EXCEPT ![active] = b]
    BY DEF Ask, Answer, Run, checkpoints
  <2> QED
    BY <1>0, <2>1 DEF TypeOK
<1>4. /\ files' \in [Paths -> Versions] /\ edits' \in 0..MaxEdits
      /\ \A p \in Paths : files'[p] = files[p] \/ files'[p].by = op
  <2>1. Writes(op) \/ UNCHANGED <<files, edits>>
    BY DEF Ask, Answer, Run, world
  <2> QED
    BY <1>0, <2>1, WritesTyped DEF TypeOK
<1>5. TypeOK'
  BY <1>0, <1>1, <1>2, <1>3, <1>4 DEF TypeOK, Hands, HandSteps
<1>6. Family'
  BY <1>0, <1>1, FamilyKept DEF history
<1>7. Journal' = Journal /\ Journal.phase[op] = "pending" /\ outcome[op] = "open"
  BY <1>0, <1>1 DEF Journal, LedgerInv, HandIsPending
<1>8. MemoryIsFile'
  BY <1>0, <1>1, <1>7 DEF MemoryIsFile, Running
<1>9. HandIsPending' /\ DoubtIsInFile'
  BY <1>0, <1>1, <1>2, <1>7 DEF LedgerInv, HandIsPending, DoubtIsInFile
<1>10. CommittedIsDone'
  BY <1>0, <1>1, <1>7 DEF LedgerInv, CommittedIsDone
<1>11. StandingIsInFile'
  <2> SUFFICES ASSUME NEW x \in Ops, StillStands(x)'
               PROVE  /\ Journal.phase[x] = "committed"
                      /\ Journal.post[x] = files'[Target[x]]
    BY <1>7 DEF StandingIsInFile
  <2>1. x \in FileWrites /\ outcome[x] = "done" /\ files'[Target[x]].by = x
    BY <1>1 DEF StillStands
  <2>2. x # op /\ Target[x] \in Paths
    BY <1>7, <2>1, LedgerAssumption DEF FileWrites
  <2>3. files'[Target[x]] = files[Target[x]]
    BY <1>4, <2>1, <2>2
  <2> QED
    BY <1>0, <2>1, <2>3 DEF LedgerInv, StandingIsInFile, StillStands
<1> QED
  BY <1>5, <1>6, <1>8, <1>9, <1>10, <1>11 DEF Inv, LedgerInv

-----------------------------------------------------------------------------
LEMMA CommitKeepsInv ==
  ASSUME Inv, NEW op \in Ops, Commit(op)
  PROVE  Inv'
<1>0. TypeOK /\ Family /\ MemoryIsFile /\ LedgerInv
  BY DEF Inv
<1>1. /\ Running
      /\ hand.op = op /\ hand.step = "ran"
      /\ UNCHANGED <<status, scope, origin, branch, steps, waiting, snapshots,
                     active, files, edits>>
  BY DEF Commit, At, history, checkpoints, world
<1>2. mem \in Journals /\ mem = Journal /\ files \in [Paths -> Versions]
  BY <1>0, <1>1 DEF TypeOK, MemoryIsFile
<1>3. Journal.phase[op] = "pending" /\ outcome[op] = "open"
  BY <1>0, <1>1 DEF LedgerInv, HandIsPending
<1>4. Family'
  BY <1>0, <1>1, FamilyKept DEF history
<1> DEFINE done == AfterCommit(mem, op, files)
<1>5. /\ done \in Journals
      /\ done.phase = [mem.phase EXCEPT ![op] = "committed"]
      /\ Target[op] # Missing => done.post = [mem.post EXCEPT ![op] = files[Target[op]]]
      /\ Target[op] = Missing => done.post = mem.post
  BY <1>2, CommitIsJournal
<1>6. \/ /\ mem' = done
         /\ Persist
         /\ Goto(op, "succeeded")
         /\ outcome' = [outcome EXCEPT ![op] = "done"]
      \/ /\ mem' = AfterFail(done, op, "unknown")
         /\ PersistFails
         /\ Goto(op, "failed")
         /\ UNCHANGED outcome
  BY DEF Commit
<1> HIDE DEF done
<1>7. CASE /\ mem' = done
           /\ Persist
           /\ Goto(op, "succeeded")
           /\ outcome' = [outcome EXCEPT ![op] = "done"]
  <2>1. /\ saved' \in [Runs -> Journals]
        /\ Journal' = done
        /\ persistError' = FALSE
    BY <1>0, <1>1, <1>5, <1>7, PersistSaves
  <2>2. hand' \in Hands /\ hand'.op = op /\ hand'.step = "succeeded"
    BY <1>7, HandsTyped DEF Goto, HandSteps
  <2>3. outcome' \in [Ops -> {"none", "open", "done", "declined"}]
    BY <1>0, <1>7 DEF TypeOK
  <2>4. TypeOK'
    BY <1>0, <1>1, <1>5, <1>7, <2>1, <2>2, <2>3 DEF TypeOK, Hands, HandSteps
  <2>5. MemoryIsFile'
    BY <1>1, <1>7, <2>1 DEF MemoryIsFile, Running
  <2>6. /\ mem.phase \in [Ops -> Phases]
        /\ mem.post \in [Ops -> Versions \cup {Missing}]
    BY <1>2, JournalFields
  <2>7. HandIsPending' /\ DoubtIsInFile'
    BY <1>0, <1>1, <1>2, <1>5, <1>7, <2>1, <2>2, <2>6
       DEF TypeOK, LedgerInv, HandIsPending, DoubtIsInFile
  <2>8. CommittedIsDone'
    BY <1>0, <1>2, <1>5, <1>7, <2>1, <2>6 DEF TypeOK, LedgerInv, CommittedIsDone
  <2>9. StandingIsInFile'
    <3> SUFFICES ASSUME NEW x \in Ops, StillStands(x)'
                 PROVE  done.phase[x] = "committed" /\ done.post[x] = files[Target[x]]
      BY <1>1, <2>1 DEF StandingIsInFile
    <3>1. CASE x = op
      BY <1>5, <2>6, <3>1 DEF StillStands, FileWrites
    <3>2. CASE x # op
      <4>1. StillStands(x)
        BY <1>0, <1>1, <1>7, <3>2 DEF StillStands, TypeOK
      <4>2. mem.phase[x] = "committed" /\ mem.post[x] = files[Target[x]]
        BY <1>0, <1>2, <4>1 DEF LedgerInv, StandingIsInFile
      <4> QED
        BY <1>5, <2>6, <3>2, <4>2
    <3> QED
      BY <3>1, <3>2
  <2> QED
    BY <1>4, <2>4, <2>5, <2>7, <2>8, <2>9 DEF Inv, LedgerInv
<1>8. CASE /\ mem' = AfterFail(done, op, "unknown")
           /\ PersistFails
           /\ Goto(op, "failed")
           /\ UNCHANGED outcome
  <2>1. /\ saved' \in [Runs -> Journals]
        /\ Journal' = Journal
        /\ persistError' = TRUE
    BY <1>0, <1>8, FailedPersist
  <2>2. hand' \in Hands /\ hand'.op = op /\ hand'.step = "failed"
    BY <1>8, HandsTyped DEF Goto, HandSteps
  <2>3. mem' \in Journals
    BY <1>5, <1>8, FailIsJournal DEF Phases
  <2>4. TypeOK'
    BY <1>0, <1>1, <1>8, <2>1, <2>2, <2>3 DEF TypeOK, Hands, HandSteps
  <2>5. MemoryIsFile'
    BY <1>1, <2>1, <2>2 DEF MemoryIsFile, Running
  <2>6. LedgerInv'
    BY <1>0, <1>1, <1>8, <2>1, <2>2, LedgerKept
  <2> QED
    BY <1>4, <2>4, <2>5, <2>6 DEF Inv
<1> QED
  BY <1>6, <1>7, <1>8

(* fail(): the call is accounted for as declined, or stays in doubt.        *)
LEMMA FailKeepsInv ==
  ASSUME Inv, NEW op \in Ops, Fail(op)
  PROVE  Inv'
<1>0. TypeOK /\ Family /\ MemoryIsFile /\ LedgerInv
  BY DEF Inv
<1>1. /\ Running
      /\ hand.op = op /\ hand.step \in {"declined", "unsure"}
      /\ UNCHANGED <<status, scope, origin, branch, steps, waiting, snapshots,
                     active, files, edits>>
      /\ Persist \/ PersistFails
  BY DEF Fail, At, history, checkpoints, world
<1>2. mem \in Journals /\ mem = Journal
  BY <1>0, <1>1 DEF TypeOK, MemoryIsFile
<1>3. Journal.phase[op] = "pending" /\ outcome[op] = "open"
  BY <1>0, <1>1 DEF LedgerInv, HandIsPending
<1>4. PICK phase \in {"failed", "unknown"} :
        /\ mem' = AfterFail(mem, op, phase)
        /\ phase = "failed" => outcome' = [outcome EXCEPT ![op] = "declined"]
        /\ phase = "unknown" => outcome' = outcome
  BY DEF Fail
<1>5. /\ mem' \in Journals
      /\ mem'.phase = [mem.phase EXCEPT ![op] = phase]
      /\ mem'.post = mem.post
  <2>1. phase \in Phases
    BY DEF Phases
  <2> QED
    BY <1>2, <1>4, <2>1, FailIsJournal
<1>6. hand' \in Hands /\ hand'.op = op /\ hand'.step = "failed"
  BY HandsTyped DEF Fail, Goto, HandSteps
<1>7. /\ outcome' \in [Ops -> {"none", "open", "done", "declined"}]
      /\ \A x \in Ops : outcome'[x] # outcome[x] =>
           x = op /\ outcome'[x] = "declined" /\ phase = "failed"
      /\ phase = "failed" => outcome'[op] = "declined"
  BY <1>0, <1>4 DEF TypeOK
<1>8. /\ saved' \in [Runs -> Journals]
      /\ Journal' = Journal \/ Journal' = mem'
      /\ persistError' \in BOOLEAN
      /\ persistError' \/ Journal' = mem'
  BY <1>0, <1>1, <1>5, PersistSaves, FailedPersist
<1>9. TypeOK'
  BY <1>0, <1>1, <1>5, <1>6, <1>7, <1>8 DEF TypeOK, Hands, HandSteps
<1>10. Family'
  BY <1>0, <1>1, FamilyKept DEF history
<1>11. MemoryIsFile'
  BY <1>1, <1>6, <1>8 DEF MemoryIsFile, Running
<1>12. mem.phase \in [Ops -> Phases]
  BY <1>2, JournalFields
<1>13. HandIsPending' /\ DoubtIsInFile'
  BY <1>0, <1>2, <1>3, <1>5, <1>6, <1>7, <1>8, <1>12
     DEF LedgerInv, HandIsPending, DoubtIsInFile
<1>14. CommittedIsDone'
  BY <1>0, <1>2, <1>3, <1>5, <1>7, <1>8, <1>12 DEF LedgerInv, CommittedIsDone
<1>15. StandingIsInFile'
  <2> SUFFICES ASSUME NEW x \in Ops, StillStands(x)'
               PROVE  /\ Journal'.phase[x] = "committed"
                      /\ Journal'.post[x] = files[Target[x]]
    BY <1>1 DEF StandingIsInFile
  <2>1. x \in FileWrites /\ outcome'[x] = "done" /\ files[Target[x]].by = x
    BY <1>1 DEF StillStands
  <2>2. outcome[x] = "done" /\ x # op
    BY <1>3, <1>7, <2>1
  <2>3. Journal.phase[x] = "committed" /\ Journal.post[x] = files[Target[x]]
    BY <1>0, <2>1, <2>2 DEF LedgerInv, StandingIsInFile, StillStands
  <2> QED
    BY <1>2, <1>5, <1>8, <1>12, <2>2, <2>3
<1> QED
  BY <1>9, <1>10, <1>11, <1>13, <1>14, <1>15 DEF Inv, LedgerInv

LEMMA NoteKeepsInv ==
  ASSUME Inv, NEW op \in Ops, Note(op)
  PROVE  Inv'
<1>0. TypeOK /\ Family /\ MemoryIsFile /\ LedgerInv
  BY DEF Inv
<1>1. /\ Running /\ hand' = Idle
      /\ UNCHANGED <<status, scope, origin, branch, waiting, snapshots, active,
                     saved, mem, persistError, files, edits, outcome>>
  BY DEF Note, At, history, ledger, world
<1>2. steps' \in [Runs -> [Ops -> StepStates]]
  BY <1>0, <1>1, StepsTyped DEF Note
<1>3. Journal' = Journal /\ Idle.step = "idle" /\ Idle \in Hands
  BY <1>1, HandsTyped DEF Journal
<1>4. TypeOK'
  BY <1>0, <1>1, <1>2, <1>3 DEF TypeOK, Hands, HandSteps
<1>5. Family'
  BY <1>0, <1>1, FamilyKept DEF history
<1>6. MemoryIsFile'
  BY <1>0, <1>1, <1>3 DEF MemoryIsFile, Running
<1>7. LedgerInv'
  BY <1>0, <1>1, <1>3, LedgerKept
<1> QED
  BY <1>4, <1>5, <1>6, <1>7 DEF Inv

LEMMA SaveMessagesKeepsInv == ASSUME Inv, SaveMessages PROVE Inv'
<1>0. TypeOK /\ Family /\ MemoryIsFile /\ LedgerInv
  BY DEF Inv
<1>1. /\ Running /\ snapshots' = snapshots \cup {active}
      /\ UNCHANGED <<status, scope, origin, branch, steps, waiting, active, hand,
                     saved, mem, persistError, files, edits, outcome>>
  BY DEF SaveMessages, history, ledger, world
<1>2. TypeOK'
  BY <1>0, <1>1 DEF TypeOK, Running
<1>3. Family' /\ MemoryIsFile' /\ LedgerInv'
  BY <1>0, <1>1, FamilyKept, LedgerKept DEF history, MemoryIsFile, Running, Journal
<1> QED
  BY <1>2, <1>3 DEF Inv

-----------------------------------------------------------------------------
(* However a run ends, its process forgets the ledger and the call in hand; *)
(* the file, the files and what became of the attempts stay.                *)
LEMMA QuitKeepsInv ==
  ASSUME Inv, Running, Quit,
         status' \in [Runs -> Statuses],
         \A r \in Runs : status[r] # "absent" => status'[r] # "absent",
         \A r \in Runs : status'[r] # "absent" => status[r] # "absent" \/ r = active
  PROVE  Inv'
<1>0. TypeOK /\ Family /\ MemoryIsFile /\ LedgerInv
  BY DEF Inv
<1>1. /\ active' = Missing /\ hand' = Idle /\ mem' = EmptyJournal
      /\ persistError' = FALSE
      /\ UNCHANGED <<scope, origin, branch, steps, waiting, snapshots, saved, files,
                     edits, outcome>>
  BY DEF Quit, checkpoints, world
<1>2. Journal' = Journal /\ Idle \in Hands
  BY <1>1, HandsTyped DEF Journal
<1>3. TypeOK'
  BY <1>0, <1>1, <1>2, EmptyIsJournal DEF TypeOK, Hands, HandSteps
<1>4. Family'
  BY <1>0, <1>1, RecoveryAssumption DEF Family, Running, TypeOK
<1>5. MemoryIsFile'
  BY <1>1 DEF MemoryIsFile, Running
<1>6. LedgerInv'
  BY <1>0, <1>1, <1>2, LedgerKept
<1> QED
  BY <1>3, <1>4, <1>5, <1>6 DEF Inv

LEMMA EndKeepsInv == ASSUME Inv, Finish \/ Cancel \/ Crash PROVE Inv'
<1>0. Running /\ Quit /\ TypeOK
  BY DEF Finish, Cancel, Crash, Inv
<1>1. CASE \E result \in {"completed", "error", "cancelled"} : Finished(active, result)
  <2>1. PICK result \in {"completed", "error", "cancelled"} : Finished(active, result)
    BY <1>1
  <2>2. \A r \in Runs : status'[r] \in {result, "superseded", status[r]}
    BY <2>1 DEF Finished
  <2>3. status' \in [Runs -> Statuses]
    <3>1. \A r \in Runs : status[r] \in Statuses
      BY <1>0 DEF TypeOK
    <3>2. \A r \in Runs : status'[r] \in Statuses
      BY <2>2, <3>1 DEF Statuses
    <3> QED
      BY <2>1, <3>2 DEF Finished
  <2>4. \A r \in Runs : status'[r] # "absent" => status[r] # "absent" \/ r = active
    BY <2>1 DEF Finished
  <2>5. \A r \in Runs : status[r] # "absent" => status'[r] # "absent"
    BY <2>2
  <2> QED
    BY <1>0, <2>3, <2>4, <2>5, QuitKeepsInv
<1>2. CASE status' = [status EXCEPT ![active] = "error"]
  <2>1. /\ status' \in [Runs -> Statuses]
        /\ \A r \in Runs : status[r] # "absent" => status'[r] # "absent"
        /\ \A r \in Runs : status'[r] # "absent" => status[r] # "absent" \/ r = active
    BY <1>0, <1>2 DEF TypeOK, Statuses
  <2> QED
    BY <1>0, <2>1, QuitKeepsInv
<1>3. CASE UNCHANGED status
  BY <1>0, <1>3, QuitKeepsInv DEF TypeOK
<1> QED
  BY <1>1, <1>2, <1>3 DEF Finish, Cancel, Crash

-----------------------------------------------------------------------------
(* A resumed run works in the scope of the run it resumes, and loads its    *)
(* ledger.                                                                  *)
LEMMA ResumeKeepsInv ==
  ASSUME MaxDepth <= 1, Inv, NEW q \in Runs, NEW r \in Runs, Resume(q, r)
  PROVE  Inv'
<1>0. TypeOK /\ Family /\ MemoryIsFile /\ LedgerInv
  BY DEF Inv
<1>1. /\ ~Running
      /\ status[q] = "absent" /\ status[r] # "absent" /\ depth[r] < MaxDepth
      /\ status' = [status EXCEPT ![q] = "open"]
      /\ scope' = [scope EXCEPT ![q] = r]
      /\ origin' = [origin EXCEPT ![q] = r]
      /\ active' = q
      /\ mem' = saved[r]
      /\ UNCHANGED <<branch, steps, waiting, snapshots, saved, persistError, hand,
                     files, edits, outcome>>
  BY DEF Resume, Mode, checkpoints, world
<1>2. r = First /\ q # First
  BY <1>0, <1>1, OnlyFirstIsResumed DEF Family
<1>3. Journal' = Journal /\ First \in Runs /\ Missing \notin Runs
  BY <1>1, RecoveryAssumption DEF Journal
<1>4. TypeOK'
  BY <1>0, <1>1 DEF TypeOK, Statuses
<1>5. Family'
  BY <1>0, <1>1, <1>2, <1>3 DEF TypeOK, Family, Running
<1>6. MemoryIsFile'
  BY <1>0, <1>1, <1>2, <1>3 DEF MemoryIsFile, Running, Journal
<1>7. LedgerInv'
  BY <1>0, <1>1, <1>3, LedgerKept
<1> QED
  BY <1>4, <1>5, <1>6, <1>7 DEF Inv

LEMMA BranchKeepsInv ==
  ASSUME Inv, NEW q \in Runs, NEW r \in Runs, Branch(q, r)
  PROVE  Inv'
<1>0. TypeOK /\ Family /\ MemoryIsFile /\ LedgerInv
  BY DEF Inv
<1>1. /\ status[q] = "absent"
      /\ status' = [status EXCEPT ![q] = "open"]
      /\ branch' = branch \cup {q}
      /\ snapshots' = snapshots \cup {q}
      /\ UNCHANGED <<scope, origin, steps, waiting, saved, mem, persistError, active,
                     hand, files, edits, outcome>>
  BY DEF Branch, ledger, world
<1>2. TypeOK'
  BY <1>0, <1>1 DEF TypeOK, Statuses
<1>3. Family'
  BY <1>0, <1>1, RecoveryAssumption DEF TypeOK, Family, Running
<1>4. MemoryIsFile' /\ LedgerInv'
  BY <1>0, <1>1, LedgerKept DEF MemoryIsFile, Running, Journal
<1> QED
  BY <1>2, <1>3, <1>4 DEF Inv

(* Other people's versions of a file are nobody's standing work.            *)
LEMMA EditKeepsInv ==
  ASSUME Inv, NEW p \in Paths, Edit(p)
  PROVE  Inv'
<1>0. TypeOK /\ Family /\ MemoryIsFile /\ LedgerInv
  BY DEF Inv
<1> DEFINE v == [by |-> Outside, at |-> edits + 1]
<1>1. /\ edits < MaxEdits /\ edits' = edits + 1
      /\ files' = [files EXCEPT ![p] = v]
      /\ UNCHANGED <<status, scope, origin, branch, steps, waiting, snapshots, active,
                     hand, saved, mem, persistError, outcome>>
  BY DEF Edit, history, checkpoints, ledger
<1>2. edits' \in 0..MaxEdits
  BY <1>0, <1>1, RecoveryAssumption DEF TypeOK
<1>3. v \in Versions /\ v.by = Outside
  BY <1>0, VersionsTyped DEF TypeOK
<1> HIDE DEF v
<1>4. TypeOK'
  BY <1>0, <1>1, <1>2, <1>3 DEF TypeOK
<1>5. Family' /\ MemoryIsFile' /\ Journal' = Journal
  BY <1>0, <1>1, FamilyKept DEF history, MemoryIsFile, Running, Journal
<1>6. HandIsPending' /\ DoubtIsInFile' /\ CommittedIsDone'
  BY <1>0, <1>1, <1>5 DEF LedgerInv, HandIsPending, DoubtIsInFile, CommittedIsDone
<1>7. StandingIsInFile'
  <2> SUFFICES ASSUME NEW x \in Ops, StillStands(x)'
               PROVE  /\ Journal.phase[x] = "committed"
                      /\ Journal.post[x] = files'[Target[x]]
    BY <1>5 DEF StandingIsInFile
  <2>1. x \in FileWrites /\ outcome[x] = "done" /\ files'[Target[x]].by = x
    BY <1>1 DEF StillStands
  <2>2. Target[x] \in Paths /\ Target[x] # p
    BY <1>0, <1>1, <1>3, <2>1, LedgerAssumption DEF FileWrites, TypeOK
  <2>3. files'[Target[x]] = files[Target[x]]
    BY <1>0, <1>1, <2>2 DEF TypeOK
  <2> QED
    BY <1>0, <2>1, <2>3 DEF LedgerInv, StandingIsInFile, StillStands
<1> QED
  BY <1>4, <1>5, <1>6, <1>7 DEF Inv, LedgerInv

-----------------------------------------------------------------------------
(* Inv is inductive.                                                        *)
LEMMA NextKeepsInv ==
  ASSUME MaxDepth <= 1, Inv, [Next]_vars
  PROVE  Inv'
<1>1. CASE UNCHANGED vars
  <2>1. UNCHANGED <<status, scope, origin, branch, steps, waiting, snapshots, saved,
                    mem, persistError, active, hand, files, edits, outcome>>
    BY <1>1 DEF vars, history, checkpoints, ledger, world
  <2>2. TypeOK'
    BY <2>1 DEF Inv, TypeOK
  <2>3. Family' /\ MemoryIsFile' /\ LedgerInv'
    BY <2>1, FamilyKept, LedgerKept DEF Inv, history, MemoryIsFile, Running, Journal
  <2> QED
    BY <2>2, <2>3 DEF Inv
<1>2. ASSUME NEW op \in Ops, Call(op)
      PROVE  Inv'
  BY <1>2, BeginSkipKeepsInv, BeginKeepsInv, DispatchKeepsInv, ToolKeepsInv,
     CommitKeepsInv, FailKeepsInv, NoteKeepsInv DEF Call
<1>3. ASSUME NEW q \in Runs, NEW r \in Runs, Resume(q, r) \/ Branch(q, r)
      PROVE  Inv'
  BY <1>3, ResumeKeepsInv, BranchKeepsInv
<1> QED
  BY <1>1, <1>2, <1>3, SaveMessagesKeepsInv, EndKeepsInv, EditKeepsInv DEF Next

LEMMA InvHolds == ASSUME MaxDepth <= 1 PROVE Spec => []Inv
<1>1. Init => Inv
  BY InitInv
<1>2. Inv /\ [Next]_vars => Inv'
  BY NextKeepsInv
<1> QED
  BY <1>1, <1>2, PTL DEF Spec

(* Whenever planResume lets the first run go on by itself, every step it    *)
(* leaves pending is a write that was done (runCheckpoint.cjs:608-611), and *)
(* whatever is in doubt is a write that begin() refuses.                    *)
THEOREM PlansAreAlwaysSound == ASSUME MaxDepth <= 1 PROVE Spec => []PlansAreSound
<1>1. Inv => PlansAreSound
  <2> SUFFICES ASSUME Inv, Mode(First) = "auto" PROVE AutoIsSafe
    BY DEF Inv, PlansAreSound, AutoIsSafe
  <2>1. /\ \A op \in Ops : Effect[op] \in {"write", "unknown"}
        /\ UnknownEffects(First) \cup UncommittedWrites(First) = {}
    BY LedgerAssumption, RecoveryAssumption DEF Effectful, Mode
  <2>2. ASSUME NEW op \in PendingSteps(First)
        PROVE  Effect[op] = "write" /\ outcome[op] = "done"
    <3>1. op \in Ops
      BY DEF PendingSteps
    <3>2. Effect[op] = "write"
      BY <2>1, <3>1 DEF UnknownEffects
    <3>3. CommittedInLedger(First, op)
      BY <2>1, <3>2 DEF UncommittedWrites
    <3> QED
      BY <3>1, <3>2, <3>3
         DEF CommittedInLedger, Inv, LedgerInv, CommittedIsDone, Journal
  <2>3. ASSUME NEW op \in Doubt
        PROVE  Effect[op] = "write" /\ saved[First].phase[op] = "pending"
    <3>1. op \in Ops /\ Journal.phase[op] \in {"pending", "unknown"}
      BY DEF Doubt, Inv, LedgerInv, DoubtIsInFile
    <3>2. op \notin LedgerUnknown(saved[First])
      BY <2>1 DEF UnknownEffects
    <3> QED
      BY <2>1, <3>1, <3>2 DEF LedgerUnknown, Journal
  <2> QED
    BY <2>2, <2>3 DEF AutoIsSafe
<1> QED
  BY <1>1, InvHolds, PTL

(* A step that starts an operation is the dispatch of the call in hand.     *)
LEMMA StartIsDispatch ==
  ASSUME TypeOK, NEW op \in Ops, Starts(op), [Next]_vars
  PROVE  hand.op = op /\ hand.step = "begun"
<1>1. hand.step # "ready" /\ hand' = [op |-> op, step |-> "ready"]
  BY DEF Starts
<1>2. hand'.op = op /\ hand'.step = "ready" /\ hand' # hand /\ hand' # Idle
  BY <1>1, HandsTyped DEF HandSteps
<1>3. ~UNCHANGED vars
  BY <1>2 DEF vars
<1>4. ~SaveMessages /\ ~Finish /\ ~Cancel /\ ~Crash
  BY <1>2 DEF SaveMessages, Finish, Cancel, Crash, Quit
<1>5. ~(\E q, r \in Runs : Resume(q, r) \/ Branch(q, r)) /\ ~(\E p \in Paths : Edit(p))
  BY <1>2 DEF Resume, Branch, Edit
<1>6. PICK x \in Ops : Call(x)
  BY <1>3, <1>4, <1>5 DEF Next
<1>7. ~BeginSkip(x) /\ ~Ask(x) /\ ~Note(x)
  BY <1>2 DEF BeginSkip, Ask, Note
<1>8. ~Begin(x) /\ ~Commit(x) /\ ~Fail(x)
  BY <1>2, HandsTyped DEF Begin, Commit, Fail, Goto, HandSteps
<1>9. ~Answer(x) /\ ~Run(x)
  BY <1>1 DEF Answer, Run, At
<1>10. Dispatch(x)
  BY <1>6, <1>7, <1>8, <1>9 DEF Call
<1>11. hand' = [op |-> x, step |-> "ready"] /\ hand = [op |-> x, step |-> "begun"]
  BY <1>10 DEF Dispatch, Goto, At
<1> QED
  BY <1>2, <1>11

(* No run of the family executes an operation in doubt again.               *)
THEOREM NothingReplayedBlindly == ASSUME MaxDepth <= 1 PROVE Spec => NoBlindReplay
<1>1. ASSUME Inv, [Next]_vars, NEW op \in Doubt
      PROVE  ~Starts(op)
  BY <1>1, StartIsDispatch DEF Inv, LedgerInv, DoubtIsInFile, Doubt
<1>2. Inv /\ [Next]_vars => [\A op \in Doubt : ~Starts(op)]_vars
  BY <1>1
<1> QED
  BY <1>2, InvHolds, PTL DEF Spec, NoBlindReplay

(* A write that still stands is not done again by any run of the family.    *)
THEOREM CommittedWorkStays ==
  ASSUME MaxDepth <= 1 PROVE Spec => CommittedWorkIsNotRepeated
<1>1. ASSUME Inv, [Next]_vars, NEW op \in Ops, StillStands(op)
      PROVE  ~Starts(op)
  <2>1. Journal.phase[op] = "committed"
    BY <1>1 DEF Inv, LedgerInv, StandingIsInFile
  <2>2. ~(hand.op = op /\ hand.step = "begun")
    BY <1>1, <2>1 DEF Inv, LedgerInv, HandIsPending
  <2> QED
    BY <1>1, <2>2, StartIsDispatch DEF Inv
<1>2. Inv /\ [Next]_vars => [\A op \in Ops : StillStands(op) => ~Starts(op)]_vars
  BY <1>1
<1> QED
  BY <1>2, InvHolds, PTL DEF Spec, CommittedWorkIsNotRepeated
================================================================================
