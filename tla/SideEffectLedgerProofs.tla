------------------------ MODULE SideEffectLedgerProofs ------------------------
(***************************************************************************)
(* Theorems about the side-effect ledger, for any number of agents,        *)
(* operations, files and edits, and whatever operations the registry calls *)
(* mutating: one the ledger calls read-only (scan_project) may fail in a   *)
(* process that could not load the ledger and replace it (wiped).          *)
(***************************************************************************)
EXTENDS SideEffectLedger, TLAPS

(* A process that is down holds nothing.                                    *)
DownIsIdle ==
  ~up => /\ hand = [a \in Actors |-> Idle]
         /\ late = {}
         /\ ~loadError

(* A process that could not load the ledger begins nothing with effects; if *)
(* the file is readable all the same, the process has replaced it.          *)
BlindOnlyReads ==
  loadError => /\ up
               /\ \A a \in Actors : hand[a].op \notin Effectful
               /\ readable => \A op \in Effectful : outcome[op] # "none" => op \in wiped

(* An operation with effects is held by one agent, open and pending.        *)
HeldIsOpen ==
  \A a \in Actors, op \in Effectful :
    hand[a].op = op => outcome[op] = "open" /\ mem.phase[op] = "pending"

HeldByOne ==
  \A a, b \in Actors, op \in Effectful :
    hand[a].op = op /\ hand[b].op = op => a = b

(* A tool that runs on belongs to an attempt that is never settled as done. *)
LateIsOpen ==
  \A op \in late \cap Effectful :
    /\ outcome[op] = "open"
    /\ mem.phase[op] \in {"pending", "unknown"}
    /\ \A a \in Actors : hand[a].op = op => hand[a].step = "unsure"

(* "committed", in memory or in the file, means that the latest attempt     *)
(* succeeded.                                                               *)
CommittedIsDone ==
  \A op \in Effectful :
    /\ readable /\ saved.phase[op] = "committed" => outcome[op] = "done"
    /\ mem.phase[op] = "committed" => outcome[op] = "done"

Inv ==
  /\ TypeOK
  /\ DownIsIdle
  /\ BlindOnlyReads
  /\ HeldIsOpen
  /\ HeldByOne
  /\ LateIsOpen
  /\ DoubtIsRecorded
  /\ CommittedIsDone

-----------------------------------------------------------------------------
(* What the record operators return.                                        *)
LEMMA EmptyIsJournal ==
  /\ EmptyJournal \in Journals
  /\ \A op \in Ops : EmptyJournal.phase[op] = "none"
BY DEF EmptyJournal, Journals, Phases

LEMMA IntentIsJournal ==
  ASSUME NEW j \in Journals, NEW op \in Ops, NEW fs \in [Paths -> Versions]
  PROVE  /\ AfterIntent(j, op, fs) \in Journals
         /\ AfterIntent(j, op, fs).phase = [j.phase EXCEPT ![op] = "pending"]
         /\ AfterIntent(j, op, fs).post = j.post
         /\ AfterIntent(j, op, fs).image = ImagesAfter(j, op, fs)
<1>1. ImagesAfter(j, op, fs) \in [Paths -> Versions \cup {Missing}]
  BY LedgerAssumption DEF ImagesAfter, FileWrites, Journals
<1>2. [j.phase EXCEPT ![op] = "pending"] \in [Ops -> Phases]
  BY DEF Journals, Phases
<1> QED
  BY <1>1, <1>2 DEF AfterIntent, Journals

LEMMA CommitIsJournal ==
  ASSUME NEW j \in Journals, NEW op \in Ops, NEW fs \in [Paths -> Versions]
  PROVE  /\ AfterCommit(j, op, fs) \in Journals
         /\ AfterCommit(j, op, fs).phase = [j.phase EXCEPT ![op] = "committed"]
         /\ Target[op] # Missing =>
              AfterCommit(j, op, fs).post = [j.post EXCEPT ![op] = fs[Target[op]]]
         /\ Target[op] = Missing => AfterCommit(j, op, fs).post = j.post
         /\ AfterCommit(j, op, fs).image = j.image
<1>1. (IF Target[op] = Missing THEN j.post
       ELSE [j.post EXCEPT ![op] = fs[Target[op]]]) \in [Ops -> Versions \cup {Missing}]
  BY LedgerAssumption DEF Journals
<1>2. [j.phase EXCEPT ![op] = "committed"] \in [Ops -> Phases]
  BY DEF Journals, Phases
<1> QED
  BY <1>1, <1>2 DEF AfterCommit, Journals

LEMMA FailIsJournal ==
  ASSUME NEW j \in Journals, NEW op \in Ops, NEW phase \in Phases
  PROVE  /\ AfterFail(j, op, phase) \in Journals
         /\ AfterFail(j, op, phase).phase = [j.phase EXCEPT ![op] = phase]
         /\ AfterFail(j, op, phase).post = j.post
         /\ AfterFail(j, op, phase).image = j.image
BY DEF AfterFail, Journals

LEMMA JournalPhases ==
  ASSUME NEW j \in Journals
  PROVE  /\ j.phase \in [Ops -> Phases]
         /\ j.post \in [Ops -> Versions \cup {Missing}]
         /\ j.image \in [Paths -> Versions \cup {Missing}]
BY DEF Journals

LEMMA HandsTyped ==
  /\ Idle \in Hands
  /\ Idle.op = Missing /\ Idle.step = "idle"
  /\ \A op \in Ops : Idle.op # op
  /\ \A op \in Ops, step \in {"ready", "ran", "declined", "unsure"} :
       /\ [op |-> op, step |-> step] \in Hands
       /\ [op |-> op, step |-> step] # Idle
BY LedgerAssumption DEF Hands, Idle

LEMMA VersionsTyped ==
  /\ Absent \in Versions
  /\ \A n \in Nat : [by |-> Outside, at |-> n] \in Versions
  /\ \A op \in Ops, n \in Nat : [by |-> op, at |-> n] \in Versions
BY DEF Versions, Absent

(* A step of the world keeps the files typed.                               *)
LEMMA WritesTyped ==
  ASSUME TypeOK, NEW op \in Ops, Writes(op)
  PROVE  files' \in [Paths -> Versions] /\ edits' \in Nat
<1>1. CASE op \in FileWrites
  <2>1. edits + 1 \in Nat /\ [by |-> op, at |-> edits + 1] \in Versions
    BY VersionsTyped DEF TypeOK
  <2> QED
    BY <1>1, <2>1 DEF Writes, TypeOK
<1>2. CASE op \notin FileWrites
  BY <1>2 DEF Writes, TypeOK
<1> QED
  BY <1>1, <1>2


-----------------------------------------------------------------------------
(* begin() refuses an operation in doubt that the ledger knows of, and one  *)
(* with effects that an agent holds or whose tool is still running.         *)
LEMMA BeginsOutOfDoubt ==
  ASSUME Inv, NEW op \in Ops, up, ~Refuses(op)
  PROVE  /\ op \notin Doubt \ wiped
         /\ op \in Effectful => /\ ~loadError
                                /\ ~persistError
                                /\ mem.phase[op] \notin {"pending", "unknown"}
<1>1. op \in Effectful => mem.phase[op] \notin {"pending", "unknown"}
  BY DEF Refuses, InDoubt
<1>2. op \in Effectful => ~loadError /\ ~persistError
  BY DEF Refuses
<1>3. op \notin Doubt \ wiped
  BY <1>1, <1>2 DEF Inv, DoubtIsRecorded, Live, Doubt
<1> QED
  BY <1>1, <1>2, <1>3

LEMMA FreshIsUnheld ==
  ASSUME Inv, NEW op \in Effectful, up, ~Refuses(op)
  PROVE  op \notin late /\ \A a \in Actors : hand[a].op # op
<1>1. mem.phase[op] \notin {"pending", "unknown"}
  BY BeginsOutOfDoubt DEF Effectful
<1> QED
  BY <1>1 DEF Inv, HeldIsOpen, LateIsOpen

LEMMA InitInv == Init => Inv
<1> SUFFICES ASSUME Init PROVE Inv
  OBVIOUS
<1>1. TypeOK
  <2>1. files \in [Paths -> Versions]
    BY VersionsTyped DEF Init
  <2> QED
    BY <2>1, EmptyIsJournal, HandsTyped DEF Init, TypeOK, Outcomes
<1>2. \A a \in Actors : hand[a] = Idle
  BY DEF Init
<1>3. HeldIsOpen /\ HeldByOne /\ LateIsOpen
  BY <1>2, HandsTyped DEF Init, HeldIsOpen, HeldByOne, LateIsOpen, Effectful
<1>4. DoubtIsRecorded /\ CommittedIsDone
  BY EmptyIsJournal DEF Init, DoubtIsRecorded, CommittedIsDone, Doubt, Effectful
<1>5. DownIsIdle /\ BlindOnlyReads
  BY DEF Init, DownIsIdle, BlindOnlyReads
<1> QED
  BY <1>1, <1>3, <1>4, <1>5 DEF Inv

-----------------------------------------------------------------------------
LEMMA BeginKeepsInv ==
  ASSUME Inv, NEW a \in Actors, NEW op \in Ops, Begin(a, op)
  PROVE  Inv'
<1>0. /\ TypeOK /\ DownIsIdle /\ BlindOnlyReads /\ HeldIsOpen /\ HeldByOne
      /\ LateIsOpen /\ DoubtIsRecorded /\ CommittedIsDone
  BY DEF Inv
<1>1. /\ mem' \in Journals
      /\ mem'.phase = [mem.phase EXCEPT ![op] = "pending"]
  BY <1>0, IntentIsJournal DEF Begin, TypeOK
<1>2. mem.phase \in [Ops -> Phases] /\ saved.phase \in [Ops -> Phases]
  BY <1>0, JournalPhases DEF TypeOK
<1>3. /\ op \in Effectful => op \notin late /\ \A b \in Actors : hand[b].op # op
      /\ op \in Effectful => ~loadError
      /\ up
  BY BeginsOutOfDoubt, FreshIsUnheld DEF Begin
<1>4. UNCHANGED <<up, loadError, late, files, edits, wiped>>
  BY <1>3 DEF Begin, Persist, PersistFails, Wipes, Effectful, world
<1>5. CASE /\ Persist(Effect[op])
           /\ Put(a, op, "ready")
           /\ outcome' = [outcome EXCEPT ![op] = "open"]
  <2> DEFINE h == [op |-> op, step |-> "ready"]
  <2>1. /\ h \in Hands /\ h.op = op /\ h.step = "ready"
        /\ hand' = [hand EXCEPT ![a] = h]
    BY <1>5, HandsTyped DEF Put
  <2> HIDE DEF h
  <2>2. \/ Effect[op] = "read" /\ UNCHANGED <<saved, readable, persistError>>
        \/ Effect[op] # "read" /\ saved' = mem' /\ readable' = TRUE /\ persistError' = FALSE
    BY <1>5 DEF Persist
  <2>3. TypeOK'
    BY <1>0, <1>1, <1>4, <1>5, <2>1, <2>2 DEF TypeOK, Outcomes
  <2>4. DownIsIdle' /\ BlindOnlyReads'
    <3>1. \A x \in Effectful : x # op => outcome'[x] = outcome[x]
      BY <1>0, <1>5 DEF TypeOK, Effectful
    <3>2. loadError => op \notin Effectful /\ UNCHANGED readable
      BY <1>3, <2>2 DEF Effectful
    <3> QED
      BY <1>0, <1>3, <1>4, <2>1, <3>1, <3>2 DEF TypeOK, DownIsIdle, BlindOnlyReads
  <2>5. HeldIsOpen' /\ HeldByOne' /\ LateIsOpen'
    BY <1>0, <1>1, <1>2, <1>3, <1>4, <1>5, <2>1
       DEF TypeOK, HeldIsOpen, HeldByOne, LateIsOpen, Effectful
  <2>6. DoubtIsRecorded' /\ CommittedIsDone'
    BY <1>0, <1>1, <1>2, <1>3, <1>4, <1>5, <2>2
       DEF TypeOK, DoubtIsRecorded, CommittedIsDone, Doubt, Effectful, Live
  <2> QED
    BY <2>3, <2>4, <2>5, <2>6 DEF Inv
<1>6. CASE PersistFails(Effect[op]) /\ UNCHANGED <<hand, outcome>>
  <2>1. /\ UNCHANGED <<saved, readable, hand, outcome>>
        /\ persistError' = TRUE
    BY <1>6 DEF PersistFails
  <2>2. TypeOK'
    BY <1>0, <1>1, <1>4, <2>1 DEF TypeOK
  <2>3. DownIsIdle' /\ BlindOnlyReads'
    BY <1>0, <1>4, <2>1 DEF DownIsIdle, BlindOnlyReads
  <2>4. HeldIsOpen' /\ HeldByOne' /\ LateIsOpen'
    BY <1>0, <1>1, <1>2, <1>4, <2>1
       DEF HeldIsOpen, HeldByOne, LateIsOpen, Effectful
  <2>5. DoubtIsRecorded' /\ CommittedIsDone'
    BY <1>0, <1>1, <1>2, <1>3, <1>4, <2>1
       DEF DoubtIsRecorded, CommittedIsDone, Doubt, Effectful, Live
  <2> QED
    BY <2>2, <2>3, <2>4, <2>5 DEF Inv
<1> QED
  BY <1>5, <1>6 DEF Begin

LEMMA BeginSkipKeepsInv ==
  ASSUME Inv, NEW a \in Actors, NEW op \in Ops, BeginSkip(a, op)
  PROVE  Inv'
<1>0. /\ TypeOK /\ DownIsIdle /\ BlindOnlyReads /\ HeldIsOpen /\ HeldByOne
      /\ LateIsOpen /\ DoubtIsRecorded /\ CommittedIsDone
  BY DEF Inv
<1>2. op \in Effectful
  BY DEF BeginSkip, Skips, Effectful
<1>3. ~loadError
  BY <1>2, BeginsOutOfDoubt DEF BeginSkip
<1>1. /\ UNCHANGED <<mem, up, loadError, late, files, edits, hand, outcome, wiped>>
      /\ up
      /\ \/ UNCHANGED <<saved, readable>>
         \/ saved' = mem /\ readable' = TRUE
      /\ persistError' \in BOOLEAN
  BY <1>0, <1>3 DEF BeginSkip, Persist, PersistFails, Wipes, world, TypeOK
<1>4. TypeOK'
  BY <1>0, <1>1 DEF TypeOK
<1>5. DownIsIdle' /\ BlindOnlyReads'
  BY <1>0, <1>1, <1>3 DEF DownIsIdle, BlindOnlyReads
<1>6. HeldIsOpen' /\ HeldByOne' /\ LateIsOpen'
  BY <1>0, <1>1 DEF HeldIsOpen, HeldByOne, LateIsOpen
<1>7. DoubtIsRecorded' /\ CommittedIsDone'
  BY <1>0, <1>1, <1>3 DEF DoubtIsRecorded, CommittedIsDone, Doubt, Live
<1> QED
  BY <1>4, <1>5, <1>6, <1>7 DEF Inv

(* An agent that holds an operation with effects runs in a live process     *)
(* with a ledger it could load.                                             *)
LEMMA HolderIsLive ==
  ASSUME Inv, NEW a \in Actors, NEW op \in Ops, hand[a].op = op
  PROVE  /\ up
         /\ op \in Effectful => /\ ~loadError
                                /\ outcome[op] = "open"
                                /\ mem.phase[op] = "pending"
<1>1. up
  BY HandsTyped DEF Inv, DownIsIdle
<1>2. op \in Effectful => ~loadError
  BY DEF Inv, BlindOnlyReads
<1>3. op \in Effectful => outcome[op] = "open" /\ mem.phase[op] = "pending"
  BY DEF Inv, HeldIsOpen
<1> QED
  BY <1>1, <1>2, <1>3

(* The tool runs: the token changes step, the ledger does not change.       *)
LEMMA RunKeepsInv ==
  ASSUME Inv, NEW a \in Actors, NEW op \in Ops,
         RunSucceeds(a, op) \/ RunDeclines(a, op) \/ RunUnsure(a, op)
  PROVE  Inv'
<1>0. /\ TypeOK /\ DownIsIdle /\ BlindOnlyReads /\ HeldIsOpen /\ HeldByOne
      /\ LateIsOpen /\ DoubtIsRecorded /\ CommittedIsDone
  BY DEF Inv
<1>1. /\ hand[a] = [op |-> op, step |-> "ready"]
      /\ UNCHANGED <<up, mem, saved, readable, persistError, loadError, outcome, wiped>>
  BY DEF RunSucceeds, RunDeclines, RunUnsure, ledger
<1>2. hand[a].op = op /\ hand[a].step = "ready"
  BY <1>1
<1>3. up
  BY <1>2, HolderIsLive
<1>4. PICK step \in {"ran", "declined", "unsure"} :
        /\ Put(a, op, step)
        /\ step # "unsure" => late' = late
  BY DEF RunSucceeds, RunDeclines, RunUnsure, world
<1>5. late' = late \/ late' = late \cup {op}
  BY DEF RunSucceeds, RunDeclines, RunUnsure, world
<1>6. files' \in [Paths -> Versions] /\ edits' \in Nat
  BY <1>0, WritesTyped DEF RunSucceeds, RunDeclines, RunUnsure, world, TypeOK
<1> DEFINE h == [op |-> op, step |-> step]
<1>7. /\ h \in Hands /\ h.op = op /\ h.step = step
      /\ hand' = [hand EXCEPT ![a] = h]
  BY <1>4, HandsTyped DEF Put
<1> HIDE DEF h
<1>8. TypeOK'
  BY <1>0, <1>1, <1>5, <1>6, <1>7 DEF TypeOK
<1>9. DownIsIdle' /\ BlindOnlyReads'
  BY <1>0, <1>1, <1>2, <1>3, <1>7 DEF TypeOK, DownIsIdle, BlindOnlyReads, Effectful
<1>10. HeldIsOpen' /\ HeldByOne'
  BY <1>0, <1>1, <1>2, <1>4, <1>7
     DEF TypeOK, HeldIsOpen, HeldByOne, Effectful
<1>11. LateIsOpen'
  BY <1>0, <1>1, <1>2, <1>4, <1>5, <1>7
     DEF TypeOK, HeldIsOpen, HeldByOne, LateIsOpen, Effectful
<1>12. DoubtIsRecorded' /\ CommittedIsDone'
  BY <1>0, <1>1 DEF DoubtIsRecorded, CommittedIsDone, Doubt, Live
<1> QED
  BY <1>8, <1>9, <1>10, <1>11, <1>12 DEF Inv

-----------------------------------------------------------------------------
(* Dropping the token keeps what the invariant says of the tokens, whatever *)
(* the operation's new outcome and phase are.                               *)
LEMMA DropKeepsTokens ==
  ASSUME Inv, NEW a \in Actors, NEW op \in Ops, hand[a].op = op, Drop(a),
         NEW phase \in Phases, NEW result \in Outcomes,
         mem'.phase = [mem.phase EXCEPT ![op] = phase],
         outcome' = [outcome EXCEPT ![op] = result],
         op \in late \cap Effectful =>
           result = "open" /\ phase \in {"pending", "unknown"},
         UNCHANGED <<up, loadError, late>>,
         \/ UNCHANGED <<readable, wiped>>
         \/ ~loadError
         \/ op \notin Effectful /\ Wipes
  PROVE  /\ hand' \in [Actors -> Hands]
         /\ outcome' \in [Ops -> Outcomes]
         /\ DownIsIdle' /\ BlindOnlyReads'
         /\ HeldIsOpen' /\ HeldByOne' /\ LateIsOpen'
<1>0. /\ TypeOK /\ DownIsIdle /\ BlindOnlyReads /\ HeldIsOpen /\ HeldByOne
      /\ LateIsOpen
  BY DEF Inv
<1>1. /\ up
      /\ op \in Effectful => ~loadError
  BY HolderIsLive
<1>2. /\ hand' = [hand EXCEPT ![a] = Idle]
      /\ Idle \in Hands /\ Idle.step = "idle"
      /\ \A x \in Ops : Idle.op # x
  BY HandsTyped DEF Drop
<1>3. mem.phase \in [Ops -> Phases]
  BY <1>0, JournalPhases DEF TypeOK
<1>4. hand' \in [Actors -> Hands] /\ outcome' \in [Ops -> Outcomes]
  BY <1>0, <1>2 DEF TypeOK
<1>5. DownIsIdle' /\ BlindOnlyReads'
  <2>1. \A b \in Actors : hand'[b].op \notin Effectful \/ hand'[b].op = hand[b].op
    BY <1>0, <1>2 DEF TypeOK, Effectful
  <2>2. \A x \in Effectful : x # op => outcome'[x] = outcome[x]
    BY <1>0 DEF TypeOK, Effectful
  <2>3. loadError => op \notin Effectful
    BY <1>1
  <2> QED
    BY <1>0, <1>1, <2>1, <2>2, <2>3 DEF DownIsIdle, BlindOnlyReads, Wipes
<1>6. HeldIsOpen'
  BY <1>0, <1>2, <1>3 DEF TypeOK, HeldIsOpen, HeldByOne, Effectful
<1>7. HeldByOne'
  BY <1>0, <1>2 DEF TypeOK, HeldByOne, Effectful
<1>8. LateIsOpen'
  BY <1>0, <1>2, <1>3 DEF TypeOK, LateIsOpen, Effectful
<1> QED
  BY <1>4, <1>5, <1>6, <1>7, <1>8

LEMMA CommitKeepsInv ==
  ASSUME Inv, NEW a \in Actors, NEW op \in Ops, Commit(a, op)
  PROVE  Inv'
<1>0. /\ TypeOK /\ LateIsOpen /\ DoubtIsRecorded /\ CommittedIsDone
  BY DEF Inv
<1> DEFINE done == AfterCommit(mem, op, files)
<1>1. /\ done \in Journals
      /\ done.phase = [mem.phase EXCEPT ![op] = "committed"]
  BY <1>0, CommitIsJournal DEF TypeOK
<1>2. mem.phase \in [Ops -> Phases] /\ saved.phase \in [Ops -> Phases]
  BY <1>0, JournalPhases DEF TypeOK
<1>3. /\ Drop(a)
      /\ hand[a].op = op /\ hand[a].step = "ran"
      /\ UNCHANGED <<up, late, files, edits>>
  BY DEF Commit, world
<1>4. /\ op \notin late \cap Effectful
      /\ up
      /\ op \in Effectful => ~loadError /\ outcome[op] = "open"
  BY <1>0, <1>3, HolderIsLive DEF LateIsOpen
<1>5. CASE /\ mem' = done
           /\ Persist(Effect[op])
           /\ outcome' = [outcome EXCEPT ![op] = "done"]
  <2> HIDE DEF done
  <2>1. /\ \/ Effect[op] = "read" /\ UNCHANGED <<saved, readable, persistError>>
           \/ Effect[op] # "read" /\ saved' = mem' /\ readable' = TRUE /\ persistError' = FALSE
        /\ UNCHANGED <<loadError, wiped>>
    BY <1>4, <1>5 DEF Persist, Wipes, Effectful
  <2>2. UNCHANGED <<readable, wiped>> \/ ~loadError
    BY <1>4, <2>1 DEF Effectful
  <2>3. /\ hand' \in [Actors -> Hands] /\ outcome' \in [Ops -> Outcomes]
        /\ DownIsIdle' /\ BlindOnlyReads'
        /\ HeldIsOpen' /\ HeldByOne' /\ LateIsOpen'
    <3>1. "committed" \in Phases /\ "done" \in Outcomes
      BY DEF Phases, Outcomes
    <3>2. UNCHANGED <<up, loadError, late>>
      BY <1>3, <2>1
    <3> QED
      BY <1>1, <1>3, <1>4, <1>5, <2>2, <3>1, <3>2, DropKeepsTokens
  <2>4. TypeOK'
    BY <1>0, <1>1, <1>3, <1>5, <2>1, <2>3 DEF TypeOK
  <2>5. DoubtIsRecorded' /\ CommittedIsDone'
    BY <1>0, <1>1, <1>2, <1>3, <1>4, <1>5, <2>1
       DEF TypeOK, DoubtIsRecorded, CommittedIsDone, Doubt, Effectful, Live
  <2> QED
    BY <2>3, <2>4, <2>5 DEF Inv
<1>6. CASE /\ mem' = AfterFail(done, op, "unknown")
           /\ PersistFails(Effect[op])
           /\ UNCHANGED outcome
  <2> HIDE DEF done
  <2>1. /\ mem' \in Journals
        /\ mem'.phase = [mem.phase EXCEPT ![op] = "unknown"]
    <3>1. "unknown" \in Phases
      BY DEF Phases
    <3> QED
      BY <1>1, <1>2, <1>6, <3>1, FailIsJournal
  <2>2. /\ op \in Effectful
        /\ UNCHANGED <<saved, readable, loadError, wiped>>
        /\ persistError' = TRUE
    BY <1>6 DEF PersistFails, Effectful
  <2>3. outcome' = [outcome EXCEPT ![op] = "open"]
    BY <1>0, <1>4, <1>6, <2>2 DEF TypeOK
  <2>4. /\ hand' \in [Actors -> Hands] /\ outcome' \in [Ops -> Outcomes]
        /\ DownIsIdle' /\ BlindOnlyReads'
        /\ HeldIsOpen' /\ HeldByOne' /\ LateIsOpen'
    <3>1. "unknown" \in Phases /\ "open" \in Outcomes
      BY DEF Phases, Outcomes
    <3>2. UNCHANGED <<up, loadError, late>>
      BY <1>3, <2>2
    <3> QED
      BY <1>3, <2>1, <2>2, <2>3, <3>1, <3>2, DropKeepsTokens
  <2>5. TypeOK'
    BY <1>0, <1>3, <2>1, <2>2, <2>4 DEF TypeOK
  <2>6. DoubtIsRecorded' /\ CommittedIsDone'
    BY <1>0, <1>2, <1>3, <1>4, <1>6, <2>1, <2>2
       DEF TypeOK, DoubtIsRecorded, CommittedIsDone, Doubt, Effectful, Live
  <2> QED
    BY <2>4, <2>5, <2>6 DEF Inv
<1> QED
  BY <1>5, <1>6 DEF Commit

LEMMA FailPlainKeepsInv ==
  ASSUME Inv, NEW a \in Actors, NEW op \in Ops, FailPlain(a, op)
  PROVE  Inv'
<1>0. /\ TypeOK /\ LateIsOpen /\ DoubtIsRecorded /\ CommittedIsDone
  BY DEF Inv
<1>1. /\ mem' \in Journals
      /\ mem'.phase = [mem.phase EXCEPT ![op] = "failed"]
  <2>1. "failed" \in Phases
    BY DEF Phases
  <2> QED
    BY <1>0, <2>1, FailIsJournal DEF FailPlain, TypeOK
<1>2. mem.phase \in [Ops -> Phases] /\ saved.phase \in [Ops -> Phases]
  BY <1>0, JournalPhases DEF TypeOK
<1>3. /\ Drop(a)
      /\ hand[a].op = op /\ hand[a].step = "declined"
      /\ UNCHANGED <<up, late, files, edits>>
      /\ outcome' = [outcome EXCEPT ![op] = "declined"]
  BY DEF FailPlain, world
<1>4. /\ op \notin late \cap Effectful
      /\ up
      /\ op \in Effectful => ~loadError /\ outcome[op] = "open"
  BY <1>0, <1>3, HolderIsLive DEF LateIsOpen
<1>5. /\ \/ UNCHANGED <<saved, readable>>
         \/ op \in Effectful /\ saved' = mem' /\ readable' = TRUE
      /\ UNCHANGED <<loadError, wiped>>
  BY <1>4 DEF FailPlain, Persist, PersistFails, Wipes, Effectful
<1>6. persistError' \in BOOLEAN
  BY <1>0 DEF FailPlain, Persist, PersistFails, TypeOK
<1>7. /\ hand' \in [Actors -> Hands] /\ outcome' \in [Ops -> Outcomes]
      /\ DownIsIdle' /\ BlindOnlyReads'
      /\ HeldIsOpen' /\ HeldByOne' /\ LateIsOpen'
  <2>1. "failed" \in Phases /\ "declined" \in Outcomes
    BY DEF Phases, Outcomes
  <2>2. UNCHANGED <<up, loadError, late>>
    BY <1>3, <1>5
  <2>3. UNCHANGED <<readable, wiped>> \/ ~loadError
    BY <1>4, <1>5
  <2> QED
    BY <1>1, <1>3, <1>4, <2>1, <2>2, <2>3, DropKeepsTokens
<1>8. TypeOK'
  BY <1>0, <1>1, <1>3, <1>5, <1>6, <1>7 DEF TypeOK
<1>9. DoubtIsRecorded' /\ CommittedIsDone'
  BY <1>0, <1>1, <1>2, <1>3, <1>4, <1>5
     DEF TypeOK, DoubtIsRecorded, CommittedIsDone, Doubt, Effectful, Live
<1> QED
  BY <1>7, <1>8, <1>9 DEF Inv

(* The only step by which a process that could not load the ledger replaces *)
(* the file: what the run had asked for by then is wiped from it.           *)
LEMMA FailUnknownKeepsInv ==
  ASSUME Inv, NEW a \in Actors, NEW op \in Ops, FailUnknown(a, op)
  PROVE  Inv'
<1>0. /\ TypeOK /\ BlindOnlyReads /\ DoubtIsRecorded /\ CommittedIsDone
  BY DEF Inv
<1>1. /\ mem' \in Journals
      /\ mem'.phase = [mem.phase EXCEPT ![op] = "unknown"]
  <2>1. "unknown" \in Phases
    BY DEF Phases
  <2> QED
    BY <1>0, <2>1, FailIsJournal DEF FailUnknown, TypeOK
<1>2. mem.phase \in [Ops -> Phases] /\ saved.phase \in [Ops -> Phases]
  BY <1>0, JournalPhases DEF TypeOK
<1>3. /\ Drop(a)
      /\ hand[a].op = op /\ hand[a].step = "unsure"
      /\ UNCHANGED <<up, late, files, edits, outcome>>
  BY DEF FailUnknown, world
<1>4. /\ up
      /\ op \in Effectful => ~loadError /\ outcome[op] = "open"
  BY <1>3, HolderIsLive
<1>5. /\ \/ UNCHANGED <<saved, readable, wiped>>
         \/ saved' = mem' /\ readable' = TRUE /\ ~loadError /\ UNCHANGED wiped
         \/ saved' = mem' /\ readable' = TRUE /\ loadError /\ Wipes
      /\ UNCHANGED loadError
  BY DEF FailUnknown, Persist, PersistFails, Wipes
<1>6. /\ persistError' \in BOOLEAN
      /\ wiped \subseteq wiped' /\ wiped' \subseteq Ops
  BY <1>0, <1>5 DEF FailUnknown, Persist, PersistFails, TypeOK, Wipes, Effectful
<1>7. /\ hand' \in [Actors -> Hands] /\ outcome' \in [Ops -> Outcomes]
      /\ DownIsIdle' /\ BlindOnlyReads'
      /\ HeldIsOpen' /\ HeldByOne' /\ LateIsOpen'
  <2>1. "unknown" \in Phases
    BY DEF Phases
  <2>2. PICK result \in Outcomes :
          /\ outcome' = [outcome EXCEPT ![op] = result]
          /\ op \in late \cap Effectful => result = "open"
    BY <1>0, <1>3, <1>4 DEF TypeOK
  <2>3. UNCHANGED <<up, loadError, late>>
    BY <1>3, <1>5
  <2>4. \/ UNCHANGED <<readable, wiped>>
        \/ ~loadError
        \/ op \notin Effectful /\ Wipes
    BY <1>4, <1>5
  <2> QED
    BY <1>1, <1>3, <2>1, <2>2, <2>3, <2>4, DropKeepsTokens
<1>8. TypeOK'
  BY <1>0, <1>1, <1>3, <1>5, <1>6, <1>7 DEF TypeOK
<1>9. CommittedIsDone'
  BY <1>0, <1>1, <1>2, <1>3, <1>5 DEF CommittedIsDone, Effectful
<1>10. DoubtIsRecorded'
  <2>1. CASE ~loadError
    BY <1>0, <1>1, <1>2, <1>3, <1>4, <1>5, <2>1
       DEF DoubtIsRecorded, Doubt, Effectful, Live
  <2>2. CASE loadError /\ UNCHANGED <<saved, readable, wiped>>
    BY <1>0, <1>3, <1>5, <2>2 DEF DoubtIsRecorded, Doubt, Live
  <2>3. CASE loadError /\ Wipes
    <3>1. \A x \in Doubt' : x \in wiped'
      BY <1>3, <2>3 DEF Doubt, Wipes, Effectful
    <3> QED
      BY <3>1 DEF DoubtIsRecorded
  <2> QED
    BY <1>5, <2>1, <2>2, <2>3
<1> QED
  BY <1>7, <1>8, <1>9, <1>10 DEF Inv

LEMMA AbandonKeepsInv ==
  ASSUME Inv, NEW a \in Actors, Abandon(a)
  PROVE  Inv'
<1>0. /\ TypeOK /\ DownIsIdle /\ BlindOnlyReads /\ HeldIsOpen /\ HeldByOne
      /\ LateIsOpen /\ DoubtIsRecorded /\ CommittedIsDone
  BY DEF Inv
<1>1. /\ hand' = [hand EXCEPT ![a] = Idle]
      /\ Idle \in Hands /\ Idle.step = "idle"
      /\ \A x \in Ops : Idle.op # x
  BY HandsTyped DEF Abandon, Drop
<1>2. UNCHANGED <<up, mem, saved, readable, persistError, loadError, files,
                  edits, late, outcome, wiped>>
  BY DEF Abandon, ledger, world
<1>3. TypeOK'
  BY <1>0, <1>1, <1>2 DEF TypeOK
<1>4. DownIsIdle' /\ BlindOnlyReads'
  BY <1>0, <1>1, <1>2 DEF TypeOK, DownIsIdle, BlindOnlyReads, Effectful
<1>5. HeldIsOpen' /\ HeldByOne' /\ LateIsOpen'
  BY <1>0, <1>1, <1>2
     DEF TypeOK, HeldIsOpen, HeldByOne, LateIsOpen, Effectful
<1>6. DoubtIsRecorded' /\ CommittedIsDone'
  BY <1>0, <1>2 DEF DoubtIsRecorded, CommittedIsDone, Doubt, Live
<1> QED
  BY <1>3, <1>4, <1>5, <1>6 DEF Inv

(* People and tools that outlived their call change files, nothing else.    *)
LEMMA WorldKeepsInv ==
  ASSUME Inv, (\E op \in Ops : LateEnd(op)) \/ (\E p \in Paths : Edit(p))
  PROVE  Inv'
<1>0. /\ TypeOK /\ DownIsIdle /\ BlindOnlyReads /\ HeldIsOpen /\ HeldByOne
      /\ LateIsOpen /\ DoubtIsRecorded /\ CommittedIsDone
  BY DEF Inv
<1>1. UNCHANGED <<up, mem, saved, readable, persistError, loadError, hand, outcome,
                  wiped>>
  BY DEF LateEnd, Edit, ledger
<1>2. late' \subseteq late
  BY DEF LateEnd, Edit
<1>3. files' \in [Paths -> Versions] /\ edits' \in Nat
  <2>1. CASE \E op \in Ops : LateEnd(op)
    BY <1>0, <2>1, WritesTyped DEF LateEnd, TypeOK
  <2>2. CASE \E p \in Paths : Edit(p)
    <3>1. edits + 1 \in Nat /\ [by |-> Outside, at |-> edits + 1] \in Versions
      BY <1>0, VersionsTyped DEF TypeOK
    <3>2. Absent \in Versions
      BY VersionsTyped
    <3> QED
      BY <1>0, <2>2, <3>1, <3>2 DEF Edit, TypeOK
  <2> QED
    BY <2>1, <2>2
<1>4. TypeOK'
  BY <1>0, <1>1, <1>2, <1>3 DEF TypeOK
<1>5. DownIsIdle' /\ BlindOnlyReads'
  BY <1>0, <1>1, <1>2 DEF DownIsIdle, BlindOnlyReads
<1>6. HeldIsOpen' /\ HeldByOne' /\ LateIsOpen'
  BY <1>0, <1>1, <1>2 DEF HeldIsOpen, HeldByOne, LateIsOpen
<1>7. DoubtIsRecorded' /\ CommittedIsDone'
  BY <1>0, <1>1 DEF DoubtIsRecorded, CommittedIsDone, Doubt, Live
<1> QED
  BY <1>4, <1>5, <1>6, <1>7 DEF Inv

-----------------------------------------------------------------------------
LEMMA DamageKeepsInv == ASSUME Inv, Damage PROVE Inv'
<1>0. /\ TypeOK /\ DownIsIdle /\ BlindOnlyReads /\ HeldIsOpen /\ HeldByOne
      /\ LateIsOpen /\ DoubtIsRecorded /\ CommittedIsDone
  BY DEF Inv
<1>1. /\ readable' = FALSE
      /\ UNCHANGED <<up, mem, saved, persistError, loadError, hand, files, edits,
                     late, outcome, wiped>>
  BY DEF Damage, world
<1>2. TypeOK'
  BY <1>0, <1>1 DEF TypeOK
<1>3. DownIsIdle' /\ BlindOnlyReads'
  BY <1>0, <1>1 DEF DownIsIdle, BlindOnlyReads
<1>4. HeldIsOpen' /\ HeldByOne' /\ LateIsOpen'
  BY <1>0, <1>1 DEF HeldIsOpen, HeldByOne, LateIsOpen
<1>5. DoubtIsRecorded' /\ CommittedIsDone'
  BY <1>0, <1>1 DEF DoubtIsRecorded, CommittedIsDone, Doubt, Live
<1> QED
  BY <1>2, <1>3, <1>4, <1>5 DEF Inv

LEMMA CrashKeepsInv == ASSUME Inv, Crash PROVE Inv'
<1>0. TypeOK /\ DoubtIsRecorded /\ CommittedIsDone
  BY DEF Inv
<1>1. /\ up' = FALSE /\ mem' = EmptyJournal /\ persistError' = FALSE
      /\ loadError' = FALSE /\ hand' = [a \in Actors |-> Idle] /\ late' = {}
      /\ UNCHANGED <<saved, readable, files, edits, outcome, wiped>>
  BY DEF Crash
<1>2. \A a \in Actors : hand'[a] = Idle
  BY <1>1
<1>3. TypeOK'
  BY <1>0, <1>1, EmptyIsJournal, HandsTyped DEF TypeOK
<1>4. DownIsIdle' /\ BlindOnlyReads'
  BY <1>1 DEF DownIsIdle, BlindOnlyReads
<1>5. HeldIsOpen' /\ HeldByOne' /\ LateIsOpen'
  BY <1>1, <1>2, HandsTyped
     DEF HeldIsOpen, HeldByOne, LateIsOpen, Effectful
<1>6. DoubtIsRecorded' /\ CommittedIsDone'
  BY <1>0, <1>1, EmptyIsJournal
     DEF DoubtIsRecorded, CommittedIsDone, Doubt, Live, Effectful
<1> QED
  BY <1>3, <1>4, <1>5, <1>6 DEF Inv

LEMMA RestartKeepsInv == ASSUME Inv, Restart PROVE Inv'
<1>0. TypeOK /\ DownIsIdle /\ DoubtIsRecorded /\ CommittedIsDone
  BY DEF Inv
<1>1. /\ up' = TRUE
      /\ loadError' = ~readable
      /\ mem' = IF readable THEN saved ELSE EmptyJournal
      /\ UNCHANGED <<saved, readable, persistError, hand, files, edits, late, outcome,
                   wiped>>
  BY DEF Restart, world
<1>2. hand = [a \in Actors |-> Idle] /\ late = {}
  BY <1>0 DEF Restart, DownIsIdle
<1>3. \A a \in Actors : hand'[a] = Idle
  BY <1>1, <1>2
<1>4. TypeOK'
  <2>1. mem' \in Journals
    BY <1>0, <1>1, EmptyIsJournal DEF TypeOK
  <2>2. loadError' \in BOOLEAN
    BY <1>1
  <2> QED
    BY <1>0, <1>1, <2>1, <2>2 DEF TypeOK
<1>5. DownIsIdle' /\ BlindOnlyReads'
  BY <1>1, <1>3, HandsTyped DEF DownIsIdle, BlindOnlyReads, Effectful
<1>6. HeldIsOpen' /\ HeldByOne' /\ LateIsOpen'
  BY <1>1, <1>2, <1>3, HandsTyped
     DEF HeldIsOpen, HeldByOne, LateIsOpen, Effectful
<1>7. DoubtIsRecorded' /\ CommittedIsDone'
  BY <1>0, <1>1, EmptyIsJournal
     DEF DoubtIsRecorded, CommittedIsDone, Doubt, Live, Effectful
<1> QED
  BY <1>4, <1>5, <1>6, <1>7 DEF Inv

-----------------------------------------------------------------------------
(* Inv is inductive.                                                        *)
LEMMA NextKeepsInv ==
  ASSUME Inv, [Next]_vars
  PROVE  Inv'
<1>1. CASE UNCHANGED vars
  <2>1. UNCHANGED <<up, mem, saved, readable, persistError, loadError, hand, files,
                    edits, late, outcome, wiped>>
    BY <1>1 DEF vars, ledger, world
  <2> QED
    BY <2>1 DEF Inv, TypeOK, DownIsIdle, BlindOnlyReads, HeldIsOpen, HeldByOne,
                LateIsOpen, DoubtIsRecorded, CommittedIsDone, Doubt, Live
<1>2. ASSUME NEW a \in Actors, NEW op \in Ops, Call(a, op)
      PROVE  Inv'
  BY <1>2, BeginSkipKeepsInv, BeginKeepsInv, RunKeepsInv, CommitKeepsInv,
     FailPlainKeepsInv, FailUnknownKeepsInv DEF Call
<1> QED
  BY <1>1, <1>2, AbandonKeepsInv, WorldKeepsInv, DamageKeepsInv, CrashKeepsInv,
     RestartKeepsInv DEF Next

LEMMA InvHolds == Spec => []Inv
<1>1. Init => Inv
  BY InitInv
<1>2. Inv /\ [Next]_vars => Inv'
  BY NextKeepsInv
<1> QED
  BY <1>1, <1>2, PTL DEF Spec

(* Every variable of the ledger stays in its type.                          *)
LEMMA TypeCorrect == Spec => []TypeOK
<1>1. Inv => TypeOK
  BY DEF Inv
<1> QED
  BY <1>1, InvHolds, PTL

(* Write-ahead: at every moment the file, if it is readable, and the memory *)
(* of the process name every attempt that is not accounted for.             *)
THEOREM DoubtAlwaysRecorded == Spec => []DoubtIsRecorded
<1>1. Inv => DoubtIsRecorded
  BY DEF Inv
<1> QED
  BY <1>1, InvHolds, PTL

(* No two executions of one operation with effects overlap.                 *)
THEOREM OneExecutionAtATime ==
  Spec => []NeverTwoExecutions
<1>1. Inv => NeverTwoExecutions
  <2> SUFFICES ASSUME Inv PROVE NeverTwoExecutions
    OBVIOUS
  <2>1. \A op \in Effectful : \A a, b \in Executing(op) : a = b
    BY DEF Inv, HeldByOne, Executing
  <2>2. \A op \in Effectful : op \in late => Executing(op) = {}
    BY DEF Inv, LateIsOpen, Executing
  <2> QED
    BY <2>1, <2>2 DEF NeverTwoExecutions
<1> QED
  BY <1>1, InvHolds, PTL

(* begin() answers skip only for a write whose latest attempt succeeded.    *)
THEOREM SkipsOnlyWhatWasDone == Spec => []SkipOnlyDone
<1>1. Inv => SkipOnlyDone
  BY DEF Inv, CommittedIsDone, SkipOnlyDone, Skips, Effectful
<1> QED
  BY <1>1, InvHolds, PTL

(* A step that begins an operation is a begin() that let it through.        *)
LEMMA BeginsIsBegin ==
  ASSUME TypeOK, [Next]_vars, NEW a \in Actors, NEW op \in Ops, Begins(a, op)
  PROVE  \E b \in Actors : Begin(b, op)
<1>0. hand \in [Actors -> Hands]
  BY DEF TypeOK
<1>1. /\ hand[a] = Idle
      /\ hand'[a] = [op |-> op, step |-> "ready"]
      /\ hand'[a] # Idle
  BY <1>0, HandsTyped DEF Begins
<1>2. hand' # hand
  BY <1>1
<1>3. \A b \in Actors : hand' = [hand EXCEPT ![b] = Idle] => FALSE
  BY <1>0, <1>1
<1>4. hand' # [b \in Actors |-> Idle]
  BY <1>1
<1>5. PICK b \in Actors, other \in Ops : Call(b, other)
  <2>1. ~UNCHANGED vars
    BY <1>2 DEF vars
  <2>2. ~(\E b \in Actors : Abandon(b))
    BY <1>3 DEF Abandon, Drop
  <2>3. /\ ~(\E o \in Ops : LateEnd(o)) /\ ~(\E p \in Paths : Edit(p))
        /\ ~Damage /\ ~Restart
    BY <1>2 DEF LateEnd, Edit, Damage, Restart
  <2>4. ~Crash
    BY <1>4 DEF Crash
  <2> QED
    BY <2>1, <2>2, <2>3, <2>4 DEF Next
<1>6. Begin(b, other) /\ Put(b, other, "ready")
  <2>1. ~BeginSkip(b, other)
    BY <1>2 DEF BeginSkip
  <2>2. ~Commit(b, other) /\ ~FailPlain(b, other) /\ ~FailUnknown(b, other)
    BY <1>3 DEF Commit, FailPlain, FailUnknown, Drop
  <2>3. ~(RunSucceeds(b, other) \/ RunDeclines(b, other) \/ RunUnsure(b, other))
    <3> SUFFICES ASSUME RunSucceeds(b, other) \/ RunDeclines(b, other) \/ RunUnsure(b, other)
                 PROVE FALSE
      OBVIOUS
    <3>1. hand[b] = [op |-> other, step |-> "ready"]
      BY DEF RunSucceeds, RunDeclines, RunUnsure
    <3>2. a # b
      BY <1>1, <3>1, HandsTyped
    <3>3. \E step \in {"ran", "declined", "unsure"} :
            hand' = [hand EXCEPT ![b] = [op |-> other, step |-> step]]
      BY DEF RunSucceeds, RunDeclines, RunUnsure, Put
    <3> QED
      BY <1>0, <1>1, <3>2, <3>3
  <2> QED
    BY <1>2, <1>5, <2>1, <2>2, <2>3 DEF Call, Begin
<1>7. other = op
  <2>1. hand' = [hand EXCEPT ![b] = [op |-> other, step |-> "ready"]]
    BY <1>6 DEF Put
  <2>2. a = b
    BY <1>0, <1>1, <2>1
  <2>3. [op |-> other, step |-> "ready"] = [op |-> op, step |-> "ready"]
    BY <1>0, <1>1, <2>1, <2>2
  <2> QED
    BY <2>3
<1> QED
  BY <1>6, <1>7

(* No operation in doubt that the ledger still knows of is executed again.  *)
THEOREM NothingReplayedInDoubt == Spec => NoReplayInDoubt
<1>1. ASSUME Inv, [Next]_vars, NEW a \in Actors, NEW op \in Doubt \ wiped
      PROVE  ~Begins(a, op)
  <2>1. op \in Ops /\ TypeOK
    BY <1>1 DEF Doubt, Effectful, Inv
  <2> QED
    BY <1>1, <2>1, BeginsIsBegin, BeginsOutOfDoubt DEF Begin
<1>2. Inv /\ [Next]_vars => [\A a \in Actors : \A op \in Doubt \ wiped : ~Begins(a, op)]_vars
  BY <1>1
<1> QED
  BY <1>2, InvHolds, PTL DEF Spec, NoReplayInDoubt


-----------------------------------------------------------------------------
LEMMA WriteTargets ==
  /\ FileWrites \subseteq Ops /\ FileWrites \subseteq Effectful
  /\ \A op \in FileWrites : Target[op] \in Paths
BY LedgerAssumption DEF FileWrites, Effectful

(* What a file holds came from outside or from an attempt.                  *)
WrittenByAttempts ==
  \A p \in Paths :
    \/ files[p].by = Outside
    \/ files[p].by \in Effectful /\ outcome[files[p].by] # "none"

(* A process that could not load the ledger has taken no before-image, and  *)
(* runs nothing with effects.                                               *)
Blind ==
  /\ \A p \in Paths : mem.image[p] = Missing
  /\ late \cap Effectful = {}

Origins == WrittenByAttempts /\ (loadError => Blind)

LEMMA CallOrigins ==
  ASSUME Inv, Origins, NEW a \in Actors, NEW op \in Ops, Call(a, op)
  PROVE  Origins'
<1>0. TypeOK
  BY DEF Inv
<1>1. UNCHANGED loadError
  BY DEF Call, BeginSkip, Begin, RunSucceeds, RunDeclines, RunUnsure, Commit, FailPlain,
         FailUnknown, ledger, Persist, PersistFails
<1>2. \A x \in Ops : outcome[x] # "none" => outcome'[x] # "none"
  BY <1>0 DEF Call, BeginSkip, Begin, RunSucceeds, RunDeclines, RunUnsure, Commit,
              FailPlain, FailUnknown, TypeOK
<1>3. \A p \in Paths : \/ files'[p] = files[p]
                       \/ files'[p].by = op /\ op \in Effectful /\ outcome[op] # "none"
  <2>1. CASE UNCHANGED files
    BY <2>1
  <2>2. CASE hand[a].op = op /\ Writes(op)
    <3>1. op \in Effectful => outcome[op] # "none"
      BY <2>2, HolderIsLive
    <3> QED
      BY <1>0, <2>2, <3>1, WriteTargets DEF Writes, TypeOK
  <2> QED
    BY <2>1, <2>2 DEF Call, BeginSkip, Begin, RunSucceeds, RunDeclines, RunUnsure,
                      Commit, FailPlain, FailUnknown, world
<1>4. WrittenByAttempts'
  BY <1>2, <1>3 DEF Origins, WrittenByAttempts, Effectful
<1>5. ASSUME loadError PROVE Blind'
  <2>1. op \notin Effectful
    <3>1. CASE BeginSkip(a, op) \/ Begin(a, op)
      BY <1>5, <3>1 DEF BeginSkip, Begin, Refuses
    <3>2. CASE hand[a].op = op
      BY <1>5, <3>2, HolderIsLive
    <3> QED
      BY <3>1, <3>2 DEF Call, RunSucceeds, RunDeclines, RunUnsure, Commit, FailPlain,
                        FailUnknown
  <2>2. op \notin FileWrites
    BY <2>1, WriteTargets
  <2>3. late' \subseteq late \cup {op}
    BY DEF Call, BeginSkip, Begin, RunSucceeds, RunDeclines, RunUnsure, Commit,
           FailPlain, FailUnknown, world
  <2>4. mem'.image = mem.image
    <3>1. CASE Begin(a, op)
      <4>1. mem' = AfterIntent(mem, op, files) /\ mem \in Journals
        BY <1>0, <3>1 DEF Begin, TypeOK
      <4>2. mem'.image = ImagesAfter(mem, op, files)
        BY <1>0, <4>1, IntentIsJournal DEF TypeOK
      <4> QED
        BY <2>2, <4>2 DEF ImagesAfter
    <3>2. CASE Commit(a, op)
      <4>1. "unknown" \in Phases
        BY DEF Phases
      <4>2. /\ AfterCommit(mem, op, files) \in Journals
            /\ AfterCommit(mem, op, files).image = mem.image
        BY <1>0, CommitIsJournal DEF TypeOK
      <4>3. \/ mem' = AfterCommit(mem, op, files)
            \/ mem' = AfterFail(AfterCommit(mem, op, files), op, "unknown")
        BY <3>2 DEF Commit
      <4>4. AfterFail(AfterCommit(mem, op, files), op, "unknown").image
              = AfterCommit(mem, op, files).image
        BY <4>1, <4>2, FailIsJournal
      <4> QED
        BY <4>2, <4>3, <4>4
    <3>3. CASE FailPlain(a, op) \/ FailUnknown(a, op)
      <4>1. "unknown" \in Phases /\ "failed" \in Phases
        BY DEF Phases
      <4> QED
        <5>1. mem' = AfterFail(mem, op, "failed") \/ mem' = AfterFail(mem, op, "unknown")
          BY <3>3 DEF FailPlain, FailUnknown
        <5>2. mem \in Journals
          BY <1>0 DEF TypeOK
        <5>3. /\ AfterFail(mem, op, "failed").image = mem.image
              /\ AfterFail(mem, op, "unknown").image = mem.image
          BY <4>1, <5>2, FailIsJournal
        <5> QED
          BY <5>1, <5>3
    <3> QED
      BY <3>1, <3>2, <3>3 DEF Call, BeginSkip, RunSucceeds, RunDeclines, RunUnsure, ledger
  <2> QED
    BY <1>5, <2>1, <2>3, <2>4 DEF Origins, Blind
<1> QED
  BY <1>1, <1>4, <1>5 DEF Origins

LEMMA NextOrigins ==
  ASSUME Inv, Origins, [Next]_vars
  PROVE  Origins'
<1>0. TypeOK
  BY DEF Inv
<1>1. CASE UNCHANGED vars
  BY <1>1 DEF vars, ledger, world, Origins, WrittenByAttempts, Blind
<1>2. CASE \E a \in Actors : Abandon(a)
  BY <1>2 DEF Abandon, ledger, world, Origins, WrittenByAttempts, Blind
<1>3. CASE \E op \in Ops : LateEnd(op)
  <2>1. PICK op \in Ops : LateEnd(op)
    BY <1>3
  <2>2. op \in Effectful => outcome[op] # "none"
    BY <2>1 DEF LateEnd, Inv, LateIsOpen
  <2>3. \A p \in Paths : \/ files'[p] = files[p]
                         \/ files'[p].by = op /\ op \in Effectful /\ outcome[op] # "none"
    BY <1>0, <2>1, <2>2, WriteTargets DEF LateEnd, Writes, TypeOK
  <2>4. UNCHANGED <<mem, loadError, outcome>> /\ late' \subseteq late
    BY <2>1 DEF LateEnd, ledger
  <2> QED
    BY <2>3, <2>4 DEF Origins, WrittenByAttempts, Blind
<1>4. CASE \E p \in Paths : Edit(p)
  <2>1. \A p \in Paths : files'[p] = files[p] \/ files'[p].by = Outside
    BY <1>0, <1>4 DEF Edit, TypeOK, Absent
  <2>2. UNCHANGED <<mem, loadError, outcome, late>>
    BY <1>4 DEF Edit, ledger
  <2> QED
    BY <2>1, <2>2 DEF Origins, WrittenByAttempts, Blind
<1>5. CASE Damage \/ Crash
  BY <1>5 DEF Damage, Crash, world, Origins, WrittenByAttempts, Blind
<1>6. CASE Restart
  <2>1. /\ loadError' => mem' = EmptyJournal
        /\ UNCHANGED <<files, outcome, late>>
        /\ late = {}
    BY <1>6 DEF Restart, world, Inv, DownIsIdle
  <2> QED
    BY <2>1 DEF Origins, WrittenByAttempts, Blind, EmptyJournal
<1> QED
  BY <1>1, <1>2, <1>3, <1>4, <1>5, <1>6, CallOrigins DEF Next

-----------------------------------------------------------------------------
(* What a journal knows of the work of the run, but for what was wiped: the *)
(* before-images are older than the run, every write in flight has one, and *)
(* a write that still stands is committed with the version its file holds.  *)
ImagesIn(j, fs, lost) ==
  \A p \in Paths : IF j.image[p] = Missing THEN fs[p].by \in {Outside} \cup lost
                                           ELSE j.image[p].by \in {Outside} \cup lost

TakenIn(j, flight) ==
  \A op \in FileWrites : op \in flight => j.image[Target[op]] # Missing

StandsIn(j, fs, result, lost) ==
  \A op \in FileWrites \ lost :
    result[op] = "done" /\ fs[Target[op]].by = op =>
      j.phase[op] = "committed" /\ j.post[op] = fs[Target[op]]

Knows(j, fs, result, flight, lost) ==
  ImagesIn(j, fs, lost) /\ TakenIn(j, flight) /\ StandsIn(j, fs, result, lost)

(* Calls whose tool may still write.                                        *)
Flight == late \cup {hand[a].op : a \in Actors}

Knowledge ==
  /\ readable => Knows(saved, files, outcome, Flight, wiped)
  /\ Live => Knows(mem, files, outcome, Flight, wiped)

(* A journal without before-images knows all there is to know, if nothing   *)
(* is in flight and whatever the run asked for is lost.                     *)
LEMMA BlankKnows ==
  ASSUME NEW j, \A p \in Paths : j.image[p] = Missing,
         NEW lost, NEW fs, NEW result, NEW flight, flight \cap FileWrites = {},
         \A p \in Paths : fs[p].by \in {Outside} \cup lost
  PROVE  Knows(j, fs, result, flight, lost)
<1>1. \A op \in FileWrites \ lost : fs[Target[op]].by # op
  BY WriteTargets, LedgerAssumption
<1>2. StandsIn(j, fs, result, lost)
  BY <1>1 DEF StandsIn
<1>3. TakenIn(j, flight)
  BY DEF TakenIn
<1> QED
  BY <1>2, <1>3 DEF Knows, ImagesIn

(* Less in flight and fewer writes done: the journal still knows them all.  *)
LEMMA KnowsLess ==
  ASSUME NEW j, NEW fs, NEW result, NEW flight, NEW lost,
         Knows(j, fs, result, flight, lost),
         NEW fewer, fewer \cap FileWrites \subseteq flight,
         NEW now, \A op \in FileWrites : now[op] = "done" => result[op] = "done"
  PROVE  Knows(j, fs, now, fewer, lost)
BY DEF Knows, ImagesIn, TakenIn, StandsIn

(* The files change by writes in flight, which are open, and by others.     *)
LEMMA KnowsOthersFiles ==
  ASSUME NEW j, NEW fs, NEW result, NEW flight, NEW lost,
         Knows(j, fs, result, flight, lost), NEW new,
         \A p \in Paths : \/ new[p] = fs[p]
                          \/ new[p].by = Outside
                          \/ \E op \in FileWrites \cap flight :
                               /\ Target[op] = p /\ new[p].by = op
                               /\ result[op] # "done"
  PROVE  Knows(j, new, result, flight, lost)
<1>1. ImagesIn(j, new, lost)
  BY DEF Knows, ImagesIn, TakenIn
<1>2. StandsIn(j, new, result, lost)
  <2> SUFFICES ASSUME NEW op \in FileWrites \ lost, result[op] = "done", new[Target[op]].by = op
               PROVE  new[Target[op]] = fs[Target[op]]
    BY DEF Knows, StandsIn
  <2>1. Target[op] \in Paths /\ op # Outside
    BY WriteTargets, LedgerAssumption DEF FileWrites
  <2> QED
    BY <2>1
<1> QED
  BY <1>1, <1>2 DEF Knows

(* begin() takes the before-image of a write before its tool runs.          *)
LEMMA KnowsIntent ==
  ASSUME NEW j \in Journals, NEW fs \in [Paths -> Versions], NEW result, NEW flight,
         NEW lost, Knows(j, fs, result, flight, lost), NEW op \in Ops,
         ~(op \in FileWrites \ lost /\ result[op] = "done" /\ fs[Target[op]].by = op)
  PROVE  Knows(AfterIntent(j, op, fs), fs, result, flight \cup {op}, lost)
<1> DEFINE k == AfterIntent(j, op, fs)
<1>1. /\ k.phase = [j.phase EXCEPT ![op] = "pending"]
      /\ k.post = j.post
      /\ k.image = ImagesAfter(j, op, fs)
  BY IntentIsJournal
<1>2. j.phase \in [Ops -> Phases] /\ j.image \in [Paths -> Versions \cup {Missing}]
  BY JournalPhases
<1>3. \A v \in Versions : v # Missing
  BY LedgerAssumption DEF Versions
<1>4. \A p \in Paths :
        \/ /\ k.image[p] = j.image[p]
           /\ j.image[p] # Missing \/ op \notin FileWrites \/ Target[op] # p
        \/ j.image[p] = Missing /\ k.image[p] = fs[p] /\ k.image[p] # Missing
  BY <1>1, <1>2, <1>3, WriteTargets DEF ImagesAfter
<1> HIDE DEF k
<1>5. ImagesIn(k, fs, lost)
  BY <1>4 DEF Knows, ImagesIn
<1>6. TakenIn(k, flight \cup {op})
  BY <1>4, WriteTargets DEF Knows, TakenIn
<1>7. StandsIn(k, fs, result, lost)
  BY <1>1, <1>2, WriteTargets DEF Knows, StandsIn
<1> QED
  BY <1>5, <1>6, <1>7 DEF Knows, k

LEMMA KnowsCommit ==
  ASSUME NEW j \in Journals, NEW fs \in [Paths -> Versions],
         NEW result, NEW flight, NEW lost, Knows(j, fs, result, flight, lost),
         NEW op \in Ops, NEW now, \A x \in Ops \ {op} : now[x] = result[x]
  PROVE  Knows(AfterCommit(j, op, fs), fs, now, flight, lost)
<1> DEFINE k == AfterCommit(j, op, fs)
<1>1. /\ k.phase = [j.phase EXCEPT ![op] = "committed"]
      /\ Target[op] # Missing => k.post = [j.post EXCEPT ![op] = fs[Target[op]]]
      /\ Target[op] = Missing => k.post = j.post
      /\ k.image = j.image
  BY CommitIsJournal
<1>2. j.phase \in [Ops -> Phases] /\ j.post \in [Ops -> Versions \cup {Missing}]
  BY JournalPhases
<1> HIDE DEF k
<1>3. ImagesIn(k, fs, lost) /\ TakenIn(k, flight)
  BY <1>1 DEF Knows, ImagesIn, TakenIn
<1>4. StandsIn(k, fs, now, lost)
  <2> SUFFICES ASSUME NEW x \in FileWrites \ lost, now[x] = "done", fs[Target[x]].by = x
               PROVE  k.phase[x] = "committed" /\ k.post[x] = fs[Target[x]]
    BY DEF StandsIn
  <2>1. CASE x = op
    <3>1. Target[op] # Missing
      BY <2>1 DEF FileWrites
    <3>2. k.post = [j.post EXCEPT ![op] = fs[Target[op]]]
      BY <1>1, <3>1
    <3> QED
      BY <1>1, <1>2, <2>1, <3>2
  <2>2. CASE x # op
    <3>1. x \in Ops /\ j.phase[x] = "committed" /\ j.post[x] = fs[Target[x]]
      BY <2>2, WriteTargets DEF Knows, StandsIn
    <3> QED
      BY <1>1, <1>2, <2>2, <3>1
  <2> QED
    BY <2>1, <2>2
<1> QED
  BY <1>3, <1>4 DEF Knows, k

LEMMA KnowsFail ==
  ASSUME NEW j \in Journals, NEW fs, NEW result, NEW flight, NEW lost,
         Knows(j, fs, result, flight, lost), NEW op \in Ops, NEW phase \in Phases,
         NEW now, \A x \in Ops \ {op} : now[x] = result[x], now[op] # "done"
  PROVE  Knows(AfterFail(j, op, phase), fs, now, flight, lost)
<1> DEFINE k == AfterFail(j, op, phase)
<1>1. /\ k.phase = [j.phase EXCEPT ![op] = phase]
      /\ k.post = j.post /\ k.image = j.image
  BY FailIsJournal
<1>2. j.phase \in [Ops -> Phases]
  BY JournalPhases
<1> HIDE DEF k
<1>3. ImagesIn(k, fs, lost) /\ TakenIn(k, flight)
  BY <1>1 DEF Knows, ImagesIn, TakenIn
<1>4. StandsIn(k, fs, now, lost)
  BY <1>1, <1>2, WriteTargets DEF Knows, StandsIn
<1> QED
  BY <1>3, <1>4 DEF Knows, k

-----------------------------------------------------------------------------
LEMMA InitKnows == Init => Knowledge
<1> SUFFICES ASSUME Init PROVE Knowledge
  OBVIOUS
<1>1. \A p \in Paths : files[p].by = Outside
  BY DEF Init, Absent
<1>2. Flight \cap FileWrites = {}
  BY HandsTyped, WriteTargets DEF Init, Flight
<1>3. Knows(EmptyJournal, files, outcome, Flight, wiped)
  BY <1>1, <1>2, BlankKnows DEF EmptyJournal
<1> QED
  BY <1>3 DEF Init, Knowledge, Live

(* A write that still stands is skipped, so it is never begun.              *)
LEMMA BegunNotStanding ==
  ASSUME Knowledge, Live, NEW op \in FileWrites \ wiped, ~Skips(mem, op, files)
  PROVE  ~(outcome[op] = "done" /\ files[Target[op]].by = op)
<1> SUFFICES ASSUME outcome[op] = "done", files[Target[op]].by = op PROVE FALSE
  OBVIOUS
<1>1. mem.phase[op] = "committed" /\ mem.post[op] = files[Target[op]]
  BY DEF Knowledge, Knows, StandsIn
<1> QED
  BY <1>1 DEF Skips, CannotVerify, TargetChanged, FileWrites

LEMMA BeginKnows ==
  ASSUME Inv, Knowledge, NEW a \in Actors, NEW op \in Ops, Begin(a, op)
  PROVE  Knowledge'
<1>0. TypeOK
  BY DEF Inv
<1>1. /\ up /\ (op \in Effectful => ~loadError)
      /\ mem' = AfterIntent(mem, op, files)
      /\ ~Skips(mem, op, files)
      /\ UNCHANGED <<up, loadError, files, late, wiped>>
  BY BeginsOutOfDoubt DEF Begin, Persist, PersistFails, Wipes, Effectful, world
<1>2. Flight' \subseteq Flight \cup {op}
  <2>1. hand' = hand \/ hand' = [hand EXCEPT ![a] = [op |-> op, step |-> "ready"]]
    BY DEF Begin, Put
  <2> QED
    BY <1>0, <1>1, <2>1, HandsTyped DEF Flight, TypeOK
<1>3. \A x \in Ops : outcome'[x] = "done" => outcome[x] = "done"
  BY <1>0 DEF Begin, TypeOK
<1>4. Live => Knows(mem', files, outcome', Flight', wiped)
  <2> SUFFICES ASSUME Live PROVE Knows(mem', files, outcome', Flight', wiped)
    OBVIOUS
  <2>1. ~(op \in FileWrites \ wiped /\ outcome[op] = "done" /\ files[Target[op]].by = op)
    BY <1>1, BegunNotStanding
  <2>2. Knows(mem', files, outcome, Flight \cup {op}, wiped)
    BY <1>0, <1>1, <2>1, KnowsIntent DEF TypeOK, Knowledge
  <2> QED
    BY <1>2, <1>3, <2>2, KnowsLess, WriteTargets
<1>5. readable' => Knows(saved', files, outcome', Flight', wiped)
  <2> SUFFICES ASSUME readable' PROVE Knows(saved', files, outcome', Flight', wiped)
    OBVIOUS
  <2>1. CASE op \in Effectful /\ saved' = mem'
    BY <1>1, <1>4, <2>1 DEF Live
  <2>2. CASE UNCHANGED <<saved, readable, hand, outcome>>
    BY <1>1, <2>2 DEF Knowledge, Flight
  <2>3. CASE op \notin Effectful /\ UNCHANGED <<saved, readable>>
    <3>1. Knows(saved, files, outcome, Flight, wiped)
      BY <2>3 DEF Knowledge
    <3>2. Flight' \cap FileWrites \subseteq Flight
      BY <1>2, <2>3, WriteTargets
    <3> QED
      BY <1>3, <2>3, <3>1, <3>2, KnowsLess, WriteTargets
  <2> QED
    BY <2>1, <2>2, <2>3 DEF Begin, Persist, PersistFails, Effectful
<1> QED
  BY <1>1, <1>4, <1>5 DEF Knowledge, Live

LEMMA BeginSkipKnows ==
  ASSUME Inv, Knowledge, NEW a \in Actors, NEW op \in Ops, BeginSkip(a, op)
  PROVE  Knowledge'
<1>1. op \in Effectful
  BY DEF BeginSkip, Skips, Effectful
<1>2. Live
  BY <1>1, BeginsOutOfDoubt DEF BeginSkip, Live
<1>3. /\ UNCHANGED <<mem, up, loadError, late, files, hand, outcome, wiped>>
      /\ UNCHANGED <<saved, readable>> \/ saved' = mem
  BY <1>2 DEF BeginSkip, Persist, PersistFails, Wipes, Live, world
<1>4. Flight' = Flight
  BY <1>3 DEF Flight
<1> QED
  BY <1>2, <1>3, <1>4 DEF Knowledge, Live

(* A tool writes its own target, which its before-image was taken of, and   *)
(* while it is open.                                                        *)
LEMMA WriteKnows ==
  ASSUME TypeOK, Knowledge, NEW op \in Ops, Writes(op),
         op \in FileWrites => op \in Flight /\ outcome[op] # "done",
         NEW flight, flight \subseteq Flight
  PROVE  /\ readable => Knows(saved, files', outcome, flight, wiped)
         /\ Live => Knows(mem, files', outcome, flight, wiped)
<1>1. \A p \in Paths : \/ files'[p] = files[p]
                       \/ op \in FileWrites /\ Target[op] = p /\ files'[p].by = op
  BY WriteTargets DEF Writes, TypeOK
<1>2. \A p \in Paths : \/ files'[p] = files[p]
                       \/ files'[p].by = Outside
                       \/ \E x \in FileWrites \cap Flight :
                            /\ Target[x] = p /\ files'[p].by = x
                            /\ outcome[x] # "done"
  BY <1>1
<1>3. readable => Knows(saved, files', outcome, Flight, wiped)
  BY <1>2, KnowsOthersFiles DEF Knowledge
<1>4. Live => Knows(mem, files', outcome, Flight, wiped)
  BY <1>2, KnowsOthersFiles DEF Knowledge
<1> QED
  BY <1>3, <1>4, KnowsLess

LEMMA RunKnows ==
  ASSUME Inv, Knowledge, NEW a \in Actors, NEW op \in Ops,
         RunSucceeds(a, op) \/ RunDeclines(a, op) \/ RunUnsure(a, op)
  PROVE  Knowledge'
<1>0. TypeOK
  BY DEF Inv
<1>1. /\ hand[a] = [op |-> op, step |-> "ready"]
      /\ UNCHANGED <<up, mem, saved, readable, loadError, outcome, wiped>>
      /\ Writes(op) \/ UNCHANGED files
      /\ \/ late' = late
         \/ late' = late \cup {op} /\ op \in Mutating
  BY DEF RunSucceeds, RunDeclines, RunUnsure, ledger, world
<1>2. hand[a].op = op
  BY <1>1
<1>3. op \in Effectful => ~loadError /\ outcome[op] = "open"
  BY <1>2, HolderIsLive
<1>4. op \in Flight
  BY <1>2 DEF Flight
<1>5. Flight' \subseteq Flight
  <2>1. PICK step \in {"ran", "declined", "unsure"} :
          hand' = [hand EXCEPT ![a] = [op |-> op, step |-> step]]
    BY DEF RunSucceeds, RunDeclines, RunUnsure, Put
  <2>2. [op |-> op, step |-> step].op = op
    OBVIOUS
  <2>3. \A b \in Actors : hand'[b].op \in {hand[b].op, op}
    BY <1>0, <2>1, <2>2 DEF TypeOK
  <2> QED
    BY <1>1, <1>4, <2>3 DEF Flight
<1>6. /\ readable => Knows(saved, files', outcome, Flight', wiped)
      /\ Live => Knows(mem, files', outcome, Flight', wiped)
  <2>1. CASE Writes(op)
    <3>1. op \in FileWrites => outcome[op] # "done"
      BY <1>3, WriteTargets
    <3> QED
      BY <1>0, <1>4, <1>5, <2>1, <3>1, WriteKnows
  <2>2. CASE UNCHANGED files
    BY <1>5, <2>2, KnowsLess DEF Knowledge
  <2> QED
    BY <1>1, <2>1, <2>2
<1> QED
  BY <1>1, <1>6 DEF Knowledge, Live

LEMMA WorldKnows ==
  ASSUME Inv, Knowledge, (\E op \in Ops : LateEnd(op)) \/ (\E p \in Paths : Edit(p))
  PROVE  Knowledge'
<1>0. TypeOK
  BY DEF Inv
<1>1. /\ UNCHANGED <<up, mem, saved, readable, loadError, hand, outcome, wiped>>
      /\ late' \subseteq late
  BY DEF LateEnd, Edit, ledger
<1>2. Flight' \subseteq Flight
  BY <1>1 DEF Flight
<1>3. /\ readable => Knows(saved, files', outcome, Flight', wiped)
      /\ Live => Knows(mem, files', outcome, Flight', wiped)
  <2>1. CASE \E op \in Ops : LateEnd(op)
    <3>1. PICK op \in Ops : LateEnd(op)
      BY <2>1
    <3>2. op \in FileWrites => op \in Flight /\ outcome[op] # "done"
      BY <3>1, WriteTargets DEF LateEnd, Flight, Inv, LateIsOpen
    <3>3. CASE Writes(op)
      BY <1>0, <1>2, <3>2, <3>3, WriteKnows
    <3>4. CASE UNCHANGED files
      BY <1>2, <3>4, KnowsLess DEF Knowledge
    <3> QED
      BY <3>1, <3>3, <3>4 DEF LateEnd
  <2>2. CASE \E p \in Paths : Edit(p)
    <3>1. \A p \in Paths : files'[p] = files[p] \/ files'[p].by = Outside
      BY <1>0, <2>2 DEF Edit, TypeOK, Absent
    <3>2. /\ readable => Knows(saved, files', outcome, Flight, wiped)
          /\ Live => Knows(mem, files', outcome, Flight, wiped)
      BY <3>1, KnowsOthersFiles DEF Knowledge
    <3> QED
      BY <1>2, <3>2, KnowsLess
  <2> QED
    BY <2>1, <2>2
<1> QED
  BY <1>1, <1>3 DEF Knowledge, Live

(* A call is settled: the file is left alone, or becomes what the process   *)
(* remembers, which then knows of the call too.                             *)
LEMMA SettleKnows ==
  ASSUME TypeOK, Knowledge, NEW a \in Actors, Drop(a),
         Live => Knows(mem', files, outcome', Flight, wiped),
         \/ /\ UNCHANGED <<saved, readable>>
            /\ \A x \in FileWrites : outcome'[x] = "done" => outcome[x] = "done"
         \/ /\ Live
            /\ saved' = mem',
         UNCHANGED <<up, loadError, late, files, wiped>>
  PROVE  Knowledge'
<1>1. Flight' \cap FileWrites \subseteq Flight
  BY HandsTyped, WriteTargets DEF Drop, Flight, TypeOK
<1>2. Live => Knows(mem', files, outcome', Flight', wiped)
  BY <1>1, KnowsLess
<1>3. readable' => Knows(saved', files, outcome', Flight', wiped)
  <2> SUFFICES ASSUME readable' PROVE Knows(saved', files, outcome', Flight', wiped)
    OBVIOUS
  <2>1. CASE Live /\ saved' = mem'
    BY <1>2, <2>1
  <2>2. CASE /\ UNCHANGED <<saved, readable>>
             /\ \A x \in FileWrites : outcome'[x] = "done" => outcome[x] = "done"
    <3>1. Knows(saved, files, outcome, Flight, wiped)
      BY <2>2 DEF Knowledge
    <3>2. Knows(saved, files, outcome', Flight', wiped)
      BY <1>1, <2>2, <3>1, KnowsLess
    <3> QED
      BY <2>2, <3>2
  <2> QED
    BY <2>1, <2>2
<1> QED
  BY <1>2, <1>3 DEF Knowledge, Live

LEMMA CommitKnows ==
  ASSUME Inv, Knowledge, NEW a \in Actors, NEW op \in Ops, Commit(a, op)
  PROVE  Knowledge'
<1>0. TypeOK
  BY DEF Inv
<1>1. hand[a].op = op /\ Drop(a) /\ UNCHANGED <<up, loadError, late, files>>
  BY DEF Commit, world, Persist, PersistFails
<1>2. up /\ (op \in Effectful => ~loadError /\ outcome[op] = "open")
  BY <1>1, HolderIsLive
<1>8. UNCHANGED wiped
  BY <1>2 DEF Commit, Persist, PersistFails, Wipes, Effectful
<1> DEFINE done == AfterCommit(mem, op, files)
<1>3. done \in Journals
  BY <1>0, CommitIsJournal DEF TypeOK
<1>4. \/ /\ mem' = done
         /\ Persist(Effect[op])
         /\ outcome' = [outcome EXCEPT ![op] = "done"]
      \/ /\ mem' = AfterFail(done, op, "unknown")
         /\ PersistFails(Effect[op])
         /\ UNCHANGED outcome
  BY DEF Commit
<1>5. ASSUME NEW now, \A x \in Ops \ {op} : now[x] = outcome[x], Live
      PROVE  Knows(done, files, now, Flight, wiped)
  BY <1>0, <1>5, KnowsCommit DEF Knowledge, TypeOK
<1> HIDE DEF done
<1>6. CASE /\ mem' = done
           /\ Persist(Effect[op])
           /\ outcome' = [outcome EXCEPT ![op] = "done"]
  <2>1. Live => Knows(mem', files, outcome', Flight, wiped)
    BY <1>0, <1>5, <1>6 DEF TypeOK
  <2>2. \A x \in Ops \ {op} : outcome'[x] = outcome[x]
    BY <1>0, <1>6 DEF TypeOK
  <2>3. CASE Effect[op] = "read"
    <3>1. op \notin FileWrites /\ UNCHANGED <<saved, readable>>
      BY <1>6, <2>3 DEF FileWrites, Persist
    <3>2. \A x \in FileWrites : outcome'[x] = "done" => outcome[x] = "done"
      BY <2>2, <3>1, WriteTargets
    <3> QED
      BY <1>0, <1>1, <1>8, <2>1, <3>1, <3>2, SettleKnows
  <2>4. CASE Effect[op] # "read"
    <3>1. Live /\ saved' = mem'
      BY <1>2, <1>6, <2>4 DEF Persist, Live, Effectful
    <3> QED
      BY <1>0, <1>1, <1>8, <2>1, <3>1, SettleKnows
  <2> QED
    BY <2>3, <2>4
<1>7. CASE /\ mem' = AfterFail(done, op, "unknown")
           /\ PersistFails(Effect[op])
           /\ UNCHANGED outcome
  <2>1. UNCHANGED <<saved, readable>> /\ outcome[op] = "open"
    BY <1>2, <1>7 DEF PersistFails, Effectful
  <2>2. Live => Knows(done, files, outcome, Flight, wiped)
    BY <1>5
  <2>3. "unknown" \in Phases
    BY DEF Phases
  <2>4. Live => Knows(mem', files, outcome, Flight, wiped)
    BY <1>3, <1>7, <2>1, <2>2, <2>3, KnowsFail
  <2> QED
    BY <1>0, <1>1, <1>7, <1>8, <2>1, <2>4, SettleKnows
<1> QED
  BY <1>4, <1>6, <1>7

LEMMA FailKnows ==
  ASSUME Inv, Origins, Knowledge, NEW a \in Actors, NEW op \in Ops,
         FailPlain(a, op) \/ FailUnknown(a, op)
  PROVE  Knowledge'
<1>0. TypeOK
  BY DEF Inv
<1>1. /\ hand[a].op = op /\ Drop(a)
      /\ UNCHANGED <<up, loadError, late, files>>
      /\ FailUnknown(a, op) => hand[a].step = "unsure"
  BY DEF FailPlain, FailUnknown, world, Persist, PersistFails
<1>2. up /\ (op \in Effectful => ~loadError /\ outcome[op] = "open")
  BY <1>1, HolderIsLive
<1>3. PICK phase \in {"failed", "unknown"} : mem' = AfterFail(mem, op, phase)
  BY DEF FailPlain, FailUnknown
<1>4. phase \in Phases
  BY DEF Phases
<1>5. outcome' = outcome \/ outcome' = [outcome EXCEPT ![op] = "declined"]
  BY DEF FailPlain, FailUnknown
<1>6. \A x \in FileWrites : outcome'[x] = "done" => outcome[x] = "done"
  BY <1>0, <1>5, WriteTargets DEF TypeOK
<1>7. Live => Knows(mem', files, outcome', Flight, wiped)
  <2> SUFFICES ASSUME Live PROVE Knows(mem', files, outcome', Flight, wiped)
    OBVIOUS
  <2> DEFINE now == [outcome EXCEPT ![op] = "declined"]
  <2>1. /\ \A x \in Ops \ {op} : now[x] = outcome[x]
        /\ now[op] # "done"
    BY <1>0 DEF TypeOK
  <2> HIDE DEF now
  <2>2. Knows(AfterFail(mem, op, phase), files, now, Flight, wiped)
    BY <1>0, <1>4, <2>1, KnowsFail DEF Knowledge, TypeOK
  <2>3. \A x \in FileWrites : outcome'[x] = "done" => now[x] = "done"
    BY <1>0, <1>2, <1>5, <2>1, WriteTargets DEF TypeOK
  <2> QED
    BY <1>3, <2>2, <2>3, KnowsLess
<1>8. \/ UNCHANGED <<saved, readable, wiped>>
      \/ Live /\ saved' = mem' /\ UNCHANGED wiped
      \/ loadError /\ saved' = mem' /\ Wipes /\ UNCHANGED outcome
  <2>1. CASE FailPlain(a, op)
    BY <1>2, <2>1 DEF FailPlain, Persist, PersistFails, Wipes, Live, Effectful
  <2>2. CASE FailUnknown(a, op)
    BY <1>2, <2>2 DEF FailUnknown, Persist, PersistFails, Wipes, Live
  <2> QED
    BY <2>1, <2>2
<1>9. CASE \/ UNCHANGED <<saved, readable, wiped>>
           \/ Live /\ saved' = mem' /\ UNCHANGED wiped
  BY <1>0, <1>1, <1>6, <1>7, <1>9, SettleKnows
<1>10. CASE loadError /\ saved' = mem' /\ Wipes /\ UNCHANGED outcome
  <2>1. Blind' /\ WrittenByAttempts /\ loadError'
    <3>1. Origins'
      BY CallOrigins DEF FailPlain, FailUnknown, Call
    <3> QED
      BY <1>1, <1>10, <3>1 DEF Origins
  <2>2. \A p \in Paths : files'[p].by \in {Outside} \cup wiped'
    BY <1>1, <1>10, <2>1 DEF WrittenByAttempts, Wipes
  <2>3. Flight' \cap FileWrites = {}
    <3>1. \A b \in Actors : hand'[b].op \notin Effectful
      <4>1. Inv'
        BY FailPlainKeepsInv, FailUnknownKeepsInv
      <4> QED
        BY <2>1, <4>1 DEF Inv, BlindOnlyReads
    <3> QED
      BY <2>1, <3>1, WriteTargets DEF Flight, Blind
  <2>4. Knows(saved', files', outcome', Flight', wiped')
    BY <1>10, <2>1, <2>2, <2>3, BlankKnows DEF Blind
  <2> QED
    BY <2>1, <2>4 DEF Knowledge, Live
<1> QED
  BY <1>8, <1>9, <1>10

LEMMA AbandonKnows ==
  ASSUME Inv, Knowledge, NEW a \in Actors, Abandon(a)
  PROVE  Knowledge'
<1>1. /\ Drop(a)
      /\ UNCHANGED <<mem, saved, readable, up, loadError, late, files, outcome, wiped>>
  BY DEF Abandon, ledger, world
<1>2. Live => Knows(mem', files, outcome', Flight, wiped)
  BY <1>1 DEF Knowledge
<1> QED
  BY <1>1, <1>2, SettleKnows DEF Inv

LEMMA EndKnows == ASSUME Inv, Knowledge, Damage \/ Crash PROVE Knowledge'
<1>1. CASE Damage
  <2>1. /\ ~readable'
        /\ UNCHANGED <<up, mem, loadError, late, hand, files, outcome, wiped>>
    BY <1>1 DEF Damage, world
  <2>2. Flight' = Flight /\ Live' = Live
    BY <2>1 DEF Flight, Live
  <2> QED
    BY <2>1, <2>2 DEF Knowledge
<1>2. CASE Crash
  <2>1. /\ ~up' /\ late' = {} /\ hand' = [a \in Actors |-> Idle]
        /\ UNCHANGED <<saved, readable, files, outcome, wiped>>
    BY <1>2 DEF Crash
  <2>2. Flight' \cap FileWrites \subseteq Flight
    BY <2>1, HandsTyped, WriteTargets DEF Flight
  <2>3. readable => Knows(saved, files, outcome, Flight', wiped)
    BY <2>2, KnowsLess DEF Knowledge
  <2> QED
    BY <2>1, <2>3 DEF Knowledge, Live
<1> QED
  BY <1>1, <1>2

LEMMA RestartKnows == ASSUME Inv, Knowledge, Restart PROVE Knowledge'
<1>1. /\ loadError' = ~readable
      /\ readable => mem' = saved
      /\ UNCHANGED <<saved, readable, hand, files, late, outcome, wiped>>
      /\ late = {}
  BY DEF Restart, world, Inv, DownIsIdle
<1>2. Flight' = Flight
  BY <1>1 DEF Flight
<1> QED
  BY <1>1, <1>2 DEF Knowledge, Live

LEMMA NextKnows ==
  ASSUME Inv, Origins, Knowledge, [Next]_vars
  PROVE  Knowledge'
<1>1. CASE UNCHANGED vars
  <2>1. UNCHANGED <<up, mem, saved, readable, loadError, hand, files, late, outcome, wiped>>
    BY <1>1 DEF vars, ledger, world
  <2>2. Flight' = Flight /\ Live' = Live
    BY <2>1 DEF Flight, Live
  <2> QED
    BY <2>1, <2>2 DEF Knowledge
<1>2. ASSUME NEW a \in Actors, NEW op \in Ops, Call(a, op)
      PROVE  Knowledge'
  BY <1>2, BeginSkipKnows, BeginKnows, RunKnows, CommitKnows, FailKnows DEF Call
<1> QED
  BY <1>1, <1>2, AbandonKnows, WorldKnows, EndKnows, RestartKnows DEF Next

LEMMA KnowledgeHolds == Spec => [](Inv /\ Origins /\ Knowledge)
<1>1. Init => Inv /\ Origins /\ Knowledge
  BY InitInv, InitKnows DEF Init, Absent, Origins, WrittenByAttempts
<1>2. (Inv /\ Origins /\ Knowledge) /\ [Next]_vars => (Inv /\ Origins /\ Knowledge)'
  BY NextKeepsInv, NextOrigins, NextKnows
<1> QED
  BY <1>1, <1>2, PTL DEF Spec

(* The before-images that a rollback restores are older than anything the   *)
(* run wrote, in the file and in memory (sideEffects.cjs:336), but for what *)
(* the run wrote before its ledger was replaced.                            *)
THEOREM ImagesAreOriginals == Spec => []ImagesPredateRun
<1>1. Inv /\ Knowledge => ImagesPredateRun
  BY DEF Knowledge, Knows, ImagesIn, ImagesPredateRun, Earlier
<1> QED
  BY <1>1, KnowledgeHolds, PTL

(* A write that succeeded, still stands and is known to the ledger is       *)
(* skipped, never done again.                                               *)
THEOREM DoneStaysDone == Spec => DoneIsNotRepeated
<1>1. ASSUME Inv, Knowledge, [Next]_vars, NEW a \in Actors, NEW op \in Ops,
             StillStands(op)
      PROVE  ~Begins(a, op)
  <2> SUFFICES ASSUME Begins(a, op) PROVE FALSE
    OBVIOUS
  <2>1. PICK b \in Actors : Begin(b, op)
    BY <1>1, BeginsIsBegin DEF Inv
  <2>2. op \in FileWrites \ wiped /\ Live
    BY <1>1, <2>1, BeginsOutOfDoubt, WriteTargets DEF StillStands, Begin, Live
  <2> QED
    BY <1>1, <2>1, <2>2, BegunNotStanding DEF StillStands, Begin
<1>2. Inv /\ Knowledge /\ [Next]_vars =>
        [\A a \in Actors, op \in Ops : StillStands(op) => ~Begins(a, op)]_vars
  BY <1>1
<1> QED
  BY <1>2, KnowledgeHolds, PTL DEF Spec, DoneIsNotRepeated
===============================================================================
