------------------------------ MODULE LockProofs ------------------------------
(***************************************************************************)
(* Theorems about the two kinds of locks: the leases on the files of a     *)
(* project, for any number of runs, agents and files, and the lock files   *)
(* of the stores, for any number of calls and processes.                   *)
(*                                                                         *)
(* Where a claim needs it, a hypothesis says that the timers of the leases *)
(* fire in time (~Stalls).                                                 *)
(***************************************************************************)
EXTENDS Leases, FileLock, TLAPS

(* A lease is held by an agent at work in an open scope.                    *)
HoldersAtWork ==
  \A k \in Keys : lease[k] # Free =>
    /\ lease[k].holder \in Agents
    /\ scope[RunOf[lease[k].holder]] = "open"
    /\ call[lease[k].holder].phase # "ended"

WritersOpen ==
  \A a \in Agents : call[a].phase = "writing" => scope[RunOf[a]] = "open"

Base == TypeOK /\ HoldersAtWork /\ WritersOpen

(* A lease was renewed in this third of its time, or is about to be.        *)
Renewed ==
  \A k \in Keys : lease[k] # Free =>
    \/ lease[k].age = 0
    \/ lease[k].age = 1 /\ due[RunOf[lease[k].holder]]

WritersHold ==
  \A a \in Agents : call[a].phase = "writing" /\ call[a].tool = "write_file" =>
    \A f \in call[a].files : lease[<<f, "canonical">>].holder = a

Inv == Base /\ Renewed /\ WritersHold

-----------------------------------------------------------------------------
(* What leases and calls look like.                                         *)
LEMMA LeasesTyped ==
  /\ Free \in Leased /\ Free.holder = Nobody /\ ~Live(Free)
  /\ \A a \in Agents : [holder |-> a, age |-> 0] \in Leased
  /\ \A l \in Leased :
       /\ l.holder \in Agents \cup {Nobody} /\ l.age \in 0..3
       /\ [l EXCEPT !.age = 0] \in Leased
       /\ [l EXCEPT !.age = 0].holder = l.holder /\ [l EXCEPT !.age = 0].age = 0
       /\ Live(l) => /\ [l EXCEPT !.age = @ + 1] \in Leased
                     /\ [l EXCEPT !.age = @ + 1].holder = l.holder
                     /\ [l EXCEPT !.age = @ + 1].age = l.age + 1
BY DEF Leased, Free, Live, Expired

LEMMA SweptTyped ==
  ASSUME NEW m \in [Keys -> Leased]
  PROVE  /\ Swept(m) \in [Keys -> Leased]
         /\ \A k \in Keys : Swept(m)[k] = m[k] \/ Swept(m)[k] = Free
         /\ \A k \in Keys : Live(m[k]) => Swept(m)[k] = m[k]
BY LeasesTyped DEF Swept

LEMMA GrantedTyped ==
  ASSUME lease \in [Keys -> Leased], NEW ks \in SUBSET Keys, NEW a \in Agents
  PROVE  /\ Granted(ks, a) \in [Keys -> Leased]
         /\ \A k \in ks : Granted(ks, a)[k] = [holder |-> a, age |-> 0]
         /\ \A k \in Keys \ ks : Granted(ks, a)[k] = lease[k] \/ Granted(ks, a)[k] = Free
         /\ \A k \in Keys \ ks : Live(lease[k]) => Granted(ks, a)[k] = lease[k]
BY LeasesTyped, SweptTyped DEF Granted

LEMMA WithoutTyped ==
  ASSUME NEW m \in [Keys -> Leased], NEW who
  PROVE  /\ Without(m, who) \in [Keys -> Leased]
         /\ \A k \in Keys : m[k].holder \in who => Without(m, who)[k] = Free
         /\ \A k \in Keys : m[k].holder \notin who => Without(m, who)[k] = m[k]
BY LeasesTyped DEF Without

LEMMA CallsTyped ==
  /\ \A phase \in {"idle", "ended"} : Doing(phase).phase = phase
  /\ Doing("idle") # Doing("ended")
  /\ \A c \in Writing :
       /\ c.phase = "writing" /\ c.tool \in Tools
       /\ c.files \in SUBSET Files /\ c.seen \in [c.files -> Texts]
  /\ \A tool \in Tools, fs \in SUBSET Files : \A seen \in [fs -> Texts] :
       LET c == [phase |-> "writing", tool |-> tool, files |-> fs, seen |-> seen]
       IN  c \in Writing /\ c.phase = "writing" /\ c.tool = tool /\ c.files = fs
<1>1. \A phase \in {"idle", "ended"} : Doing(phase).phase = phase
  BY DEF Doing
<1>2. ASSUME NEW c \in Writing
      PROVE  /\ c.phase = "writing" /\ c.tool \in Tools
             /\ c.files \in SUBSET Files /\ c.seen \in [c.files -> Texts]
  <2>1. PICK fs \in SUBSET Files :
          c \in [phase : {"writing"}, tool : Tools, files : {fs}, seen : [fs -> Texts]]
    BY DEF Writing
  <2> QED
    BY <2>1
<1>3. ASSUME NEW tool \in Tools, NEW fs \in SUBSET Files, NEW seen \in [fs -> Texts]
      PROVE  LET c == [phase |-> "writing", tool |-> tool, files |-> fs, seen |-> seen]
             IN  c \in Writing /\ c.phase = "writing" /\ c.tool = tool /\ c.files = fs
  <2> DEFINE R == [phase : {"writing"}, tool : Tools, files : {fs}, seen : [fs -> Texts]]
  <2>1. [phase |-> "writing", tool |-> tool, files |-> fs, seen |-> seen] \in R
    OBVIOUS
  <2>2. R \subseteq Writing
    BY DEF Writing
  <2> QED
    BY <2>1, <2>2
<1>4. Doing("idle") # Doing("ended")
  BY <1>1
<1> QED
  BY <1>1, <1>2, <1>3, <1>4

LEMMA WriterTyped ==
  ASSUME TypeOK, NEW a \in Agents, call[a].phase = "writing"
  PROVE  call[a] \in Writing
BY CallsTyped DEF TypeOK

LEMMA TypesOfLeases == TypeOK => lease \in [Keys -> Leased]
BY LeasesTyped DEF TypeOK

LEMMA KeysTyped ==
  /\ \A f \in Files : <<f, "canonical">> \in Keys
  /\ \A tool, fs : fs \in SUBSET Files => /\ KeysFor(tool, fs) \in SUBSET Keys
                                          /\ CompensationKeys(fs) \in SUBSET Keys
BY DEF Keys, KeysFor, CompensationKeys

LEMMA AfterTyped ==
  ASSUME TypeOK, NEW a \in Agents, NEW c \in Writing
  PROVE  After(a, c) \in [Files -> Texts]
<1>1. [by |-> a, old |-> FALSE] \in Texts
  BY DEF Texts
<1> QED
  BY <1>1 DEF After, TypeOK

LEMMA InitBase == Init => Base /\ Renewed /\ WritersHold
<1> SUFFICES ASSUME Init PROVE Base /\ Renewed /\ WritersHold
  OBVIOUS
<1>1. /\ \A k \in Keys : lease[k] = Free
      /\ \A a \in Agents : call[a] = Doing("idle") /\ call[a].phase = "idle"
  BY CallsTyped DEF Init
<1>2. content \in [Files -> Texts]
  BY DEF Init, Original, Texts
<1>3. TypeOK
  BY <1>1, <1>2, LeasesTyped DEF Init, TypeOK
<1> QED
  BY <1>1, <1>3 DEF Base, HoldersAtWork, WritersOpen, Renewed, WritersHold

-----------------------------------------------------------------------------
(* Each action keeps Base.                                                  *)
LEMMA CallTyped ==
  ASSUME TypeOK, NEW a \in Agents,
         NEW c \in {Doing("idle"), Doing("ended")} \cup Writing,
         call' = [call EXCEPT ![a] = c]
  PROVE  /\ call' \in [Agents -> {Doing("idle"), Doing("ended")} \cup Writing]
         /\ call'[a] = c
         /\ \A b \in Agents \ {a} : call'[b] = call[b]
BY DEF TypeOK

LEMMA OpenBase ==
  ASSUME Base, NEW r \in Runs, Open(r)
  PROVE  Base'
<1>1. /\ lease' \in [Keys -> Leased]
      /\ \A k \in Keys : lease'[k] = lease[k] \/ lease'[k] = Free
  BY TypesOfLeases, SweptTyped DEF Base, Open
<1>2. \A q \in Runs : scope[q] = "open" => scope'[q] = "open"
  BY DEF Base, TypeOK, Open
<1>3. TypeOK'
  BY <1>1 DEF Base, TypeOK, Open
<1>4. HoldersAtWork'
  BY <1>1, <1>2, LeasesAssumption DEF Base, HoldersAtWork, Open
<1>5. WritersOpen'
  BY <1>2, LeasesAssumption DEF Base, WritersOpen, Open
<1> QED
  BY <1>3, <1>4, <1>5 DEF Base

(* What Start does: only the sweep, or a call begins and its keys are held. *)
LEMMA StartCases ==
  ASSUME Base, NEW a \in Agents, NEW tool \in Tools, NEW fs \in SUBSET Files,
         Start(a, tool, fs)
  PROVE  /\ lease' \in [Keys -> Leased]
         /\ KeysFor(tool, fs) \in SUBSET Keys
         /\ \/ /\ call' = call
               /\ \A k \in Keys : lease'[k] = lease[k] \/ lease'[k] = Free
               /\ \A k \in Keys : Live(lease[k]) => lease'[k] = lease[k]
            \/ /\ call'[a] \in Writing
               /\ call'[a].phase = "writing"
               /\ call'[a].tool = tool /\ call'[a].files = fs
               /\ call' = [call EXCEPT ![a] = call'[a]]
               /\ \A k \in KeysFor(tool, fs) :
                    /\ lease'[k] = [holder |-> a, age |-> 0]
                    /\ ~Live(lease[k]) \/ lease[k].holder = a
               /\ \A k \in Keys \ KeysFor(tool, fs) :
                    /\ lease'[k] = lease[k] \/ lease'[k] = Free
                    /\ Live(lease[k]) => lease'[k] = lease[k]
<1> DEFINE ks == KeysFor(tool, fs)
           c == [phase |-> "writing", tool |-> tool, files |-> fs,
                 seen |-> Snapshot(tool, fs)]
<1>1. ks \in SUBSET Keys /\ lease \in [Keys -> Leased]
  BY KeysTyped, TypesOfLeases DEF Base
<1>2. CASE Conflict(ks, a)
  <2>1. lease' = Swept(lease) /\ call' = call
    BY <1>2 DEF Start
  <2> QED
    BY <1>1, <2>1, SweptTyped
<1>3. CASE ~Conflict(ks, a)
  <2>1. /\ lease' = IF ks = {} THEN lease ELSE Granted(ks, a)
        /\ call' = [call EXCEPT ![a] = c]
    BY <1>3 DEF Start
  <2>2. Snapshot(tool, fs) \in [fs -> Texts]
    BY DEF Base, TypeOK, Snapshot, Original, Texts
  <2>3. c \in Writing /\ c.phase = "writing" /\ c.tool = tool /\ c.files = fs
    BY <2>2, CallsTyped
  <2>4. call'[a] = c
    BY <2>1 DEF Base, TypeOK
  <2>5. \A k \in ks : ~Live(lease[k]) \/ lease[k].holder = a
    BY <1>3 DEF Conflict
  <2>6. CASE ks = {}
    BY <1>1, <2>1, <2>3, <2>4, <2>6
  <2>7. CASE ks # {}
    <3>1. lease' = Granted(ks, a)
      BY <2>1, <2>7
    <3>2. /\ lease' \in [Keys -> Leased]
          /\ \A k \in ks : lease'[k] = [holder |-> a, age |-> 0]
          /\ \A k \in Keys \ ks :
               /\ lease'[k] = lease[k] \/ lease'[k] = Free
               /\ Live(lease[k]) => lease'[k] = lease[k]
      BY <1>1, <3>1, GrantedTyped
    <3>3. call' = [call EXCEPT ![a] = call'[a]]
      BY <2>1, <2>4
    <3> QED
      BY <1>1, <2>3, <2>4, <2>5, <3>2, <3>3
  <2> QED
    BY <2>6, <2>7
<1> QED
  BY <1>2, <1>3

LEMMA StartBase ==
  ASSUME Base, NEW a \in Agents, NEW tool \in Tools, NEW fs \in SUBSET Files,
         Start(a, tool, fs)
  PROVE  Base'
<1>1. /\ scope[RunOf[a]] = "open" /\ call[a].phase = "idle"
      /\ UNCHANGED <<scope, due, late, content>>
  BY DEF Start
<1>2. lease' \in [Keys -> Leased]
  BY StartCases
<1>3. CASE /\ call' = call
           /\ \A k \in Keys : lease'[k] = lease[k] \/ lease'[k] = Free
  <2>1. TypeOK'
    BY <1>1, <1>2, <1>3 DEF Base, TypeOK
  <2>2. HoldersAtWork'
    BY <1>1, <1>3 DEF Base, HoldersAtWork
  <2>3. WritersOpen'
    BY <1>1, <1>3 DEF Base, WritersOpen
  <2> QED
    BY <2>1, <2>2, <2>3 DEF Base
<1>4. CASE /\ call'[a] \in Writing /\ call'[a].phase = "writing"
           /\ call' = [call EXCEPT ![a] = call'[a]]
           /\ \A k \in KeysFor(tool, fs) : lease'[k] = [holder |-> a, age |-> 0]
           /\ \A k \in Keys \ KeysFor(tool, fs) :
                lease'[k] = lease[k] \/ lease'[k] = Free
  <2>1. /\ call' \in [Agents -> {Doing("idle"), Doing("ended")} \cup Writing]
        /\ \A b \in Agents \ {a} : call'[b] = call[b]
    BY <1>4, CallTyped DEF Base
  <2>2. TypeOK'
    BY <1>1, <1>2, <2>1 DEF Base, TypeOK
  <2>3. \A k \in Keys : \/ lease'[k].holder = a
                        \/ lease'[k] = lease[k]
                        \/ lease'[k] = Free
    BY <1>4
  <2>4. HoldersAtWork'
    BY <1>1, <1>4, <2>1, <2>3 DEF Base, HoldersAtWork
  <2>5. WritersOpen'
    BY <1>1, <2>1 DEF Base, WritersOpen
  <2> QED
    BY <2>2, <2>4, <2>5 DEF Base
<1> QED
  BY <1>3, <1>4, StartCases

(* A call that ends: its agent is idle and holds what it held.              *)
LEMMA CallEndsBase ==
  ASSUME Base, NEW a \in Agents, call' = [call EXCEPT ![a] = Doing("idle")],
         UNCHANGED <<lease, scope, due>>,
         late' \subseteq Agents \X Writing, content' \in [Files -> Texts]
  PROVE  Base'
<1>1. /\ call' \in [Agents -> {Doing("idle"), Doing("ended")} \cup Writing]
      /\ call'[a].phase = "idle"
      /\ \A b \in Agents \ {a} : call'[b] = call[b]
  BY CallTyped, CallsTyped DEF Base
<1>2. TypeOK'
  BY <1>1 DEF Base, TypeOK
<1>3. HoldersAtWork'
  BY <1>1 DEF Base, HoldersAtWork
<1>4. WritersOpen'
  BY <1>1 DEF Base, WritersOpen
<1> QED
  BY <1>2, <1>3, <1>4 DEF Base

LEMMA FinishBase ==
  ASSUME Base, NEW a \in Agents, Finish(a)
  PROVE  Base'
<1>1. call[a] \in Writing
  BY WriterTyped DEF Base, Finish
<1>2. content' \in [Files -> Texts]
  BY <1>1, AfterTyped DEF Base, TypeOK, Finish
<1>3. late' \subseteq Agents \X Writing
  BY DEF Base, TypeOK, Finish
<1> QED
  BY <1>2, <1>3, CallEndsBase DEF Finish

LEMMA TimeOutBase ==
  ASSUME Base, NEW a \in Agents, TimeOut(a)
  PROVE  Base'
<1>1. call[a] \in Writing
  BY WriterTyped DEF Base, TimeOut
<1>2. late' \subseteq Agents \X Writing
  BY <1>1 DEF Base, TypeOK, TimeOut
<1>3. content' \in [Files -> Texts]
  BY DEF Base, TypeOK, TimeOut
<1> QED
  BY <1>2, <1>3, CallEndsBase DEF TimeOut

LEMMA LateFinishBase == Base /\ LateFinish => Base'
<1> SUFFICES ASSUME Base, LateFinish PROVE Base'
  OBVIOUS
<1>1. PICK l \in late : /\ content' \in {content, After(l[1], l[2])}
                        /\ late' = late \ {l}
  BY DEF LateFinish
<1>2. l[1] \in Agents /\ l[2] \in Writing
  BY DEF Base, TypeOK
<1>3. content' \in [Files -> Texts]
  BY <1>1, <1>2, AfterTyped DEF Base, TypeOK
<1>4. TypeOK'
  BY <1>1, <1>3 DEF Base, TypeOK, LateFinish
<1> QED
  BY <1>4 DEF Base, HoldersAtWork, WritersOpen, LateFinish

LEMMA EndTaskBase ==
  ASSUME Base, NEW a \in Agents, EndTask(a)
  PROVE  Base'
<1>1. /\ lease' \in [Keys -> Leased]
      /\ \A k \in Keys : lease[k].holder = a => lease'[k] = Free
      /\ \A k \in Keys : lease[k].holder # a => lease'[k] = lease[k]
  BY TypesOfLeases, WithoutTyped DEF Base, EndTask
<1>2. /\ call' \in [Agents -> {Doing("idle"), Doing("ended")} \cup Writing]
      /\ call'[a].phase = "ended"
      /\ \A b \in Agents \ {a} : call'[b] = call[b]
  BY CallTyped, CallsTyped DEF Base, EndTask
<1>3. TypeOK'
  BY <1>1, <1>2 DEF Base, TypeOK, EndTask
<1>4. HoldersAtWork'
  <2>1. \A k \in Keys : lease'[k] # Free =>
          lease'[k] = lease[k] /\ lease[k].holder # a
    BY <1>1
  <2>2. scope' = scope
    BY DEF EndTask
  <2> QED
    BY <1>2, <2>1, <2>2 DEF Base, HoldersAtWork
<1>5. WritersOpen'
  BY <1>2 DEF Base, WritersOpen, EndTask
<1> QED
  BY <1>3, <1>4, <1>5 DEF Base

(* What Compensate does: nothing but the sweep; some files are back and the *)
(* keys are free; or all are, and the agent starts again with the keys.     *)
LEMMA CompensateCases ==
  ASSUME Base, NEW a \in Agents, NEW fs \in SUBSET Files, Compensate(a, fs)
  PROVE  /\ lease' \in [Keys -> Leased] /\ content' \in [Files -> Texts]
         /\ CompensationKeys(fs) \in SUBSET Keys
         /\ \A k \in Keys : Live(lease[k]) /\ lease[k].holder # a => lease'[k] = lease[k]
         /\ \/ /\ call' = call
               /\ \A k \in Keys : lease'[k] = lease[k] \/ lease'[k] = Free
            \/ /\ call' = [call EXCEPT ![a] = Doing("idle")]
               /\ \A k \in Keys : \/ lease'[k] = lease[k]
                                  \/ lease'[k] = Free
                                  \/ lease'[k] = [holder |-> a, age |-> 0]
         /\ \A f \in Files : content'[f] # content[f] =>
              /\ f \in fs /\ content'[f] = [by |-> a, old |-> TRUE]
              /\ ~Conflict(CompensationKeys(fs), a)
<1> DEFINE ks == CompensationKeys(fs)
<1>1. ks \in SUBSET Keys /\ lease \in [Keys -> Leased] /\ content \in [Files -> Texts]
  BY KeysTyped, TypesOfLeases DEF Base, TypeOK
<1>2. CASE Conflict(ks, a)
  <2>1. lease' = Swept(lease) /\ call' = call /\ content' = content
    BY <1>2 DEF Compensate
  <2> QED
    BY <1>1, <2>1, SweptTyped
<1>3. CASE ~Conflict(ks, a)
  <2>1. PICK done \in SUBSET fs :
          /\ content' = [f \in Files |-> IF f \in done
                           THEN [by |-> a, old |-> TRUE] ELSE content[f]]
          /\ \/ /\ lease' = Granted(ks, a)
                /\ call' = [call EXCEPT ![a] = Doing("idle")]
             \/ /\ lease' = [k \in Keys |->
                               IF k \in ks THEN Free ELSE Swept(lease)[k]]
                /\ call' = call
    BY <1>3 DEF Compensate
  <2>2. [by |-> a, old |-> TRUE] \in Texts
    BY DEF Texts
  <2>3. /\ content' \in [Files -> Texts]
        /\ \A f \in Files : content'[f] # content[f] =>
             f \in fs /\ content'[f] = [by |-> a, old |-> TRUE]
    BY <1>1, <2>1, <2>2
  <2>4. \A k \in ks : ~Live(lease[k]) \/ lease[k].holder = a
    BY <1>3 DEF Conflict
  <2>5. CASE lease' = Granted(ks, a) /\ call' = [call EXCEPT ![a] = Doing("idle")]
    <3>1. /\ lease' \in [Keys -> Leased]
          /\ \A k \in ks : lease'[k] = [holder |-> a, age |-> 0]
          /\ \A k \in Keys \ ks : lease'[k] = lease[k] \/ lease'[k] = Free
          /\ \A k \in Keys \ ks : Live(lease[k]) => lease'[k] = lease[k]
      BY <1>1, <2>5, GrantedTyped
    <3> QED
      BY <1>1, <1>3, <2>3, <2>4, <2>5, <3>1
  <2>6. CASE /\ lease' = [k \in Keys |-> IF k \in ks THEN Free ELSE Swept(lease)[k]]
             /\ call' = call
    <3>1. /\ lease' \in [Keys -> Leased]
          /\ \A k \in ks : lease'[k] = Free
          /\ \A k \in Keys \ ks : lease'[k] = lease[k] \/ lease'[k] = Free
          /\ \A k \in Keys \ ks : Live(lease[k]) => lease'[k] = lease[k]
      BY <1>1, <2>6, SweptTyped, LeasesTyped
    <3> QED
      BY <1>1, <1>3, <2>3, <2>4, <2>6, <3>1
  <2> QED
    BY <2>1, <2>5, <2>6
<1> QED
  BY <1>2, <1>3

LEMMA CompensateBase ==
  ASSUME Base, NEW a \in Agents, NEW fs \in SUBSET Files, Compensate(a, fs)
  PROVE  Base'
<1>1. /\ scope[RunOf[a]] = "open" /\ call[a].phase = "ended"
      /\ UNCHANGED <<scope, due, late>>
  BY DEF Compensate
<1>2. lease' \in [Keys -> Leased] /\ content' \in [Files -> Texts]
  BY CompensateCases
<1>3. CASE /\ call' = call
           /\ \A k \in Keys : lease'[k] = lease[k] \/ lease'[k] = Free
  <2>1. TypeOK'
    BY <1>1, <1>2, <1>3 DEF Base, TypeOK
  <2>2. HoldersAtWork'
    BY <1>1, <1>3 DEF Base, HoldersAtWork
  <2>3. WritersOpen'
    BY <1>1, <1>3 DEF Base, WritersOpen
  <2> QED
    BY <2>1, <2>2, <2>3 DEF Base
<1>4. CASE /\ call' = [call EXCEPT ![a] = Doing("idle")]
           /\ \A k \in Keys : \/ lease'[k] = lease[k]
                              \/ lease'[k] = Free
                              \/ lease'[k] = [holder |-> a, age |-> 0]
  <2>1. /\ call' \in [Agents -> {Doing("idle"), Doing("ended")} \cup Writing]
        /\ call'[a].phase = "idle"
        /\ \A b \in Agents \ {a} : call'[b] = call[b]
    BY <1>4, CallTyped, CallsTyped DEF Base
  <2>2. TypeOK'
    BY <1>1, <1>2, <2>1 DEF Base, TypeOK
  <2>3. \A k \in Keys : \/ lease'[k].holder = a
                        \/ lease'[k] = lease[k]
                        \/ lease'[k] = Free
    BY <1>4
  <2>4. HoldersAtWork'
    BY <1>1, <2>1, <2>3 DEF Base, HoldersAtWork
  <2>5. WritersOpen'
    BY <1>1, <2>1 DEF Base, WritersOpen
  <2> QED
    BY <2>2, <2>4, <2>5 DEF Base
<1> QED
  BY <1>3, <1>4, CompensateCases

LEMMA EndRunBase ==
  ASSUME Base, NEW r \in Runs, EndRun(r)
  PROVE  Base'
<1> DEFINE mine == {a \in Agents : RunOf[a] = r}
<1>1. /\ lease' = Without(lease, mine \cap Supervisors)
      /\ call' = [a \in Agents |-> IF a \in mine THEN Doing("ended") ELSE call[a]]
      /\ \A a \in mine : a \notin Supervisors => call[a].phase = "ended"
      /\ late' \subseteq late
      /\ scope' = [scope EXCEPT ![r] = "ending"]
      /\ UNCHANGED <<due, content>>
  BY DEF EndRun
<1>2. lease \in [Keys -> Leased]
  BY TypesOfLeases DEF Base
<1>3. /\ lease' \in [Keys -> Leased]
      /\ \A k \in Keys : lease[k].holder \in mine \cap Supervisors => lease'[k] = Free
      /\ \A k \in Keys : lease[k].holder \notin mine \cap Supervisors =>
           lease'[k] = lease[k]
  BY <1>1, <1>2, WithoutTyped
<1>4. \A k \in Keys : lease'[k] # Free =>
        /\ lease'[k] = lease[k]
        /\ lease[k].holder \in Agents \ mine
  BY <1>1, <1>3 DEF Base, HoldersAtWork
<1>5. /\ \A a \in mine : call'[a].phase = "ended" /\ call'[a] = Doing("ended")
      /\ \A a \in Agents \ mine : call'[a] = call[a] /\ scope'[RunOf[a]] = scope[RunOf[a]]
  BY <1>1, CallsTyped, LeasesAssumption DEF Base, TypeOK
<1>6. call' \in [Agents -> {Doing("idle"), Doing("ended")} \cup Writing]
  BY <1>1, <1>5 DEF Base, TypeOK
<1>7. TypeOK'
  BY <1>1, <1>3, <1>6 DEF Base, TypeOK
<1>8. HoldersAtWork'
  BY <1>4, <1>5 DEF Base, HoldersAtWork
<1>9. WritersOpen'
  BY <1>5 DEF Base, WritersOpen
<1> QED
  BY <1>7, <1>8, <1>9 DEF Base

LEMMA DisposeBase ==
  ASSUME Base, NEW r \in Runs, Dispose(r)
  PROVE  Base'
<1>1. \A q \in Runs : scope[q] = "open" => scope'[q] = "open"
  BY DEF Base, TypeOK, Dispose
<1>2. TypeOK'
  BY DEF Base, TypeOK, Dispose
<1>3. HoldersAtWork'
  BY <1>1, LeasesAssumption DEF Base, HoldersAtWork, Dispose
<1>4. WritersOpen'
  BY <1>1, LeasesAssumption DEF Base, WritersOpen, Dispose
<1> QED
  BY <1>2, <1>3, <1>4 DEF Base

(* What the timer and the passing of time do to the leases.                 *)
LEMMA RenewCases ==
  ASSUME Base, NEW r \in Runs, Renew(r)
  PROVE  /\ lease' \in [Keys -> Leased]
         /\ \A k \in Keys : lease[k] # Free /\ RunOf[lease[k].holder] = r =>
              lease'[k].holder = lease[k].holder /\ lease'[k].age = 0
         /\ \A k \in Keys : ~(lease[k] # Free /\ RunOf[lease[k].holder] = r) =>
              /\ lease'[k] = lease[k] \/ lease'[k] = Free
              /\ Live(lease[k]) => lease'[k] = lease[k]
<1>1. lease \in [Keys -> Leased]
  BY TypesOfLeases DEF Base
<1> DEFINE held == {k \in Keys : lease[k] # Free /\ RunOf[lease[k].holder] = r}
<1>2. lease' = [k \in Keys |-> IF k \in held THEN [lease[k] EXCEPT !.age = 0]
                              ELSE IF held = {} THEN lease[k] ELSE Swept(lease)[k]]
  BY DEF Renew
<1>3. \A k \in held : /\ lease'[k] \in Leased
                      /\ lease'[k].holder = lease[k].holder /\ lease'[k].age = 0
  <2> SUFFICES ASSUME NEW k \in held
               PROVE  /\ lease'[k] \in Leased
                      /\ lease'[k].holder = lease[k].holder /\ lease'[k].age = 0
    OBVIOUS
  <2>1. lease'[k] = [lease[k] EXCEPT !.age = 0] /\ lease[k] \in Leased
    BY <1>1, <1>2
  <2> QED
    BY <2>1, LeasesTyped
<1>4. \A k \in Keys \ held : /\ lease'[k] \in Leased
                             /\ lease'[k] = lease[k] \/ lease'[k] = Free
                             /\ Live(lease[k]) => lease'[k] = lease[k]
  <2> HIDE DEF held
  <2> QED
    BY <1>1, <1>2, SweptTyped
<1>5. lease' \in [Keys -> Leased]
  <2>1. \A k \in Keys : lease'[k] \in Leased
    BY <1>3, <1>4
  <2> HIDE DEF held
  <2> QED
    BY <1>2, <2>1
<1> QED
  BY <1>3, <1>4, <1>5

LEMMA RenewBase ==
  ASSUME Base, NEW r \in Runs, Renew(r)
  PROVE  Base'
<1>1. TypeOK'
  BY RenewCases DEF Base, TypeOK, Renew
<1>2. HoldersAtWork'
  <2>1. \A k \in Keys : lease'[k] # Free =>
          lease[k] # Free /\ lease'[k].holder = lease[k].holder
    BY RenewCases
  <2> QED
    BY <2>1 DEF Base, HoldersAtWork, Renew
<1>3. WritersOpen'
  BY DEF Base, WritersOpen, Renew
<1> QED
  BY <1>1, <1>2, <1>3 DEF Base

LEMMA TickCases ==
  ASSUME Base, Tick
  PROVE  /\ lease' \in [Keys -> Leased]
         /\ \A k \in Keys : lease'[k].holder = lease[k].holder
         /\ \A k \in Keys : Live(lease[k]) => lease'[k].age = lease[k].age + 1
         /\ \A k \in Keys : ~Live(lease[k]) => lease'[k] = lease[k]
<1>1. lease \in [Keys -> Leased]
  BY TypesOfLeases DEF Base
<1>2. \A k \in Keys : lease[k] \in Leased
  BY <1>1
<1>3. lease' = [k \in Keys |-> IF Live(lease[k]) THEN [lease[k] EXCEPT !.age = @ + 1]
                              ELSE lease[k]]
  BY DEF Tick
<1>4. ASSUME NEW k \in Keys, Live(lease[k])
      PROVE  /\ lease'[k] \in Leased
             /\ lease'[k].holder = lease[k].holder
             /\ lease'[k].age = lease[k].age + 1
  <2>1. lease'[k] = [lease[k] EXCEPT !.age = @ + 1]
    BY <1>3, <1>4
  <2> QED
    BY <1>2, <1>4, <2>1, LeasesTyped
<1>5. ASSUME NEW k \in Keys, ~Live(lease[k])
      PROVE  lease'[k] = lease[k]
  BY <1>3, <1>5
<1>6. \A k \in Keys : lease'[k] \in Leased
  BY <1>2, <1>4, <1>5
<1>7. lease' \in [Keys -> Leased]
  BY <1>3, <1>6
<1> QED
  BY <1>4, <1>5, <1>7

LEMMA TickBase == Base /\ Tick => Base'
<1> SUFFICES ASSUME Base, Tick PROVE Base'
  OBVIOUS
<1>1. due' \in [Runs -> BOOLEAN]
  BY DEF Tick, HasTimer
<1>2. TypeOK'
  BY <1>1, TickCases DEF Base, TypeOK, Tick
<1>3. HoldersAtWork'
  <2>1. \A k \in Keys : lease'[k] # Free =>
          lease[k] # Free /\ lease'[k].holder = lease[k].holder
    BY TickCases, LeasesTyped
  <2> QED
    BY <2>1 DEF Base, HoldersAtWork, Tick
<1>4. WritersOpen'
  BY DEF Base, WritersOpen, Tick
<1> QED
  BY <1>2, <1>3, <1>4 DEF Base

LEMMA BaseStep == Base /\ [Next]_vars => Base'
<1> SUFFICES ASSUME Base, [Next]_vars PROVE Base'
  OBVIOUS
<1>1. CASE \E r \in Runs : Open(r) \/ EndRun(r) \/ Dispose(r) \/ Renew(r)
  BY <1>1, OpenBase, EndRunBase, DisposeBase, RenewBase
<1>2. CASE \E a \in Agents : Finish(a) \/ TimeOut(a) \/ EndTask(a)
  BY <1>2, FinishBase, TimeOutBase, EndTaskBase
<1>3. CASE \E a \in Agents, fs \in SUBSET Files, tool \in Tools : Start(a, tool, fs)
  BY <1>3, StartBase
<1>4. CASE \E a \in Agents, fs \in SUBSET Files : Compensate(a, fs)
  BY <1>4, CompensateBase
<1>5. CASE LateFinish
  BY <1>5, LateFinishBase
<1>6. CASE Tick
  BY <1>6, TickBase
<1>7. CASE UNCHANGED vars
  BY <1>7 DEF vars, Base, TypeOK, HoldersAtWork, WritersOpen
<1> QED
  BY <1>1, <1>2, <1>3, <1>4, <1>5, <1>6, <1>7 DEF Next

-----------------------------------------------------------------------------
(* With timers that fire in time no lease of a run at work expires.         *)
LEMMA HeldIsLive ==
  ASSUME TypeOK, Renewed, NEW k \in Keys, lease[k] # Free
  PROVE  Live(lease[k])
BY DEF Renewed, Live, Expired

LEMMA RenewedStep ==
  ASSUME ~Stalls, Base, Renewed, Next
  PROVE  Renewed'
<1> USE DEF Renewed
<1>1. ASSUME UNCHANGED due,
             \A k \in Keys : \/ lease'[k] = lease[k]
                             \/ lease'[k] = Free
                             \/ lease'[k].age = 0
      PROVE  Renewed'
  BY <1>1
<1>2. ASSUME NEW r \in Runs, Open(r) PROVE Renewed'
  <2>1. \A k \in Keys : lease'[k] = lease[k] \/ lease'[k] = Free
    BY <1>2, TypesOfLeases, SweptTyped DEF Base, Open
  <2> QED
    BY <1>1, <1>2, <2>1 DEF Open
<1>3. ASSUME NEW r \in Runs, EndRun(r) PROVE Renewed'
  <2>1. \A k \in Keys : lease'[k] = lease[k] \/ lease'[k] = Free
    BY <1>3, TypesOfLeases, WithoutTyped DEF Base, EndRun
  <2> QED
    BY <1>1, <1>3, <2>1 DEF EndRun
<1>4. ASSUME NEW r \in Runs, Dispose(r) PROVE Renewed'
  <2>1. \A q \in Runs : q # r => due'[q] = due[q]
    BY <1>4 DEF Base, TypeOK, Dispose
  <2>2. \A k \in Keys : lease[k] # Free => RunOf[lease[k].holder] \in Runs \ {r}
    BY <1>4, LeasesAssumption DEF Base, HoldersAtWork, Dispose
  <2> QED
    BY <1>4, <2>1, <2>2 DEF Dispose
<1>5. ASSUME NEW r \in Runs, Renew(r) PROVE Renewed'
  <2>1. \A q \in Runs : q # r => due'[q] = due[q]
    BY <1>5 DEF Base, TypeOK, Renew
  <2>2. \A k \in Keys : lease[k] # Free => RunOf[lease[k].holder] \in Runs
    BY LeasesAssumption DEF Base, HoldersAtWork
  <2> QED
    BY <1>5, <2>1, <2>2, RenewCases
<1>6. ASSUME NEW a \in Agents, Finish(a) \/ TimeOut(a) PROVE Renewed'
  BY <1>6 DEF Finish, TimeOut
<1>7. ASSUME NEW a \in Agents, EndTask(a) PROVE Renewed'
  <2>1. \A k \in Keys : lease'[k] = lease[k] \/ lease'[k] = Free
    BY <1>7, TypesOfLeases, WithoutTyped DEF Base, EndTask
  <2> QED
    BY <1>1, <1>7, <2>1 DEF EndTask
<1>8. ASSUME NEW a \in Agents, NEW fs \in SUBSET Files, NEW tool \in Tools,
             Start(a, tool, fs)
      PROVE  Renewed'
  <2>1. \A k \in Keys : \/ lease'[k] = lease[k] \/ lease'[k] = Free
                        \/ lease'[k] = [holder |-> a, age |-> 0]
    BY <1>8, StartCases
  <2> QED
    BY <1>1, <1>8, <2>1 DEF Start
<1>9. ASSUME NEW a \in Agents, NEW fs \in SUBSET Files, Compensate(a, fs)
      PROVE  Renewed'
  <2>1. \A k \in Keys : \/ lease'[k] = lease[k] \/ lease'[k] = Free
                        \/ lease'[k] = [holder |-> a, age |-> 0]
    BY <1>9, CompensateCases
  <2> QED
    BY <1>1, <1>9, <2>1 DEF Compensate
<1>10. ASSUME LateFinish PROVE Renewed'
  BY <1>10 DEF LateFinish
<1>11. ASSUME Tick PROVE Renewed'
  <2>1. \A k \in Keys : lease'[k] # Free =>
          lease[k] # Free /\ lease'[k].holder = lease[k].holder
    BY <1>11, TickCases, LeasesTyped DEF Base
  <2>2. \A k \in Keys : lease[k] # Free =>
          /\ RunOf[lease[k].holder] \in Runs
          /\ HasTimer(RunOf[lease[k].holder])
    BY LeasesAssumption DEF Base, HoldersAtWork, HasTimer
  <2>3. \A k \in Keys : lease[k] # Free =>
          ~due[RunOf[lease[k].holder]] /\ due'[RunOf[lease[k].holder]]
    BY <1>11, <2>2 DEF Tick, HasTimer
  <2>4. \A k \in Keys : lease[k] # Free => lease[k].age = 0
    BY <2>3
  <2>5. \A k \in Keys : lease[k] # Free => lease'[k].age = 1
    BY <1>11, <2>4, HeldIsLive, TickCases DEF Base
  <2> QED
    BY <2>1, <2>3, <2>5
<1> QED
  BY <1>2, <1>3, <1>4, <1>5, <1>6, <1>7, <1>8, <1>9, <1>10, <1>11 DEF Next

(* Who is in the middle of writing a file keeps it.                         *)
LEMMA WritersHoldStep ==
  ASSUME ~Stalls, Base, Renewed, WritersHold, Next
  PROVE  WritersHold'
<1> DEFINE Writer(a) == call[a].phase = "writing" /\ call[a].tool = "write_file"
           Key(f) == <<f, "canonical">>
<1>1. \A a \in Agents : Writer(a) => call[a].files \in SUBSET Files
  BY WriterTyped, CallsTyped DEF Base
<1>2. \A a \in Agents : Writer(a) => \A f \in call[a].files :
        /\ Key(f) \in Keys /\ lease[Key(f)].holder = a
        /\ lease[Key(f)] # Free /\ Live(lease[Key(f)])
  <2> SUFFICES ASSUME NEW a \in Agents, Writer(a), NEW f \in call[a].files
               PROVE  /\ Key(f) \in Keys /\ lease[Key(f)].holder = a
                      /\ lease[Key(f)] # Free /\ Live(lease[Key(f)])
    OBVIOUS
  <2>1. Key(f) \in Keys
    BY <1>1, KeysTyped
  <2>2. lease[Key(f)].holder = a
    BY DEF WritersHold
  <2>3. lease[Key(f)] # Free
    BY <2>2, LeasesTyped, LeasesAssumption
  <2> QED
    BY <2>1, <2>2, <2>3, HeldIsLive DEF Base
<1>3. ASSUME \A a \in Agents : Writer(a)' =>
               /\ Writer(a) /\ call'[a] = call[a]
               /\ \A k \in Keys : Live(lease[k]) /\ lease[k].holder = a =>
                                    lease'[k].holder = a
      PROVE  WritersHold'
  <2> SUFFICES ASSUME NEW a \in Agents, Writer(a)', NEW f \in call'[a].files
               PROVE  lease'[Key(f)].holder = a
    BY DEF WritersHold
  <2>1. Writer(a) /\ f \in call[a].files
    BY <1>3
  <2> QED
    BY <1>2, <1>3, <2>1
<1>4. ASSUME UNCHANGED call,
             \A k \in Keys : Live(lease[k]) => lease'[k].holder = lease[k].holder
      PROVE  WritersHold'
  BY <1>3, <1>4
<1>5. ASSUME NEW r \in Runs, Open(r) PROVE WritersHold'
  <2>1. \A k \in Keys : Live(lease[k]) => lease'[k] = lease[k]
    BY <1>5, TypesOfLeases, SweptTyped DEF Base, Open
  <2> QED
    BY <1>4, <1>5, <2>1 DEF Open
<1>6. ASSUME NEW r \in Runs, EndRun(r) PROVE WritersHold'
  <2> DEFINE mine == {a \in Agents : RunOf[a] = r}
  <2>1. \A k \in Keys : lease[k].holder \notin mine => lease'[k] = lease[k]
    BY <1>6, TypesOfLeases, WithoutTyped DEF Base, EndRun
  <2>2. /\ \A a \in mine : call'[a] = Doing("ended")
        /\ \A a \in Agents \ mine : call'[a] = call[a]
    BY <1>6 DEF EndRun
  <2>3. \A a \in Agents : Writer(a)' => a \in Agents \ mine
    BY <2>2, CallsTyped
  <2> HIDE DEF mine
  <2> QED
    BY <1>3, <2>1, <2>2, <2>3
<1>7. ASSUME NEW r \in Runs, Dispose(r) PROVE WritersHold'
  BY <1>4, <1>7 DEF Dispose
<1>8. ASSUME NEW r \in Runs, Renew(r) PROVE WritersHold'
  <2>1. \A k \in Keys : Live(lease[k]) => lease'[k].holder = lease[k].holder
    BY <1>8, RenewCases
  <2> QED
    BY <1>4, <1>8, <2>1 DEF Renew
<1>9. ASSUME NEW a \in Agents, Finish(a) \/ TimeOut(a) PROVE WritersHold'
  <2>1. /\ call' = [call EXCEPT ![a] = Doing("idle")]
        /\ lease' = lease
    BY <1>9 DEF Finish, TimeOut
  <2>2. call'[a].phase = "idle" /\ \A b \in Agents \ {a} : call'[b] = call[b]
    BY <2>1, CallTyped, CallsTyped DEF Base
  <2> QED
    BY <1>3, <2>1, <2>2
<1>10. ASSUME NEW a \in Agents, EndTask(a) PROVE WritersHold'
  <2>1. \A k \in Keys : lease[k].holder # a => lease'[k] = lease[k]
    BY <1>10, TypesOfLeases, WithoutTyped DEF Base, EndTask
  <2>2. call'[a].phase = "ended" /\ \A b \in Agents \ {a} : call'[b] = call[b]
    BY <1>10, CallTyped, CallsTyped DEF Base, EndTask
  <2> QED
    BY <1>3, <2>1, <2>2
<1>11. ASSUME NEW a \in Agents, NEW fs \in SUBSET Files, NEW tool \in Tools,
              Start(a, tool, fs)
       PROVE  WritersHold'
  <2>1. CASE /\ call' = call
             /\ \A k \in Keys : Live(lease[k]) => lease'[k] = lease[k]
    BY <1>4, <2>1
  <2>2. CASE /\ call'[a].phase = "writing"
             /\ call'[a].tool = tool /\ call'[a].files = fs
             /\ call' = [call EXCEPT ![a] = call'[a]]
             /\ \A k \in KeysFor(tool, fs) :
                  /\ lease'[k] = [holder |-> a, age |-> 0]
                  /\ ~Live(lease[k]) \/ lease[k].holder = a
             /\ \A k \in Keys \ KeysFor(tool, fs) :
                  Live(lease[k]) => lease'[k] = lease[k]
    <3>1. \A b \in Agents \ {a} : call'[b] = call[b]
      BY <2>2 DEF Base, TypeOK
    <3>2. \A k \in Keys, b \in Agents \ {a} :
            Live(lease[k]) /\ lease[k].holder = b => lease'[k] = lease[k]
      BY <2>2
    <3>3. tool = "write_file" => \A f \in fs : Key(f) \in KeysFor(tool, fs)
      BY DEF KeysFor
    <3>4. tool = "write_file" => \A f \in fs : lease'[Key(f)].holder = a
      <4>1. \A k \in KeysFor(tool, fs) : lease'[k].holder = a
        BY <2>2
      <4> QED
        BY <3>3, <4>1
    <3>5. ASSUME NEW b \in Agents \ {a}, Writer(b)', NEW f \in call'[b].files
          PROVE  lease'[Key(f)].holder = b
      BY <1>2, <3>1, <3>2, <3>5
    <3> QED
      BY <2>2, <3>4, <3>5 DEF WritersHold
  <2> QED
    BY <1>11, <2>1, <2>2, StartCases
<1>12. ASSUME NEW a \in Agents, NEW fs \in SUBSET Files, Compensate(a, fs)
       PROVE  WritersHold'
  <2>1. \A k \in Keys : Live(lease[k]) /\ lease[k].holder # a => lease'[k] = lease[k]
    BY <1>12, CompensateCases
  <2>2. ~Writer(a) /\ ~Writer(a)' /\ \A b \in Agents \ {a} : call'[b] = call[b]
    <3>1. call[a].phase = "ended"
      BY <1>12 DEF Compensate
    <3>2. call' = call \/ call' = [call EXCEPT ![a] = Doing("idle")]
      BY <1>12, CompensateCases
    <3> QED
      BY <3>1, <3>2, CallsTyped DEF Base, TypeOK
  <2> QED
    BY <1>3, <2>1, <2>2
<1>13. ASSUME LateFinish PROVE WritersHold'
  BY <1>4, <1>13 DEF LateFinish
<1>14. ASSUME Tick PROVE WritersHold'
  BY <1>4, <1>14, TickCases DEF Tick
<1> QED
  BY <1>5, <1>6, <1>7, <1>8, <1>9, <1>10, <1>11, <1>12, <1>13, <1>14 DEF Next

-----------------------------------------------------------------------------
LEMMA BaseAlways == Spec => []Base
<1>1. Init => Base
  BY InitBase
<1> QED
  BY <1>1, BaseStep, PTL DEF Spec

(* However long the process is suspended and however its tasks ended, a run *)
(* that is disposed of holds no resource of the project (leases.cjs,        *)
(* dispose(), which itself only stops the timer).                           *)
THEOREM RunsReturnTheirLeases == Spec => []NothingLeftLocked
<1>1. Base => NothingLeftLocked
  BY DEF Base, HoldersAtWork, NothingLeftLocked
<1> QED
  BY <1>1, BaseAlways, PTL

LEMMA InvAlways ==
  ASSUME ~Stalls
  PROVE  Spec => []Inv
<1>1. Init => Inv
  BY InitBase DEF Inv
<1>2. Inv /\ [Next]_vars => Inv'
  <2> SUFFICES ASSUME Inv, [Next]_vars PROVE Inv'
    OBVIOUS
  <2>1. CASE Next
    BY <2>1, BaseStep, RenewedStep, WritersHoldStep DEF Inv
  <2>2. CASE UNCHANGED vars
    <3>1. Base'
      BY BaseStep DEF Inv
    <3>2. Renewed' /\ WritersHold'
      BY <2>2 DEF Inv, Renewed, WritersHold, vars
    <3> QED
      BY <3>1, <3>2 DEF Inv
  <2> QED
    BY <2>1, <2>2
<1> QED
  BY <1>1, <1>2, PTL DEF Spec

(* Who holds a file of a call is found by HeldBy.                           *)
LEMMA WriterIsHolder ==
  ASSUME Inv, NEW a \in Agents, call[a].phase = "writing",
         call[a].tool = "write_file", NEW f \in call[a].files
  PROVE  f \in Files /\ HeldBy(f, a) /\ lease[<<f, "canonical">>].holder = a
<1>1. f \in Files /\ <<f, "canonical">> \in Keys
  BY WriterTyped, CallsTyped, KeysTyped DEF Inv, Base
<1>2. lease[<<f, "canonical">>].holder = a
  BY DEF Inv, WritersHold
<1>3. lease[<<f, "canonical">>] # Free
  BY <1>2, LeasesTyped, LeasesAssumption
<1> QED
  BY <1>1, <1>2, <1>3, HeldIsLive DEF Inv, Base, HeldBy

(* If the timers of the scopes fire in time, a file is held from the claim  *)
(* to the last write of a call, across confirmations of any length, and not *)
(* after the run.                                                           *)
THEOREM FilesAreHeldWhileNeeded ==
  ASSUME ~Stalls
  PROVE  Spec => []HeldWhileNeeded
<1>1. Inv => HeldWhileNeeded
  <2> SUFFICES ASSUME Inv PROVE HeldWhileNeeded
    OBVIOUS
  <2>1. WritersHoldTheirFile
    BY WriterIsHolder DEF WritersHoldTheirFile
  <2>2. TypeOK /\ NothingLeftLocked
    BY DEF Inv, Base, HoldersAtWork, NothingLeftLocked
  <2> QED
    BY <2>1, <2>2 DEF HeldWhileNeeded
<1> QED
  BY <1>1, InvAlways, PTL

(* Whoever changes a file that another agent holds is one that asked for no *)
(* lease of it: bulk_edit, or the compensation of a task that is over for a *)
(* file behind a link (leases.cjs:64, subagents.cjs:1598).  Everybody else, *)
(* of any run, is the one writer that leases.cjs:6 asks for.                *)
THEOREM OneWriterAtATime ==
  ASSUME ~Stalls
  PROVE  Spec => OneWriter
<1> DEFINE Own == \A f \in Files : Changed(f) /\ late' = late =>
                     \A a \in Agents : HeldBy(f, a) =>
                       \/ content'[f].by = a
                       \/ Unleased(content'[f].by, f)
<1>1. Inv /\ [Next]_vars => [Own]_vars
  <2> SUFFICES ASSUME Inv, Next,
                      NEW f \in Files, Changed(f), late' = late,
                      NEW b \in Agents, HeldBy(f, b)
               PROVE  content'[f].by = b \/ Unleased(content'[f].by, f)
    OBVIOUS
  <2> DEFINE key == <<f, "canonical">>
  <2>1. lease[key].holder = b /\ Live(lease[key]) /\ key \in Keys
    BY KeysTyped DEF HeldBy
  <2>2. ASSUME NEW a \in Agents, Finish(a)
        PROVE  content'[f].by = b \/ Unleased(content'[f].by, f)
    <3>1. call[a] \in Writing /\ call[a].phase = "writing"
      BY <2>2, WriterTyped DEF Finish, Inv, Base
    <3>2. content' = After(a, call[a])
      BY <2>2 DEF Finish, Changed
    <3>3. f \in call[a].files /\ content'[f] = [by |-> a, old |-> FALSE]
      BY <3>2 DEF After, Changed
    <3>4. CASE call[a].tool = "bulk_edit"
      BY <3>3, <3>4 DEF Unleased
    <3>5. CASE call[a].tool = "write_file"
      BY <2>1, <3>1, <3>3, <3>5, WriterIsHolder
    <3> QED
      BY <3>1, <3>4, <3>5, CallsTyped, LeasesAssumption
  <2>3. ASSUME NEW a \in Agents, NEW fs \in SUBSET Files, Compensate(a, fs)
        PROVE  content'[f].by = b \/ Unleased(content'[f].by, f)
    <3>1. /\ f \in fs /\ content'[f] = [by |-> a, old |-> TRUE]
          /\ ~Conflict(CompensationKeys(fs), a)
      BY <2>3, CompensateCases DEF Inv, Changed
    <3>2. CASE f \in Linked
      BY <2>3, <3>1, <3>2 DEF Compensate, Unleased
    <3>3. CASE f \notin Linked
      <4>1. key \in CompensationKeys(fs)
        BY <3>1, <3>3 DEF CompensationKeys
      <4>2. lease[key].holder = a
        BY <2>1, <3>1, <4>1 DEF Conflict
      <4> QED
        BY <2>1, <3>1, <4>2
    <3> QED
      BY <3>2, <3>3
  <2>4. ~LateFinish
    BY DEF LateFinish
  <2>5. content' # content
    BY DEF Changed
  <2> QED
    BY <2>2, <2>3, <2>4, <2>5
       DEF Next, Open, EndRun, Dispose, Renew, TimeOut, EndTask, Start, Tick
<1> QED
  BY <1>1, InvAlways, PTL DEF Spec, OneWriter

(* Whatever happens to the leases, an edit under the version check never    *)
(* wipes out a version its own call has not seen, not even when the call    *)
(* outlived its timeout (tools/registry.cjs, the second check).             *)
THEOREM EditsOverwriteWhatTheySaw == Spec => OverwritesWhatItSaw
<1> DEFINE Under == {<<a, call[a]>> : a \in Agents} \cup late
           Saw(l, f) == /\ l[1] = content'[f].by
                        /\ f \in l[2].files
                        /\ l[2].tool = "bulk_edit" \/ l[2].seen[f] = content[f]
           Seen == \A f \in Files : Changed(f) /\ ~content'[f].old =>
                     \E l \in Under : Saw(l, f)
<1>1. Base /\ [Next]_vars => [Seen]_vars
  <2> SUFFICES ASSUME Base, Next, NEW f \in Files, Changed(f), ~content'[f].old
               PROVE  \E l \in Under : Saw(l, f)
    OBVIOUS
  <2>1. ASSUME NEW a \in Agents, NEW c \in Writing, <<a, c>> \in Under,
               content' = After(a, c)
        PROVE  \E l \in Under : Saw(l, f)
    <3>1. f \in c.files /\ content'[f] = [by |-> a, old |-> FALSE]
      BY <2>1 DEF After, Changed
    <3>2. c.tool \in {"write_file", "bulk_edit"}
      BY CallsTyped, LeasesAssumption
    <3>3. c.tool = "write_file" => c.seen[f] = content[f]
      BY <2>1, <3>1 DEF After, Changed
    <3>4. Saw(<<a, c>>, f)
      BY <3>1, <3>2, <3>3
    <3> QED
      BY <2>1, <3>4
  <2>2. ASSUME NEW a \in Agents, Finish(a)
        PROVE  \E l \in Under : Saw(l, f)
    <3>1. call[a] \in Writing /\ <<a, call[a]>> \in Under
      BY <2>2, WriterTyped DEF Finish, Base
    <3>2. content' = After(a, call[a])
      BY <2>2 DEF Finish, Changed
    <3> HIDE DEF Under, Saw
    <3> QED
      BY <2>1, <3>1, <3>2
  <2>3. ASSUME LateFinish
        PROVE  \E l \in Under : Saw(l, f)
    <3>1. PICK l \in late : content' \in {content, After(l[1], l[2])}
      BY <2>3 DEF LateFinish
    <3>2. l[1] \in Agents /\ l[2] \in Writing /\ <<l[1], l[2]>> \in Under
      BY DEF Base, TypeOK
    <3>3. content' = After(l[1], l[2])
      BY <3>1 DEF Changed
    <3> HIDE DEF Under, Saw
    <3> QED
      BY <2>1, <3>2, <3>3
  <2>4. ASSUME NEW a \in Agents, NEW fs \in SUBSET Files, Compensate(a, fs)
        PROVE  FALSE
    <3>1. content'[f] = [by |-> a, old |-> TRUE]
      BY <2>4, CompensateCases DEF Changed
    <3> QED
      BY <3>1
  <2>5. content' # content
    BY DEF Changed
  <2> QED
    BY <2>2, <2>3, <2>4, <2>5
       DEF Next, Open, EndRun, Dispose, Renew, TimeOut, EndTask, Start, Tick
<1> QED
  BY <1>1, BaseAlways, PTL DEF Spec, OverwritesWhatItSaw

-----------------------------------------------------------------------------
(* The lock file names a call that is on its way to remove it, or whose     *)
(* process died, or that found it without its own name in it and left it.   *)
Explained(c) ==
  lock.by = c =>
    \/ pc[c] \in {"write", "load", "save", "check", "release", "dead"}
    \/ pc[c] = "done" /\ ~lock.written

FileBase == FileTypeOK /\ \A c \in Transactions : Explained(c)

(* A transaction under way owns the lock file and has read what the data    *)
(* still holds.                                                             *)
Owns(c) ==
  /\ pc[c] \in {"write", "load", "save", "release"} => lock.by = c
  /\ pc[c] = "save" => copy[c] = data

FileInv == FileBase /\ \A c \in Transactions : Owns(c)

Judging == {"stat", "owner", "unlink", "again"}

(* Nobody looks whether the lock of another is stale.                       *)
NoTakeover == \A c \in Transactions : pc[c] \notin Judging

LEMMA LockFileTyped ==
  /\ \A c \in Transactions :
       /\ New(c).by = c /\ ~New(c).written
       /\ New(c) \in [by : Transactions, written : BOOLEAN, old : BOOLEAN]
  /\ NoLock.by \notin Transactions
BY FileLockAssumption DEF New, NoLock, NoOwner

(* A step of one call changes its own pc alone.                             *)
LEMMA PcMoves ==
  ASSUME FileTypeOK, NEW c \in Transactions,
         NEW s \in Steps \cup {"idle", "locked", "done", "dead"},
         Goto(c, s)
  PROVE  /\ pc' \in [Transactions -> Steps \cup {"idle", "locked", "done", "dead"}]
         /\ pc'[c] = s
         /\ \A d \in Transactions \ {c} : pc'[d] = pc[d]
BY DEF FileTypeOK, Goto

LEMMA CreateKeepsFileBase ==
  ASSUME FileBase, NEW c \in Transactions,
         lock = NoLock, Create(c), UNCHANGED <<reclaims, alive, data, copy>>
  PROVE  FileBase' /\ pc'[c] \in {"write", "load"}
<1> DEFINE s == IF reclaims THEN "write" ELSE "load"
<1>1. lock' = New(c) /\ Goto(c, s)
  BY DEF Create
<1>2. s \in Steps
  BY DEF Steps, Critical
<1>3. /\ pc' \in [Transactions -> Steps \cup {"idle", "locked", "done", "dead"}]
      /\ pc'[c] = s
  BY <1>1, <1>2, PcMoves DEF FileBase
<1>4. FileTypeOK'
  BY <1>1, <1>3, LockFileTyped DEF FileBase, FileTypeOK
<1> QED
  BY <1>1, <1>3, <1>4, LockFileTyped DEF FileBase, Explained

(* A call moves on and the lock file stays, or is gone.                     *)
LEMMA MoveKeepsFileBase ==
  ASSUME FileBase, NEW c \in Transactions,
         NEW s \in Steps \cup {"idle", "locked", "done", "dead"},
         Goto(c, s), lock' \in {lock, NoLock},
         lock'.by = c => \/ s \in {"write", "load", "save", "check", "release", "dead"}
                         \/ s = "done" /\ ~lock.written,
         UNCHANGED <<reclaims, alive>>, data' \subseteq Transactions,
         copy' \in [Transactions -> SUBSET Transactions]
  PROVE  FileBase'
<1>1. /\ pc' \in [Transactions -> Steps \cup {"idle", "locked", "done", "dead"}]
      /\ pc'[c] = s
      /\ \A d \in Transactions \ {c} : pc'[d] = pc[d]
  BY PcMoves DEF FileBase
<1>2. FileTypeOK'
  BY <1>1 DEF FileBase, FileTypeOK
<1>3. ASSUME NEW d \in Transactions PROVE Explained(d)'
  <2>1. CASE d = c
    BY <1>1, <2>1, LockFileTyped DEF Explained
  <2>2. CASE d # c
    BY <1>1, <2>2, LockFileTyped DEF FileBase, Explained
  <2> QED
    BY <2>1, <2>2
<1> QED
  BY <1>2, <1>3 DEF FileBase

LEMMA StepKeepsFileBase ==
  ASSUME FileBase, [FileNext]_fileVars
  PROVE  FileBase'
<1> USE DEF Steps, Critical
<1> DEFINE All == Steps \cup {"idle", "locked", "done", "dead"}
<1>1. ASSUME NEW c \in Transactions, Begin(c) \/ Again(c) PROVE FileBase'
  <2>1. CASE lock = NoLock /\ Create(c)
    BY <1>1, <2>1, CreateKeepsFileBase DEF Begin, Again
  <2>2. CASE (Goto(c, "stat") \/ Goto(c, "locked")) /\ lock' = lock
    <3>1. pc[c] \in {"idle", "locked", "again"} /\ UNCHANGED <<reclaims, alive, data, copy>>
      BY <1>1 DEF Begin, Again, MayBegin
    <3>2. lock.by # c
      BY <3>1 DEF FileBase, Explained
    <3> QED
      BY <2>2, <3>1, <3>2, MoveKeepsFileBase DEF FileBase, FileTypeOK
  <2> QED
    BY <1>1, <2>1, <2>2 DEF Begin, Again
<1>2. ASSUME NEW c \in Transactions, Stat(c) \/ Owner(c) PROVE FileBase'
  <2>1. /\ Goto(c, "unlink") \/ Goto(c, "owner") \/ Goto(c, "locked")
        /\ pc[c] \in {"stat", "owner"} /\ UNCHANGED <<reclaims, lock, alive, data, copy>>
    BY <1>2 DEF Stat, Owner
  <2>2. lock.by # c
    BY <2>1 DEF FileBase, Explained
  <2> QED
    BY <2>1, <2>2, MoveKeepsFileBase DEF FileBase, FileTypeOK
<1>3. ASSUME NEW c \in Transactions, Unlink(c) \/ RemoveLock(c) PROVE FileBase'
  <2>1. /\ Goto(c, "again") \/ Goto(c, "done")
        /\ lock' = NoLock /\ UNCHANGED <<reclaims, alive, data, copy>>
    BY <1>3 DEF Unlink, RemoveLock
  <2> QED
    BY <2>1, LockFileTyped, MoveKeepsFileBase DEF FileBase, FileTypeOK
<1>4. ASSUME NEW c \in Transactions, Write(c) PROVE FileBase'
  <2>1. /\ pc[c] = "write" /\ Goto(c, "load")
        /\ lock' = [lock EXCEPT !.written = @ \/ lock.by = c]
        /\ UNCHANGED <<reclaims, alive, data, copy>>
    BY <1>4 DEF Write
  <2>2. /\ pc' \in [Transactions -> All] /\ pc'[c] = "load"
        /\ \A d \in Transactions \ {c} : pc'[d] = pc[d]
    BY <2>1, PcMoves DEF FileBase
  <2>3. /\ lock' \in [by : Transactions, written : BOOLEAN, old : BOOLEAN] \cup {NoLock}
        /\ lock'.by = lock.by
        /\ lock.by # c => lock'.written = lock.written
    <3>1. CASE lock = NoLock
      BY <2>1, <3>1, LockFileTyped DEF NoLock
    <3>2. CASE lock # NoLock
      BY <2>1, <3>2 DEF FileBase, FileTypeOK
    <3> QED
      BY <3>1, <3>2
  <2>4. FileTypeOK'
    BY <2>1, <2>2, <2>3 DEF FileBase, FileTypeOK
  <2> QED
    BY <2>2, <2>3, <2>4 DEF FileBase, Explained
<1>5. ASSUME NEW c \in Transactions, Load(c) \/ Save(c) \/ Fail(c)
      PROVE  FileBase'
  <2>1. /\ Goto(c, "save") \/ Goto(c, "check") \/ Goto(c, "release")
        /\ UNCHANGED <<reclaims, lock, alive>>
    BY <1>5 DEF Load, Save, Fail, Finally
  <2>2. data' \subseteq Transactions /\ copy' \in [Transactions -> SUBSET Transactions]
    BY <1>5 DEF FileBase, FileTypeOK, Load, Save, Fail
  <2> QED
    BY <2>1, <2>2, MoveKeepsFileBase
<1>6. ASSUME NEW c \in Transactions, Check(c) PROVE FileBase'
  <2>1. /\ \/ Goto(c, "release")
           \/ Goto(c, "done") /\ ~(lock.by = c /\ lock.written)
        /\ UNCHANGED <<reclaims, lock, alive, data, copy>>
    BY <1>6 DEF Check
  <2> QED
    BY <2>1, MoveKeepsFileBase DEF FileBase, FileTypeOK
<1>7. ASSUME NEW p \in Procs, Crash(p) PROVE FileBase'
  <2>1. FileTypeOK'
    BY <1>7 DEF FileBase, FileTypeOK, Crash
  <2>2. /\ lock' = lock
        /\ \A c \in Transactions : pc'[c] \in {pc[c], "dead"}
    BY <1>7 DEF Crash
  <2> QED
    BY <2>1, <2>2 DEF FileBase, Explained
<1>8. ASSUME Age PROVE FileBase'
  <2>1. /\ lock' = [lock EXCEPT !.old = TRUE] /\ lock # NoLock
        /\ UNCHANGED <<reclaims, alive, pc, data, copy>>
    BY <1>8 DEF Age
  <2>2. /\ lock' \in [by : Transactions, written : BOOLEAN, old : BOOLEAN]
        /\ lock'.by = lock.by /\ lock'.written = lock.written
    BY <2>1 DEF FileBase, FileTypeOK
  <2> QED
    BY <2>1, <2>2 DEF FileBase, FileTypeOK, Explained
<1>9. CASE UNCHANGED fileVars
  BY <1>9 DEF fileVars, FileBase, FileTypeOK, Explained
<1> QED
  BY <1>1, <1>2, <1>3, <1>4, <1>5, <1>6, <1>7, <1>8, <1>9 DEF FileNext, Step

(* With or without taking over: the lock file is there only as long as its  *)
(* transaction is under way, or because its process died, or because the    *)
(* call could not write its name into it (fileLock.cjs, finally).           *)
THEOREM LockFileIsAccountedFor == FileSpec => []LockAccounted
<1>1. FileInit => FileBase
  <2> SUFFICES ASSUME FileInit PROVE FileBase
    OBVIOUS
  <2>1. FileTypeOK
    BY DEF FileInit, FileTypeOK
  <2> QED
    BY <2>1, LockFileTyped DEF FileInit, FileBase, Explained
<1>2. FileBase => LockAccounted
  BY DEF FileBase, Explained, LockAccounted, NothingLeftBehind,
         InProgress, Steps, Critical
<1> QED
  BY <1>1, <1>2, StepKeepsFileBase, PTL DEF FileSpec

(* As long as nobody takes over a lock, whoever is inside owns it.          *)
LEMMA StepKeepsOwners ==
  ASSUME FileInv, NoTakeover, [FileNext]_fileVars
  PROVE  FileInv'
<1> DEFINE All == Steps \cup {"idle", "locked", "done", "dead"}
<1>0. FileBase'
  BY StepKeepsFileBase DEF FileInv
<1> SUFFICES \A d \in Transactions : Owns(d)'
  BY <1>0 DEF FileInv
<1>1. ASSUME NEW c \in Transactions, NEW s \in All, Goto(c, s)
      PROVE  pc'[c] = s /\ \A d \in Transactions \ {c} : pc'[d] = pc[d]
  BY <1>1, PcMoves DEF FileInv, FileBase
<1>a. \A s \in {"stat", "owner", "unlink", "again", "write", "load", "save",
                "check", "release", "locked", "done"} : s \in All
  BY DEF Steps, Critical
<1>2. ASSUME NEW c \in Transactions, Begin(c) \/ Again(c)
      PROVE  \A d \in Transactions : Owns(d)'
  <2>1. UNCHANGED <<reclaims, data, copy>>
    BY <1>2 DEF Begin, Again
  <2>2. CASE /\ lock = NoLock /\ lock' = New(c)
             /\ Goto(c, "write") \/ Goto(c, "load")
    BY <1>1, <1>a, <2>1, <2>2, LockFileTyped DEF FileInv, Owns
  <2>3. CASE lock' = lock /\ (Goto(c, "stat") \/ Goto(c, "locked"))
    BY <1>1, <1>a, <2>1, <2>3 DEF FileInv, Owns
  <2> QED
    BY <1>2, <2>2, <2>3 DEF Begin, Again, Create
<1>3. ASSUME NEW c \in Transactions, Stat(c) \/ Owner(c) \/ Check(c) \/ Fail(c)
      PROVE  \A d \in Transactions : Owns(d)'
  <2>1. /\ UNCHANGED <<reclaims, lock, data, copy>>
        /\ \/ Goto(c, "owner") \/ Goto(c, "unlink") \/ Goto(c, "locked")
           \/ Goto(c, "check") \/ Goto(c, "done")
           \/ Goto(c, "release") /\ (lock.by = c \/ Fail(c))
    BY <1>3 DEF Stat, Owner, Check, Fail, Finally
  <2>2. Fail(c) => lock.by = c
    BY DEF FileInv, Owns, Fail
  <2> QED
    BY <1>1, <1>a, <2>1, <2>2 DEF FileInv, Owns
<1>4. ASSUME NEW c \in Transactions, Unlink(c)
      PROVE  \A d \in Transactions : Owns(d)'
  BY <1>4 DEF NoTakeover, Judging, Unlink
<1>5. ASSUME NEW c \in Transactions, Write(c)
      PROVE  \A d \in Transactions : Owns(d)'
  <2>1. lock'.by = lock.by
    BY <1>5, LockFileTyped DEF FileInv, FileBase, FileTypeOK, Write, NoLock
  <2> QED
    BY <1>1, <1>5, <1>a, <2>1 DEF FileInv, Owns, Write
<1>6. ASSUME NEW c \in Transactions, Load(c)
      PROVE  \A d \in Transactions : Owns(d)'
  <2>1. copy' = [copy EXCEPT ![c] = data] /\ copy \in [Transactions -> SUBSET Transactions]
    BY <1>6 DEF FileInv, FileBase, FileTypeOK, Load
  <2> QED
    BY <1>1, <1>6, <1>a, <2>1 DEF FileInv, Owns, Load
<1>7. ASSUME NEW c \in Transactions, Save(c)
      PROVE  \A d \in Transactions : Owns(d)'
  <2>1. \A d \in Transactions : pc[d] = "save" => d = c
    BY <1>7 DEF FileInv, Owns, Save
  <2>2. /\ Goto(c, "check") \/ Goto(c, "release")
        /\ pc[c] = "save" /\ UNCHANGED <<reclaims, lock, copy>>
    BY <1>7 DEF Save, Finally
  <2> QED
    BY <1>1, <1>a, <2>1, <2>2 DEF FileInv, Owns
<1>8. ASSUME NEW c \in Transactions, RemoveLock(c)
      PROVE  \A d \in Transactions : Owns(d)'
  <2>1. \A d \in Transactions : pc[d] \in {"write", "load", "save", "release"} => d = c
    BY <1>8 DEF FileInv, Owns, RemoveLock
  <2> QED
    BY <1>1, <1>8, <1>a, <2>1 DEF FileInv, Owns, RemoveLock
<1>9. ASSUME NEW p \in Procs, Crash(p)
      PROVE  \A d \in Transactions : Owns(d)'
  BY <1>9 DEF FileInv, Owns, Crash
<1>10. ASSUME Age
       PROVE  \A d \in Transactions : Owns(d)'
  <2>1. lock'.by = lock.by
    BY <1>10 DEF FileInv, FileBase, FileTypeOK, Age
  <2> QED
    BY <1>10, <2>1 DEF FileInv, Owns, Age
<1>11. ASSUME UNCHANGED fileVars
       PROVE  \A d \in Transactions : Owns(d)'
  BY <1>11 DEF FileInv, Owns, fileVars
<1> QED
  BY <1>2, <1>3, <1>4, <1>5, <1>6, <1>7, <1>8, <1>9, <1>10, <1>11
     DEF FileNext, Step

LEMMA InitFileInv == FileInit => FileInv
<1> SUFFICES ASSUME FileInit PROVE FileInv
  OBVIOUS
<1>1. FileTypeOK
  BY DEF FileInit, FileTypeOK
<1> QED
  BY <1>1, LockFileTyped DEF FileInit, FileInv, FileBase, Explained, Owns

LEMMA OwnersExclude == FileInv => MutualExclusion
BY DEF FileInv, Owns, MutualExclusion, Critical

LEMMA OwnersKeepUpdates ==
  FileInv /\ [FileNext]_fileVars => [data \subseteq data']_fileVars
<1> SUFFICES ASSUME FileInv, FileNext PROVE data \subseteq data'
  BY DEF fileVars
<1>1. ASSUME NEW c \in Transactions, Save(c) PROVE data \subseteq data'
  BY <1>1 DEF Save, FileInv, Owns
<1>2. CASE UNCHANGED data
  BY <1>2
<1> QED
  BY <1>1, <1>2
     DEF FileNext, Step, Begin, Stat, Owner, Unlink, Again, Write, Load,
         Fail, Check, RemoveLock, Crash, Age

LEMMA OneKindOfLock == [FileNext]_fileVars => reclaims' = reclaims
BY DEF FileNext, fileVars, Step, Begin, Stat, Owner, Unlink, Again, Write, Load,
       Save, Fail, Check, RemoveLock, Crash, Age

(* The lock of the goal store is not taken over.                            *)
LEMMA NothingIsTakenOver ==
  FileSpec => [](~reclaims => FileInv /\ NoTakeover)
<1>1. FileInit => NoTakeover
  BY DEF FileInit, NoTakeover, Judging
<1>2. ASSUME ~reclaims, FileInv, NoTakeover, [FileNext]_fileVars
      PROVE  NoTakeover'
  <2>1. ASSUME NEW c \in Transactions, Step(c) \/ Fail(c)
        PROVE  \E s \in {"locked", "load", "save", "release", "done", "check"} :
                 Goto(c, s)
    BY <1>2, <2>1
       DEF NoTakeover, Judging, Step, Begin, Create, Stat, Owner, Unlink, Again,
           Write, Load, Save, Finally, Check, RemoveLock, Fail
  <2>2. ASSUME NEW c \in Transactions, Step(c) \/ Fail(c) PROVE NoTakeover'
    BY <1>2, <2>1, <2>2, PcMoves
       DEF NoTakeover, Judging, Steps, Critical, FileInv, FileBase
  <2> QED
    BY <1>2, <2>2 DEF NoTakeover, Judging, FileNext, Crash, Age, fileVars
<1>3. (~reclaims => FileInv /\ NoTakeover) /\ [FileNext]_fileVars
        => (~reclaims => FileInv /\ NoTakeover)'
  BY <1>2, StepKeepsOwners, OneKindOfLock
<1> QED
  BY <1>1, <1>3, InitFileInv, PTL DEF FileSpec

(* The goal store: at most one transaction at a time reads and replaces the *)
(* file, for any number of calls, crashes and failures.                     *)
THEOREM GoalLockExcludes == FileSpec => []GoalsExclude
BY NothingIsTakenOver, OwnersExclude, PTL DEF GoalsExclude

(* ... and no update of the goals is lost.                                  *)
THEOREM GoalUpdatesStay == FileSpec => NoGoalLost
<1>1. (~reclaims => FileInv /\ NoTakeover) /\ [FileNext]_fileVars
        => [~reclaims => data \subseteq data']_fileVars
  BY OwnersKeepUpdates
<1> QED
  BY <1>1, NothingIsTakenOver, PTL DEF FileSpec, NoGoalLost

==============================================================================
