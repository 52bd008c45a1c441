------------------------------ MODULE UndoProofs ------------------------------
(***************************************************************************)
(* What compensation and rollback leave alone of what somebody else wrote  *)
(* later, and that they never claim more than they did, for any files,     *)
(* operations, edits and crashes.                                          *)
(***************************************************************************)
EXTENDS Undo, WellFoundedInduction, TLAPS

(* A tool that may still write is in doubt for the journal, and a file that *)
(* an operation has touched has a first and a last version in the records.  *)
PhasesOk ==
  \A o \in Ops :
    /\ pc[o] \in {"begun", "wrote"} => phase[o] \in {"pending", "unknown"}
    /\ pc[o] = "idle" => phase[o] = "none" /\ rpost[o] = "none"

RecordsOk ==
  /\ \A o \in Ops : phase[o] # "none" => before[FileOf[o]] # "none"
  /\ \A f \in Files : before[f] = "none" <=> post[f] = "none"
  /\ \A i \in DOMAIN order : image[FileOf[order[i]]] # "none"
  /\ \A o \in Ops : phase[o] = "pending" \/ rpost[o] # "none"
                     => \E i \in DOMAIN order : order[i] = o

(* Files are put back only for an attempt that has ended, with no tool left.*)
EndedOk ==
  /\ approved.ok => attempt # "running"
  /\ comp.phase # "none" => attempt # "running" /\ \A o \in Ops : pc[o] \notin {"begun", "wrote"}

(* An edited file does not look like what the run has left of it, unless    *)
(* that is what it was before.                                              *)
LaterOk ==
  \A f \in later :
    /\ file[f] = post[f] => post[f] = before[f]
    /\ PostOf(f) # "none" /\ file[f] = PostOf(f) => PostOf(f) = image[f]

(* What a compensation has still to put back looks as the attempt left it,  *)
(* and the rest is back.                                                    *)
CompOk ==
  comp.busy =>
    /\ ~rollback.busy /\ comp.phase # "none"
    /\ \A f \in comp.todo : f \in Touched /\ comp.current[f] = post[f] /\ before[f] # post[f]
    /\ \A f \in Touched : f \in comp.todo \/ f \in later \/ file[f] = before[f]

RollOk ==
  rollback.busy =>
    /\ rollback.todo \subseteq Paths
    /\ ~rollback.refused =>
         \A f \in Paths : f \in rollback.todo \/ f \in rollback.disturbed \/ file[f] = image[f]
    /\ ~rollback.force =>
         \A f \in rollback.todo \cap later :
           f \in rollback.disturbed \/ PostOf(f) = "none" \/ file[f] = image[f]

IInv == TypeOK /\ PhasesOk /\ RecordsOk /\ EndedOk /\ LaterOk /\ CompOk /\ RollOk

-----------------------------------------------------------------------------
(* postStateDigest of the last record that has one.                         *)

At(f) == {i \in DOMAIN order : FileOf[order[i]] = f /\ rpost[order[i]] # "none"}
LastAt(f) == CHOOSE i \in At(f) : \A j \in At(f) : j <= i

(* A non-empty set of naturals has a least element.                         *)
LEMMA LeastNat ==
  ASSUME NEW S \in SUBSET Nat, S # {}
  PROVE  \E x \in S : \A y \in S : x <= y
<1>1. PICK x \in S : \A y \in S : ~(<<y, x>> \in OpToRel(<, Nat))
  BY NatLessThanWellFounded, WFMin, Zenon
<1>2. \A y \in S : ~(y < x)
  BY <1>1 DEF OpToRel
<1>3. QED BY <1>2

LEMMA PostOfLaw ==
  ASSUME order \in Seq(Ops), NEW f
  PROVE  /\ At(f) = {} => PostOf(f) = "none"
         /\ At(f) # {} => LastAt(f) \in At(f) /\ PostOf(f) = rpost[order[LastAt(f)]]
                          /\ PostOf(f) # "none"
<1>1. PostOf(f) = IF At(f) = {} THEN "none" ELSE rpost[order[LastAt(f)]]
  BY DEF PostOf, At, LastAt
<1>2. ASSUME At(f) # {} PROVE LastAt(f) \in At(f)
  <2> DEFINE n == Len(order)
             S == {n - i : i \in At(f)}
  <2>1. n \in Nat /\ At(f) \subseteq 1..n
    BY DEF At
  <2>2. S \in SUBSET Nat /\ S # {}
    BY <1>2, <2>1
  <2>3. PICK m \in S : \A k \in S : m <= k
    <3> HIDE DEF S
    <3>1. QED BY <2>2, LeastNat
  <2>4. PICK i \in At(f) : m = n - i
    BY <2>3
  <2>5. \A j \in At(f) : j <= i
    <3> SUFFICES ASSUME NEW j \in At(f) PROVE j <= i
      OBVIOUS
    <3>1. m <= n - j
      BY <2>3
    <3>2. QED BY <2>1, <2>4, <3>1
  <2>6. QED BY <2>4, <2>5 DEF LastAt
<1>3. At(f) # {} => rpost[order[LastAt(f)]] # "none"
  BY <1>2 DEF At
<1>4. QED BY <1>1, <1>2, <1>3

LEMMA PostOfKept ==
  ASSUME order \in Seq(Ops), NEW f, At(f)' = At(f),
         \A i \in At(f) : order'[i] = order[i] /\ rpost'[order[i]] = rpost[order[i]]
  PROVE  PostOf(f)' = PostOf(f)
<1>1. LastAt(f)' = LastAt(f)
  BY DEF LastAt
<1>2. PostOf(f)' = IF At(f)' = {} THEN "none" ELSE rpost'[order'[LastAt(f)']]
  BY DEF PostOf, At, LastAt
<1>3. PostOf(f) = IF At(f) = {} THEN "none" ELSE rpost[order[LastAt(f)]]
  BY DEF PostOf, At, LastAt
<1>4. CASE At(f) = {}
  BY <1>2, <1>3, <1>4
<1>5. CASE At(f) # {}
  <2>1. LastAt(f) \in At(f)
    BY <1>5, PostOfLaw
  <2>2. QED BY <1>1, <1>2, <1>3, <1>5, <2>1
<1>6. QED BY <1>4, <1>5

LEMMA PostOfSame ==
  ASSUME UNCHANGED <<order, rpost>>, NEW f
  PROVE  PostOf(f)' = PostOf(f)
BY DEF PostOf

(* A digest of the ledger is one of an operation on the file.               *)
LEMMA PostOfUsed ==
  ASSUME TypeOK, NEW f, PostOf(f) # "none"
  PROVE  \E i \in DOMAIN order : /\ order[i] \in Ops /\ FileOf[order[i]] = f
                                 /\ rpost[order[i]] = PostOf(f)
<1>1. order \in Seq(Ops)
  BY DEF TypeOK
<1>2. LastAt(f) \in At(f) /\ PostOf(f) = rpost[order[LastAt(f)]]
  BY <1>1, PostOfLaw
<1>3. QED BY <1>1, <1>2 DEF At

LEMMA NothingCommitted ==
  ASSUME TypeOK, RecordsOk, NEW f \in Files, PostOf(f) = "none"
  PROVE  \A o \in Ops : FileOf[o] = f => rpost[o] = "none"
<1>1. order \in Seq(Ops) /\ At(f) = {}
  BY PostOfLaw DEF TypeOK
<1>2. QED BY <1>1 DEF RecordsOk, At

LEMMA UsedHas ==
  ASSUME TypeOK, NEW v, v \notin Used
  PROVE  /\ \A f \in Files : v # file[f] /\ v # post[f]
         /\ \A o \in Ops : v # rpost[o]
<1>1. \A f \in Files : file[f] \in Range(file) /\ post[f] \in Range(post)
  BY DEF TypeOK, Range
<1>2. \A o \in Ops : rpost[o] \in Range(rpost)
  BY DEF TypeOK, Range
<1>3. Range(file) \subseteq Used /\ Range(post) \subseteq Used /\ Range(rpost) \subseteq Used
  BY DEF Used
<1>4. QED BY <1>1, <1>2, <1>3

-----------------------------------------------------------------------------
LEMMA InitGood == Init => IInv
<1> SUFFICES ASSUME Init PROVE IInv
  OBVIOUS
<1>1. [f \in Files |-> "none"] \in [Files -> Known] /\ [o \in Ops |-> "none"] \in [Ops -> Known]
  BY DEF Known
<1>2. TypeOK
  <2>1. approved \in [ok : BOOLEAN, items : [Files -> Known], applied : SUBSET Files,
                      comp : {"none", "prepared", "needs_review", "completed"}]
    BY <1>1 DEF Init
  <2>2. comp \in [busy : BOOLEAN, phase : {"none", "prepared", "needs_review", "completed"},
                  todo : SUBSET Files, applied : SUBSET Files, current : [Files -> Known]]
    BY <1>1 DEF Init, NoComp
  <2>3. rollback \in [busy : BOOLEAN, todo : SUBSET Files, force : BOOLEAN, refused : BOOLEAN,
                      disturbed : SUBSET Files, ok : BOOLEAN]
    BY DEF Init, NoRollback
  <2>4. file \in [Files -> Contents] /\ order \in Seq(Ops)
    BY DEF Init, Contents
  <2>5. /\ before \in [Files -> Known] /\ post \in [Files -> Known] /\ image \in [Files -> Known]
        /\ seen \in [Ops -> Known] /\ rpost \in [Ops -> Known]
    BY <1>1 DEF Init
  <2>6. QED BY <2>1, <2>2, <2>3, <2>4, <2>5, UndoAssumption DEF Init, TypeOK
<1>3. PhasesOk /\ EndedOk
  BY DEF Init, PhasesOk, EndedOk, NoComp
<1>4. RecordsOk
  BY UndoAssumption DEF Init, RecordsOk
<1>5. LaterOk /\ CompOk /\ RollOk
  BY DEF Init, LaterOk, CompOk, RollOk, NoComp, NoRollback
<1>6. QED BY <1>2, <1>3, <1>4, <1>5 DEF IInv

-----------------------------------------------------------------------------
(* The tools of the attempt: nothing is being put back meanwhile.           *)

LEMMA NothingPutBack ==
  ASSUME Idle, UNCHANGED undo
  PROVE  CompOk' /\ RollOk'
BY DEF Idle, undo, CompOk, RollOk

(* The first version of a file is recorded in both maps of the journal.     *)
LEMMA FirstTimeGood ==
  ASSUME TypeOK, NEW map \in [Files -> Known], NEW g \in Files
  PROVE  /\ FirstTime(map, g) \in [Files -> Known]
         /\ FirstTime(map, g)[g] # "none"
         /\ \A f \in Files : map[f] # "none" \/ f # g => FirstTime(map, g)[f] = map[f]
         /\ map[g] = "none" => FirstTime(map, g)[g] = file[g]
<1>1. file[g] \in Known /\ file[g] # "none"
  BY UndoAssumption DEF TypeOK, Known, Contents
<1>2. QED BY <1>1 DEF FirstTime

LEMMA ToolGood ==
  ASSUME IInv, NEW o \in Ops, Tool(o)
  PROVE  /\ before' \in [Files -> Known] /\ post' \in [Files -> Known]
         /\ before'[FileOf[o]] # "none"
         /\ \A f \in Files : before[f] # "none" => before'[f] = before[f] /\ post'[f] = post[f]
         /\ \A f \in Files : before'[f] = "none" <=> post'[f] = "none"
         /\ \A f \in Files : before[f] = "none" => before'[f] = post'[f]
<1>1. FileOf[o] \in Files
  BY UndoAssumption
<1> DEFINE g == FileOf[o]
<1> HIDE DEF g
<1>2. g \in Files /\ before' = FirstTime(before, g) /\ post' = FirstTime(post, g)
  BY <1>1 DEF Tool, g
<1>3. before \in [Files -> Known] /\ post \in [Files -> Known]
      /\ \A f \in Files : before[f] = "none" <=> post[f] = "none"
  BY DEF IInv, TypeOK, RecordsOk
<1>4. /\ before' \in [Files -> Known] /\ before'[g] # "none"
      /\ \A f \in Files : before[f] # "none" \/ f # g => before'[f] = before[f]
      /\ before[g] = "none" => before'[g] = file[g]
  BY <1>2, <1>3, FirstTimeGood DEF IInv
<1>5. /\ post' \in [Files -> Known] /\ post'[g] # "none"
      /\ \A f \in Files : post[f] # "none" \/ f # g => post'[f] = post[f]
      /\ post[g] = "none" => post'[g] = file[g]
  BY <1>2, <1>3, FirstTimeGood DEF IInv
<1>6. ASSUME NEW f \in Files
      PROVE  /\ before[f] # "none" => before'[f] = before[f] /\ post'[f] = post[f]
             /\ before'[f] = "none" <=> post'[f] = "none"
             /\ before[f] = "none" => before'[f] = post'[f]
  <2>1. CASE f = g
    BY <1>2, <1>3, <1>4, <1>5, <2>1
  <2>2. CASE f # g
    BY <1>3, <1>4, <1>5, <2>2
  <2>3. QED BY <2>1, <2>2
<1>7. QED BY <1>2, <1>4, <1>5, <1>6 DEF g

LEMMA BeginGood == \A o \in Ops : IInv /\ Begin(o) => IInv'
<1> SUFFICES ASSUME IInv, NEW o \in Ops, Begin(o) PROVE IInv'
  OBVIOUS
<1> DEFINE g == FileOf[o]
<1>1. /\ attempt = "running" /\ Idle /\ pc[o] = "idle" /\ Tool(o)
      /\ phase' = [phase EXCEPT ![o] = "pending"] /\ pc' = [pc EXCEPT ![o] = "begun"]
      /\ seen' = [seen EXCEPT ![o] = file[g]] /\ image' = FirstTime(image, g)
      /\ order' = Append(order, o)
      /\ UNCHANGED <<file, attempt, rpost, undo, later, bounds>>
  BY DEF Begin, Tool
<1>2. g \in Files /\ file[g] \in Known
  BY UndoAssumption DEF IInv, TypeOK, Known
<1> HIDE DEF g
<1>3. /\ before' \in [Files -> Known] /\ post' \in [Files -> Known] /\ before'[g] # "none"
      /\ \A f \in Files : before[f] # "none" => before'[f] = before[f] /\ post'[f] = post[f]
      /\ \A f \in Files : before'[f] = "none" <=> post'[f] = "none"
      /\ \A f \in Files : before[f] = "none" => before'[f] = post'[f]
  BY <1>1, ToolGood DEF g
<1>4. /\ image' \in [Files -> Known] /\ image'[g] # "none"
      /\ \A f \in Files : image[f] # "none" \/ f # g => image'[f] = image[f]
  <2>1. TypeOK
    BY DEF IInv
  <2>2. image \in [Files -> Known]
    BY <2>1 DEF TypeOK
  <2>3. QED BY <1>1, <1>2, <2>1, <2>2, FirstTimeGood
<1>5. order \in Seq(Ops) /\ order' \in Seq(Ops) /\ Len(order') = Len(order) + 1
      /\ order'[Len(order) + 1] = o /\ \A i \in DOMAIN order : order'[i] = order[i]
  BY <1>1 DEF IInv, TypeOK
<1>6. DOMAIN order = 1..Len(order) /\ DOMAIN order' = 1..(Len(order) + 1) /\ Len(order) \in Nat
  BY <1>5
<1>7. phase[o] = "none" /\ rpost[o] = "none"
  BY <1>1 DEF IInv, PhasesOk
<1>8. \A p \in Ops : p # o => phase'[p] = phase[p] /\ pc'[p] = pc[p]
  BY <1>1 DEF IInv, TypeOK
<1>9. phase'[o] = "pending" /\ pc'[o] = "begun"
  BY <1>1 DEF IInv, TypeOK
<1>10. TypeOK'
  BY <1>1, <1>2, <1>3, <1>4, <1>5 DEF IInv, TypeOK, undo, bounds
<1>11. PhasesOk'
  BY <1>1, <1>8, <1>9 DEF IInv, PhasesOk
<1>12. RecordsOk'
  <2>1. \A p \in Ops : phase'[p] # "none" => before'[FileOf[p]] # "none"
    <3> SUFFICES ASSUME NEW p \in Ops, phase'[p] # "none" PROVE before'[FileOf[p]] # "none"
      OBVIOUS
    <3>1. CASE p = o
      BY <1>3, <3>1 DEF g
    <3>2. CASE p # o
      <4>1. FileOf[p] \in Files /\ before[FileOf[p]] # "none"
        BY <1>8, <3>2, UndoAssumption DEF IInv, RecordsOk
      <4>2. QED BY <1>3, <4>1
    <3>3. QED BY <3>1, <3>2
  <2>2. \A i \in DOMAIN order' : image'[FileOf[order'[i]]] # "none"
    <3> SUFFICES ASSUME NEW i \in DOMAIN order' PROVE image'[FileOf[order'[i]]] # "none"
      OBVIOUS
    <3>1. CASE i = Len(order) + 1
      BY <1>4, <1>5, <3>1 DEF g
    <3>2. CASE i # Len(order) + 1
      <4>1. i \in DOMAIN order /\ order'[i] = order[i] /\ order[i] \in Ops
        BY <1>5, <1>6, <3>2
      <4>2. FileOf[order[i]] \in Files /\ image[FileOf[order[i]]] # "none"
        BY <4>1, UndoAssumption DEF IInv, RecordsOk
      <4>3. QED BY <1>4, <4>1, <4>2
    <3>3. QED BY <3>1, <3>2
  <2>3. \A p \in Ops : phase'[p] = "pending" \/ rpost'[p] # "none"
                          => \E i \in DOMAIN order' : order'[i] = p
    <3> SUFFICES ASSUME NEW p \in Ops, phase'[p] = "pending" \/ rpost'[p] # "none"
                 PROVE  \E i \in DOMAIN order' : order'[i] = p
      OBVIOUS
    <3>1. CASE p = o
      BY <1>5, <1>6, <3>1
    <3>2. CASE p # o
      <4>1. PICK i \in DOMAIN order : order[i] = p
        BY <1>1, <1>8, <3>2 DEF IInv, RecordsOk
      <4>2. i \in DOMAIN order' /\ order'[i] = p
        BY <1>5, <1>6, <4>1
      <4>3. QED BY <4>2
    <3>3. QED BY <3>1, <3>2
  <2>4. QED BY <1>3, <2>1, <2>2, <2>3 DEF RecordsOk
<1>13. EndedOk'
  <2>1. comp.phase = "none" /\ ~approved.ok
    BY <1>1 DEF IInv, EndedOk
  <2>2. QED BY <1>1, <2>1 DEF EndedOk, undo
<1>14. LaterOk'
  <2> SUFFICES ASSUME NEW f \in later
               PROVE  /\ file[f] = post'[f] => post'[f] = before'[f]
                      /\ PostOf(f)' # "none" /\ file[f] = PostOf(f)' => PostOf(f)' = image'[f]
    BY <1>1 DEF LaterOk
  <2>1. f \in Files /\ (file[f] = post[f] => post[f] = before[f])
        /\ (PostOf(f) # "none" /\ file[f] = PostOf(f) => PostOf(f) = image[f])
    BY DEF IInv, LaterOk, TypeOK
  <2>2. file[f] = post'[f] => post'[f] = before'[f]
    <3>1. CASE before[f] = "none"
      BY <1>3, <2>1, <3>1
    <3>2. CASE before[f] # "none"
      BY <1>3, <2>1, <3>2
    <3>3. QED BY <3>1, <3>2
  <2>3. At(f)' = At(f)
    <3>1. \A i \in DOMAIN order' : i \in At(f)' => i \in At(f)
      <4> SUFFICES ASSUME NEW i \in DOMAIN order', i \in At(f)' PROVE i \in At(f)
        OBVIOUS
      <4>1. FileOf[order'[i]] = f /\ rpost[order'[i]] # "none"
        BY <1>1 DEF At
      <4>2. i # Len(order) + 1
        BY <1>5, <1>7, <4>1
      <4>3. i \in DOMAIN order /\ order'[i] = order[i]
        BY <1>5, <1>6, <4>2
      <4>4. QED BY <4>1, <4>3 DEF At
    <3>2. \A i \in At(f) : i \in At(f)'
      BY <1>1, <1>5, <1>6 DEF At
    <3>3. QED BY <3>1, <3>2 DEF At
  <2>4. PostOf(f)' = PostOf(f)
    <3>1. \A i \in At(f) : order'[i] = order[i] /\ rpost'[order[i]] = rpost[order[i]]
      BY <1>1, <1>5 DEF At
    <3>2. QED BY <1>5, <2>3, <3>1, PostOfKept
  <2>5. PostOf(f) # "none" => image'[f] = image[f]
    <3>1. PostOf(f) # "none" => image[f] # "none"
      BY PostOfUsed DEF IInv, RecordsOk
    <3>2. QED BY <1>4, <2>1, <3>1
  <2>6. QED BY <2>1, <2>2, <2>4, <2>5
<1>15. CompOk' /\ RollOk'
  BY <1>1, NothingPutBack
<1>16. QED BY <1>10, <1>11, <1>12, <1>13, <1>14, <1>15 DEF IInv

LEMMA SkipGood == \A o \in Ops : IInv /\ Skip(o) => IInv'
<1> SUFFICES ASSUME IInv, NEW o \in Ops, Skip(o) PROVE IInv'
  OBVIOUS
<1> PICK ph \in {"skipped", "unknown"} : phase' = [phase EXCEPT ![o] = ph]
  BY DEF Skip
<1> DEFINE g == FileOf[o]
<1>1. /\ attempt = "running" /\ Idle /\ pc[o] = "idle" /\ Tool(o)
      /\ phase' = [phase EXCEPT ![o] = ph] /\ pc' = [pc EXCEPT ![o] = "over"]
      /\ UNCHANGED <<file, attempt, seen, ledger, undo, later, bounds>>
  BY DEF Skip, Tool
<1>2. g \in Files
  BY UndoAssumption
<1> HIDE DEF g
<1>3. /\ before' \in [Files -> Known] /\ post' \in [Files -> Known] /\ before'[g] # "none"
      /\ \A f \in Files : before[f] # "none" => before'[f] = before[f] /\ post'[f] = post[f]
      /\ \A f \in Files : before'[f] = "none" <=> post'[f] = "none"
      /\ \A f \in Files : before[f] = "none" => before'[f] = post'[f]
  BY <1>1, ToolGood DEF g
<1>4. \A p \in Ops : p # o => phase'[p] = phase[p] /\ pc'[p] = pc[p]
  BY <1>1 DEF IInv, TypeOK
<1>5. pc'[o] = "over"
  BY <1>1 DEF IInv, TypeOK
<1>6. TypeOK'
  BY <1>1, <1>3 DEF IInv, TypeOK, undo, ledger, bounds
<1>7. PhasesOk'
  BY <1>1, <1>4, <1>5 DEF IInv, PhasesOk, ledger
<1>8. RecordsOk'
  <2>1. \A p \in Ops : phase'[p] # "none" => before'[FileOf[p]] # "none"
    <3> SUFFICES ASSUME NEW p \in Ops, phase'[p] # "none" PROVE before'[FileOf[p]] # "none"
      OBVIOUS
    <3>1. CASE p = o
      BY <1>3, <3>1 DEF g
    <3>2. CASE p # o
      <4>1. FileOf[p] \in Files /\ before[FileOf[p]] # "none"
        BY <1>4, <3>2, UndoAssumption DEF IInv, RecordsOk
      <4>2. QED BY <1>3, <4>1
    <3>3. QED BY <3>1, <3>2
  <2>2. \A p \in Ops : phase'[p] = "pending" \/ rpost'[p] # "none"
                          => phase[p] = "pending" \/ rpost[p] # "none"
    BY <1>1, <1>4 DEF IInv, TypeOK, ledger
  <2>3. QED BY <1>1, <1>3, <2>1, <2>2 DEF IInv, RecordsOk, ledger
<1>9. EndedOk'
  <2>1. comp.phase = "none" /\ ~approved.ok
    BY <1>1 DEF IInv, EndedOk
  <2>2. QED BY <1>1, <2>1 DEF EndedOk, undo
<1>10. LaterOk'
  <2> SUFFICES ASSUME NEW f \in later
               PROVE  /\ file[f] = post'[f] => post'[f] = before'[f]
                      /\ PostOf(f)' # "none" /\ file[f] = PostOf(f)' => PostOf(f)' = image'[f]
    BY <1>1 DEF LaterOk
  <2>1. f \in Files /\ (file[f] = post[f] => post[f] = before[f])
        /\ (PostOf(f) # "none" /\ file[f] = PostOf(f) => PostOf(f) = image[f])
    BY DEF IInv, LaterOk, TypeOK
  <2>2. PostOf(f)' = PostOf(f) /\ image' = image
    BY <1>1, PostOfSame DEF ledger
  <2>3. CASE before[f] = "none"
    BY <1>3, <2>1, <2>2, <2>3
  <2>4. CASE before[f] # "none"
    BY <1>3, <2>1, <2>2, <2>4
  <2>5. QED BY <2>3, <2>4
<1>11. CompOk' /\ RollOk'
  BY <1>1, NothingPutBack
<1>12. QED BY <1>6, <1>7, <1>8, <1>9, <1>10, <1>11 DEF IInv

LEMMA ToolWritesGood == \A o \in Ops : IInv /\ ToolWrites(o) => IInv'
<1> SUFFICES ASSUME IInv, NEW o \in Ops, ToolWrites(o) PROVE IInv'
  OBVIOUS
<1> DEFINE g == FileOf[o]
<1>1. /\ pc[o] = "begun" /\ Idle /\ file' = [file EXCEPT ![g] = o]
      /\ pc' = [pc EXCEPT ![o] = "wrote"] /\ seen' = [seen EXCEPT ![o] = "none"]
      /\ later' = later \ {g} /\ UNCHANGED <<attempt, journal, ledger, undo, bounds>>
  BY DEF ToolWrites
<1>2. g \in Files /\ o \in Contents
  BY UndoAssumption DEF Contents
<1> HIDE DEF g
<1>3. /\ \A p \in Ops : p # o => pc'[p] = pc[p]
      /\ pc'[o] = "wrote" /\ \A f \in Files : f # g => file'[f] = file[f]
  BY <1>1 DEF IInv, TypeOK
<1>4. TypeOK'
  BY <1>1, <1>2 DEF IInv, TypeOK, journal, ledger, undo, bounds, Known
<1>5. PhasesOk'
  BY <1>1, <1>3 DEF IInv, PhasesOk, journal, ledger
<1>6. RecordsOk'
  BY <1>1 DEF IInv, RecordsOk, journal, ledger
<1>7. EndedOk'
  BY <1>1 DEF IInv, EndedOk, undo
<1>8. LaterOk'
  <2> SUFFICES ASSUME NEW f \in later, f # g
               PROVE  /\ file'[f] = post[f] => post[f] = before[f]
                      /\ PostOf(f)' # "none" /\ file'[f] = PostOf(f)' => PostOf(f)' = image[f]
    BY <1>1 DEF LaterOk, journal, ledger
  <2>1. PostOf(f)' = PostOf(f)
    BY <1>1, PostOfSame DEF ledger
  <2>2. file'[f] = file[f]
    BY <1>3 DEF IInv, TypeOK
  <2>3. QED BY <2>1, <2>2 DEF IInv, LaterOk
<1>9. CompOk' /\ RollOk'
  BY <1>1, NothingPutBack
<1>10. QED BY <1>4, <1>5, <1>6, <1>7, <1>8, <1>9 DEF IInv

(* The end of a tool: the journal takes down what the file looks like, and  *)
(* with a success so does the ledger.                                       *)
LEMMA EndGood ==
  ASSUME IInv, NEW o \in Ops, NEW ph \in {"committed", "failed", "unknown"}, Finish(o, ph),
         phase[o] = "pending", attempt = "running", Idle,
         UNCHANGED <<file, attempt, before, order, image, undo, bounds>>,
         pc' \in [Ops -> {"idle", "begun", "wrote", "over"}], seen' \in [Ops -> Known],
         \A p \in Ops : p # o => pc'[p] = pc[p],
         pc'[o] = "over" \/ (ph = "unknown" /\ pc'[o] \in {"begun", "wrote"}),
         rpost' = rpost \/ rpost' = [rpost EXCEPT ![o] = file[FileOf[o]]]
  PROVE  IInv'
<1> DEFINE g == FileOf[o]
<1>1. g \in Files /\ file[g] \in Known /\ file[g] # "none"
  BY UndoAssumption DEF IInv, TypeOK, Known, Contents
<1>2. phase' = [phase EXCEPT ![o] = ph] /\ post' = [post EXCEPT ![g] = file[g]]
      /\ later' = later \ {g} /\ (rpost' = rpost \/ rpost' = [rpost EXCEPT ![o] = file[g]])
  BY DEF Finish, IInv, TypeOK
<1>3. \A p \in Ops : FileOf[p] # g => p # o
  OBVIOUS
<1> HIDE DEF g
<1>4. /\ \A p \in Ops : p # o => phase'[p] = phase[p] /\ rpost'[p] = rpost[p]
      /\ phase'[o] = ph /\ post'[g] = file[g]
      /\ \A f \in Files : f # g => post'[f] = post[f]
  BY <1>1, <1>2 DEF IInv, TypeOK
<1>5. TypeOK'
  BY <1>1, <1>2 DEF IInv, TypeOK, undo, bounds
<1>6. PhasesOk'
  BY <1>4 DEF IInv, PhasesOk
<1>7. RecordsOk'
  <2>1. \A p \in Ops : phase'[p] # "none" => before'[FileOf[p]] # "none"
    BY <1>4 DEF IInv, RecordsOk
  <2>2. before[g] # "none"
    BY DEF IInv, RecordsOk, g
  <2>3. \A f \in Files : before'[f] = "none" <=> post'[f] = "none"
    BY <1>1, <1>4, <2>2 DEF IInv, RecordsOk
  <2>4. \A p \in Ops : phase'[p] = "pending" \/ rpost'[p] # "none"
                          => phase[p] = "pending" \/ rpost[p] # "none"
    BY <1>4
  <2>5. QED BY <2>1, <2>3, <2>4 DEF IInv, RecordsOk
<1>8. EndedOk'
  <2>1. comp.phase = "none" /\ ~approved.ok
    BY DEF IInv, EndedOk
  <2>2. QED BY <2>1 DEF EndedOk, undo
<1>9. LaterOk'
  <2> SUFFICES ASSUME NEW f \in later, f # g
               PROVE  /\ file[f] = post'[f] => post'[f] = before[f]
                      /\ PostOf(f)' # "none" /\ file[f] = PostOf(f)' => PostOf(f)' = image[f]
    BY <1>2 DEF LaterOk
  <2>1. f \in Files /\ post'[f] = post[f]
    BY <1>4 DEF IInv, TypeOK
  <2>2. PostOf(f)' = PostOf(f)
    <3>1. order \in Seq(Ops) /\ order' = order
      BY DEF IInv, TypeOK
    <3>2. \A i \in DOMAIN order : FileOf[order[i]] = f => rpost'[order[i]] = rpost[order[i]]
      BY <1>3, <1>4, <3>1 DEF g
    <3>3. At(f)' = At(f)
      BY <3>1, <3>2 DEF At
    <3>4. \A i \in At(f) : order'[i] = order[i] /\ rpost'[order[i]] = rpost[order[i]]
      BY <3>1, <3>2 DEF At
    <3>5. QED BY <3>1, <3>3, <3>4, PostOfKept
  <2>3. QED BY <2>1, <2>2 DEF IInv, LaterOk
<1>10. CompOk' /\ RollOk'
  BY NothingPutBack
<1>11. QED BY <1>5, <1>6, <1>7, <1>8, <1>9, <1>10 DEF IInv

LEMMA CommitGood == \A o \in Ops : IInv /\ Commit(o) => IInv'
<1> SUFFICES ASSUME IInv, NEW o \in Ops, Commit(o) PROVE IInv'
  OBVIOUS
<1>1. /\ Finish(o, "committed") /\ phase[o] = "pending" /\ attempt = "running" /\ Idle
      /\ UNCHANGED <<file, attempt, seen, before, order, image, undo, bounds>>
      /\ rpost' = [rpost EXCEPT ![o] = file[FileOf[o]]] /\ pc' = [pc EXCEPT ![o] = "over"]
  BY DEF Commit
<1>2. /\ pc' \in [Ops -> {"idle", "begun", "wrote", "over"}] /\ seen' \in [Ops -> Known]
      /\ pc'[o] = "over" /\ \A p \in Ops : p # o => pc'[p] = pc[p]
  BY <1>1 DEF IInv, TypeOK
<1>3. QED BY <1>1, <1>2, EndGood

LEMMA FailGood == \A o \in Ops : IInv /\ Fail(o) => IInv'
<1> SUFFICES ASSUME IInv, NEW o \in Ops, Fail(o) PROVE IInv'
  OBVIOUS
<1>1. /\ Finish(o, "failed") /\ phase[o] = "pending" /\ attempt = "running" /\ Idle
      /\ UNCHANGED <<file, attempt, before, order, image, rpost, undo, bounds>>
      /\ pc' = [pc EXCEPT ![o] = "over"] /\ seen' = [seen EXCEPT ![o] = "none"]
  BY DEF Fail, ledger
<1>2. /\ pc' \in [Ops -> {"idle", "begun", "wrote", "over"}] /\ seen' \in [Ops -> Known]
      /\ pc'[o] = "over" /\ \A p \in Ops : p # o => pc'[p] = pc[p]
  BY <1>1 DEF IInv, TypeOK, Known
<1>3. QED BY <1>1, <1>2, EndGood

LEMMA TimeOutGood == \A o \in Ops : IInv /\ TimeOut(o) => IInv'
<1> SUFFICES ASSUME IInv, NEW o \in Ops, TimeOut(o) PROVE IInv'
  OBVIOUS
<1>1. /\ Finish(o, "unknown") /\ phase[o] = "pending" /\ attempt = "running" /\ Idle
      /\ UNCHANGED <<file, attempt, pc, seen, before, order, image, rpost, undo, bounds>>
      /\ pc[o] \in {"begun", "wrote"}
  BY DEF TimeOut, ledger
<1>2. /\ pc' \in [Ops -> {"idle", "begun", "wrote", "over"}] /\ seen' \in [Ops -> Known]
      /\ pc'[o] \in {"begun", "wrote"} /\ \A p \in Ops : p # o => pc'[p] = pc[p]
  BY <1>1 DEF IInv, TypeOK
<1>3. QED BY <1>1, <1>2, EndGood

LEMMA SettleAttemptGood == IInv /\ SettleAttempt => IInv'
<1> SUFFICES ASSUME IInv, SettleAttempt PROVE IInv'
  OBVIOUS
<1>1. /\ attempt' = "settled" /\ Idle
      /\ UNCHANGED <<file, pc, seen, journal, ledger, undo, later, bounds>>
  BY DEF SettleAttempt
<1>2. TypeOK' /\ PhasesOk' /\ RecordsOk'
  BY <1>1 DEF IInv, TypeOK, PhasesOk, RecordsOk, journal, ledger, undo, bounds
<1>3. EndedOk'
  BY <1>1 DEF IInv, EndedOk, undo
<1>4. LaterOk'
  BY <1>1, PostOfSame DEF IInv, LaterOk, journal, ledger
<1>5. CompOk' /\ RollOk'
  BY <1>1, NothingPutBack
<1>6. QED BY <1>2, <1>3, <1>4, <1>5 DEF IInv

-----------------------------------------------------------------------------
(* Steps that change what is known about the undoing, and no file.          *)

Comps == [busy : BOOLEAN, phase : {"none", "prepared", "needs_review", "completed"},
          todo : SUBSET Files, applied : SUBSET Files, current : [Files -> Known]]
Rollbacks == [busy : BOOLEAN, todo : SUBSET Files, force : BOOLEAN, refused : BOOLEAN,
              disturbed : SUBSET Files, ok : BOOLEAN]
Plans == [ok : BOOLEAN, items : [Files -> Known], applied : SUBSET Files,
          comp : {"none", "prepared", "needs_review", "completed"}]

LEMMA UndoTypes == TypeOK => comp \in Comps /\ rollback \in Rollbacks /\ approved \in Plans
BY DEF TypeOK, Comps, Rollbacks, Plans

LEMMA EmptyGood ==
  /\ NoPlan \in Plans /\ ~NoPlan.ok
  /\ NoRollback \in Rollbacks /\ ~NoRollback.busy /\ ~NoRollback.ok
  /\ NoComp.current \in [Files -> Known]
<1>1. [f \in Files |-> "none"] \in [Files -> Known]
  BY DEF Known
<1>2. QED BY <1>1 DEF NoPlan, NoRollback, NoComp, Plans, Rollbacks

LEMMA NoFileFrame ==
  ASSUME IInv, UNCHANGED <<file, attempt, pc, seen, journal, ledger, later, bounds>>,
         comp' \in Comps, rollback' \in Rollbacks, approved' \in Plans,
         approved'.ok => attempt # "running",
         comp'.phase # "none" => attempt # "running" /\ \A o \in Ops : pc[o] \notin {"begun", "wrote"},
         CompOk', RollOk'
  PROVE  IInv'
<1>1. TypeOK'
  BY DEF IInv, TypeOK, Comps, Rollbacks, Plans, journal, ledger, bounds
<1>2. PhasesOk' /\ RecordsOk' /\ EndedOk'
  BY DEF IInv, PhasesOk, RecordsOk, EndedOk, journal, ledger
<1>3. LaterOk'
  BY PostOfSame DEF IInv, LaterOk, journal, ledger
<1>4. QED BY <1>1, <1>2, <1>3 DEF IInv

(* Whatever an undoing that has not changed its state says, stays true.     *)
LEMMA CompFrame ==
  ASSUME CompOk, UNCHANGED <<file, phase, before, post, later, comp>>, ~rollback'.busy
  PROVE  CompOk'
<1>1. Touched' = Touched
  BY DEF Touched
<1>2. QED BY <1>1 DEF CompOk

LEMMA RollFrame ==
  ASSUME RollOk, UNCHANGED <<file, image, order, rpost, later, rollback>>
  PROVE  RollOk'
<1>1. Paths' = Paths
  BY DEF Paths
<1>2. \A f \in Files : PostOf(f)' = PostOf(f)
  BY PostOfSame
<1>3. \A f : PostOf(f)' = PostOf(f)
  BY PostOfSame
<1>4. QED BY <1>1, <1>3 DEF RollOk

LEMMA PlanGood == TypeOK => Plan \in Plans /\ (Plan.ok <=> PlanOk)
<1> SUFFICES ASSUME TypeOK PROVE Plan \in Plans /\ (Plan.ok <=> PlanOk)
  OBVIOUS
<1>1. PlanOk \in BOOLEAN
  BY DEF PlanOk, Blocked
<1>2. [f \in Files |-> IF f \in Touched THEN file[f] ELSE "none"] \in [Files -> Known]
  BY DEF TypeOK, Known
<1>3. comp.phase \in {"none", "prepared", "needs_review", "completed"} /\ comp.applied \in SUBSET Files
  BY DEF TypeOK
<1> HIDE DEF PlanOk
<1>4. QED BY <1>1, <1>2, <1>3 DEF Plan, Plans

LEMMA InspectGood == IInv /\ Inspect => IInv'
<1> SUFFICES ASSUME IInv, Inspect PROVE IInv'
  OBVIOUS
<1>1. /\ attempt = "settled" /\ Idle /\ approved' = Plan
      /\ UNCHANGED <<file, attempt, pc, seen, journal, ledger, comp, rollback, later, bounds>>
  BY DEF Inspect
<1>2. comp' \in Comps /\ rollback' \in Rollbacks /\ approved' \in Plans
  BY <1>1, UndoTypes, PlanGood DEF IInv
<1>3. CompOk' /\ RollOk'
  BY <1>1 DEF Idle, CompOk, RollOk
<1>4. attempt # "running" /\ (comp'.phase # "none" => \A o \in Ops : pc[o] \notin {"begun", "wrote"})
  BY <1>1 DEF IInv, EndedOk
<1>5. QED BY <1>1, <1>2, <1>3, <1>4, NoFileFrame

LEMMA CompStartGood == IInv /\ CompStart => IInv'
<1> SUFFICES ASSUME IInv, CompStart PROVE IInv'
  OBVIOUS
<1> DEFINE todo == {f \in Touched : file[f] # before[f]}
<1>1. /\ approved.ok /\ Idle /\ Plan = approved /\ approved' = NoPlan
      /\ comp' = [busy |-> TRUE, phase |-> "prepared", applied |-> {}, todo |-> todo, current |-> file]
      /\ UNCHANGED <<file, attempt, pc, seen, journal, ledger, rollback, later, bounds>>
  BY DEF CompStart
<1>2. PlanOk
  BY <1>1, PlanGood DEF IInv
<1>3. Touched \subseteq Files /\ \A o \in Ops : phase[o] \notin {"none", "skipped"} => FileOf[o] \in Touched
  BY UndoAssumption DEF Touched
<1>4. file \in [Files -> Known]
  BY DEF IInv, TypeOK, Known
<1>5. comp' \in Comps /\ comp'.busy /\ comp'.todo = todo /\ comp'.current = file /\ comp'.phase = "prepared"
  BY <1>1, <1>3, <1>4 DEF Comps
<1>6. Touched' = Touched /\ rollback' = rollback /\ ~rollback.busy
  BY <1>1 DEF Touched, journal, Idle
<1>7. \A f \in todo : file[f] = post[f] /\ before[f] # post[f]
  BY <1>2 DEF PlanOk
<1>8. CompOk'
  BY <1>1, <1>5, <1>6, <1>7 DEF CompOk, journal
<1>9. RollOk'
  BY <1>6 DEF RollOk
<1>10. attempt # "running" /\ \A o \in Ops : pc[o] \notin {"begun", "wrote"}
  BY <1>1, <1>2 DEF IInv, EndedOk, PhasesOk, PlanOk, Blocked
<1>11. rollback' \in Rollbacks /\ approved' \in Plans /\ ~approved'.ok
  BY <1>1, <1>6, UndoTypes, EmptyGood DEF IInv
<1>12. QED BY <1>1, <1>5, <1>8, <1>9, <1>10, <1>11, NoFileFrame

LEMMA CompRefusedGood == IInv /\ CompRefused => IInv'
<1> SUFFICES ASSUME IInv, CompRefused PROVE IInv'
  OBVIOUS
<1>1. /\ Idle /\ approved' = NoPlan
      /\ UNCHANGED <<file, attempt, pc, seen, journal, ledger, comp, rollback, later, bounds>>
  BY DEF CompRefused
<1>2. comp' \in Comps /\ rollback' \in Rollbacks /\ approved' \in Plans /\ ~approved'.ok
  BY <1>1, UndoTypes, EmptyGood DEF IInv
<1>3. CompOk' /\ RollOk'
  BY <1>1 DEF Idle, CompOk, RollOk
<1>4. comp'.phase # "none" => attempt # "running" /\ \A o \in Ops : pc[o] \notin {"begun", "wrote"}
  BY <1>1 DEF IInv, EndedOk
<1>5. QED BY <1>1, <1>2, <1>3, <1>4, NoFileFrame

(* The two ends of a compensation.                                          *)
LEMMA CompEndsGood == IInv /\ (CompStops \/ CompDone) => IInv'
<1> SUFFICES ASSUME IInv, CompStops \/ CompDone PROVE IInv'
  OBVIOUS
<1>1. comp \in Comps /\ NoComp.current \in [Files -> Known] /\ comp.busy
  BY UndoTypes, EmptyGood DEF IInv, CompStops, CompDone
<1>2. /\ UNCHANGED <<file, attempt, pc, seen, journal, ledger, approved, rollback, later, bounds>>
      /\ comp' \in Comps /\ ~comp'.busy
  <2>1. CASE CompStops
    BY <1>1, <2>1 DEF CompStops, Comps
  <2>2. CASE CompDone
    BY <1>1, <2>2 DEF CompDone, Comps
  <2>3. QED BY <2>1, <2>2
<1>3. attempt # "running" /\ \A o \in Ops : pc[o] \notin {"begun", "wrote"}
  BY <1>1 DEF IInv, CompOk, EndedOk
<1>4. rollback' \in Rollbacks /\ approved' \in Plans
  BY <1>2, UndoTypes DEF IInv
<1>5. CompOk' /\ RollOk'
  BY <1>1, <1>2 DEF IInv, CompOk, RollOk
<1>6. QED BY <1>2, <1>3, <1>4, <1>5, NoFileFrame

LEMMA RollbackStartGood == \A force \in BOOLEAN : IInv /\ RollbackStart(force) => IInv'
<1> SUFFICES ASSUME IInv, NEW force \in BOOLEAN, RollbackStart(force) PROVE IInv'
  OBVIOUS
<1> DEFINE conflicts == {f \in Paths : Conflict(f) /\ ~force}
<1>1. /\ Idle
      /\ rollback' = [NoRollback EXCEPT !.busy = TRUE, !.force = force, !.todo = Paths \ conflicts,
                        !.refused = (conflicts # {})]
      /\ UNCHANGED <<file, attempt, pc, seen, journal, ledger, approved, comp, later, bounds>>
  BY DEF RollbackStart
<1>2. Paths \subseteq Files
  BY UndoAssumption DEF Paths, Range, IInv, TypeOK
<1>3. \A f \in Paths \ conflicts : ~force => PostOf(f) = "none" \/ file[f] = PostOf(f)
  BY DEF Conflict
<1> HIDE DEF conflicts
<1>4. /\ rollback' \in Rollbacks /\ rollback'.busy /\ rollback'.todo = Paths \ conflicts
      /\ rollback'.force = force /\ (~rollback'.refused => conflicts = {})
  BY <1>1, <1>2 DEF NoRollback, Rollbacks
<1>5. Paths' = Paths /\ \A f : PostOf(f)' = PostOf(f)
  BY <1>1, PostOfSame DEF Paths, ledger
<1>6. RollOk'
  <2>1. \A f \in rollback'.todo \cap later : ~force => PostOf(f) = "none" \/ file[f] = image[f]
    BY <1>3, <1>4 DEF IInv, LaterOk
  <2>2. rollback'.todo \subseteq Paths
    BY <1>4
  <2>3. ~rollback'.refused => rollback'.todo = Paths
    BY <1>4
  <2>4. QED BY <1>1, <1>4, <1>5, <2>1, <2>2, <2>3 DEF RollOk, ledger
<1>7. CompOk'
  BY <1>1 DEF Idle, CompOk
<1>8. comp' \in Comps /\ approved' \in Plans
  BY <1>1, UndoTypes DEF IInv
<1>9. QED BY <1>1, <1>4, <1>6, <1>7, <1>8, NoFileFrame DEF IInv, EndedOk

LEMMA RollbackRefusesGood == \A f \in Files : IInv /\ RollbackRefuses(f) => IInv'
<1> SUFFICES ASSUME IInv, NEW f \in Files, RollbackRefuses(f) PROVE IInv'
  OBVIOUS
<1>1. /\ rollback.busy /\ rollback' = [rollback EXCEPT !.todo = @ \ {f}, !.refused = TRUE]
      /\ UNCHANGED <<file, attempt, pc, seen, journal, ledger, approved, comp, later, bounds>>
  BY DEF RollbackRefuses
<1>2. rollback \in Rollbacks /\ comp' \in Comps /\ approved' \in Plans
  BY <1>1, UndoTypes DEF IInv
<1>3. /\ rollback' \in Rollbacks /\ rollback'.busy /\ rollback'.todo = rollback.todo \ {f}
      /\ rollback'.refused /\ rollback'.force = rollback.force
      /\ rollback'.disturbed = rollback.disturbed
  BY <1>1, <1>2 DEF Rollbacks
<1>4. Paths' = Paths /\ \A g : PostOf(g)' = PostOf(g)
  BY <1>1, PostOfSame DEF Paths, ledger
<1>5. RollOk'
  BY <1>1, <1>3, <1>4 DEF IInv, RollOk, ledger
<1>6. CompOk'
  BY <1>1 DEF IInv, CompOk
<1>7. QED BY <1>1, <1>2, <1>3, <1>5, <1>6, NoFileFrame DEF IInv, EndedOk

LEMMA RollbackEndGood == IInv /\ RollbackEnd => IInv'
<1> SUFFICES ASSUME IInv, RollbackEnd PROVE IInv'
  OBVIOUS
<1>1. /\ rollback.busy /\ rollback' = [NoRollback EXCEPT !.ok = ~rollback.refused]
      /\ UNCHANGED <<file, attempt, pc, seen, journal, ledger, approved, comp, later, bounds>>
  BY DEF RollbackEnd
<1>2. rollback \in Rollbacks /\ comp' \in Comps /\ approved' \in Plans
  BY <1>1, UndoTypes DEF IInv
<1>3. rollback' \in Rollbacks /\ ~rollback'.busy
  BY <1>1, <1>2 DEF Rollbacks, NoRollback
<1>4. CompOk' /\ RollOk'
  BY <1>1, <1>3 DEF IInv, CompOk, RollOk
<1>5. QED BY <1>1, <1>2, <1>3, <1>4, NoFileFrame DEF IInv, EndedOk

-----------------------------------------------------------------------------
(* Steps that change a file.                                                *)

LEMMA CompFileGood == \A f \in Files : IInv /\ CompFile(f) => IInv'
<1> SUFFICES ASSUME IInv, NEW f \in Files, CompFile(f) PROVE IInv'
  OBVIOUS
<1>1. /\ comp.busy /\ f \in comp.todo /\ file' = [file EXCEPT ![f] = before[f]]
      /\ comp' = [comp EXCEPT !.todo = @ \ {f}, !.applied = @ \cup {f}]
      /\ later' = later \ {f}
      /\ UNCHANGED <<attempt, pc, seen, journal, ledger, approved, rollback, bounds>>
  BY DEF CompFile
<1>2. comp \in Comps /\ file \in [Files -> Contents] /\ before \in [Files -> Known]
  BY UndoTypes DEF IInv, TypeOK
<1>3. /\ comp' \in Comps /\ comp'.busy /\ comp'.todo = comp.todo \ {f}
      /\ comp'.current = comp.current /\ comp'.phase = comp.phase
  BY <1>1, <1>2 DEF Comps
<1>4. before[f] \in Contents
  <2>1. f \in Touched
    BY <1>1 DEF IInv, CompOk
  <2>2. before[f] # "none"
    BY <2>1 DEF Touched, IInv, RecordsOk
  <2>3. QED BY <1>2, <2>2 DEF Known
<1>5. /\ file' \in [Files -> Contents] /\ file'[f] = before[f]
      /\ \A g \in Files : g # f => file'[g] = file[g]
  BY <1>1, <1>2, <1>4
<1>6. TypeOK'
  BY <1>1, <1>3, <1>5 DEF IInv, TypeOK, Comps, journal, ledger, bounds
<1>7. PhasesOk' /\ RecordsOk' /\ EndedOk'
  BY <1>1, <1>3 DEF IInv, PhasesOk, RecordsOk, EndedOk, journal, ledger
<1>8. LaterOk'
  <2> SUFFICES ASSUME NEW g \in later, g # f
               PROVE  /\ file'[g] = post[g] => post[g] = before[g]
                      /\ PostOf(g)' # "none" /\ file'[g] = PostOf(g)' => PostOf(g)' = image[g]
    BY <1>1 DEF LaterOk, journal, ledger
  <2>1. PostOf(g)' = PostOf(g) /\ file'[g] = file[g]
    BY <1>1, <1>5, PostOfSame DEF ledger, IInv, TypeOK
  <2>2. QED BY <2>1 DEF IInv, LaterOk
<1>9. CompOk'
  <2>1. Touched' = Touched /\ Touched \subseteq Files
    BY <1>1, UndoAssumption DEF Touched, journal
  <2>2. \A g \in Touched : g \in comp'.todo \/ g \in later' \/ file'[g] = before[g]
    BY <1>1, <1>3, <1>5, <2>1 DEF IInv, CompOk
  <2>3. QED BY <1>1, <1>3, <2>1, <2>2 DEF IInv, CompOk, journal
<1>10. RollOk'
  BY <1>1 DEF IInv, CompOk, RollOk
<1>11. QED BY <1>6, <1>7, <1>8, <1>9, <1>10 DEF IInv

LEMMA PathsAre == TypeOK /\ RecordsOk => Paths \subseteq Files /\ \A f \in Paths : image[f] # "none"
<1> SUFFICES ASSUME TypeOK, RecordsOk, NEW f \in Paths PROVE f \in Files /\ image[f] # "none"
  OBVIOUS
<1>1. order \in Seq(Ops)
  BY DEF TypeOK
<1>2. PICK i \in DOMAIN order : f = FileOf[order[i]]
  BY DEF Paths, Range
<1>3. order[i] \in Ops
  BY <1>1
<1>4. QED BY <1>2, <1>3, UndoAssumption DEF RecordsOk

LEMMA RollbackFileGood == \A f \in Files : IInv /\ RollbackFile(f) => IInv'
<1> SUFFICES ASSUME IInv, NEW f \in Files, RollbackFile(f) PROVE IInv'
  OBVIOUS
<1>1. /\ rollback.busy /\ f \in rollback.todo /\ file' = [file EXCEPT ![f] = image[f]]
      /\ rollback' = [rollback EXCEPT !.todo = @ \ {f}] /\ later' = later \ {f}
      /\ UNCHANGED <<attempt, pc, seen, journal, ledger, approved, comp, bounds>>
  BY DEF RollbackFile
<1>2. rollback \in Rollbacks /\ file \in [Files -> Contents] /\ image \in [Files -> Known]
  BY UndoTypes DEF IInv, TypeOK
<1>3. /\ rollback' \in Rollbacks /\ rollback'.busy /\ rollback'.todo = rollback.todo \ {f}
      /\ rollback'.refused = rollback.refused /\ rollback'.force = rollback.force
      /\ rollback'.disturbed = rollback.disturbed
  BY <1>1, <1>2 DEF Rollbacks
<1>4. image[f] \in Contents
  <2>1. image[f] # "none"
    BY <1>1, PathsAre DEF IInv, RollOk
  <2>2. QED BY <1>2, <2>1 DEF Known
<1>5. /\ file' \in [Files -> Contents] /\ file'[f] = image[f]
      /\ \A g \in Files : g # f => file'[g] = file[g]
  BY <1>1, <1>2, <1>4
<1>6. TypeOK'
  BY <1>1, <1>3, <1>5 DEF IInv, TypeOK, Rollbacks, journal, ledger, bounds
<1>7. PhasesOk' /\ RecordsOk' /\ EndedOk'
  BY <1>1 DEF IInv, PhasesOk, RecordsOk, EndedOk, journal, ledger
<1>8. Paths' = Paths /\ Paths \subseteq Files /\ \A g : PostOf(g)' = PostOf(g)
  BY <1>1, PathsAre, PostOfSame DEF Paths, ledger, IInv
<1>9. LaterOk'
  <2> SUFFICES ASSUME NEW g \in later, g # f
               PROVE  /\ file'[g] = post[g] => post[g] = before[g]
                      /\ PostOf(g)' # "none" /\ file'[g] = PostOf(g)' => PostOf(g)' = image[g]
    BY <1>1 DEF LaterOk, journal, ledger
  <2>1. file'[g] = file[g]
    BY <1>5 DEF IInv, TypeOK
  <2>2. QED BY <1>8, <2>1 DEF IInv, LaterOk
<1>10. CompOk'
  BY <1>1 DEF IInv, CompOk
<1>11. RollOk'
  <2>1. rollback'.todo \subseteq Paths
    BY <1>1, <1>3 DEF IInv, RollOk
  <2>2. ~rollback'.refused => \A g \in Paths : \/ g \in rollback'.todo \/ g \in rollback'.disturbed
                                               \/ file'[g] = image[g]
    BY <1>1, <1>3, <1>5, <1>8 DEF IInv, RollOk
  <2>3. ~rollback'.force => \A g \in rollback'.todo \cap later' :
          g \in rollback'.disturbed \/ PostOf(g) = "none" \/ file'[g] = image[g]
    BY <1>1, <1>3, <1>5, <1>8 DEF IInv, RollOk
  <2>4. QED BY <1>1, <1>8, <2>1, <2>2, <2>3 DEF RollOk, ledger
<1>12. QED BY <1>6, <1>7, <1>9, <1>10, <1>11 DEF IInv

LEMMA EditGood == \A f \in Files : IInv /\ Edit(f) => IInv'
<1> SUFFICES ASSUME IInv, NEW f \in Files, Edit(f) PROVE IInv'
  OBVIOUS
<1>1. PICK v \in {"base"} \cup (Theirs \ Used) :
        v # file[f] /\ ~Mistaken(f, v) /\ file' = [file EXCEPT ![f] = v]
  BY DEF Edit
<1>2. UNCHANGED <<attempt, pc, seen, journal, ledger, approved, comp, crashes>>
      /\ edits' = edits + 1 /\ edits < MaxEdits
  BY DEF Edit
<1>3. file \in [Files -> Contents] /\ v \in Contents /\ rollback \in Rollbacks /\ edits \in 0..MaxEdits
  BY UndoTypes DEF Contents, IInv, TypeOK
<1>4. /\ file' \in [Files -> Contents] /\ file'[f] = v
      /\ \A g \in Files : g # f => file'[g] = file[g]
  BY <1>1, <1>3
<1>5. /\ later' \in {later, later \cup {f}} /\ later \subseteq Files
      /\ ~rollback.busy => later' = later \cup {f} /\ rollback' = rollback
      /\ rollback.busy => rollback' = [rollback EXCEPT !.disturbed = @ \cup {f}] /\ later' = later
  BY DEF Edit, IInv, TypeOK
<1>6. /\ rollback' \in Rollbacks /\ rollback'.busy = rollback.busy /\ rollback'.todo = rollback.todo
      /\ rollback'.refused = rollback.refused /\ rollback'.force = rollback.force
      /\ rollback.busy => rollback'.disturbed = rollback.disturbed \cup {f}
  <2>1. CASE rollback.busy
    <3>1. rollback' = [rollback EXCEPT !.disturbed = @ \cup {f}]
      BY <1>5, <2>1
    <3>2. rollback' \in Rollbacks
      BY <1>3, <3>1 DEF Rollbacks
    <3>3. /\ rollback'.todo = rollback.todo /\ rollback'.disturbed = rollback.disturbed \cup {f}
          /\ rollback'.busy = rollback.busy
      BY <1>3, <3>1 DEF Rollbacks
    <3>4. rollback'.refused = rollback.refused /\ rollback'.force = rollback.force
      BY <1>3, <3>1 DEF Rollbacks
    <3>5. QED BY <3>2, <3>3, <3>4
  <2>2. CASE ~rollback.busy
    BY <1>3, <1>5, <2>2
  <2>3. QED BY <2>1, <2>2
<1>7. edits' \in 0..MaxEdits
  BY <1>2, <1>3, UndoAssumption
<1>8. TypeOK'
  BY <1>2, <1>4, <1>5, <1>6, <1>7 DEF IInv, TypeOK, Rollbacks, journal, ledger
<1>9. PhasesOk' /\ RecordsOk' /\ EndedOk'
  BY <1>2 DEF IInv, PhasesOk, RecordsOk, EndedOk, journal, ledger
<1>10. \A g : PostOf(g)' = PostOf(g)
  BY <1>2, PostOfSame DEF ledger
<1>11. (v = post[f] => post[f] = before[f]) /\ (v = PostOf(f) => PostOf(f) = image[f])
  BY <1>1 DEF Mistaken
<1>12. LaterOk'
  <2> SUFFICES ASSUME NEW g \in later'
               PROVE  /\ file'[g] = post[g] => post[g] = before[g]
                      /\ PostOf(g) # "none" /\ file'[g] = PostOf(g) => PostOf(g) = image[g]
    BY <1>2, <1>10 DEF LaterOk, journal, ledger
  <2>1. CASE g = f
    BY <1>4, <1>11, <2>1
  <2>2. CASE g # f
    BY <1>4, <1>5, <2>2 DEF IInv, LaterOk
  <2>3. QED BY <2>1, <2>2
<1>13. CompOk'
  <2> SUFFICES ASSUME comp.busy
               PROVE  CompOk'
    BY <1>2 DEF CompOk
  <2>1. ~rollback.busy /\ f \in later' /\ Touched' = Touched /\ Touched \subseteq Files
    BY <1>2, <1>5, UndoAssumption DEF IInv, CompOk, Touched, journal
  <2>2. \A g \in Touched : g \in comp.todo \/ g \in later' \/ file'[g] = before[g]
    BY <1>4, <1>5, <2>1 DEF IInv, CompOk
  <2>3. QED BY <1>2, <1>6, <2>1, <2>2 DEF IInv, CompOk, journal
<1>14. RollOk'
  <2> SUFFICES ASSUME rollback.busy PROVE RollOk'
    BY <1>6 DEF RollOk
  <2>1. Paths' = Paths /\ Paths \subseteq Files
    BY <1>2, PathsAre DEF IInv, Paths, ledger
  <2>2. ~rollback'.refused => \A g \in Paths : \/ g \in rollback'.todo \/ g \in rollback'.disturbed
                                               \/ file'[g] = image[g]
    BY <1>4, <1>6, <2>1 DEF IInv, RollOk
  <2>3. ~rollback'.force => \A g \in rollback'.todo \cap later' :
          g \in rollback'.disturbed \/ PostOf(g) = "none" \/ file'[g] = image[g]
    BY <1>4, <1>5, <1>6, <2>1 DEF IInv, RollOk
  <2>4. rollback'.todo \subseteq Paths
    BY <1>6 DEF IInv, RollOk
  <2>5. QED BY <1>2, <1>10, <2>1, <2>2, <2>3, <2>4 DEF RollOk, ledger
<1>15. QED BY <1>8, <1>9, <1>12, <1>13, <1>14 DEF IInv

LEMMA CrashGood == IInv /\ CrashRestart => IInv'
<1> SUFFICES ASSUME IInv, CrashRestart PROVE IInv'
  OBVIOUS
<1>1. /\ crashes' = crashes + 1 /\ crashes < MaxCrashes
      /\ attempt' = (IF attempt = "running" THEN "lost" ELSE attempt)
      /\ pc' = [o \in Ops |-> "over"] /\ seen' = [o \in Ops |-> "none"]
      /\ comp' = [comp EXCEPT !.busy = FALSE, !.todo = {}, !.current = NoComp.current]
      /\ approved' = NoPlan /\ rollback' = NoRollback
      /\ UNCHANGED <<file, journal, ledger, later, edits>>
  BY DEF CrashRestart
<1>2. comp \in Comps /\ NoComp.current \in [Files -> Known]
  BY UndoTypes, EmptyGood DEF IInv
<1>3. comp' \in Comps /\ ~comp'.busy /\ comp'.phase = comp.phase
  BY <1>1, <1>2 DEF Comps
<1>4. approved' \in Plans /\ ~approved'.ok /\ rollback' \in Rollbacks /\ ~rollback'.busy
  BY <1>1, EmptyGood
<1>5. crashes' \in 0..MaxCrashes
  BY <1>1, UndoAssumption DEF IInv, TypeOK
<1>6. attempt' \in {"settled", "lost"}
  BY <1>1 DEF IInv, TypeOK
<1>7. TypeOK'
  BY <1>1, <1>3, <1>4, <1>5, <1>6 DEF IInv, TypeOK, Comps, Plans, Rollbacks, journal, ledger, Known
<1>8. PhasesOk' /\ RecordsOk'
  BY <1>1 DEF IInv, PhasesOk, RecordsOk, journal, ledger
<1>9. EndedOk' /\ CompOk' /\ RollOk'
  BY <1>1, <1>3, <1>4, <1>6 DEF EndedOk, CompOk, RollOk
<1>10. LaterOk'
  BY <1>1, PostOfSame DEF IInv, LaterOk, journal, ledger
<1>11. QED BY <1>7, <1>8, <1>9, <1>10 DEF IInv

-----------------------------------------------------------------------------
LEMMA StepGood == IInv /\ [Next]_vars => IInv'
<1> SUFFICES ASSUME IInv, [Next]_vars PROVE IInv'
  OBVIOUS
<1>1. CASE \E o \in Ops : Begin(o) \/ Skip(o) \/ ToolWrites(o) \/ Commit(o) \/ Fail(o) \/ TimeOut(o)
  BY <1>1, BeginGood, SkipGood, ToolWritesGood, CommitGood, FailGood, TimeOutGood
<1>2. CASE \E f \in Files : CompFile(f) \/ RollbackFile(f) \/ RollbackRefuses(f) \/ Edit(f)
  BY <1>2, CompFileGood, RollbackFileGood, RollbackRefusesGood, EditGood
<1>3. CASE \E force \in BOOLEAN : RollbackStart(force)
  BY <1>3, RollbackStartGood
<1>4. CASE SettleAttempt \/ Inspect \/ CompStart \/ CompRefused \/ CompStops \/ CompDone
  BY <1>4, SettleAttemptGood, InspectGood, CompStartGood, CompRefusedGood, CompEndsGood
<1>5. CASE RollbackEnd \/ CrashRestart
  BY <1>5, RollbackEndGood, CrashGood
<1>6. CASE UNCHANGED vars
  <2>1. /\ UNCHANGED <<file, attempt, pc, seen, journal, ledger, later, bounds>>
        /\ UNCHANGED <<approved, comp, rollback>>
    BY <1>6 DEF vars, journal, ledger, bounds
  <2>2. comp' \in Comps /\ rollback' \in Rollbacks /\ approved' \in Plans
    BY <2>1, UndoTypes DEF IInv
  <2>3. RollOk'
    BY <2>1, RollFrame DEF IInv, ledger
  <2>4. CompOk'
    <3>1. CASE comp.busy
      BY <2>1, <3>1, CompFrame DEF IInv, CompOk, journal
    <3>2. CASE ~comp.busy
      BY <2>1, <3>2 DEF CompOk
    <3>3. QED BY <3>1, <3>2
  <2>5. QED BY <2>1, <2>2, <2>3, <2>4, NoFileFrame DEF IInv, EndedOk
<1>7. QED BY <1>1, <1>2, <1>3, <1>4, <1>5, <1>6 DEF Next

LEMMA AlwaysGood == Spec => []IInv
<1>1. QED BY InitGood, StepGood, PTL DEF Spec

(* While something is being put back, the undoing and others are the only   *)
(* ones that change files.                                                  *)
LEMMA OnlyUndoWrites ==
  ASSUME TypeOK, Next, ~Idle, NEW f \in Files, Replaced(f)
  PROVE  CompFile(f) \/ RollbackFile(f) \/ Edit(f)
<1>1. CASE \E o \in Ops : Begin(o) \/ Skip(o) \/ ToolWrites(o) \/ Commit(o) \/ Fail(o) \/ TimeOut(o)
  BY <1>1 DEF Begin, Skip, Tool, ToolWrites, Commit, Fail, TimeOut
<1>2. CASE \E g \in Files : CompFile(g) \/ RollbackFile(g) \/ RollbackRefuses(g) \/ Edit(g)
  <2>1. PICK g \in Files : CompFile(g) \/ RollbackFile(g) \/ RollbackRefuses(g) \/ Edit(g)
    BY <1>2
  <2>2. file \in [Files -> Contents]
    BY DEF TypeOK
  <2>3. CASE g = f
    BY <2>1, <2>3 DEF RollbackRefuses, Replaced
  <2>4. CASE g # f
    <3>1. file'[f] = file[f]
      BY <2>1, <2>2, <2>4 DEF CompFile, RollbackFile, RollbackRefuses, Edit
    <3>2. QED BY <3>1 DEF Replaced
  <2>5. QED BY <2>3, <2>4
<1>3. CASE \E force \in BOOLEAN : RollbackStart(force)
  BY <1>3 DEF RollbackStart
<1>4. CASE SettleAttempt \/ Inspect \/ CompStart \/ CompRefused \/ CompStops \/ CompDone
           \/ RollbackEnd \/ CrashRestart
  BY <1>4 DEF SettleAttempt, Inspect, CompStart, CompRefused, CompStops, CompDone, RollbackEnd,
              CrashRestart, Replaced
<1>5. QED BY <1>1, <1>2, <1>3, <1>4 DEF Next

(* Files are put back only when the tools of the attempt are done with them,*)
(* those included that went on after their time limit.                      *)
THEOREM ToolsAlwaysDone == Spec => []ToolsAreDone
<1>1. IInv => ToolsAreDone
  BY DEF IInv, EndedOk, ToolsAreDone, NothingWritesAfter
<1>2. QED BY <1>1, AlwaysGood, PTL

(* A compensation does not replace a file that was edited since, whenever   *)
(* the edit comes, and a rollback without force only if the run has not     *)
(* committed a write of it (runRollback.cjs:59).                            *)
THEOREM EditsAlwaysSurvive == Spec => EditsSurvive
<1> DEFINE Comped == \A f \in later : comp.busy /\ Replaced(f) => f \in later'
           Rolled == \A f \in Files : rollback.busy /\ ~rollback.force /\ f \in later /\ Replaced(f)
                                        /\ f \notin rollback'.disturbed
                       => \A o \in Ops : FileOf[o] = f => rpost[o] = "none"
<1>1. IInv /\ [Next]_vars => Comped \/ UNCHANGED vars
  <2> SUFFICES ASSUME IInv, Next, NEW f \in later, comp.busy, Replaced(f) PROVE f \in later'
    OBVIOUS
  <2>1. f \in Files /\ TypeOK /\ ~rollback.busy /\ ~Idle
    BY DEF IInv, TypeOK, CompOk, Idle
  <2>2. ~CompFile(f)
    <3> SUFFICES ASSUME CompFile(f) PROVE FALSE
      OBVIOUS
    <3>1. file[f] = post[f] /\ before[f] # post[f]
      BY DEF CompFile, IInv, CompOk
    <3>2. QED BY <3>1 DEF IInv, LaterOk
  <2>3. Edit(f)
    BY <2>1, <2>2, OnlyUndoWrites DEF RollbackFile
  <2>4. QED BY <2>1, <2>3 DEF Edit
<1>2. IInv /\ [Next]_vars => Rolled \/ UNCHANGED vars
  <2> SUFFICES ASSUME IInv, Next, NEW f \in Files, rollback.busy, ~rollback.force, f \in later,
                      Replaced(f), f \notin rollback'.disturbed
               PROVE  \A o \in Ops : FileOf[o] = f => rpost[o] = "none"
    OBVIOUS
  <2>1. TypeOK /\ ~Idle /\ rollback \in Rollbacks
    BY UndoTypes DEF IInv, Idle
  <2>2. ~CompFile(f)
    BY DEF IInv, CompOk, CompFile
  <2>3. ~Edit(f)
    <3> SUFFICES ASSUME Edit(f) PROVE FALSE
      OBVIOUS
    <3>1. rollback' = [rollback EXCEPT !.disturbed = @ \cup {f}]
      BY DEF Edit
    <3>2. f \in rollback'.disturbed
      BY <2>1, <3>1 DEF Rollbacks
    <3>3. QED BY <3>2
  <2>4. RollbackFile(f)
    BY <2>1, <2>2, <2>3, OnlyUndoWrites
  <2>5. f \in rollback.todo /\ rollback'.disturbed = rollback.disturbed
    BY <2>1, <2>4 DEF RollbackFile, Rollbacks
  <2>6. file'[f] = image[f]
    BY <2>1, <2>4 DEF RollbackFile, TypeOK
  <2>7. PostOf(f) = "none"
    BY <2>5, <2>6 DEF IInv, RollOk, Replaced
  <2>8. QED BY <2>7, NothingCommitted DEF IInv
<1>3. Spec => LaterEditsSurvive
  BY <1>1, AlwaysGood, PTL DEF Spec, LaterEditsSurvive
<1>4. Spec => RollbackKeepsEdits
  BY <1>2, AlwaysGood, PTL DEF Spec, RollbackKeepsEdits
<1>5. QED BY <1>3, <1>4 DEF EditsSurvive

(* Neither says that it is done when something is left as the run wrote it  *)
(* (runRollback.cjs:151), through crashes and repeated attempts.            *)
THEOREM ClaimsAlwaysTrue == Spec => ClaimsAreTrue
<1> DEFINE Restored == comp'.phase = "completed" /\ comp.phase # "completed"
                         => \A f \in Touched \ later : file[f] = before[f]
           Back == rollback'.ok /\ ~rollback.ok
                     => \A f \in Paths \ rollback.disturbed : file[f] = image[f]
<1>1. IInv /\ [Next]_vars => Restored \/ UNCHANGED vars
  <2> SUFFICES ASSUME IInv, Next, comp'.phase = "completed", comp.phase # "completed"
               PROVE  \A f \in Touched \ later : file[f] = before[f]
    OBVIOUS
  <2>1. comp \in Comps
    BY UndoTypes DEF IInv
  <2>2. CASE CompDone
    BY <2>2 DEF CompDone, IInv, CompOk
  <2>3. CASE comp' = comp
    BY <2>3
  <2>4. CASE CompStart \/ CompStops \/ CrashRestart \/ \E f \in Files : CompFile(f)
    <3>1. CASE CompStart
      BY <3>1 DEF CompStart
    <3>2. CASE CompStops
      BY <2>1, <3>2 DEF CompStops, Comps
    <3>3. CASE CrashRestart
      BY <2>1, <3>3 DEF CrashRestart, Comps
    <3>4. CASE \E f \in Files : CompFile(f)
      BY <2>1, <3>4 DEF CompFile, Comps
    <3>5. QED BY <2>4, <3>1, <3>2, <3>3, <3>4
  <2>5. CASE \E o \in Ops : Begin(o) \/ Skip(o) \/ ToolWrites(o) \/ Commit(o) \/ Fail(o) \/ TimeOut(o)
    BY <2>3, <2>5 DEF Begin, Skip, ToolWrites, Commit, Fail, TimeOut, undo
  <2>6. CASE \E f \in Files : RollbackFile(f) \/ RollbackRefuses(f) \/ Edit(f)
    BY <2>3, <2>6 DEF RollbackFile, RollbackRefuses, Edit
  <2>7. CASE SettleAttempt \/ Inspect \/ CompRefused \/ RollbackEnd
             \/ \E force \in BOOLEAN : RollbackStart(force)
    BY <2>3, <2>7 DEF SettleAttempt, Inspect, CompRefused, RollbackEnd, RollbackStart, undo
  <2>8. QED BY <2>2, <2>4, <2>5, <2>6, <2>7 DEF Next
<1>2. IInv /\ [Next]_vars => Back \/ UNCHANGED vars
  <2> SUFFICES ASSUME IInv, Next, rollback'.ok, ~rollback.ok
               PROVE  \A f \in Paths \ rollback.disturbed : file[f] = image[f]
    OBVIOUS
  <2>1. rollback \in Rollbacks
    BY UndoTypes DEF IInv
  <2>2. CASE RollbackEnd
    <3>1. ~rollback.refused
      BY <2>1, <2>2 DEF RollbackEnd, NoRollback, Rollbacks
    <3>2. QED BY <2>2, <3>1 DEF RollbackEnd, IInv, RollOk
  <2>3. CASE rollback' = rollback
    BY <2>3
  <2>4. CASE CrashRestart \/ \E force \in BOOLEAN : RollbackStart(force)
    <3>1. CASE CrashRestart
      BY <3>1, EmptyGood DEF CrashRestart
    <3>2. CASE \E force \in BOOLEAN : RollbackStart(force)
      <4>1. \E force \in BOOLEAN : \E todo, refused :
              rollback' = [NoRollback EXCEPT !.busy = TRUE, !.force = force, !.todo = todo,
                             !.refused = refused]
        BY <3>2 DEF RollbackStart
      <4>2. ~rollback'.ok
        BY <4>1 DEF NoRollback
      <4>3. QED BY <4>2
    <3>3. QED BY <2>4, <3>1, <3>2
  <2>5. CASE \E f \in Files : RollbackFile(f) \/ RollbackRefuses(f) \/ Edit(f)
    BY <2>1, <2>5 DEF RollbackFile, RollbackRefuses, Edit, Rollbacks
  <2>6. CASE \E o \in Ops : Begin(o) \/ Skip(o) \/ ToolWrites(o) \/ Commit(o) \/ Fail(o) \/ TimeOut(o)
    BY <2>3, <2>6 DEF Begin, Skip, ToolWrites, Commit, Fail, TimeOut, undo
  <2>7. CASE SettleAttempt \/ Inspect \/ CompStart \/ CompRefused \/ CompStops \/ CompDone
             \/ \E f \in Files : CompFile(f)
    BY <2>3, <2>7 DEF SettleAttempt, Inspect, CompStart, CompRefused, CompStops, CompDone, CompFile, undo
  <2>8. QED BY <2>2, <2>4, <2>5, <2>6, <2>7 DEF Next
<1>3. Spec => CompletedIsRestored
  BY <1>1, AlwaysGood, PTL DEF Spec, CompletedIsRestored
<1>4. Spec => OkIsBeforeTheRun
  BY <1>2, AlwaysGood, PTL DEF Spec, OkIsBeforeTheRun
<1>5. QED BY <1>3, <1>4 DEF ClaimsAreTrue
=============================================================================
