-------------------------- MODULE ControlPathProofs --------------------------
(***************************************************************************)
(* Proofs about ControlPath, for every set of proposals, grants, limits    *)
(* and failures, and for any number of restarts: PathInv is inductive, and *)
(* from it follow OncePerLife and the two properties of the journal.  Upon *)
(* it rest AccountInv and RerunInv, for the budget, the receipts and the   *)
(* number of effects over all lives.                                       *)
(***************************************************************************)
EXTENDS ControlPath, FiniteSetTheorems, TLAPS

\* The initial state, an empty disk and a daemon that has just started.
LEMMA InitPath == Init => PathInv
  BY StagesAssumption, PathAssumption
  DEF Init, PathInv, TypeOK, OncePerLife, Blank, NoProposal, Proposal, Verdicts, Phase

\* A rejected proposal changes nothing that PathInv speaks of but pc.
LEMMA RefusePath ==
  ASSUME PathInv, NEW p \in Proposal, Refuse(p)
  PROVE  PathInv'
<1>1. TypeOK'
  <2>1. Verdict(p, charged, phases) \in Verdicts
    BY DEF Verdict, Verdicts
  <2>2. p # NoProposal
    BY DEF Proposal, NoProposal
  <2> QED
    BY <2>1, <2>2 DEF PathInv, TypeOK, Refuse, disk
<1> QED
  BY <1>1 DEF PathInv, Refuse, OncePerLife, disk

\* An accepted proposal has an id that is in no phase yet, so none of the
\* effects of this life is its own.
LEMMA BeginPath ==
  ASSUME PathInv, NEW p \in Proposal, Begin(p)
  PROVE  PathInv'
<1>1. /\ phases[p.id] = "none" /\ charged[p.actuator] < Budget
      /\ p.id \in Ids /\ p.actuator \in Actuators
  BY DEF Begin, Verdict, ValidatorAccepts, SafetyAccepts, Proposal
<1>2. TypeOK'
  <2>1. p # NoProposal
    BY DEF Proposal, NoProposal
  <2> QED
    BY <1>1, <2>1 DEF PathInv, TypeOK, Begin, disk, Phase, Verdicts
<1>3. \A k \in DOMAIN here : here[k][1] # p.id /\ here[k][1] \in Ids
  BY <1>1 DEF PathInv, TypeOK, Begin
<1>4. phases' = [phases EXCEPT ![p.id] = "executing"] /\ phases \in [Ids -> Phase]
  BY DEF Begin, PathInv, TypeOK
<1> QED
  BY <1>1, <1>2, <1>3, <1>4 DEF PathInv, Begin, OncePerLife, disk

\* The effect is the first of its id in this life.
LEMMA ExecutePath ==
  ASSUME PathInv, Execute
  PROVE  PathInv'
<1>1. current \in Proposal /\ current.id \in Ids /\ current.actuator \in Actuators
  BY DEF PathInv, TypeOK, Execute, Proposal, NoProposal
<1> DEFINE e == <<current.id, current.actuator>>
<1>2. /\ e \in Ids \X Actuators /\ e[1] = current.id
      /\ here \in Seq(Ids \X Actuators) /\ here' = Append(here, e)
  BY <1>1 DEF PathInv, TypeOK, Execute
<1>3. /\ here' \in Seq(Ids \X Actuators)
      /\ \A k \in DOMAIN here' : \/ k \in DOMAIN here /\ here'[k] = here[k]
                                 \/ k = Len(here) + 1 /\ here'[k] = e
  BY <1>2
<1> HIDE DEF e
<1>4. TypeOK'
  BY <1>1, <1>3 DEF PathInv, TypeOK, Execute, disk
<1>5. OncePerLife'
  BY <1>2, <1>3 DEF PathInv, OncePerLife, Execute
<1>6. \A k \in DOMAIN here' : phases[here'[k][1]] # "none"
  BY <1>2, <1>3 DEF PathInv, Execute
<1> QED
  BY <1>4, <1>5, <1>6 DEF PathInv, Execute, disk

\* The promoted id was not on disk, so the disk stays final.
LEMMA RecordPath ==
  ASSUME PathInv, RecordExecuted
  PROVE  PathInv'
<1>1. current \in Proposal /\ current.id \in Ids /\ current.actuator \in Actuators
  BY DEF PathInv, TypeOK, RecordExecuted, Proposal, NoProposal
<1>2. TypeOK'
  <2>1. charged' \in [Actuators -> 0 .. Budget]
    BY <1>1, StagesAssumption DEF PathInv, TypeOK, RecordExecuted
  <2>2. phases' \in [Ids -> Phase]
    BY <1>1 DEF PathInv, TypeOK, RecordExecuted, Phase
  <2> QED
    BY <2>1, <2>2 DEF PathInv, TypeOK, RecordExecuted, disk
<1>3. /\ phases' = [phases EXCEPT ![current.id] = "executed"]
      /\ phases \in [Ids -> Phase]
  BY DEF RecordExecuted, PathInv, TypeOK
<1>4. \A k \in DOMAIN here : here[k][1] \in Ids
  BY DEF PathInv, TypeOK
<1> QED
  BY <1>1, <1>2, <1>3, <1>4 DEF PathInv, RecordExecuted, OncePerLife, disk

\* The steps of the journal: the temporary file is the memory's table, and
\* the rename puts a table on disk that extends the one it replaces.
LEMMA StorePath ==
  ASSUME PathInv, StoreJournal
  PROVE  PathInv'
  BY DEF PathInv, TypeOK, StoreJournal, OncePerLife

LEMMA RenamePath ==
  ASSUME PathInv, RenameJournal
  PROVE  PathInv'
<1>1. up /\ journal' = phases /\ phases \in [Ids -> Phase]
  BY DEF PathInv, TypeOK, RenameJournal
<1>2. \A i \in Ids : journal'[i] # "none" => journal'[i] = "executed"
  BY <1>1 DEF PathInv, RenameJournal, Phase
<1> QED
  BY <1>1, <1>2 DEF PathInv, TypeOK, RenameJournal, OncePerLife

LEMMA ReturnPath ==
  ASSUME PathInv, Return
  PROVE  PathInv'
<1>1. current \in Proposal /\ current.id \in Ids
  BY DEF PathInv, TypeOK, Return, Proposal, NoProposal
<1>2. TypeOK'
  BY <1>1 DEF PathInv, TypeOK, Return, disk
<1> QED
  BY <1>2 DEF PathInv, Return, OncePerLife, disk

LEMMA JournalFailsPath ==
  ASSUME PathInv, JournalFails
  PROVE  PathInv'
<1>1. /\ faults' \in [Fault -> Nat]
      /\ \A k \in Fault : faults'[k] <= MaxFaults[k]
  BY PathAssumption DEF PathInv, TypeOK, JournalFails, Fail, Fault
<1> QED
  BY <1>1 DEF PathInv, TypeOK, JournalFails, OncePerLife, disk

\* The end of a life, planned or not, leaves the disk and the history alone.
LEMMA DownPath ==
  ASSUME PathInv, Crash \/ Stop
  PROVE  PathInv'
<1>1. TypeOK'
  <2>1. /\ faults' \in [Fault -> Nat]
        /\ \A k \in Fault : faults'[k] <= MaxFaults[k]
    BY PathAssumption DEF PathInv, TypeOK, Crash, Stop, Fail, Fault
  <2>2. /\ phases' = Blank /\ charged' = [a \in Actuators |-> 0]
        /\ receipts' = <<>> /\ outcome' = "Ok"
    BY DEF Crash, Stop, LoseMemory
  <2>3. /\ phases' \in [Ids -> Phase] /\ outcome' \in Verdicts
        /\ receipts' \in Seq(Ids)
    BY <2>2 DEF Blank, Phase, Verdicts
  <2>4. charged' \in [Actuators -> 0 .. Budget]
    BY <2>2, StagesAssumption
  <2>5. up' = FALSE /\ pc' = "idle" /\ current' = NoProposal
    BY DEF Crash, Stop, LoseMemory
  <2>6. UNCHANGED <<journal, tmp, effects, here>>
    BY DEF Crash, Stop, disk
  <2> QED
    BY <2>1, <2>3, <2>4, <2>5, <2>6 DEF PathInv, TypeOK
<1>2. /\ ~up' /\ pc' = "idle" /\ UNCHANGED <<journal, tmp, here>>
      /\ phases' = [i \in Ids |-> "none"]
  BY DEF Crash, Stop, LoseMemory, Blank, disk
<1> QED
  BY <1>1, <1>2 DEF PathInv, OncePerLife

\* A new life knows every id on disk and has no effects yet.
LEMMA RestartPath ==
  ASSUME PathInv, Restart
  PROVE  PathInv'
<1>1. up' = TRUE /\ phases' = journal /\ here' = <<>> /\ pc' = "idle"
  BY DEF PathInv, Restart
<1>2. here' \in Seq(Ids \X Actuators) /\ DOMAIN here' = {}
  BY <1>1
<1>3. TypeOK'
  BY <1>1, <1>2 DEF PathInv, TypeOK, Restart, disk
<1>4. UNCHANGED journal
  BY DEF Restart, disk
<1> QED
  BY <1>1, <1>2, <1>3, <1>4 DEF PathInv, OncePerLife

\* PathInv is preserved by every step.
LEMMA StepPath == PathInv /\ [Next]_cvars => PathInv'
<1> SUFFICES ASSUME PathInv, [Next]_cvars PROVE PathInv'
  OBVIOUS
<1>1. CASE UNCHANGED cvars
  BY <1>1 DEF PathInv, TypeOK, OncePerLife, cvars, memory, disk
<1>2. CASE Next
  BY <1>2, RefusePath, BeginPath, ExecutePath, RecordPath, StorePath, RenamePath,
     ReturnPath, JournalFailsPath, DownPath, RestartPath
  DEF Next
<1> QED
  BY <1>1, <1>2

LEMMA PathInvariant == Spec => []PathInv
  BY InitPath, StepPath, PTL DEF Spec

\* The state stays well formed; in particular no actuator is ever charged
\* beyond its budget.
THEOREM TypeCorrect == Spec => []TypeOK
  BY PathInvariant, PTL DEF PathInv

\* No command id takes effect twice in one life of the daemon.
THEOREM EffectsOncePerLife == Spec => []OncePerLife
  BY PathInvariant, PTL DEF PathInv

\* No step takes an id out of the journal: only the rename changes it, and
\* the table it installs extends the one on disk.
THEOREM JournalIsFinal == Spec => JournalNeverForgets
<1>1. PathInv /\ [Next]_cvars
        => [\A i \in Ids : journal[i] # "none" => journal'[i] = journal[i]]_cvars
  <2> SUFFICES ASSUME PathInv, Next
               PROVE  \A i \in Ids : journal[i] # "none" => journal'[i] = journal[i]
    OBVIOUS
  <2>1. CASE RenameJournal
    BY <2>1 DEF PathInv, TypeOK, RenameJournal
  <2>2. CASE UNCHANGED journal
    BY <2>2
  <2> QED
    BY <2>1, <2>2 DEF Next, Refuse, Begin, Execute, RecordExecuted, StoreJournal, Return,
                      JournalFails, Crash, Stop, Restart, disk
<1> QED
  BY <1>1, PathInvariant, PTL DEF Spec, JournalNeverForgets

\* A command id that is on disk never takes effect again, in this life of the
\* daemon or in a later one.
THEOREM JournaledIsDone == Spec => JournaledNeverAgain
<1>1. PathInv /\ [Next]_cvars
        => [\A i \in Ids : journal[i] # "none" => effects'[i] = effects[i]]_cvars
  <2> SUFFICES ASSUME PathInv, Next,
                      NEW i \in Ids, journal[i] # "none"
               PROVE  effects'[i] = effects[i]
    OBVIOUS
  <2>1. CASE Execute
    <3>1. up /\ i # current.id
      BY <2>1 DEF PathInv, Execute
    <3> QED
      BY <2>1, <3>1 DEF PathInv, TypeOK, Execute
  <2>2. CASE UNCHANGED effects
    BY <2>2
  <2> QED
    BY <2>1, <2>2 DEF Next, Refuse, Begin, RecordExecuted, StoreJournal, RenameJournal,
                      Return, JournalFails, Crash, Stop, Restart
<1> QED
  BY <1>1, PathInvariant, PTL DEF Spec, JournaledNeverAgain
-----------------------------------------------------------------------------
(* Budget and receipts                                                     *)

\* One effect more counts for the actuator it drove and for no other.
LEMMA DrivenByOneMore ==
  ASSUME NEW h \in Seq(Ids \X Actuators), NEW e \in Ids \X Actuators, NEW a
  PROVE  /\ Cardinality({k \in DOMAIN h : h[k][2] = a}) \in Nat
         /\ Cardinality({k \in DOMAIN Append(h, e) : Append(h, e)[k][2] = a})
              = Cardinality({k \in DOMAIN h : h[k][2] = a}) + (IF e[2] = a THEN 1 ELSE 0)
<1> DEFINE S == {k \in DOMAIN h : h[k][2] = a}
           T == {k \in DOMAIN Append(h, e) : Append(h, e)[k][2] = a}
<1>1. Len(h) \in Nat /\ DOMAIN h = 1 .. Len(h)
  OBVIOUS
<1>2. IsFiniteSet(S) /\ Cardinality(S) \in Nat
  <2>1. IsFiniteSet(1 .. Len(h))
    BY <1>1, FS_Interval
  <2>2. S \in SUBSET (1 .. Len(h))
    BY <1>1
  <2> QED
    BY <2>1, <2>2, FS_Subset, FS_CardinalityType
<1>3. Len(h) + 1 \notin S
  BY <1>1
<1>4. T = IF e[2] = a THEN S \cup {Len(h) + 1} ELSE S
  <2>1. /\ DOMAIN Append(h, e) = 1 .. Len(h) + 1
        /\ Append(h, e)[Len(h) + 1] = e
        /\ \A k \in 1 .. Len(h) : Append(h, e)[k] = h[k]
    BY <1>1
  <2> QED
    BY <1>1, <2>1
<1>5. Cardinality(T) = Cardinality(S) + (IF e[2] = a THEN 1 ELSE 0)
  <2> HIDE DEF S, T
  <2>1. Cardinality(S \cup {Len(h) + 1}) = Cardinality(S) + 1
    BY <1>2, <1>3, FS_AddElement
  <2>2. CASE e[2] = a
    BY <1>4, <2>1, <2>2
  <2>3. CASE e[2] # a
    BY <1>2, <1>4, <2>3
  <2> QED
    BY <2>2, <2>3
<1> QED
  BY <1>2, <1>5

\* The ids of one effect more.
LEMMA DoneAppend ==
  ASSUME NEW h \in Seq(Ids \X Actuators), NEW e \in Ids \X Actuators
  PROVE  [k \in DOMAIN Append(h, e) |-> Append(h, e)[k][1]]
           = Append([k \in DOMAIN h |-> h[k][1]], e[1])
<1>1. \A k \in DOMAIN h : h[k][1] \in Ids
  OBVIOUS
<1>2. [k \in DOMAIN h |-> h[k][1]] \in Seq(Ids)
  BY <1>1
<1> QED
  BY <1>2

LEMMA InitAccount == Init => AccountInv
<1> SUFFICES ASSUME Init PROVE AccountInv
  OBVIOUS
<1>1. here = <<>> /\ DOMAIN here = {} /\ receipts = <<>>
      /\ pc = "idle" /\ up /\ charged = [a \in Actuators |-> 0]
  BY DEF Init
<1>2. \A a \in Actuators : Driven(a) = 0
  <2>1. \A a \in Actuators : {k \in DOMAIN here : here[k][2] = a} = {}
    BY <1>1
  <2> QED
    BY <2>1, FS_EmptySet DEF Driven
<1>3. Done = <<>>
  BY <1>1 DEF Done
<1> QED
  BY <1>1, <1>2, <1>3 DEF AccountInv

\* The actions that leave the effects of this life, the budget and the
\* receipts as they are.
LEMMA QuietAccount ==
  ASSUME PathInv, AccountInv, UNCHANGED <<up, charged, receipts, here>>,
         \/ /\ pc = "idle" /\ pc' = "store" /\ outcome' # "Ok"
         \/ /\ pc = "idle" /\ pc' = "execute" /\ outcome' = "Ok"
         \/ /\ pc \in {"store", "rename"} /\ pc' \in {"rename", "return"}
            /\ UNCHANGED <<current, outcome>>
         \/ UNCHANGED <<pc, current, outcome>>
  PROVE  AccountInv'
<1>1. (\A a \in Actuators : Driven(a)' = Driven(a)) /\ Done' = Done
  BY DEF Driven, Done
<1> QED
  BY <1>1 DEF AccountInv

LEMMA ExecuteAccount ==
  ASSUME PathInv, AccountInv, Execute
  PROVE  AccountInv'
<1> DEFINE e == <<current.id, current.actuator>>
<1>1. /\ current \in Proposal /\ e \in Ids \X Actuators
      /\ e[1] = current.id /\ e[2] = current.actuator
  BY DEF PathInv, TypeOK, Execute, Proposal, NoProposal
<1>2. /\ here \in Seq(Ids \X Actuators) /\ here' = Append(here, e)
      /\ pc = "execute" /\ pc' = "record" /\ up
      /\ UNCHANGED <<up, charged, receipts, current, outcome>>
  BY DEF PathInv, TypeOK, Execute
<1> HIDE DEF e
<1>3. ASSUME NEW a \in Actuators
      PROVE  Driven(a)' = Driven(a) + (IF e[2] = a THEN 1 ELSE 0)
  <2>1. Driven(a)' = Cardinality({k \in DOMAIN Append(here, e) : Append(here, e)[k][2] = a})
    BY <1>2 DEF Driven
  <2> QED
    BY <1>1, <1>2, <2>1, DrivenByOneMore, ZenonT(60) DEF Driven
<1>4. Done' = Append(Done, e[1])
  BY <1>1, <1>2, DoneAppend DEF Done
<1>5. \A a \in Actuators : charged[a] \in Nat
  BY StagesAssumption DEF PathInv, TypeOK
<1> QED
  BY <1>1, <1>2, <1>3, <1>4, <1>5 DEF AccountInv

LEMMA RecordAccount ==
  ASSUME PathInv, AccountInv, RecordExecuted
  PROVE  AccountInv'
<1>1. /\ (\A a \in Actuators : Driven(a)' = Driven(a)) /\ Done' = Done
      /\ pc = "record" /\ pc' = "store" /\ up /\ outcome = "Ok"
      /\ UNCHANGED <<up, receipts, current, outcome>>
  BY DEF RecordExecuted, Driven, Done, PathInv, AccountInv
<1>2. \A a \in Actuators :
        charged'[a] = charged[a] + (IF a = current.actuator THEN 1 ELSE 0)
  BY StagesAssumption DEF RecordExecuted, PathInv, TypeOK
<1>3. \A a \in Actuators : charged[a] \in Nat
  BY StagesAssumption DEF PathInv, TypeOK
<1> QED
  BY <1>1, <1>2, <1>3 DEF AccountInv

LEMMA ReturnAccount ==
  ASSUME PathInv, AccountInv, Return
  PROVE  AccountInv'
<1>1. /\ (\A a \in Actuators : Driven(a)' = Driven(a)) /\ Done' = Done
      /\ pc = "return" /\ pc' = "idle" /\ up
      /\ UNCHANGED <<up, charged, outcome>>
  BY DEF Return, Driven, Done, PathInv
<1>2. receipts' = IF outcome = "Ok" THEN Append(receipts, current.id) ELSE receipts
  BY DEF Return
<1> QED
  BY <1>1, <1>2 DEF AccountInv

LEMMA LifeAccount ==
  ASSUME PathInv, AccountInv, Crash \/ Stop \/ Restart
  PROVE  AccountInv'
<1>1. CASE Crash \/ Stop
  BY <1>1 DEF Crash, Stop, LoseMemory, AccountInv
<1>2. CASE Restart
  <2>1. /\ up' /\ pc' = "idle" /\ here' = <<>> /\ DOMAIN here' = {}
        /\ charged' = [a \in Actuators |-> 0] /\ receipts' = <<>>
    BY <1>2 DEF Restart, PathInv, AccountInv
  <2>2. \A a \in Actuators : Driven(a)' = 0
    <3>1. \A a \in Actuators : {k \in DOMAIN here' : here'[k][2] = a} = {}
      BY <2>1
    <3> QED
      BY <3>1, FS_EmptySet DEF Driven
  <2>3. Done' = <<>>
    BY <2>1 DEF Done
  <2> QED
    BY <2>1, <2>2, <2>3 DEF AccountInv
<1> QED
  BY <1>1, <1>2

LEMMA StepAccount == PathInv /\ AccountInv /\ [Next]_cvars => AccountInv'
<1> SUFFICES ASSUME PathInv, AccountInv, [Next]_cvars PROVE AccountInv'
  OBVIOUS
<1>1. CASE UNCHANGED cvars
  BY <1>1, QuietAccount DEF cvars, memory
<1>2. ASSUME NEW p \in Proposal, Refuse(p) \/ Begin(p) PROVE AccountInv'
  BY <1>2, QuietAccount DEF Refuse, Begin
<1>3. CASE StoreJournal \/ RenameJournal \/ JournalFails
  BY <1>3, QuietAccount DEF StoreJournal, RenameJournal, JournalFails
<1> QED
  BY <1>1, <1>2, <1>3, ExecuteAccount, RecordAccount, ReturnAccount, LifeAccount DEF Next

\* The budget binds in every life, and between calls budget, receipts and
\* effects of this life agree.
THEOREM AccountsAgree == Spec => []EffectsAccounted
<1>1. Spec => []AccountInv
  BY PathInvariant, InitAccount, StepAccount, PTL DEF Spec
<1>2. ASSUME PathInv, AccountInv PROVE EffectsAccounted
  <2> SUFFICES ASSUME up, NEW a \in Actuators
               PROVE  /\ Driven(a) <= Budget
                      /\ pc = "idle" => charged[a] = Driven(a) /\ receipts = Done
    BY DEF EffectsAccounted
  <2>1. charged[a] \in 0 .. Budget /\ Budget \in Nat
    BY <1>2, StagesAssumption DEF PathInv, TypeOK
  <2>2. pc = "record" => charged[current.actuator] < Budget
    BY <1>2 DEF PathInv
  <2>3. Driven(a) = charged[a] + (IF pc = "record" /\ a = current.actuator THEN 1 ELSE 0)
    BY <1>2 DEF AccountInv
  <2>4. Driven(a) <= Budget
    BY <2>1, <2>2, <2>3
  <2>5. pc = "idle" => charged[a] = Driven(a) /\ receipts = Done
    BY <1>2, <2>1, <2>3 DEF AccountInv
  <2> QED
    BY <2>4, <2>5
<1> QED
  BY <1>1, <1>2, PathInvariant, PTL

-----------------------------------------------------------------------------
(* Effects over all lives                                                  *)

\* What RerunInv adds up are naturals, and a failure adds one.
LEMMA FailuresCount ==
  ASSUME PathInv, JournalFails \/ Crash
  PROVE  /\ faults'["crash"] \in Nat /\ faults'["ioerror"] \in Nat
         /\ faults'["crash"] + faults'["ioerror"] = faults["crash"] + faults["ioerror"] + 1
<1>1. /\ faults \in [Fault -> Nat] /\ "crash" \in Fault /\ "ioerror" \in Fault
      /\ faults["crash"] \in Nat /\ faults["ioerror"] \in Nat
  BY DEF PathInv, TypeOK, Fault
<1>2. \E kind \in Fault : faults' = [faults EXCEPT ![kind] = @ + 1]
  BY <1>1 DEF JournalFails, Crash, Fail
<1>3. PICK kind \in Fault : faults' = [faults EXCEPT ![kind] = @ + 1]
  BY <1>2
<1>4. CASE kind = "crash"
  BY <1>1, <1>3, <1>4
<1>5. CASE kind = "ioerror"
  BY <1>1, <1>3, <1>5
<1> QED
  BY <1>4, <1>5 DEF Fault

LEMMA StepRerun == PathInv /\ RerunInv /\ [Next]_cvars => RerunInv'
<1> SUFFICES ASSUME PathInv, RerunInv, [Next]_cvars, NEW i \in Ids
             PROVE  /\ effects'[i] <= 1 + faults'["crash"] + faults'["ioerror"]
                    /\ journal'[i] = "none"
                       /\ (pc' \in {"idle", "execute", "return"} \/ phases'[i] = "none")
                         => effects'[i] <= faults'["crash"] + faults'["ioerror"]
  BY DEF RerunInv
<1>0. /\ effects \in [Ids -> Nat] /\ effects[i] \in Nat
      /\ faults["crash"] \in Nat /\ faults["ioerror"] \in Nat
  BY DEF PathInv, TypeOK, Fault
<1>1. /\ effects[i] <= 1 + faults["crash"] + faults["ioerror"]
      /\ journal[i] = "none" /\ (pc \in {"idle", "execute", "return"} \/ phases[i] = "none")
           => effects[i] <= faults["crash"] + faults["ioerror"]
  BY DEF RerunInv
<1>2. CASE UNCHANGED cvars
  BY <1>1, <1>2 DEF cvars, memory, disk
<1>3. ASSUME NEW p \in Proposal, Refuse(p) \/ Begin(p)
      PROVE  /\ effects'[i] <= 1 + faults'["crash"] + faults'["ioerror"]
             /\ journal'[i] = "none" => effects'[i] <= faults'["crash"] + faults'["ioerror"]
  BY <1>1, <1>3 DEF Refuse, Begin, disk
<1>4. CASE Execute
  <2>1. /\ current.id \in Ids /\ pc = "execute" /\ pc' = "record"
        /\ phases[current.id] = "executing" /\ journal[current.id] = "none"
    BY <1>4 DEF Execute, PathInv, TypeOK, Proposal, NoProposal
  <2>2. effects'[i] = IF i = current.id THEN effects[i] + 1 ELSE effects[i]
    BY <1>0, <1>4, <2>1 DEF Execute
  <2>3. UNCHANGED <<phases, journal, faults>>
    BY <1>4 DEF Execute, disk
  <2> QED
    BY <1>0, <1>1, <2>1, <2>2, <2>3
<1>5. CASE RecordExecuted
  <2>1. /\ phases'[i] = "none" => phases[i] = "none"
        /\ pc' = "store" /\ UNCHANGED <<effects, journal, faults>>
    BY <1>5 DEF RecordExecuted, PathInv, TypeOK, disk
  <2> QED
    BY <1>1, <2>1
<1>6. CASE StoreJournal
  BY <1>1, <1>6 DEF StoreJournal
<1>7. CASE RenameJournal
  <2>1. journal'[i] = phases[i] /\ UNCHANGED <<effects, phases, faults>>
    BY <1>7 DEF RenameJournal, PathInv
  <2>2. journal'[i] = "none" => journal[i] = "none"
    BY <2>1, <1>7 DEF PathInv, RenameJournal
  <2> QED
    BY <1>1, <2>1, <2>2
<1>8. CASE Return
  BY <1>1, <1>8 DEF Return, disk
<1>9. CASE JournalFails \/ Crash
  <2>1. UNCHANGED <<effects, journal>>
    BY <1>9 DEF JournalFails, Crash, disk
  <2> QED
    BY <1>0, <1>1, <1>9, <2>1, FailuresCount
<1>10. CASE Stop \/ Restart
  <2>1. pc = "idle" /\ UNCHANGED <<effects, journal, faults>>
    BY <1>10 DEF Stop, Restart, PathInv, disk
  <2> QED
    BY <1>1, <2>1
<1> QED
  BY <1>2, <1>3, <1>4, <1>5, <1>6, <1>7, <1>8, <1>9, <1>10 DEF Next

\* Each effect of a command but its first has a failure to answer for it:
\* restarts alone never repeat one.
THEOREM FailuresBoundReruns == Spec => []RerunNeedsFailure
<1>1. ASSUME Init PROVE RerunInv
  <2>1. faults["crash"] = 0 /\ faults["ioerror"] = 0 /\ \A i \in Ids : effects[i] = 0
    BY <1>1 DEF Init, Fault
  <2>2. SUFFICES ASSUME NEW i \in Ids
                 PROVE  /\ effects[i] <= 1 + faults["crash"] + faults["ioerror"]
                        /\ effects[i] <= faults["crash"] + faults["ioerror"]
    BY DEF RerunInv
  <2> QED
    BY <2>1
<1>2. Spec => []RerunInv
  BY <1>1, PathInvariant, StepRerun, PTL DEF Spec
<1>3. RerunInv => RerunNeedsFailure
  BY DEF RerunInv, RerunNeedsFailure
<1> QED
  BY <1>2, <1>3, PTL
=============================================================================
