---------------------------- MODULE StartupProofs ----------------------------
(***************************************************************************)
(* What holds of Startup for any number of instances, files and failures.  *)
(***************************************************************************)
EXTENDS Startup, FiniteSetTheorems, TLAPS

(* How far an instance has come: without .env nowhere; every file before   *)
(* the one at hand has been entered, and the loop is left after the last   *)
(* one only.                                                               *)
Progress ==
    \A i \in Instances :
      /\ pc[i] # "down" => i \in WithEnv
      /\ pc[i] \in {"exec", "record"} => file[i] \in Files
      /\ pc[i] = "record" => file[i] \in Executed
      /\ pc[i] \in {"listen", "serving"} => file[i] = NumFiles + 1
      /\ pc[i] \notin {"down", "createTable"} => 1 .. (file[i] - 1) \subseteq history

(* Entries are of files that were executed, and none is ever removed.      *)
Recorded ==
    /\ history \subseteq Executed
    /\ \A i \in Instances : found[i] \subseteq history

IInv == TypeOK /\ Progress /\ Recorded /\ AppliedInOrder /\ NeverReapplied

LEMMA InitInvariant == Init => IInv
  BY StartupAssumption
  DEF Init, IInv, TypeOK, Progress, Recorded, AppliedInOrder, NeverReapplied,
      Executed, Files, Steps

(* A step of an instance that executes and enters nothing.                 *)
LEMMA StepOnly ==
  ASSUME IInv, NEW i \in Instances, NEW step \in Steps, Goto(i, step),
         UNCHANGED <<history, applied>>,
         file' \in [Instances -> 1 .. NumFiles + 1],
         \A j \in Instances \ {i} : file'[j] = file[j] /\ found'[j] = found[j],
         found' \in [Instances -> SUBSET Files], found'[i] \subseteq history,
         failures' \in 0 .. MaxFailures,
         step # "down" => i \in WithEnv,
         step \in {"exec", "record"} => file'[i] \in Files \ found'[i],
         step = "record" => file'[i] \in Executed,
         step \in {"listen", "serving"} => file'[i] = NumFiles + 1,
         step \notin {"down", "createTable"} => 1 .. (file'[i] - 1) \subseteq history
  PROVE  IInv'
  <1> USE DEF IInv, TypeOK
  <1>1. pc' = [pc EXCEPT ![i] = step] /\ Executed' = Executed
    BY DEF Goto, Executed
  <1>2. TypeOK'
    BY <1>1
  <1>3. Progress' /\ NeverReapplied'
    BY <1>1 DEF Progress, NeverReapplied
  <1>4. Recorded' /\ AppliedInOrder'
    BY <1>1 DEF Recorded, AppliedInOrder
  <1> QED BY <1>2, <1>3, <1>4

LEMMA ExecFileStep ==
  ASSUME IInv, NEW i \in Instances, ExecFile(i)
  PROVE  IInv'
  <1> USE DEF IInv, TypeOK
  <1>1. file[i] \in Files /\ 1 .. (file[i] - 1) \subseteq history
    BY DEF ExecFile, Progress
  <1>2. Executed' = Executed \cup {file[i]}
    BY <1>1 DEF ExecFile, Executed
  <1>3. TypeOK'
    BY <1>1 DEF ExecFile, Goto, Steps
  <1>4. Progress' /\ NeverReapplied'
    BY <1>1, <1>2 DEF ExecFile, Goto, Progress, NeverReapplied
  <1>5. Recorded'
    BY <1>2 DEF ExecFile, Recorded
  <1>6. AppliedInOrder'
    BY <1>1, <1>2, <1>5 DEF ExecFile, AppliedInOrder, Recorded
  <1> QED BY <1>3, <1>4, <1>5, <1>6

LEMMA RecordNewFile ==
  ASSUME IInv, NEW i \in Instances, RecordFile(i), file[i] \notin history
  PROVE  IInv'
  <1> USE DEF IInv, TypeOK
  <1>1. file[i] \in Executed /\ file[i] \in Files
    BY DEF RecordFile, Progress
  <1>2. /\ Goto(i, "check")
        /\ history' = history \cup {file[i]}
        /\ file' = [file EXCEPT ![i] = @ + 1]
        /\ UNCHANGED <<applied, found, failures>>
    BY DEF RecordFile
  <1>3. Executed' = Executed
    BY <1>2 DEF Executed
  <1>4. TypeOK'
    <2>1. file' \in [Instances -> 1 .. NumFiles + 1]
      BY <1>1, <1>2, StartupAssumption DEF Files
    <2>2. pc' \in [Instances -> Steps] /\ history' \subseteq Files
      BY <1>1, <1>2 DEF Goto, Steps
    <2> QED BY <2>1, <2>2, <1>2
  <1>5. Progress'
    <2> SUFFICES ASSUME NEW j \in Instances
                 PROVE  /\ pc'[j] # "down" => j \in WithEnv
                        /\ pc'[j] \in {"exec", "record"} => file'[j] \in Files
                        /\ pc'[j] = "record" => file'[j] \in Executed
                        /\ pc'[j] \in {"listen", "serving"} => file'[j] = NumFiles + 1
                        /\ pc'[j] \notin {"down", "createTable"}
                             => 1 .. (file'[j] - 1) \subseteq history'
      BY <1>3 DEF Progress
    <2>1. CASE j = i
      <3>1. 1 .. (file[i] - 1) \subseteq history /\ i \in WithEnv
        BY DEF RecordFile, Progress
      <3>2. pc'[i] = "check" /\ file'[i] = file[i] + 1
        BY <1>2 DEF Goto
      <3>3. 1 .. (file'[i] - 1) \subseteq history'
        BY <3>1, <3>2, <1>2, <1>1 DEF Files
      <3> QED BY <2>1, <3>1, <3>2, <3>3
    <2>2. CASE j # i
      BY <2>2, <1>2 DEF Goto, Progress
    <2> QED BY <2>1, <2>2
  <1>6. Recorded' /\ AppliedInOrder'
    BY <1>1, <1>2, <1>3 DEF Recorded, AppliedInOrder
  <1>7. NeverReapplied'
    BY <1>2 DEF Goto, NeverReapplied
  <1> QED BY <1>4, <1>5, <1>6, <1>7

LEMMA NextInvariant == IInv /\ [Next]_vars => IInv'
  <1> SUFFICES ASSUME IInv, [Next]_vars
               PROVE  IInv'
    OBVIOUS
  <1>t. TypeOK /\ Progress /\ Recorded
    BY DEF IInv
  <1> USE StartupAssumption
  <1>1. ASSUME NEW i \in Instances, ConnectDB(i)
        PROVE  IInv'
    <2>1. /\ Goto(i, "createTable") /\ i \in WithEnv
          /\ found' = [found EXCEPT ![i] = history]
          /\ UNCHANGED <<file, history, applied, failures>>
      BY <1>1 DEF ConnectDB
    <2> QED BY <1>t, <2>1, StepOnly DEF TypeOK, Steps
  <1>2. ASSUME NEW i \in Instances, CreateHistoryTable(i)
        PROVE  IInv'
    <2>1. /\ Goto(i, "check") /\ i \in WithEnv
          /\ file' = [file EXCEPT ![i] = 1]
          /\ UNCHANGED <<history, applied, found, failures>>
      BY <1>2, <1>t DEF CreateHistoryTable, Progress
    <2>2. 1 .. (file'[i] - 1) = {}
      BY <1>t, <2>1 DEF TypeOK
    <2> QED BY <1>t, <2>1, <2>2, StepOnly DEF TypeOK, Recorded, Steps
  <1>3. ASSUME NEW i \in Instances, CheckHistory(i)
        PROVE  IInv'
    <2>1. pc[i] = "check" /\ UNCHANGED <<history, applied, found, failures>>
      BY <1>3 DEF CheckHistory
    <2>2. /\ 1 .. (file[i] - 1) \subseteq history /\ file[i] \in 1 .. NumFiles + 1
          /\ i \in WithEnv
      BY <1>t, <2>1 DEF Progress, TypeOK
    <2>3. CASE file[i] \in Files \cap history
      <3>1. file' = [file EXCEPT ![i] = @ + 1] /\ Goto(i, "check")
        BY <1>3, <2>3, <1>t DEF CheckHistory, Goto, TypeOK
      <3>2. 1 .. (file'[i] - 1) \subseteq history
        BY <1>t, <2>2, <2>3, <3>1 DEF TypeOK, Files
      <3>3. file' \in [Instances -> 1 .. NumFiles + 1]
        BY <1>t, <2>3, <3>1 DEF TypeOK, Files
      <3> QED BY <1>t, <2>1, <2>2, <3>1, <3>2, <3>3, StepOnly DEF TypeOK, Recorded, Steps
    <2>4. CASE file[i] \in Files \ history
      <3>1. Goto(i, "exec") /\ UNCHANGED file
        BY <1>3, <2>4 DEF CheckHistory
      <3> QED BY <1>t, <2>1, <2>2, <2>4, <3>1, StepOnly DEF TypeOK, Recorded, Steps
    <2>5. CASE file[i] \notin Files
      <3>1. Goto(i, "listen") /\ UNCHANGED file
        BY <1>3, <2>5 DEF CheckHistory
      <3>2. file[i] = NumFiles + 1
        BY <2>2, <2>5 DEF Files
      <3> QED BY <1>t, <2>1, <2>2, <3>1, <3>2, StepOnly DEF TypeOK, Recorded, Steps
    <2> QED BY <2>3, <2>4, <2>5
  <1>4. ASSUME NEW i \in Instances, RecordFile(i)
        PROVE  IInv'
    <2>1. CASE file[i] \in history
      <3>1. Goto(i, "down") /\ UNCHANGED <<file, history, applied, found, failures>>
        BY <1>4, <2>1 DEF RecordFile
      <3> QED BY <1>t, <3>1, StepOnly DEF TypeOK, Recorded, Steps
    <2> QED BY <1>4, <2>1, RecordNewFile
  <1>5. ASSUME NEW i \in Instances, Listen(i)
        PROVE  IInv'
    <2>1. pc[i] = "listen" /\ Goto(i, "serving")
            /\ UNCHANGED <<file, history, applied, found, failures>>
      BY <1>5 DEF Listen
    <2> QED BY <1>t, <2>1, StepOnly DEF TypeOK, Progress, Recorded, Steps
  <1>6. ASSUME NEW i \in Instances, Fail(i)
        PROVE  IInv'
    <2>1. Goto(i, "down") /\ UNCHANGED <<file, history, applied, found>>
            /\ failures' \in 0 .. MaxFailures
      BY <1>6, <1>t DEF Fail, TypeOK
    <2> QED BY <1>t, <2>1, StepOnly DEF TypeOK, Recorded, Steps
  <1>7. CASE UNCHANGED vars
    BY <1>7 DEF vars, IInv, TypeOK, Progress, Recorded, AppliedInOrder,
                NeverReapplied, Executed
  <1> QED BY <1>1, <1>2, <1>3, <1>4, <1>5, <1>6, <1>7, ExecFileStep
          DEF Next, Main, RunMigrations

LEMMA Invariant == Spec => []IInv
  BY InitInvariant, NextInvariant, PTL DEF Spec

(* The variables have their types.                                         *)
THEOREM TypeCorrect == Spec => []TypeOK
  <1>1. IInv => TypeOK
    BY DEF IInv
  <1> QED BY <1>1, Invariant, PTL

(* Any number of instances that start and stop as they like: none of them  *)
(* serves on less than the whole schema.                                   *)
THEOREM ServingHasSchemaTheorem == Spec => []ServingHasSchema
  <1>1. ASSUME IInv, NEW i \in Instances, pc[i] = "serving"
        PROVE  Executed = Files /\ history = Files
    <2>1. 1 .. (file[i] - 1) \subseteq history /\ file[i] = NumFiles + 1
      BY <1>1 DEF IInv, Progress
    <2>2. Files \subseteq history
      BY <2>1, StartupAssumption DEF Files
    <2>3. history \subseteq Executed /\ history \subseteq Files
      BY <1>1 DEF IInv, TypeOK, Recorded
    <2> QED BY <2>2, <2>3 DEF Executed
  <1>2. IInv => ServingHasSchema
    BY <1>1 DEF ServingHasSchema
  <1> QED BY <1>2, Invariant, PTL

(* Files are executed in their order, whoever executes them.               *)
THEOREM AppliedInOrderTheorem == Spec => []AppliedInOrder
  <1>1. IInv => AppliedInOrder
    BY DEF IInv
  <1> QED BY <1>1, Invariant, PTL

(* What was entered when an instance started is not executed by it.        *)
THEOREM NeverReappliedTheorem == Spec => []NeverReapplied
  <1>1. IInv => NeverReapplied
    BY DEF IInv
  <1> QED BY <1>1, Invariant, PTL
-----------------------------------------------------------------------------
(* How often a file is executed.                                           *)

Executing(f) == {i \in Instances : pc[i] = "exec" /\ file[i] = f}
Recording(f) == {i \in Instances : pc[i] = "record" /\ file[i] = f}

(* Before the entry, whoever executed the file is about to enter it or has *)
(* failed; after it, only those can still execute it that are about to.    *)
CountedFile(f) ==
    IF f \in history
    THEN applied[f] + Cardinality(Executing(f)) <= Cardinality(WithEnv) + failures
    ELSE applied[f] <= Cardinality(Recording(f)) + failures

Counted == \A f \in Files : CountedFile(f)

LEMMA FiniteParts ==
  ASSUME Progress, NEW f \in Files
  PROVE  /\ IsFiniteSet(Executing(f)) /\ Cardinality(Executing(f)) \in Nat
         /\ IsFiniteSet(Recording(f)) /\ Cardinality(Recording(f)) \in Nat
         /\ Cardinality(WithEnv) \in Nat
         /\ Cardinality(Executing(f)) + Cardinality(Recording(f)) <= Cardinality(WithEnv)
  <1> USE StartupAssumption
  <1>0. IsFiniteSet(WithEnv)
    BY FS_Subset
  <1>1. Executing(f) \in SUBSET WithEnv /\ Recording(f) \in SUBSET (WithEnv \ Executing(f))
    BY DEF Executing, Recording, Progress
  <1>2. /\ IsFiniteSet(Executing(f)) /\ IsFiniteSet(WithEnv \ Executing(f))
        /\ Cardinality(WithEnv \ Executing(f)) = Cardinality(WithEnv) - Cardinality(Executing(f))
    <2>1. IsFiniteSet(Executing(f)) /\ IsFiniteSet(WithEnv \ Executing(f))
      BY <1>0, <1>1, FS_Subset
    <2>2. WithEnv \cap Executing(f) = Executing(f)
      BY <1>1
    <2> QED BY <1>0, <2>1, <2>2, FS_Difference
  <1>3. IsFiniteSet(Recording(f))
          /\ Cardinality(Recording(f)) <= Cardinality(WithEnv \ Executing(f))
    BY <1>1, <1>2, FS_Subset
  <1> QED BY <1>0, <1>2, <1>3, FS_CardinalityType

(* A step that executes no file and enters none: it takes at most itself   *)
(* out of Recording, at the price of a failure, and adds nobody to the     *)
(* executors of a file that has been entered.                              *)
LEMMA CountedAfterStep ==
  ASSUME IInv, Counted, NEW i \in Instances, NEW step \in Steps, Goto(i, step),
         UNCHANGED <<history, applied>>, failures' \in Nat, failures' >= failures,
         \A j \in Instances \ {i} : file'[j] = file[j],
         step # "record",
         step = "exec" => file'[i] \notin history,
         pc[i] = "record" => file[i] \in history \/ failures' = failures + 1
  PROVE  Counted'
  <1> SUFFICES ASSUME NEW f \in Files
               PROVE  CountedFile(f)'
    BY DEF Counted
  <1> USE DEF IInv, TypeOK
  <1>1. pc' = [pc EXCEPT ![i] = step] /\ CountedFile(f) /\ applied[f] \in Nat
          /\ failures \in Nat
    BY DEF Goto, Counted
  <1>2. CASE f \in history
    <2>1. Executing(f)' \in SUBSET Executing(f)
      BY <1>1, <1>2 DEF Executing
    <2>2. Cardinality(Executing(f)') <= Cardinality(Executing(f))
            /\ Cardinality(Executing(f)') \in Nat
      BY <2>1, FiniteParts, FS_Subset, FS_CardinalityType
    <2> QED BY <1>1, <1>2, <2>2, FiniteParts DEF CountedFile
  <1>3. CASE f \notin history
    <2>1. Recording(f)' = Recording(f) \ {i}
      BY <1>1 DEF Recording
    <2>2. Cardinality(Recording(f)') =
            IF i \in Recording(f) THEN Cardinality(Recording(f)) - 1
                                  ELSE Cardinality(Recording(f))
      BY <2>1, FiniteParts, FS_RemoveElement
    <2>3. i \in Recording(f) => failures' = failures + 1
      BY <1>3 DEF Recording
    <2> QED BY <1>1, <1>3, <2>2, <2>3, FiniteParts DEF CountedFile
  <1> QED BY <1>2, <1>3

LEMMA CountedAfterExec ==
  ASSUME IInv, Counted, NEW i \in Instances, ExecFile(i)
  PROVE  Counted'
  <1> SUFFICES ASSUME NEW f \in Files
               PROVE  CountedFile(f)'
    BY DEF Counted
  <1> USE DEF IInv, TypeOK
  <1>1. /\ pc[i] = "exec"
        /\ pc' = [pc EXCEPT ![i] = "record"]
        /\ applied' = [applied EXCEPT ![file[i]] = @ + 1]
        /\ UNCHANGED <<file, history, failures>>
        /\ CountedFile(f) /\ applied[f] \in Nat /\ failures \in Nat
    BY DEF ExecFile, Goto, Counted
  <1>2. /\ Executing(f)' = Executing(f) \ {i}
        /\ Recording(f)' = IF file[i] = f THEN Recording(f) \cup {i} ELSE Recording(f)
    BY <1>1 DEF Executing, Recording
  <1>3. CASE file[i] = f
    <2>1. i \in Executing(f) /\ i \notin Recording(f) /\ applied'[f] = applied[f] + 1
      BY <1>1, <1>3 DEF Executing, Recording
    <2>2. /\ Cardinality(Executing(f)') = Cardinality(Executing(f)) - 1
          /\ Cardinality(Recording(f)') = Cardinality(Recording(f)) + 1
      <3>1. IsFiniteSet(Executing(f)) /\ IsFiniteSet(Recording(f))
        BY FiniteParts
      <3>2. Executing(f)' = Executing(f) \ {i} /\ Recording(f)' = Recording(f) \cup {i}
        BY <1>2, <1>3
      <3>3. Cardinality(Executing(f) \ {i}) = Cardinality(Executing(f)) - 1
        BY <3>1, <2>1, FS_RemoveElement
      <3>4. Cardinality(Recording(f) \cup {i}) = Cardinality(Recording(f)) + 1
        BY <3>1, <2>1, FS_AddElement
      <3> QED BY <3>2, <3>3, <3>4
    <2> QED BY <1>1, <2>1, <2>2, FiniteParts DEF CountedFile
  <1>4. CASE file[i] # f
    <2>1. Executing(f)' = Executing(f) /\ Recording(f)' = Recording(f)
            /\ applied'[f] = applied[f]
      BY <1>1, <1>2, <1>4 DEF Executing
    <2> QED BY <1>1, <2>1 DEF CountedFile
  <1> QED BY <1>3, <1>4

LEMMA CountedAfterRecord ==
  ASSUME IInv, Counted, NEW i \in Instances, RecordFile(i), file[i] \notin history
  PROVE  Counted'
  <1> SUFFICES ASSUME NEW f \in Files
               PROVE  CountedFile(f)'
    BY DEF Counted
  <1> USE DEF IInv, TypeOK
  <1>1. /\ pc[i] = "record"
        /\ pc' = [pc EXCEPT ![i] = "check"]
        /\ file' = [file EXCEPT ![i] = @ + 1]
        /\ history' = history \cup {file[i]}
        /\ UNCHANGED <<applied, failures>>
        /\ CountedFile(f) /\ applied[f] \in Nat /\ failures \in Nat
    BY DEF RecordFile, Goto, Counted
  <1>2. Executing(f)' = Executing(f)
    BY <1>1 DEF Executing
  <1>3. CASE file[i] = f
    <2>1. f \in history' /\ f \notin history
      BY <1>1, <1>3
    <2> QED BY <1>1, <1>2, <2>1, FiniteParts DEF CountedFile
  <1>4. CASE file[i] # f
    <2>1. Recording(f)' = Recording(f) /\ (f \in history' <=> f \in history)
      BY <1>1, <1>4 DEF Recording
    <2> QED BY <1>1, <1>2, <2>1 DEF CountedFile
  <1> QED BY <1>3, <1>4

LEMMA CountedInvariant == Spec => []Counted
  <1> USE StartupAssumption
  <1>1. Init => Counted
    <2> SUFFICES ASSUME Init, NEW f \in Files
                 PROVE  CountedFile(f)
      BY DEF Counted
    <2>1. Progress
      BY InitInvariant DEF IInv
    <2> QED BY <2>1, FiniteParts DEF Init, CountedFile
  <1>2. IInv /\ Counted /\ [Next]_vars => Counted'
    <2> SUFFICES ASSUME IInv, Counted, [Next]_vars
                 PROVE  Counted'
      OBVIOUS
    <2>t. TypeOK /\ failures \in Nat /\ failures >= failures
      BY DEF IInv, TypeOK
    <2>1. ASSUME NEW i \in Instances,
                 ConnectDB(i) \/ CreateHistoryTable(i) \/ CheckHistory(i) \/ Listen(i)
          PROVE  Counted'
      <3>1. /\ pc[i] # "record"
            /\ UNCHANGED <<history, applied, failures>>
            /\ \A j \in Instances \ {i} : file'[j] = file[j]
        BY <2>1, <2>t DEF ConnectDB, CreateHistoryTable, CheckHistory, Listen, TypeOK
      <3>2. \/ Goto(i, "createTable") \/ Goto(i, "check") \/ Goto(i, "listen")
            \/ Goto(i, "serving")
            \/ Goto(i, "exec") /\ file'[i] \notin history
        <4>1. ASSUME CheckHistory(i), file[i] \in Files \cap history
              PROVE  Goto(i, "check")
          BY <4>1, <2>t DEF CheckHistory, Goto, TypeOK
        <4>2. ASSUME CheckHistory(i), file[i] \notin Files \cap history
              PROVE  Goto(i, "listen") \/ (Goto(i, "exec") /\ file'[i] \notin history)
          BY <4>2 DEF CheckHistory
        <4> QED BY <2>1, <4>1, <4>2 DEF ConnectDB, CreateHistoryTable, Listen
      <3> QED BY <2>t, <3>1, <3>2, CountedAfterStep DEF Steps
    <2>2. ASSUME NEW i \in Instances, RecordFile(i)
          PROVE  Counted'
      <3>1. CASE file[i] \in history
        <4>1. Goto(i, "down") /\ UNCHANGED <<history, applied, failures, file>>
          BY <2>2, <3>1 DEF RecordFile
        <4> QED BY <2>t, <3>1, <4>1, CountedAfterStep DEF Steps
      <3> QED BY <2>2, <3>1, CountedAfterRecord
    <2>3. ASSUME NEW i \in Instances, Fail(i)
          PROVE  Counted'
      <3>1. Goto(i, "down") /\ UNCHANGED <<history, applied, file>>
              /\ failures' = failures + 1
        BY <2>3 DEF Fail
      <3> QED BY <2>t, <3>1, CountedAfterStep DEF Steps
    <2>4. CASE UNCHANGED vars
      BY <2>4 DEF vars, Counted, CountedFile, Executing, Recording
    <2> QED BY <2>1, <2>2, <2>3, <2>4, CountedAfterExec DEF Next, Main, RunMigrations
  <1> QED BY <1>1, <1>2, Invariant, PTL DEF Spec

(* However many instances race, a file is executed no more often than      *)
(* there are instances with an .env and failures.                          *)
THEOREM RepeatsBoundedTheorem == Spec => []RepeatsBounded
  <1>1. IInv /\ Counted => RepeatsBounded
    <2> SUFFICES ASSUME IInv, Counted, NEW f \in Files
                 PROVE  applied[f] <= Cardinality(WithEnv) + failures
      BY DEF RepeatsBounded
    <2>1. CountedFile(f) /\ applied[f] \in Nat /\ failures \in Nat /\ Progress
      BY StartupAssumption DEF Counted, IInv, TypeOK
    <2> QED BY <2>1, FiniteParts DEF CountedFile
  <1> QED BY <1>1, Invariant, CountedInvariant, PTL
=============================================================================
