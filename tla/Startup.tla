------------------------------- MODULE Startup -------------------------------
(***************************************************************************)
(* Process start and migrations.                                           *)
(*                                                                         *)
(* Every API instance applies the files of migration/ itself before it     *)
(* listens, in the order of their names, and enters each file in the table *)
(* migration_history.  Looking a file up, executing it and entering it are *)
(* separate statements; docker-compose.yml runs the service api "scalable",*)
(* so instances start together, and each may stop between any two          *)
(* statements.  Whether one that has stopped is started again is up to     *)
(* docker or to an operator: it may be, and nothing here relies on it.     *)
(*                                                                         *)
(* A file is one string of statements without arguments, which Postgres    *)
(* carries out as one transaction: it is executed as a whole or not at     *)
(* all.  A file is its place in the sorted list.                           *)
(***************************************************************************)
EXTENDS Naturals, FiniteSets

CONSTANTS
    Instances,      \* processes of the service api
    WithEnv,        \* those whose working directory holds a file .env
    NumFiles,       \* how many files migration/ holds
    MaxFailures     \* BOUND: statements that fail and processes that die

Files == 1 .. NumFiles

ASSUME StartupAssumption ==
    /\ IsFiniteSet(Instances)
    /\ WithEnv \subseteq Instances
    /\ NumFiles \in Nat
    /\ MaxFailures \in Nat

VARIABLES
    pc,         \* where each instance is in main()
    file,       \* the file its loop has come to
    history,    \* the filenames in migration_history
    applied,    \* history: how often each file was executed
    found,      \* history: what migration_history held when it started
    failures    \* counts what MaxFailures bounds

vars == <<pc, file, history, applied, found, failures>>

Steps == {"down", "createTable", "check", "exec", "record", "listen", "serving"}

TypeOK ==
    /\ pc \in [Instances -> Steps]
    /\ file \in [Instances -> 1 .. NumFiles + 1]
    /\ history \subseteq Files
    /\ applied \in [Files -> Nat]
    /\ found \in [Instances -> SUBSET Files]
    /\ failures \in 0 .. MaxFailures

(* An empty database.                                                      *)
Init ==
    /\ pc = [i \in Instances |-> "down"]
    /\ file = [i \in Instances |-> 1]
    /\ history = {}
    /\ applied = [f \in Files |-> 0]
    /\ found = [i \in Instances |-> {}]
    /\ failures = 0

-----------------------------------------------------------------------------
Goto(i, step) == pc' = [pc EXCEPT ![i] = step]

(* A process is started and gets as far as RunMigrations: .env is read, the*)
(* database answers.  Without .env main() ends at once, whatever variables *)
(* the process was given otherwise.                                        *)
ConnectDB(i) ==
    /\ pc[i] = "down"
    /\ i \in WithEnv
    /\ Goto(i, "createTable")
    /\ found' = [found EXCEPT ![i] = history]
    /\ UNCHANGED <<file, history, applied, failures>>

(* Mutant: CREATE TABLE without IF NOT EXISTS.                             *)
CreateHistoryTableAgain(i) ==
    /\ pc[i] = "createTable"
    /\ Goto(i, IF history = {} THEN "check" ELSE "down")
    /\ file' = [file EXCEPT ![i] = 1]
    /\ UNCHANGED <<history, applied, found, failures>>

(* CREATE TABLE IF NOT EXISTS, then the files are listed and sorted.       *)
CreateHistoryTable(i) ==
    /\ pc[i] = "createTable"
    /\ Goto(i, "check")
    /\ file' = [file EXCEPT ![i] = 1]
    /\ UNCHANGED <<history, applied, found, failures>>

(* Mutant: the path is looked up where the filename is recorded.           *)
CheckHistoryByPath(i) ==
    /\ pc[i] = "check"
    /\ Goto(i, IF file[i] \in Files THEN "exec" ELSE "listen")
    /\ UNCHANGED <<file, history, applied, found, failures>>

(* Mutant: the loop ends one file early.                                   *)
CheckHistoryShort(i) ==
    /\ pc[i] = "check"
    /\ IF file[i] \in Files \cap history
       THEN file' = [file EXCEPT ![i] = @ + 1] /\ UNCHANGED pc
       ELSE /\ Goto(i, IF file[i] < NumFiles THEN "exec" ELSE "listen")
            /\ UNCHANGED file
    /\ UNCHANGED <<history, applied, found, failures>>

CheckHistory(i) ==
    /\ pc[i] = "check"
    /\ IF file[i] \in Files \cap history
       THEN file' = [file EXCEPT ![i] = @ + 1] /\ UNCHANGED pc
       ELSE /\ Goto(i, IF file[i] \in Files THEN "exec" ELSE "listen")
            /\ UNCHANGED file
    /\ UNCHANGED <<history, applied, found, failures>>

ExecFile(i) ==
    /\ pc[i] = "exec"
    /\ applied' = [applied EXCEPT ![file[i]] = @ + 1]
    /\ Goto(i, "record")
    /\ UNCHANGED <<file, history, found, failures>>

(* Mutant: an entry that is there already is passed over, and so is the    *)
(* file after it.                                                          *)
RecordFileSkipping(i) ==
    /\ pc[i] = "record"
    /\ history' = history \cup {file[i]}
    /\ file' = [file EXCEPT ![i] = IF @ \in history THEN @ + 2 ELSE @ + 1]
    /\ Goto(i, "check")
    /\ UNCHANGED <<applied, found, failures>>

(* Mutant: the file that failed to be entered is executed once more.       *)
RecordFileRetrying(i) ==
    /\ pc[i] = "record"
    /\ IF file[i] \in history
       THEN Goto(i, "exec") /\ UNCHANGED <<file, history>>
       ELSE /\ history' = history \cup {file[i]}
            /\ file' = [file EXCEPT ![i] = @ + 1]
            /\ Goto(i, "check")
    /\ UNCHANGED <<applied, found, failures>>

(* The filename is UNIQUE: whoever comes second gets an error, which ends  *)
(* the process.                                                            *)
RecordFile(i) ==
    /\ pc[i] = "record"
    /\ IF file[i] \in history
       THEN Goto(i, "down") /\ UNCHANGED <<file, history>>
       ELSE /\ history' = history \cup {file[i]}
            /\ file' = [file EXCEPT ![i] = @ + 1]
            /\ Goto(i, "check")
    /\ UNCHANGED <<applied, found, failures>>

(* Queue client, Redis (whose error is logged only), cleanup, routes.      *)
Listen(i) ==
    /\ pc[i] = "listen"
    /\ Goto(i, "serving")
    /\ UNCHANGED <<file, history, applied, found, failures>>

(* A statement fails and main() calls log.Fatal, the process is killed, or *)
(* a handler panics: no middleware recovers, so that ends the process too. *)
Fail(i) ==
    /\ pc[i] # "down"
    /\ failures < MaxFailures
    /\ failures' = failures + 1
    /\ Goto(i, "down")
    /\ UNCHANGED <<file, history, applied, found>>

RunMigrations(i) ==
    CreateHistoryTable(i) \/ CheckHistory(i) \/ ExecFile(i) \/ RecordFile(i)

Main(i) == ConnectDB(i) \/ RunMigrations(i) \/ Listen(i)

Next == \E i \in Instances : Main(i) \/ Fail(i)

Spec == Init /\ [][Next]_vars

(* Every statement of a process that is up returns.                        *)
FairSpec == Spec /\ \A i \in Instances : WF_vars(RunMigrations(i) \/ Listen(i))

-----------------------------------------------------------------------------
(* Properties.                                                             *)

Executed == {f \in Files : applied[f] > 0}

(* Whoever serves requests serves them on the whole schema, whichever of   *)
(* the instances applied it and wherever the others stopped.               *)
ServingHasSchema ==
    \A i \in Instances : pc[i] = "serving" => Executed = Files /\ history = Files

(* A file alters tables that earlier files create: it is never executed    *)
(* before every earlier one has been executed and entered.                 *)
AppliedInOrder ==
    \A f \in Executed : \A e \in 1 .. (f - 1) : e \in Executed \cap history

(* An instance never executes a file that was entered before it started:   *)
(* a restart or a later deployment does not seed roles and products again, *)
(* only an instance that started before the entry may.                     *)
NeverReapplied ==
    \A i \in Instances : pc[i] \in {"exec", "record"} => file[i] \notin found[i]

(* How often a file is executed at most, the migrations not being locked:  *)
(* once by every instance that has its .env, and once more for each        *)
(* failure before the entry.                                               *)
RepeatsBounded ==
    \A f \in Files : applied[f] <= Cardinality(WithEnv) + failures

(* Instances that race refuse one another by the UNIQUE filename, but never*)
(* all of them: whenever one has been started, one comes to serve, although*)
(* none is started again, unless a statement fails or a process dies in    *)
(* between.  Then the other may be refused as well, for it may have passed *)
(* the check of a file that was entered since.                             *)
OneGetsThrough ==
    \A n \in 0 .. MaxFailures :
      (\E i \in Instances : pc[i] = "createTable") /\ failures = n
        ~> (\E i \in Instances : pc[i] = "serving") \/ failures > n
=============================================================================
