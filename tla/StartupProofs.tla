--------------------------- MODULE StartupProofs ---------------------------
(***************************************************************************)
(* Proofs about Startup, for any number of processes, migration files and  *)
(* statements, and for every crash.                                        *)
(***************************************************************************)
EXTENDS Startup, TLAPS

(* The statements of a file that its executor has behind it took effect. *)
LoopInv ==
    \A p \in Apis :
        /\ phase[p] # "exec" => stmt[p] = 1
        /\ phase[p] \in {"exec", "mark"} => file[p] \in Files
        /\ phase[p] = "exec" =>
              /\ stmt[p] <= Statements[file[p]]
              /\ \A s \in 1 .. (stmt[p] - 1) : <<file[p], s>> \in tables
        /\ phase[p] = "mark" => TablesOf(file[p]) \subseteq tables

(* Marks are set in order and only on complete files, and a process has    *)
(* the files before the one it looks at behind it.                         *)
MarkInv ==
    /\ \A f \in marks : TablesOf(f) \subseteq tables /\ 1 .. f \subseteq marks
    /\ \A p \in Apis : 1 .. (file[p] - 1) \subseteq marks

(* What a process that is past the migrations can rely on. *)
ReadyInv ==
    /\ \A p \in Apis :
          /\ phase[p] \in {"bootstrap", "ready"} /\ config.migrate /\ HasDB => marks = Files
          /\ phase[p] = "ready" /\ Bootstraps => tenant
    /\ \A p \in Workers : phase[p] = "ready" /\ HasDB => RunsTable \in tables

StartupInv == TypeOK /\ LoopInv /\ MarkInv /\ ReadyInv
-----------------------------------------------------------------------------
(* The files are numbered from one, and each has a statement. *)
LEMMA FileFacts ==
    /\ Len(Statements) \in Nat \ {0}
    /\ \A f \in Files : Statements[f] \in Nat \ {0}
    /\ Files = 1 .. Len(Statements)
    /\ \A f \in Files : TablesOf(f) \subseteq AllTables
<1>1. Len(Statements) \in Nat /\ Len(Statements) # 0
  BY StartupAssumption
<1>2. \A f \in Files : Statements[f] \in Nat \ {0}
  BY StartupAssumption DEF Files
<1>3. \A f \in Files : TablesOf(f) \subseteq AllTables
  BY DEF AllTables
<1> QED
  BY <1>1, <1>2, <1>3 DEF Files

(* A process that has exited is at the first statement of the first file. *)
LEMMA ExitFacts ==
    ASSUME TypeOK, NEW p \in Processes, Exit(p)
    PROVE  /\ phase' \in [Processes -> Phases]
           /\ file' \in [Apis -> 1 .. (Len(Statements) + 1)]
           /\ stmt' \in [Apis -> Nat \ {0}]
           /\ phase'[p] = "down"
           /\ p \in Apis => file'[p] = 1 /\ stmt'[p] = 1
           /\ \A q \in Processes : q # p => phase'[q] = phase[q]
           /\ \A q \in Apis : q # p => file'[q] = file[q] /\ stmt'[q] = stmt[q]
  BY FileFacts DEF TypeOK, Exit, Goto, Phases

LEMMA InvInit == Init => StartupInv
<1> SUFFICES ASSUME Init PROVE StartupInv
  OBVIOUS
<1>1. TypeOK
  <2>1. ledger \in BOOLEAN /\ tenant \in BOOLEAN
    BY Zenon DEF Init
  <2> QED
    BY <2>1, FileFacts, StartupAssumption DEF Init, TypeOK, Phases
<1>2. LoopInv
  BY DEF Init, LoopInv, Processes
<1>3. MarkInv
  BY DEF Init, MarkInv
<1>4. ReadyInv
  BY DEF Init, ReadyInv, Processes
<1> QED
  BY <1>1, <1>2, <1>3, <1>4 DEF StartupInv

(* Exiting disturbs nothing, wherever the process was and whatever became  *)
(* of its last call.                                                       *)
LEMMA InvExit ==
    ASSUME StartupInv, NEW p \in Processes, Exit(p), UNCHANGED <<config, dbVars>>,
           crashes' \in 0 .. MaxCrashes
    PROVE  StartupInv'
<1> USE DEF dbVars
<1>1. TypeOK'
  <2>1. ledger' \in BOOLEAN /\ tenant' \in BOOLEAN
    BY Zenon DEF StartupInv, TypeOK
  <2> QED
    BY <2>1, ExitFacts DEF StartupInv, TypeOK
<1>2. LoopInv'
  BY ExitFacts DEF StartupInv, LoopInv, Processes, TablesOf
<1>3. MarkInv'
  <2>1. ASSUME NEW q \in Apis
        PROVE  1 .. (file'[q] - 1) \subseteq marks'
    <3>1. CASE q = p
      BY <3>1, ExitFacts DEF StartupInv
    <3>2. CASE q # p
      BY <3>2, ExitFacts DEF StartupInv, MarkInv
    <3> QED
      BY <3>1, <3>2
  <2> QED
    BY <2>1 DEF StartupInv, MarkInv, TablesOf
<1>4. ReadyInv'
  BY ExitFacts DEF StartupInv, ReadyInv, Processes, HasDB, Bootstraps
<1> QED
  BY <1>1, <1>2, <1>3, <1>4 DEF StartupInv

(* A process that starts, and one that has found all files applied, does   *)
(* not touch the database.                                                 *)
LEMMA InvStartApi ==
    ASSUME StartupInv, NEW p \in Apis, StartApi(p)
    PROVE  StartupInv'
<1> p \in Processes
  BY DEF Processes
<1>1. CASE Exit(p)
  BY <1>1, InvExit DEF StartApi, StartupInv, TypeOK
<1>2. CASE /\ Goto(p, IF config.migrate /\ HasDB THEN "ensure" ELSE AfterMigrations)
           /\ UNCHANGED <<file, stmt>>
  <2>1. TypeOK'
    <3>1. ledger' \in BOOLEAN /\ tenant' \in BOOLEAN
      BY Zenon DEF StartupInv, TypeOK, StartApi, dbVars
    <3> QED
      BY <1>2, <3>1 DEF StartupInv, TypeOK, StartApi, dbVars, Goto, AfterMigrations, Phases
  <2>2. LoopInv'
    BY <1>2 DEF StartupInv, TypeOK, LoopInv, StartApi, dbVars, Goto, AfterMigrations, TablesOf, Processes
  <2>3. MarkInv'
    BY <1>2 DEF StartupInv, MarkInv, StartApi, dbVars, TablesOf
  <2>4. ReadyInv'
    BY <1>2, StartupAssumption DEF StartupInv, TypeOK, ReadyInv, StartApi, dbVars, Goto,
       AfterMigrations, HasDB, Bootstraps, Processes
  <2> QED
    BY <2>1, <2>2, <2>3, <2>4 DEF StartupInv
<1> QED
  BY <1>1, <1>2 DEF StartApi

LEMMA InvEnsure ==
    ASSUME StartupInv, NEW p \in Apis, Ensure(p)
    PROVE  StartupInv'
<1>1. TypeOK'
  <2>1. ledger' \in BOOLEAN /\ tenant' \in BOOLEAN
    BY Zenon DEF StartupInv, TypeOK, Ensure
  <2> QED
    BY <2>1 DEF StartupInv, TypeOK, Ensure, Goto, Phases
<1>2. LoopInv'
  BY DEF StartupInv, TypeOK, LoopInv, Ensure, Goto, TablesOf, Processes
<1>3. MarkInv'
  BY DEF StartupInv, MarkInv, Ensure, TablesOf
<1>4. ReadyInv'
  BY StartupAssumption DEF StartupInv, TypeOK, ReadyInv, Ensure, Goto, HasDB, Bootstraps, Processes
<1> QED
  BY <1>1, <1>2, <1>3, <1>4 DEF StartupInv

(* A file that is skipped is marked; after the last one all are.           *)
LEMMA InvCheck ==
    ASSUME StartupInv, NEW p \in Apis, Check(p)
    PROVE  StartupInv'
<1> p \in Processes
  BY DEF Processes
<1> USE DEF dbVars
<1>1. Len(Statements) \in Nat /\ file[p] \in 1 .. (Len(Statements) + 1)
  BY FileFacts DEF StartupInv, TypeOK
<1>2. TypeOK'
  <2>1. ledger' \in BOOLEAN /\ tenant' \in BOOLEAN
    BY Zenon DEF StartupInv, TypeOK, Check
  <2>2. phase' \in [Processes -> Phases]
    BY DEF StartupInv, TypeOK, Check, Goto, AfterMigrations, Phases
  <2>3. file' \in [Apis -> 1 .. (Len(Statements) + 1)]
    BY <1>1 DEF StartupInv, TypeOK, Check, AllSeen
  <2> QED
    BY <2>1, <2>2, <2>3 DEF StartupInv, TypeOK, Check
<1>3. LoopInv'
  <2>1. /\ \/ phase'[p] \in {"check", "bootstrap", "ready"}
           \/ /\ phase'[p] = "exec"
              /\ file'[p] \in Files
        /\ stmt'[p] = 1
        /\ tables' = tables
    BY <1>1 DEF StartupInv, TypeOK, LoopInv, Check, Goto, AfterMigrations, AllSeen, Files
  <2>2. ASSUME NEW q \in Apis, q # p
        PROVE  phase'[q] = phase[q] /\ file'[q] = file[q] /\ stmt'[q] = stmt[q]
    BY <2>2 DEF StartupInv, TypeOK, Check, Goto, Processes
  <2> QED
    BY <2>1, <2>2, FileFacts DEF StartupInv, LoopInv, TablesOf
<1>4. MarkInv'
  <2>1. ASSUME NEW q \in Apis
        PROVE  1 .. (file'[q] - 1) \subseteq marks'
    <3>1. \/ file'[q] = file[q]
          \/ q = p /\ file'[p] = file[p] + 1 /\ file[p] \in marks
      BY DEF StartupInv, TypeOK, Check, IsApplied
    <3> QED
      BY <1>1, <3>1 DEF StartupInv, MarkInv, Check
  <2> QED
    BY <2>1 DEF StartupInv, MarkInv, TablesOf, Check
<1>5. ReadyInv'
  <2>1. ASSUME AllSeen(p) PROVE marks = Files
    <3>1. file[p] = Len(Statements) + 1
      BY <1>1, <2>1 DEF AllSeen
    <3>2. 1 .. Len(Statements) \subseteq marks
      BY <1>1, <3>1 DEF StartupInv, MarkInv
    <3> QED
      BY <3>2 DEF StartupInv, TypeOK, Files
  <2> QED
    BY <2>1, StartupAssumption DEF StartupInv, TypeOK, ReadyInv, Check, Goto, AfterMigrations,
       HasDB, Bootstraps, Processes
<1> QED
  BY <1>2, <1>3, <1>4, <1>5 DEF StartupInv

(* Tables are only added.  At its last statement a file is complete.       *)
LEMMA InvExec ==
    ASSUME StartupInv, NEW p \in Apis, Exec(p)
    PROVE  StartupInv'
<1> p \in Processes
  BY DEF Processes
<1> DEFINE f == file[p]
           s == stmt[p]
<1>1. /\ f \in Files
      /\ s \in 1 .. Statements[f] /\ Statements[f] \in Nat
      /\ \A n \in 1 .. (s - 1) : <<f, n>> \in tables
  BY FileFacts DEF Exec, StartupInv, LoopInv, TypeOK
<1>2. CASE Exit(p) /\ UNCHANGED tables
  BY <1>2, InvExit DEF Exec, StartupInv, TypeOK, dbVars
<1>3. CASE /\ tables' = tables \cup {<<f, s>>}
           /\ \/ LastStatement(p) /\ stmt' = [stmt EXCEPT ![p] = 1] /\ Goto(p, "mark")
              \/ ~LastStatement(p) /\ stmt' = [stmt EXCEPT ![p] = @ + 1] /\ UNCHANGED phase
           /\ UNCHANGED file
  <2>1. TypeOK'
    <3>1. ledger' \in BOOLEAN /\ tenant' \in BOOLEAN
      BY Zenon DEF StartupInv, TypeOK, Exec
    <3>2. <<f, s>> \in AllTables
      BY <1>1 DEF TablesOf, AllTables
    <3>3. stmt' \in [Apis -> Nat \ {0}]
      <4>1. stmt \in [Apis -> Nat \ {0}] /\ s \in Nat \ {0} /\ s + 1 \in Nat \ {0}
        BY DEF StartupInv, TypeOK
      <4> QED
        BY <1>3, <4>1
    <3>4. phase' \in [Processes -> Phases]
      BY <1>3 DEF StartupInv, TypeOK, Goto, Phases
    <3> QED
      BY <1>3, <3>1, <3>2, <3>3, <3>4 DEF StartupInv, TypeOK, Exec
  <2>2. LoopInv'
    <3>1. ASSUME NEW q \in Apis, q # p
          PROVE  phase'[q] = phase[q] /\ file'[q] = file[q] /\ stmt'[q] = stmt[q]
      BY <1>3, <3>1 DEF StartupInv, TypeOK, Goto, Processes
    <3>2. file'[p] = f
      BY <1>3
    <3>3. CASE LastStatement(p)
      <4>1. phase'[p] = "mark" /\ stmt'[p] = 1
        BY <1>3, <3>3 DEF StartupInv, TypeOK, Goto
      <4>2. TablesOf(f) \subseteq tables'
        <5>1. ASSUME NEW n \in 1 .. Statements[f] PROVE <<f, n>> \in tables'
          BY <1>1, <1>3, <3>3 DEF LastStatement
        <5> QED
          BY <5>1 DEF TablesOf
      <4> QED
        BY <1>1, <1>3, <3>1, <3>2, <4>1, <4>2 DEF StartupInv, LoopInv, TablesOf
    <3>4. CASE ~LastStatement(p)
      <4>1. phase'[p] = "exec" /\ stmt'[p] = s + 1 /\ s + 1 <= Statements[f]
        BY <1>1, <1>3, <3>4 DEF StartupInv, TypeOK, Exec, LastStatement
      <4>2. \A n \in 1 .. ((s + 1) - 1) : <<f, n>> \in tables'
        BY <1>1, <1>3
      <4> QED
        BY <1>1, <1>3, <3>1, <3>2, <4>1, <4>2 DEF StartupInv, LoopInv, TablesOf
    <3> QED
      BY <3>3, <3>4
  <2>3. MarkInv'
    BY <1>3 DEF StartupInv, MarkInv, Exec, TablesOf
  <2>4. ReadyInv'
    BY <1>3, StartupAssumption DEF StartupInv, TypeOK, ReadyInv, Exec, Goto, HasDB, Bootstraps,
       Processes
  <2> QED
    BY <2>1, <2>2, <2>3, <2>4 DEF StartupInv
<1> QED
  BY <1>2, <1>3 DEF Exec

(* The file that is marked is complete, and the ones before it are marked. *)
LEMMA InvMark ==
    ASSUME StartupInv, NEW p \in Apis, Mark(p)
    PROVE  StartupInv'
<1> p \in Processes
  BY DEF Processes
<1> DEFINE f == file[p]
<1>1. f \in Files /\ TablesOf(f) \subseteq tables /\ Len(Statements) \in Nat
  BY FileFacts DEF Mark, StartupInv, LoopInv
<1>2. CASE Exit(p) /\ UNCHANGED marks
  BY <1>2, InvExit DEF Mark, StartupInv, TypeOK, dbVars
<1>3. CASE /\ marks' = marks \cup {f}
           /\ file' = [file EXCEPT ![p] = @ + 1]
           /\ Goto(p, "check")
           /\ UNCHANGED stmt
  <2>1. TypeOK'
    <3>1. ledger' \in BOOLEAN /\ tenant' \in BOOLEAN
      BY Zenon DEF StartupInv, TypeOK, Mark
    <3>2. file' \in [Apis -> 1 .. (Len(Statements) + 1)]
      BY <1>1, <1>3 DEF StartupInv, TypeOK, Files
    <3> QED
      BY <1>1, <1>3, <3>1, <3>2 DEF StartupInv, TypeOK, Mark, Goto, Phases
  <2>2. LoopInv'
    BY <1>3 DEF StartupInv, TypeOK, LoopInv, Mark, Goto, TablesOf, Processes
  <2>3. MarkInv'
    <3>1. 1 .. (f - 1) \subseteq marks
      BY DEF StartupInv, MarkInv
    <3>2. 1 .. f \subseteq marks'
      BY <1>1, <1>3, <3>1 DEF Files
    <3>3. file'[p] = f + 1 /\ \A q \in Apis : q # p => file'[q] = file[q]
      BY <1>3 DEF StartupInv, TypeOK
    <3>4. ASSUME NEW q \in Apis PROVE 1 .. (file'[q] - 1) \subseteq marks'
      BY <1>1, <1>3, <3>2, <3>3 DEF StartupInv, MarkInv, Files
    <3>5. ASSUME NEW g \in marks' PROVE TablesOf(g) \subseteq tables' /\ 1 .. g \subseteq marks'
      BY <1>1, <1>3, <3>2 DEF StartupInv, MarkInv, Mark, TablesOf
    <3> QED
      BY <3>4, <3>5 DEF MarkInv, TablesOf
  <2>4. ReadyInv'
    BY <1>1, <1>3, StartupAssumption DEF StartupInv, TypeOK, ReadyInv, Mark, Goto, HasDB,
       Bootstraps, Processes
  <2> QED
    BY <2>1, <2>2, <2>3, <2>4 DEF StartupInv
<1> QED
  BY <1>2, <1>3 DEF Mark

LEMMA InvBootstrap ==
    ASSUME StartupInv, NEW p \in Apis, Bootstrap(p)
    PROVE  StartupInv'
<1> p \in Processes
  BY DEF Processes
<1>1. CASE Exit(p) /\ UNCHANGED tenant
  BY <1>1, InvExit DEF Bootstrap, StartupInv, TypeOK, dbVars
<1>2. CASE tenant' = TRUE /\ Goto(p, "ready") /\ UNCHANGED <<file, stmt>>
  <2>1. TypeOK'
    <3>1. ledger' \in BOOLEAN /\ tenant' \in BOOLEAN
      BY <1>2, Zenon DEF StartupInv, TypeOK, Bootstrap
    <3> QED
      BY <1>2, <3>1 DEF StartupInv, TypeOK, Bootstrap, Goto, Phases
  <2>2. LoopInv'
    BY <1>2 DEF StartupInv, TypeOK, LoopInv, Bootstrap, Goto, TablesOf, Processes
  <2>3. MarkInv'
    BY <1>2 DEF StartupInv, MarkInv, Bootstrap, TablesOf
  <2>4. ReadyInv'
    BY <1>2, StartupAssumption DEF StartupInv, TypeOK, ReadyInv, Bootstrap, Goto, HasDB,
       Bootstraps, Processes
  <2> QED
    BY <2>1, <2>2, <2>3, <2>4 DEF StartupInv
<1> QED
  BY <1>1, <1>2 DEF Bootstrap

(* A worker reads the database only. *)
LEMMA InvWorker ==
    ASSUME StartupInv, NEW p \in Workers, WorkerStep(p)
    PROVE  StartupInv'
<1> p \in Processes /\ p \notin Apis
  BY StartupAssumption DEF Processes
<1>1. UNCHANGED <<config, dbVars, crashes>>
  BY DEF WorkerStep, StartWorker, Poll
<1>2. CASE Exit(p)
  BY <1>1, <1>2, InvExit DEF StartupInv, TypeOK
<1>3. CASE /\ \/ Goto(p, "poll")
              \/ Goto(p, "ready") /\ (HasDB => RunsTable \in tables)
           /\ UNCHANGED <<file, stmt>>
  <2>1. TypeOK'
    <3>1. ledger' \in BOOLEAN /\ tenant' \in BOOLEAN
      BY <1>1, Zenon DEF StartupInv, TypeOK, dbVars
    <3> QED
      BY <1>1, <1>3, <3>1 DEF StartupInv, TypeOK, Goto, Phases, dbVars
  <2>2. LoopInv'
    BY <1>1, <1>3 DEF StartupInv, TypeOK, LoopInv, Goto, TablesOf, Processes, dbVars
  <2>3. MarkInv'
    BY <1>1, <1>3 DEF StartupInv, MarkInv, TablesOf, dbVars
  <2>4. ReadyInv'
    BY <1>1, <1>3 DEF StartupInv, TypeOK, ReadyInv, Goto, HasDB, Bootstraps, Processes, dbVars
  <2> QED
    BY <2>1, <2>2, <2>3, <2>4 DEF StartupInv
<1> QED
  BY <1>2, <1>3 DEF WorkerStep, StartWorker, Poll

LEMMA InvNext == StartupInv /\ [Next]_vars => StartupInv'
<1> SUFFICES ASSUME StartupInv, [Next]_vars PROVE StartupInv'
  OBVIOUS
<1>1. ASSUME NEW p \in Apis, ApiStep(p) PROVE StartupInv'
  BY <1>1, InvStartApi, InvEnsure, InvCheck, InvExec, InvMark, InvBootstrap DEF ApiStep
<1>2. ASSUME NEW p \in Workers, WorkerStep(p) PROVE StartupInv'
  BY <1>2, InvWorker
<1>3. ASSUME NEW p \in Processes, Crash(p) PROVE StartupInv'
  <2>1. crashes' \in 0 .. MaxCrashes
    BY <1>3, StartupAssumption DEF StartupInv, TypeOK, Crash
  <2> QED
    BY <1>3, <2>1, InvExit DEF Crash
<1>4. CASE UNCHANGED vars
  <2>1. TypeOK'
    BY <1>4, Zenon DEF StartupInv, TypeOK, vars, dbVars
  <2>2. LoopInv' /\ MarkInv' /\ ReadyInv'
    BY <1>4 DEF StartupInv, LoopInv, MarkInv, ReadyInv, vars, dbVars, TablesOf, HasDB, Bootstraps
  <2> QED
    BY <2>1, <2>2 DEF StartupInv
<1> QED
  BY <1>1, <1>2, <1>3, <1>4 DEF Next

LEMMA StartupInvariant == Spec => []StartupInv
  BY InvInit, InvNext, PTL DEF Spec

(* The variables of the start-up keep their types: ApplyDir's loop never   *)
(* leaves the files there are.                                             *)
THEOREM StartupTypeCorrect == Spec => []TypeOK
<1>1. StartupInv => TypeOK
  BY DEF StartupInv
<1> QED
  BY <1>1, StartupInvariant, PTL

(* schema_migrations lists complete migrations only, and with each all the *)
(* ones before it, however many processes run ApplyDir and wherever they   *)
(* die.                                                                    *)
THEOREM MigrationsComplete == Spec => []MarkedIsComplete
<1>1. StartupInv => MarkedIsComplete
  BY DEF StartupInv, MarkInv, MarkedIsComplete
<1> QED
  BY <1>1, StartupInvariant, PTL

(* A process that is ready has the schema it works on: the whole of it     *)
(* behind an API process told to migrate, the debug tenant in dev, and the *)
(* table of runs behind a worker.                                          *)
THEOREM ReadyMeansSchema == Spec => []ReadyHasSchema
<1>1. ASSUME StartupInv, marks = Files PROVE tables = AllTables
  BY <1>1 DEF StartupInv, TypeOK, MarkInv, AllTables
<1>2. StartupInv => ReadyHasSchema
  BY <1>1 DEF StartupInv, ReadyInv, ReadyHasSchema, Bootstraps, Processes
<1> QED
  BY <1>2, StartupInvariant, PTL
=============================================================================
