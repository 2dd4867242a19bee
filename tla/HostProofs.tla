------------------------------ MODULE HostProofs ------------------------------
(***************************************************************************)
(* Proofs about what a build needs of the machine it runs on, three        *)
(* components that share no state: for any sizes of VMController's         *)
(* histories, the clients of both controllers are sound; for any contexts  *)
(* and entries, the directories BuildContext returns hold their sources;   *)
(* for any texts and any number of errors, the category ErrorClassifier    *)
(* gives an error is that of its own words or of those callers add.        *)
(***************************************************************************)
EXTENDS VMController, BuildContext, ErrorClassifier, SequenceTheorems,
        FiniteSetTheorems, WellFoundedInduction, TLAPS

(* A set of numbers has a least one. *)
LEMMA Least ==
  ASSUME NEW S \in SUBSET Nat, S # {}
  PROVE  \E i \in S : \A j \in S : i <= j
<1>1. PICK i \in S : \A j \in S : ~ (<<j, i>> \in OpToRel(<, Nat))
  BY WFMin, NatLessThanWellFounded
<1>2. \A j \in S : ~ (j < i)
  BY <1>1 DEF OpToRel
<1> QED BY <1>2

------------------------------------------------------------------------------
(* VMController *)

(* Where an operation may be, and what it holds there.                      *)
BeforeClient == {"new", "start", "wait", "probe", "connect"}

StagesOK ==
  /\ pc = "new" => op = "new"
  /\ pc \in {"wait", "probe"} => op = "new" \/ (colima /\ op = "restart")
  /\ pc \in {"start", "connect"} => op \in {"new", "restart"}
  /\ pc = "connect" /\ colima => op = "new"
  /\ pc = "list" => ~colima /\ op \in {"new", "restart"}
  /\ pc = "solve" => op = "solve"
  /\ pc = "command" => op = "command"
  /\ pc = "transfer" => op = "transfer" /\ colima /\ answered

(* The clients are numbered in the order they are made, at most one for the *)
(* constructor and one for each restart; the one in use is open.            *)
ClientsOK ==
  /\ colima => clients = 0
  /\ pc \in BeforeClient => clients <= restarts
  /\ ~colima /\ pc # "closed" => client = 0 \/ client \in open
  /\ pc \in {"list", "solve"} /\ ~colima => client # 0

(* One client for each restart may be left open besides the one in use. *)
FewOpen ==
  /\ Cardinality(open \ {client}) <= restarts
  /\ pc \in BeforeClient \union {"dead", "closed"} => Cardinality(open) <= restarts

IInv == TypeOK /\ StagesOK /\ ClientsOK /\ FewOpen /\ SuccessMeansAnswered

-----------------------------------------------------------------------------
LEMMA OpenIsFinite ==
  ASSUME TypeOK, NEW n
  PROVE  /\ IsFiniteSet(open) /\ Cardinality(open) \in Nat
         /\ IsFiniteSet(open \ {n}) /\ Cardinality(open \ {n}) \in Nat
         /\ n \notin open => open \ {n} = open /\ Cardinality(open \union {n}) = Cardinality(open) + 1
         /\ Cardinality(open \ {n}) <= Cardinality(open)
         /\ Cardinality(open) <= Cardinality(open \ {n}) + 1
<1>1. clients \in Int /\ open \subseteq 1 .. clients
  BY ControllerAssumption DEF TypeOK
<1>2. IsFiniteSet(open)
  <2>1. IsFiniteSet(1 .. clients)
    BY <1>1, FS_Interval
  <2> QED BY <2>1, <1>1, FS_Subset
<1>3. /\ IsFiniteSet(open \ {n})
      /\ Cardinality(open \ {n}) = IF n \in open THEN Cardinality(open) - 1 ELSE Cardinality(open)
  BY <1>2, FS_RemoveElement
<1>4. Cardinality(open \union {n}) = IF n \in open THEN Cardinality(open) ELSE Cardinality(open) + 1
  BY <1>2, FS_AddElement
<1> QED BY <1>2, <1>3, <1>4, FS_CardinalityType

LEMMA InitHolds == Init => IInv
<1> SUFFICES ASSUME Init PROVE IInv
  OBVIOUS
<1>1. open = {} /\ open \ {client} = {} /\ Cardinality({}) = 0
  BY FS_EmptySet DEF Init
<1>2. TypeOK
  <2>1. 0 \in 0 .. MaxWait /\ 0 \in 0 .. MaxStops /\ 0 \in 0 .. MaxRestarts
        /\ 0 \in 0 .. (MaxRestarts + 1) /\ 0 \in 0 .. (0 + 1) /\ 0 \in 0 .. MaxCaches
    BY ControllerAssumption
  <2>2. open \subseteq 1 .. clients /\ (caches > 0 <=> pc = "transfer")
    BY DEF Init
  <2> QED BY <2>1, <2>2 DEF Init, TypeOK, Status
<1> QED BY <1>1, <1>2
        DEF Init, IInv, StagesOK, ClientsOK, FewOpen, BeforeClient, SuccessMeansAnswered

LEMMA TypeStep == IInv /\ [Next]_vars => TypeOK'
<1> SUFFICES ASSUME IInv, [Next]_vars PROVE TypeOK'
  OBVIOUS
<1> USE ControllerAssumption DEF IInv, TypeOK, Status, StagesOK, ClientsOK, BeforeClient
<1>1. CASE MachineStops
  BY <1>1 DEF MachineStops, machineVars, clientVars, timeVars
<1>2. CASE DaemonComesUp
  BY <1>2 DEF DaemonComesUp, machineVars, clientVars, timeVars
<1>3. CASE TimePasses
  BY <1>3 DEF TimePasses, machineVars, clientVars, timeVars
<1>4. CASE CheckStatus
  BY <1>4 DEF CheckStatus, Return, machineVars, clientVars, timeVars
<1>5. CASE Start
  <2>1. /\ colima' \in BOOLEAN /\ vm' \in Status /\ daemon' \in {"down", "ready", "hung"}
        /\ pc' \in {"new", "start", "wait", "probe", "connect", "list", "idle", "solve",
                   "transfer", "command", "dead", "closed"}
        /\ op' \in {"new", "solve", "transfer", "session", "command", "restart", "close"}
        /\ vmRunning' \in BOOLEAN /\ tick' \in BOOLEAN /\ answered' \in BOOLEAN
        /\ result' \in {"none", "ok", "error", "refused"}
    BY <1>5 DEF Start, Return, AfterStart, machineVars, clientVars, timeVars
  <2>2. client' \in 0..(MaxRestarts + 1) /\ clients' \in 0..(restarts' + 1) /\ open' \subseteq 1..clients'
    BY <1>5 DEF Start, Return, AfterStart, machineVars, clientVars, timeVars
  <2>3. /\ stops' \in 0..MaxStops /\ elapsed' \in 0..MaxWait /\ restarts' \in 0..MaxRestarts
        /\ caches' \in 0..MaxCaches
    <3>1. elapsed' \in {0, elapsed} /\ restarts' = restarts /\ stops' = stops /\ caches' = caches
      BY <1>5 DEF Start, Return, AfterStart, machineVars, clientVars, timeVars
    <3>2. 0 \in 0..MaxWait /\ elapsed \in 0..MaxWait
      OBVIOUS
    <3> QED BY <3>1, <3>2
  <2>4. caches' > 0 <=> pc' = "transfer"
    BY <1>5 DEF Start, Return, AfterStart, machineVars, clientVars, timeVars
  <2> QED BY <2>1, <2>2, <2>3, <2>4
<1>6. CASE TakeTick
  BY <1>6 DEF TakeTick, machineVars, clientVars, timeVars
<1>7. CASE Probe
  BY <1>7 DEF Probe, Return, machineVars, clientVars, timeVars
<1>8. CASE Connect
  <2>1. /\ colima' \in BOOLEAN /\ vm' \in Status /\ daemon' \in {"down", "ready", "hung"}
        /\ pc' \in {"new", "start", "wait", "probe", "connect", "list", "idle", "solve",
                   "transfer", "command", "dead", "closed"}
        /\ op' \in {"new", "solve", "transfer", "session", "command", "restart", "close"}
        /\ vmRunning' \in BOOLEAN /\ tick' \in BOOLEAN /\ answered' \in BOOLEAN
        /\ result' \in {"none", "ok", "error", "refused"}
    BY <1>8 DEF Connect, Return, machineVars, clientVars, timeVars
  <2>2. client' \in 0..(MaxRestarts + 1) /\ clients' \in 0..(restarts' + 1) /\ open' \subseteq 1..clients'
    <3>1. clients \in Nat /\ restarts \in Nat /\ clients <= restarts /\ restarts <= MaxRestarts
          /\ restarts' = restarts
      BY <1>8 DEF Connect
    <3>2. open \subseteq 1..clients /\ MaxRestarts \in Nat
      OBVIOUS
    <3>3. CASE clients' = clients + 1 /\ client' = clients' /\ open' = open \cup {clients'}
      BY ONLY <3>1, <3>2, <3>3
    <3>4. CASE client' \in {0, 1} /\ clients' = clients /\ open' = open
      BY ONLY <3>1, <3>2, <3>4
    <3> QED BY <1>8, <3>3, <3>4 DEF Connect, Return, machineVars, clientVars, timeVars
  <2>3. /\ stops' \in 0..MaxStops /\ elapsed' \in 0..MaxWait /\ restarts' \in 0..MaxRestarts
        /\ caches' \in 0..MaxCaches
    BY <1>8 DEF Connect, Return, machineVars, clientVars, timeVars
  <2>4. caches' > 0 <=> pc' = "transfer"
    BY <1>8 DEF Connect, Return, machineVars, clientVars, timeVars
  <2> QED BY <2>1, <2>2, <2>3, <2>4
<1>9. CASE ListWorkers
  <2>1. /\ colima' \in BOOLEAN /\ vm' \in Status /\ daemon' \in {"down", "ready", "hung"}
        /\ pc' \in {"new", "start", "wait", "probe", "connect", "list", "idle", "solve",
                   "transfer", "command", "dead", "closed"}
        /\ op' \in {"new", "solve", "transfer", "session", "command", "restart", "close"}
        /\ vmRunning' \in BOOLEAN /\ tick' \in BOOLEAN /\ answered' \in BOOLEAN
        /\ result' \in {"none", "ok", "error", "refused"}
    BY <1>9 DEF ListWorkers, Return, machineVars, clientVars, timeVars
  <2>2. client' \in 0..(MaxRestarts + 1) /\ clients' \in 0..(restarts' + 1) /\ open' \subseteq 1..clients'
    <3>1. client' \in {0, client} /\ clients' = clients /\ open' \subseteq open /\ restarts' = restarts
      BY <1>9 DEF ListWorkers, Return, machineVars, clientVars, timeVars
    <3> QED BY <3>1
  <2>3. /\ stops' \in 0..MaxStops /\ elapsed' \in 0..MaxWait /\ restarts' \in 0..MaxRestarts
        /\ caches' \in 0..MaxCaches
    BY <1>9 DEF ListWorkers, Return, machineVars, clientVars, timeVars
  <2>4. caches' > 0 <=> pc' = "transfer"
    BY <1>9 DEF ListWorkers, Return, machineVars, clientVars, timeVars
  <2> QED BY <2>1, <2>2, <2>3, <2>4
<1>10. CASE SolveReturns
  BY <1>10 DEF SolveReturns, Return, machineVars, clientVars, timeVars
<1>11. CASE TransferEntry
  <2>1. /\ colima' \in BOOLEAN /\ vm' \in Status /\ daemon' \in {"down", "ready", "hung"}
        /\ pc' \in {"new", "start", "wait", "probe", "connect", "list", "idle", "solve",
                   "transfer", "command", "dead", "closed"}
        /\ op' \in {"new", "solve", "transfer", "session", "command", "restart", "close"}
        /\ vmRunning' \in BOOLEAN /\ tick' \in BOOLEAN /\ answered' \in BOOLEAN
        /\ result' \in {"none", "ok", "error", "refused"}
    BY <1>11 DEF TransferEntry, Return, machineVars, clientVars, timeVars
  <2>2. client' \in 0..(MaxRestarts + 1) /\ clients' \in 0..(restarts' + 1) /\ open' \subseteq 1..clients'
    BY <1>11 DEF TransferEntry, Return, machineVars, clientVars, timeVars
  <2>3. /\ stops' \in 0..MaxStops /\ elapsed' \in 0..MaxWait /\ restarts' \in 0..MaxRestarts
        /\ caches' \in 0..MaxCaches
    <3>1. pc = "transfer" /\ caches \in 1..MaxCaches
      BY <1>11 DEF TransferEntry
    <3>2. elapsed' = elapsed /\ restarts' = restarts /\ stops' = stops /\ caches' \in {caches - 1, 0}
      BY <1>11 DEF TransferEntry, Return, machineVars, clientVars, timeVars
    <3> QED BY <3>1, <3>2
  <2>4. caches' > 0 <=> pc' = "transfer"
    <3>1. CASE caches' = caches - 1
      <4>1. IF caches' = 0 THEN pc' = "idle" ELSE pc' = "transfer"
        BY <1>11, <3>1 DEF TransferEntry, Return, machineVars, clientVars, timeVars
      <4>2. caches \in Nat /\ caches > 0
        BY <1>11, ControllerAssumption DEF TransferEntry
      <4> QED BY ONLY <3>1, <4>1, <4>2
    <3>2. CASE ~(caches' = caches - 1)
      <4>1. caches' = 0 /\ pc' = "idle"
        BY <1>11, <3>2 DEF TransferEntry, Return, machineVars, clientVars, timeVars
      <4> QED BY <4>1
    <3> QED BY <3>1, <3>2
  <2> QED BY <2>1, <2>2, <2>3, <2>4
<1>12. CASE CommandReturns
  BY <1>12 DEF CommandReturns, Return, machineVars, clientVars, timeVars
<1>13. CASE TimeOut
  BY <1>13 DEF TimeOut, Return, machineVars, clientVars, timeVars
<1>14. CASE Solve
  BY <1>14 DEF Solve, Begin, machineVars, clientVars, timeVars
<1>15. CASE Transfer
  BY <1>15 DEF Transfer, Begin, machineVars, clientVars, timeVars
<1>16. CASE GetSession
  BY <1>16 DEF GetSession, Begin, machineVars, clientVars, timeVars
<1>17. CASE Command
  BY <1>17 DEF Command, Begin, machineVars, clientVars, timeVars
<1>18. CASE Restart
  BY <1>18 DEF Restart, Begin, machineVars, clientVars, timeVars
<1>19. CASE Close
  BY <1>19 DEF Close, Begin, machineVars, clientVars, timeVars
<1>20. CASE Ended
  BY <1>20 DEF Ended, vars, machineVars, clientVars, timeVars
<1>21. CASE UNCHANGED vars
  BY <1>21 DEF vars, machineVars, clientVars, timeVars
<1> QED BY <1>1, <1>2, <1>3, <1>4, <1>5, <1>6, <1>7, <1>8, <1>9, <1>10, <1>11, <1>12, <1>13, <1>14, <1>15, <1>16, <1>17, <1>18, <1>19, <1>20, <1>21 DEF Next, Progress

LEMMA StagesStep == IInv /\ [Next]_vars => StagesOK'
<1> SUFFICES ASSUME IInv, [Next]_vars PROVE StagesOK'
  OBVIOUS
<1> USE DEF IInv, TypeOK, StagesOK
<1>1. CASE MachineStops
  BY <1>1 DEF MachineStops, machineVars, clientVars, timeVars
<1>2. CASE DaemonComesUp
  BY <1>2 DEF DaemonComesUp, machineVars, clientVars, timeVars
<1>3. CASE TimePasses
  BY <1>3 DEF TimePasses, machineVars, clientVars, timeVars
<1>4. CASE CheckStatus
  BY <1>4 DEF CheckStatus, Return, machineVars, clientVars, timeVars
<1>5. CASE Start
  BY <1>5 DEF Start, Return, AfterStart, machineVars, clientVars, timeVars
<1>6. CASE TakeTick
  BY <1>6 DEF TakeTick, machineVars, clientVars, timeVars
<1>7. CASE Probe
  BY <1>7 DEF Probe, Return, machineVars, clientVars, timeVars
<1>8. CASE Connect
  BY <1>8 DEF Connect, Return, machineVars, clientVars, timeVars
<1>9. CASE ListWorkers
  BY <1>9 DEF ListWorkers, Return, machineVars, clientVars, timeVars
<1>10. CASE SolveReturns
  BY <1>10 DEF SolveReturns, Return, machineVars, clientVars, timeVars
<1>11. CASE TransferEntry
  BY <1>11 DEF TransferEntry, Return, machineVars, clientVars, timeVars
<1>12. CASE CommandReturns
  BY <1>12 DEF CommandReturns, Return, machineVars, clientVars, timeVars
<1>13. CASE TimeOut
  BY <1>13 DEF TimeOut, Return, machineVars, clientVars, timeVars
<1>14. CASE Solve
  BY <1>14 DEF Solve, Begin, machineVars, clientVars, timeVars
<1>15. CASE Transfer
  BY <1>15 DEF Transfer, Begin, machineVars, clientVars, timeVars
<1>16. CASE GetSession
  BY <1>16 DEF GetSession, Begin, machineVars, clientVars, timeVars
<1>17. CASE Command
  BY <1>17 DEF Command, Begin, machineVars, clientVars, timeVars
<1>18. CASE Restart
  BY <1>18 DEF Restart, Begin, machineVars, clientVars, timeVars
<1>19. CASE Close
  BY <1>19 DEF Close, Begin, machineVars, clientVars, timeVars
<1>20. CASE Ended
  BY <1>20 DEF Ended, vars, machineVars, clientVars, timeVars
<1>21. CASE UNCHANGED vars
  BY <1>21 DEF vars, machineVars, clientVars, timeVars
<1> QED BY <1>1, <1>2, <1>3, <1>4, <1>5, <1>6, <1>7, <1>8, <1>9, <1>10, <1>11, <1>12, <1>13, <1>14, <1>15, <1>16, <1>17, <1>18, <1>19, <1>20, <1>21 DEF Next, Progress

LEMMA ClientsStep == IInv /\ [Next]_vars => ClientsOK'
<1> SUFFICES ASSUME IInv, [Next]_vars PROVE ClientsOK'
  OBVIOUS
<1> USE ControllerAssumption DEF IInv, TypeOK, StagesOK, ClientsOK, BeforeClient
<1>1. CASE MachineStops
  BY <1>1 DEF MachineStops, machineVars, clientVars, timeVars
<1>2. CASE DaemonComesUp
  BY <1>2 DEF DaemonComesUp, machineVars, clientVars, timeVars
<1>3. CASE TimePasses
  BY <1>3 DEF TimePasses, machineVars, clientVars, timeVars
<1>4. CASE CheckStatus
  BY <1>4 DEF CheckStatus, Return, machineVars, clientVars, timeVars
<1>5. CASE Start
  BY <1>5 DEF Start, Return, AfterStart, machineVars, clientVars, timeVars
<1>6. CASE TakeTick
  BY <1>6 DEF TakeTick, machineVars, clientVars, timeVars
<1>7. CASE Probe
  BY <1>7 DEF Probe, Return, machineVars, clientVars, timeVars
<1>8. CASE Connect
  BY <1>8 DEF Connect, Return, machineVars, clientVars, timeVars
<1>9. CASE ListWorkers
  BY <1>9 DEF ListWorkers, Return, machineVars, clientVars, timeVars
<1>10. CASE SolveReturns
  BY <1>10 DEF SolveReturns, Return, machineVars, clientVars, timeVars
<1>11. CASE TransferEntry
  BY <1>11 DEF TransferEntry, Return, machineVars, clientVars, timeVars
<1>12. CASE CommandReturns
  BY <1>12 DEF CommandReturns, Return, machineVars, clientVars, timeVars
<1>13. CASE TimeOut
  BY <1>13 DEF TimeOut, Return, machineVars, clientVars, timeVars
<1>14. CASE Solve
  BY <1>14 DEF Solve, Begin, machineVars, clientVars, timeVars
<1>15. CASE Transfer
  BY <1>15 DEF Transfer, Begin, machineVars, clientVars, timeVars
<1>16. CASE GetSession
  BY <1>16 DEF GetSession, Begin, machineVars, clientVars, timeVars
<1>17. CASE Command
  BY <1>17 DEF Command, Begin, machineVars, clientVars, timeVars
<1>18. CASE Restart
  BY <1>18 DEF Restart, Begin, machineVars, clientVars, timeVars
<1>19. CASE Close
  BY <1>19 DEF Close, Begin, machineVars, clientVars, timeVars
<1>20. CASE Ended
  BY <1>20 DEF Ended, vars, machineVars, clientVars, timeVars
<1>21. CASE UNCHANGED vars
  BY <1>21 DEF vars, machineVars, clientVars, timeVars
<1> QED BY <1>1, <1>2, <1>3, <1>4, <1>5, <1>6, <1>7, <1>8, <1>9, <1>10, <1>11, <1>12, <1>13, <1>14, <1>15, <1>16, <1>17, <1>18, <1>19, <1>20, <1>21 DEF Next, Progress

LEMMA AnsweredStep == IInv /\ [Next]_vars => SuccessMeansAnswered'
<1> SUFFICES ASSUME IInv, [Next]_vars PROVE SuccessMeansAnswered'
  OBVIOUS
<1> USE DEF IInv, TypeOK, StagesOK, SuccessMeansAnswered, AsksTheDaemon
<1>1. CASE MachineStops
  BY <1>1 DEF MachineStops, machineVars, clientVars, timeVars
<1>2. CASE DaemonComesUp
  BY <1>2 DEF DaemonComesUp, machineVars, clientVars, timeVars
<1>3. CASE TimePasses
  BY <1>3 DEF TimePasses, machineVars, clientVars, timeVars
<1>4. CASE CheckStatus
  BY <1>4 DEF CheckStatus, Return, machineVars, clientVars, timeVars
<1>5. CASE Start
  BY <1>5 DEF Start, Return, AfterStart, machineVars, clientVars, timeVars
<1>6. CASE TakeTick
  BY <1>6 DEF TakeTick, machineVars, clientVars, timeVars
<1>7. CASE Probe
  BY <1>7 DEF Probe, Return, machineVars, clientVars, timeVars
<1>8. CASE Connect
  BY <1>8 DEF Connect, Return, machineVars, clientVars, timeVars
<1>9. CASE ListWorkers
  BY <1>9 DEF ListWorkers, Return, machineVars, clientVars, timeVars
<1>10. CASE SolveReturns
  BY <1>10 DEF SolveReturns, Return, machineVars, clientVars, timeVars
<1>11. CASE TransferEntry
  BY <1>11 DEF TransferEntry, Return, machineVars, clientVars, timeVars
<1>12. CASE CommandReturns
  BY <1>12 DEF CommandReturns, Return, machineVars, clientVars, timeVars
<1>13. CASE TimeOut
  BY <1>13 DEF TimeOut, Return, machineVars, clientVars, timeVars
<1>14. CASE Solve
  BY <1>14 DEF Solve, Begin, machineVars, clientVars, timeVars
<1>15. CASE Transfer
  BY <1>15 DEF Transfer, Begin, machineVars, clientVars, timeVars
<1>16. CASE GetSession
  BY <1>16 DEF GetSession, Begin, machineVars, clientVars, timeVars
<1>17. CASE Command
  BY <1>17 DEF Command, Begin, machineVars, clientVars, timeVars
<1>18. CASE Restart
  BY <1>18 DEF Restart, Begin, machineVars, clientVars, timeVars
<1>19. CASE Close
  BY <1>19 DEF Close, Begin, machineVars, clientVars, timeVars
<1>20. CASE Ended
  BY <1>20 DEF Ended, vars, machineVars, clientVars, timeVars
<1>21. CASE UNCHANGED vars
  BY <1>21 DEF vars, machineVars, clientVars, timeVars
<1> QED BY <1>1, <1>2, <1>3, <1>4, <1>5, <1>6, <1>7, <1>8, <1>9, <1>10, <1>11, <1>12, <1>13, <1>14, <1>15, <1>16, <1>17, <1>18, <1>19, <1>20, <1>21 DEF Next, Progress

LEMMA FewOpenStep == IInv /\ [Next]_vars => FewOpen'
<1> SUFFICES ASSUME IInv, [Next]_vars PROVE FewOpen'
  OBVIOUS
<1> USE OpenIsFinite DEF IInv, FewOpen, BeforeClient
<1>1. CASE MachineStops
  BY <1>1 DEF MachineStops, machineVars, clientVars, timeVars, TypeOK, StagesOK, ClientsOK
<1>2. CASE DaemonComesUp
  BY <1>2 DEF DaemonComesUp, machineVars, clientVars, timeVars, TypeOK, StagesOK, ClientsOK
<1>3. CASE TimePasses
  BY <1>3 DEF TimePasses, machineVars, clientVars, timeVars, TypeOK, StagesOK, ClientsOK
<1>4. CASE CheckStatus
  BY <1>4 DEF CheckStatus, Return, machineVars, clientVars, timeVars, TypeOK, StagesOK, ClientsOK
<1>5. CASE Start
  BY <1>5 DEF Start, Return, AfterStart, machineVars, clientVars, timeVars, TypeOK, StagesOK, ClientsOK
<1>6. CASE TakeTick
  BY <1>6 DEF TakeTick, machineVars, clientVars, timeVars, TypeOK, StagesOK, ClientsOK
<1>7. CASE Probe
  BY <1>7 DEF Probe, Return, machineVars, clientVars, timeVars, TypeOK, StagesOK, ClientsOK
<1>8. CASE Connect
  BY <1>8 DEF Connect, Return, machineVars, clientVars, timeVars, TypeOK, StagesOK, ClientsOK
<1>9. CASE ListWorkers
  <2>1. pc = "list" /\ restarts' = restarts /\ restarts \in Nat
    BY <1>9, ControllerAssumption DEF ListWorkers, TypeOK
  <2>2. CASE UNCHANGED clientVars /\ Return("ok")
    <3>1. pc' = "idle" /\ open' = open /\ client' = client
      BY <2>2 DEF clientVars, Return
    <3> QED BY <3>1, <2>1
  <2>3. CASE client' = 0 /\ open' = open \ {client} /\ Return("error")
    <3>1. 0 \notin open /\ open' \ {0} = open'
      BY <2>3 DEF TypeOK
    <3>2. Cardinality(open') <= restarts
      BY <2>3
    <3> QED BY <3>1, <3>2, <2>1, <2>3
  <2> QED BY <1>9, <2>2, <2>3 DEF ListWorkers
<1>10. CASE SolveReturns
  BY <1>10 DEF SolveReturns, Return, machineVars, clientVars, timeVars, TypeOK, StagesOK, ClientsOK
<1>11. CASE TransferEntry
  BY <1>11 DEF TransferEntry, Return, machineVars, clientVars, timeVars, TypeOK, StagesOK, ClientsOK
<1>12. CASE CommandReturns
  BY <1>12 DEF CommandReturns, Return, machineVars, clientVars, timeVars, TypeOK, StagesOK, ClientsOK
<1>13. CASE TimeOut
  BY <1>13 DEF TimeOut, Return, machineVars, clientVars, timeVars, TypeOK, StagesOK, ClientsOK
<1>14. CASE Solve
  BY <1>14 DEF Solve, Begin, machineVars, clientVars, timeVars, TypeOK, StagesOK, ClientsOK
<1>15. CASE Transfer
  BY <1>15 DEF Transfer, Begin, machineVars, clientVars, timeVars, TypeOK, StagesOK, ClientsOK
<1>16. CASE GetSession
  BY <1>16 DEF GetSession, Begin, machineVars, clientVars, timeVars, TypeOK, StagesOK, ClientsOK
<1>17. CASE Command
  BY <1>17 DEF Command, Begin, machineVars, clientVars, timeVars, TypeOK, StagesOK, ClientsOK
<1>18. CASE Restart
  <2>1. Cardinality(open) <= Cardinality(open \ {client}) + 1
    OBVIOUS
  <2>2. /\ open' = open /\ client' = client
        /\ restarts' = restarts + 1
    BY <1>18 DEF Restart, Begin, clientVars
  <2>3. pc' \in {"start", "idle"} \/ pc' = pc
    BY <1>18 DEF Restart, Begin
  <2>4. Cardinality(open) \in Nat /\ Cardinality(open \ {client}) \in Nat /\ restarts \in Nat
    <3>1. TypeOK
      OBVIOUS
    <3>2. restarts \in Nat
      BY ControllerAssumption DEF TypeOK
    <3> QED BY <3>1, <3>2, OpenIsFinite
  <2> QED BY <2>1, <2>2, <2>3, <2>4
<1>19. CASE Close
  BY <1>19 DEF Close, Begin, machineVars, clientVars, timeVars, TypeOK, StagesOK, ClientsOK
<1>20. CASE Ended
  BY <1>20 DEF Ended, vars, machineVars, clientVars, timeVars, TypeOK, StagesOK, ClientsOK
<1>21. CASE UNCHANGED vars
  BY <1>21 DEF vars, machineVars, clientVars, timeVars, TypeOK, StagesOK, ClientsOK
<1> QED BY <1>1, <1>2, <1>3, <1>4, <1>5, <1>6, <1>7, <1>8, <1>9, <1>10, <1>11, <1>12, <1>13, <1>14, <1>15, <1>16, <1>17, <1>18, <1>19, <1>20, <1>21 DEF Next, Progress

-----------------------------------------------------------------------------
(* The clients, the restarts and the answer of the operation go together. *)
THEOREM Invariance == Spec => []IInv
<1>1. Init => IInv
  BY InitHolds
<1>2. IInv /\ [Next]_vars => IInv'
  BY TypeStep, StagesStep, ClientsStep, AnsweredStep, FewOpenStep DEF IInv
<1> QED BY <1>1, <1>2, PTL DEF Spec

(* Every variable of the controller and its machine keeps its type: TypeOK. *)
THEOREM TypeCorrect == Spec => []TypeOK
<1>1. IInv => TypeOK
  BY DEF IInv
<1> QED BY <1>1, Invariance, PTL

(* What reports success had the daemon's answer, a solve uses an open        *)
(* client, and none but one for each restart is left open: ClientsAreSound. *)
THEOREM ClientsAreAlwaysSound == Spec => []ClientsAreSound
<1>1. IInv => ClientsAreSound
  BY DEF IInv, ClientsAreSound, SolveUsesOpenClient, NothingLeftOpen, ClientsOK, FewOpen
<1> QED BY <1>1, Invariance, PTL

------------------------------------------------------------------------------
(* BuildContext *)

(* What is in the directory of a context with some entries left. *)
Written(c) == Len(Source[c]) - Len(left[c])
Holding(c) == [exists |-> TRUE, files |-> [f \in Files |-> ContentAfter(c, Written(c), f)]]

Phases == {"new", "made", "writing", "ready", "failed", "closed"}

ContextTypes ==
  /\ DOMAIN dirs = Subdirs
  /\ phase \in [Contexts -> Phases]
  /\ DOMAIN left = Contexts
  /\ \A c \in Contexts : \E n \in 0 .. Len(Source[c]) :
       left[c] = SubSeq(Source[c], n + 1, Len(Source[c]))

(* Nothing is written before the directory is made, nothing is left when    *)
(* the context is returned, and no name that is refused was passed.         *)
Progressing ==
  \A c \in Contexts : Kind[c] # "local" =>
    /\ phase[c] \in {"new", "made"} => Written(c) = 0
    /\ phase[c] = "ready" => left[c] = <<>>
    /\ Kind[c] \in Archives => \A i \in 1 .. Written(c) : Source[c][i].name \notin Dotted

(* A directory whose contexts were closed or not begun does not exist.      *)
Cleared ==
  \A s \in Subdirs :
    (\A c \in Contexts : Subdir(c) = s => phase[c] \in {"new", "closed"}) => dirs[s] = NoDir

(* A context in use that was not disturbed is alone with its directory,     *)
(* which holds what it has written.                                         *)
OwnDirectory ==
  \A c \in Contexts :
    InUse(c) /\ Kind[c] # "local" /\ c \notin disturbed =>
      /\ Others(c) = {}
      /\ dirs[Subdir(c)] = Holding(c)

ContextInv == ContextTypes /\ Progressing /\ Cleared /\ OwnDirectory

LEMMA Greatest ==
  ASSUME NEW n \in Nat, NEW S \in SUBSET (1 .. n), S # {}
  PROVE  Max(S) \in S /\ \A j \in S : j <= Max(S)
<1> DEFINE D == {n - j : j \in S}
<1>1. D \in SUBSET Nat
  OBVIOUS
<1>2. \A j \in S : n - j \in D
  OBVIOUS
<1>3. \A d \in D : \E m \in S : d = n - m
  OBVIOUS
<1> HIDE DEF D
<1>4. D # {}
  BY <1>2
<1>5. PICK d \in D : \A e \in D : d <= e
  BY <1>1, <1>4, Least
<1>6. PICK m \in S : d = n - m
  BY <1>3
<1>7. \A j \in S : n - m <= n - j
  BY <1>2, <1>5, <1>6
<1>8. \A j \in S : m >= j
  BY <1>7
<1> QED BY <1>8 DEF Max

LEMMA SourceFacts ==
  ASSUME NEW c \in Contexts
  PROVE  /\ Len(Source[c]) \in Nat /\ DOMAIN Source[c] = 1 .. Len(Source[c])
         /\ \A n \in 0 .. Len(Source[c]) :
              LET rest == SubSeq(Source[c], n + 1, Len(Source[c]))
              IN  /\ Len(rest) = Len(Source[c]) - n
                  /\ rest # <<>> <=> n < Len(Source[c])
                  /\ rest # <<>> => /\ Head(rest) = Source[c][n + 1]
                                    /\ Tail(rest) = SubSeq(Source[c], n + 2, Len(Source[c]))
<1> DEFINE S == {Source[c][i] : i \in DOMAIN Source[c]}
<1>1. Source[c] \in Seq(S)
  BY ContextAssumption DEF IsSequence
<1> HIDE DEF S
<1>2. Len(Source[c]) \in Nat /\ DOMAIN Source[c] = 1 .. Len(Source[c])
  BY <1>1, LenProperties
<1>3. ASSUME NEW n \in 0 .. Len(Source[c])
      PROVE  LET rest == SubSeq(Source[c], n + 1, Len(Source[c]))
              IN  /\ Len(rest) = Len(Source[c]) - n
                  /\ rest # <<>> <=> n < Len(Source[c])
                  /\ rest # <<>> => /\ Head(rest) = Source[c][n + 1]
                                    /\ Tail(rest) = SubSeq(Source[c], n + 2, Len(Source[c]))
  <2> DEFINE rest == SubSeq(Source[c], n + 1, Len(Source[c]))
  <2>1. rest \in Seq(S) /\ Len(rest) = Len(Source[c]) - n
    <3>1. \A i \in n + 1 .. Len(Source[c]) : Source[c][i] \in S
      BY <1>1, <1>2, ElementOfSeq
    <3> QED BY <1>2, <3>1, SubSeqProperties
  <2>2. rest # <<>> <=> n < Len(Source[c])
    <3>1. Len(rest) \in Nat /\ (rest = <<>> => Len(rest) = 0) /\ (rest # <<>> => Len(rest) # 0)
      <4> HIDE DEF rest
      <4> QED BY <2>1, EmptySeq
    <3> HIDE DEF rest
    <3> QED BY <1>2, <2>1, <3>1
  <2>3. n < Len(Source[c]) => /\ Head(rest) = Source[c][n + 1]
                              /\ Tail(rest) = SubSeq(Source[c], (n + 1) + 1, Len(Source[c]))
    <3> SUFFICES ASSUME n < Len(Source[c])
                 PROVE  /\ Head(rest) = Source[c][n + 1]
                        /\ Tail(rest) = SubSeq(Source[c], (n + 1) + 1, Len(Source[c]))
      OBVIOUS
    <3>1. n + 1 \in 1 .. Len(Source[c]) /\ Len(Source[c]) \in n + 1 .. Len(Source[c])
      BY <1>2
    <3> QED BY <1>1, <3>1, HeadTailOfSubSeq
  <2> HIDE DEF rest
  <2>4. (n + 1) + 1 = n + 2
    OBVIOUS
  <2> QED BY <2>1, <2>2, <2>3, <2>4 DEF rest
<1> QED BY <1>2, <1>3

(* The bodies are functions on their parts, and names are of Files. *)
LEMMA EntryFacts ==
  ASSUME NEW c \in Contexts, NEW i \in 1 .. Len(Source[c])
  PROVE  /\ Source[c][i].body = [k \in DOMAIN Source[c][i].body |-> Source[c][i].body[k]]
         /\ Source[c][i].type \in {"file", "dir", "other"}
         /\ Source[c][i].name \in Files
<1>1. i \in DOMAIN Source[c]
  BY SourceFacts
<1>2. Source[c][i].type \in {"file", "dir", "other"} /\ IsSequence(Source[c][i].body)
  BY <1>1, ContextAssumption
<1>3. Source[c][i].name \in Files
  BY <1>1 DEF Files
<1>4. Source[c][i].body = [k \in DOMAIN Source[c][i].body |-> Source[c][i].body[k]]
  <2> DEFINE body == Source[c][i].body
             S == {body[k] : k \in DOMAIN body}
  <2>1. body \in Seq(S)
    BY <1>2 DEF IsSequence
  <2> HIDE DEF body, S
  <2>2. body = [k \in DOMAIN body |-> body[k]]
    BY <2>1
  <2> QED BY <2>2 DEF body
<1> QED BY <1>2, <1>3, <1>4

(* The entries of a name that are of one type, among the first. *)
Of(c, n, f, t) == {i \in 1 .. n : Source[c][i].name = f /\ Source[c][i].type = t}
Having(c, n, f, k) == {i \in Of(c, n, f, "file") : k \in DOMAIN Source[c][i].body}
Parts(c, n, f) == UNION {DOMAIN Source[c][i].body : i \in Of(c, n, f, "file")}

LEMMA ContentIs ==
  ASSUME NEW c, NEW n, NEW f
  PROVE  ContentAfter(c, n, f) =
           IF Of(c, n, f, "file") # {}
           THEN File([k \in Parts(c, n, f) |-> Source[c][Max(Having(c, n, f, k))].body[k]])
           ELSE IF Of(c, n, f, "dir") # {} THEN Directory ELSE NoFile
BY Zenon DEF ContentAfter, Of, Having, Parts

(* What an entry makes of what the name was before it. *)
Become(node, entry) ==
  IF entry.type = "dir" THEN Directory
  ELSE IF entry.type = "file" THEN File(Overlaid(node.body, entry.body))
  ELSE node

(* One entry more. *)
LEMMA ContentStep ==
  ASSUME NEW c \in Contexts, NEW n \in 0 .. Len(Source[c]) - 1, NEW f,
         LET entry == Source[c][n + 1]
             node  == ContentAfter(c, n, f)
         IN  entry.name = f => /\ entry.type = "dir" => node.type # "file"
                               /\ entry.type = "file" => node.type # "dir"
  PROVE  ContentAfter(c, n + 1, f) = IF Source[c][n + 1].name = f
                                     THEN Become(ContentAfter(c, n, f), Source[c][n + 1])
                                     ELSE ContentAfter(c, n, f)
<1> DEFINE entry == Source[c][n + 1]
           node == ContentAfter(c, n, f)
<1>1. Len(Source[c]) \in Nat /\ n \in Nat /\ n + 1 \in 1 .. Len(Source[c])
  BY SourceFacts
<1>2. \A t : Of(c, n + 1, f, t) = IF entry.name = f /\ entry.type = t
                                  THEN Of(c, n, f, t) \cup {n + 1} ELSE Of(c, n, f, t)
  BY <1>1 DEF Of
<1>3. \A k : Having(c, n + 1, f, k) = {i \in Of(c, n + 1, f, "file") : k \in DOMAIN Source[c][i].body}
  BY DEF Having
<1>4. CASE entry.name # f \/ entry.type \notin {"file", "dir"}
  <2>1. Of(c, n + 1, f, "file") = Of(c, n, f, "file") /\ Of(c, n + 1, f, "dir") = Of(c, n, f, "dir")
    BY <1>2, <1>4
  <2>2. Parts(c, n + 1, f) = Parts(c, n, f) /\ \A k : Having(c, n + 1, f, k) = Having(c, n, f, k)
    BY <2>1 DEF Parts, Having
  <2>3. ContentAfter(c, n + 1, f) = ContentAfter(c, n, f)
    BY <2>1, <2>2, ContentIs, Zenon
  <2> QED BY <1>4, <2>3 DEF Become
<1>5. CASE entry.name = f /\ entry.type = "dir"
  <2>1. Of(c, n + 1, f, "file") = Of(c, n, f, "file") /\ Of(c, n + 1, f, "dir") # {}
    BY <1>2, <1>5
  <2>2. Of(c, n, f, "file") = {}
    <3>1. node.type # "file"
      BY <1>5
    <3> QED BY <3>1, ContentIs DEF File
  <2> QED BY <1>5, <2>1, <2>2, ContentIs DEF Become
<1>6. CASE entry.name = f /\ entry.type = "file"
  <2> DEFINE old == node.body
             new == [k \in Parts(c, n + 1, f) |-> Source[c][Max(Having(c, n + 1, f, k))].body[k]]
  <2>1. Of(c, n + 1, f, "file") = Of(c, n, f, "file") \cup {n + 1}
    BY <1>2, <1>6
  <2>2. ContentAfter(c, n + 1, f) = File(new)
    BY <2>1, ContentIs
  <2>3. old = [k \in Parts(c, n, f) |-> Source[c][Max(Having(c, n, f, k))].body[k]]
    <3>1. CASE Of(c, n, f, "file") # {}
      BY <3>1, ContentIs DEF File
    <3>2. CASE Of(c, n, f, "file") = {}
      <4>1. Parts(c, n, f) = {}
        BY <3>2 DEF Parts
      <4>2. old = <<>>
        BY <3>2, ContentIs DEF Directory, NoFile
      <4> QED BY <4>1, <4>2
    <3> QED BY <3>1, <3>2
  <2>4. Parts(c, n + 1, f) = Parts(c, n, f) \cup DOMAIN entry.body
    BY <2>1 DEF Parts
  <2>5. DOMAIN old = Parts(c, n, f)
    BY <2>3
  <2>6. ASSUME NEW k \in DOMAIN entry.body
        PROVE  Max(Having(c, n + 1, f, k)) = n + 1
    <3>1. /\ n + 1 \in Having(c, n + 1, f, k)
          /\ Having(c, n + 1, f, k) \in SUBSET (1 .. n + 1)
      BY <1>1, <1>6, <2>1, <2>6 DEF Having, Of
    <3>2. /\ Max(Having(c, n + 1, f, k)) \in Having(c, n + 1, f, k)
          /\ n + 1 <= Max(Having(c, n + 1, f, k))
      <4> DEFINE S == Having(c, n + 1, f, k)
      <4>1. n + 1 \in Nat /\ S \in SUBSET (1 .. n + 1) /\ n + 1 \in S
        BY <1>1, <3>1
      <4> HIDE DEF S
      <4>2. Max(S) \in S /\ \A j \in S : j <= Max(S)
        BY <4>1, Greatest
      <4>3. Max(S) \in S /\ n + 1 <= Max(S)
        BY <4>1, <4>2
      <4> QED BY <4>3 DEF S
    <3> QED BY <1>1, <3>1, <3>2
  <2>7. ASSUME NEW k, k \notin DOMAIN entry.body
        PROVE  Having(c, n + 1, f, k) = Having(c, n, f, k)
    BY <2>1, <2>7 DEF Having
  <2>8. \A k \in Parts(c, n + 1, f) :
          new[k] = IF k \in DOMAIN entry.body THEN entry.body[k] ELSE old[k]
    <3> TAKE k \in Parts(c, n + 1, f)
    <3>1. new[k] = Source[c][Max(Having(c, n + 1, f, k))].body[k]
      OBVIOUS
    <3>2. CASE k \in DOMAIN entry.body
      BY <2>6, <3>1, <3>2
    <3>3. CASE k \notin DOMAIN entry.body
      <4>1. k \in Parts(c, n, f) /\ Having(c, n + 1, f, k) = Having(c, n, f, k)
        BY <2>4, <2>7, <3>3
      <4> QED BY <2>3, <3>1, <3>3, <4>1
    <3> QED BY <3>2, <3>3
  <2>9. new = Overlaid(old, entry.body)
    <3>1. DOMAIN old \cup DOMAIN entry.body = Parts(c, n + 1, f)
      BY <2>4, <2>5
    <3>2. new = [k \in Parts(c, n + 1, f) |-> new[k]]
      OBVIOUS
    <3> HIDE DEF new, old, entry, node
    <3> QED BY <2>8, <3>1, <3>2 DEF Overlaid
  <2> QED BY <1>6, <2>2, <2>9 DEF Become
<1> HIDE DEF node
<1>7. entry.type \in {"file", "dir"} \/ entry.type \notin {"file", "dir"}
  OBVIOUS
<1> QED BY <1>4, <1>5, <1>6, <1>7

LEMMA SubdirFacts ==
  \A c \in Contexts : Kind[c] # "local" <=> Subdir(c) \in Subdirs
BY ContextAssumption DEF Kinds, Subdir, Subdirs

LEMMA LeftFacts ==
  ASSUME ContextTypes, NEW c \in Contexts
  PROVE  /\ Written(c) \in 0 .. Len(Source[c])
         /\ left[c] = SubSeq(Source[c], Written(c) + 1, Len(Source[c]))
         /\ left[c] # <<>> <=> Written(c) < Len(Source[c])
<1>1. PICK n \in 0 .. Len(Source[c]) : left[c] = SubSeq(Source[c], n + 1, Len(Source[c]))
  BY DEF ContextTypes
<1>2. Len(left[c]) = Len(Source[c]) - n /\ (left[c] # <<>> <=> n < Len(Source[c]))
  BY <1>1, SourceFacts
<1>3. Written(c) = n
  BY <1>2, SourceFacts DEF Written
<1> QED BY <1>1, <1>2, <1>3

-----------------------------------------------------------------------------
LEMMA ContextInitHolds == ContextInit => ContextInv
<1> SUFFICES ASSUME ContextInit PROVE ContextInv
  OBVIOUS
<1> USE DEF ContextInit
<1>1. \A c \in Contexts : Len(Source[c]) \in Nat /\ left[c] = SubSeq(Source[c], 1, Len(Source[c]))
  <2> TAKE c \in Contexts
  <2> DEFINE S == {Source[c][i] : i \in DOMAIN Source[c]}
  <2>1. Source[c] \in Seq(S)
    BY ContextAssumption DEF IsSequence
  <2> HIDE DEF S
  <2> QED BY <2>1, LenProperties, SubSeqFull
<1>2. ContextTypes
  <2>1. \A c \in Contexts : 0 \in 0 .. Len(Source[c])
    BY <1>1
  <2> QED BY <1>1, <2>1 DEF ContextTypes, Phases
<1>3. \A c \in Contexts : phase[c] = "new" /\ Written(c) = 0
  BY <1>1 DEF Written
<1>4. Progressing
  BY <1>3 DEF Progressing
<1>5. Cleared
  BY DEF Cleared
<1> QED BY <1>2, <1>3, <1>4, <1>5 DEF ContextInv, OwnDirectory, InUse

LEMMA PhaseOf ==
  ASSUME ContextTypes, NEW c \in Contexts, NEW p \in Phases, Enter(c, p)
  PROVE  /\ phase' \in [Contexts -> Phases]
         /\ phase'[c] = p
         /\ \A d \in Contexts \ {c} : phase'[d] = phase[d]
BY DEF ContextTypes, Enter

(* Steps that only move a context on, and do not begin or close it. *)
LEMMA EnterOnly ==
  ASSUME ContextInv, NEW c \in Contexts, NEW p \in {"writing", "ready", "failed", "closed"},
         Enter(c, p), UNCHANGED <<dirs, left, disturbed>>,
         Kind[c] # "local" => InUse(c) /\ p # "closed",
         Kind[c] # "local" /\ p = "ready" => left[c] = <<>>
  PROVE  ContextInv'
<1>0. p \in Phases \ {"new"}
  BY DEF Phases
<1>1. /\ phase' \in [Contexts -> Phases]
      /\ phase'[c] = p
      /\ \A d \in Contexts \ {c} : phase'[d] = phase[d]
  BY <1>0, PhaseOf DEF ContextInv
<1>2. \A d \in Contexts : Written(d)' = Written(d) /\ Holding(d)' = Holding(d)
  BY DEF Written, Holding
<1>3. ContextTypes'
  BY <1>1 DEF ContextInv, ContextTypes
<1>4. Progressing'
  BY <1>0, <1>1, <1>2 DEF ContextInv, Progressing
<1>5. \A d \in Contexts : Subdir(d) \in Subdirs => (phase'[d] \in {"new", "closed"} <=> phase[d] \in {"new", "closed"})
  <2>1. Subdir(c) \in Subdirs => InUse(c) /\ p # "closed"
    BY SubdirFacts
  <2> QED BY <1>0, <1>1, <2>1 DEF InUse
<1>6. Cleared'
  BY <1>5 DEF ContextInv, Cleared
<1>7. OwnDirectory'
  <2> SUFFICES ASSUME NEW d \in Contexts, InUse(d)', Kind[d] # "local", d \notin disturbed
               PROVE  Others(d)' = {} /\ dirs[Subdir(d)] = Holding(d)
    BY <1>2 DEF OwnDirectory
  <2>1. InUse(d)
    BY <1>1 DEF InUse
  <2>2. Others(d) = {} /\ dirs[Subdir(d)] = Holding(d)
    BY <2>1 DEF ContextInv, OwnDirectory
  <2>3. Others(d)' = Others(d)
    <3>1. Subdir(d) \in Subdirs
      BY SubdirFacts
    <3> QED BY <1>5, <3>1 DEF Others
  <2> QED BY <2>2, <2>3
<1> QED BY <1>3, <1>4, <1>6, <1>7 DEF ContextInv

(* A local context has no directory here. *)
LEMMA LocalStep ==
  ASSUME ContextInv, NEW c \in Contexts, Kind[c] = "local", NEW p \in Phases, Enter(c, p),
         UNCHANGED <<left, disturbed>>, DOMAIN dirs' = Subdirs,
         \A s \in Subdirs : s # Subdir(c) => dirs'[s] = dirs[s]
  PROVE  ContextInv'
<1>1. /\ phase' \in [Contexts -> Phases]
      /\ \A d \in Contexts \ {c} : phase'[d] = phase[d]
  BY PhaseOf DEF ContextInv
<1>2. \A d \in Contexts : Subdir(d) \in Subdirs => d # c
  BY SubdirFacts
<1>3. \A s \in Subdirs : dirs'[s] = dirs[s]
  BY SubdirFacts
<1>4. \A d \in Contexts : Written(d)' = Written(d) /\ Holding(d)' = Holding(d)
  BY DEF Written, Holding
<1>5. ContextTypes'
  BY <1>1 DEF ContextInv, ContextTypes
<1>6. Progressing'
  BY <1>1, <1>4 DEF ContextInv, Progressing
<1>7. Cleared'
  BY <1>1, <1>2, <1>3 DEF ContextInv, Cleared
<1>8. OwnDirectory'
  <2> SUFFICES ASSUME NEW d \in Contexts, InUse(d)', Kind[d] # "local", d \notin disturbed
               PROVE  Others(d)' = {} /\ dirs'[Subdir(d)] = Holding(d)
    BY <1>4 DEF OwnDirectory
  <2>1. Subdir(d) \in Subdirs /\ d # c
    BY SubdirFacts
  <2>2. InUse(d)
    BY <1>1, <2>1 DEF InUse
  <2>3. Others(d) = {} /\ dirs[Subdir(d)] = Holding(d)
    BY <2>2 DEF ContextInv, OwnDirectory
  <2>4. Others(d)' = Others(d)
    BY <1>1, <1>2, <2>1 DEF Others
  <2> QED BY <1>3, <2>1, <2>3, <2>4
<1> QED BY <1>5, <1>6, <1>7, <1>8 DEF ContextInv

LEMMA MakeDirectoryStep ==
  ASSUME ContextInv, NEW c \in Contexts, MakeDirectory(c)
  PROVE  ContextInv'
<1> USE DEF MakeDirectory
<1>0. "made" \in Phases /\ Enter(c, "made")
  BY DEF Phases
<1>1. /\ phase' \in [Contexts -> Phases]
      /\ phase'[c] = "made"
      /\ \A d \in Contexts \ {c} : phase'[d] = phase[d]
  BY <1>0, PhaseOf DEF ContextInv
<1>2. \A d \in Contexts : Written(d)' = Written(d) /\ Holding(d)' = Holding(d)
  BY DEF Written, Holding
<1>3. Subdir(c) \in Subdirs
  BY SubdirFacts
<1>4. /\ DOMAIN dirs' = Subdirs /\ dirs'[Subdir(c)] = Made(dirs[Subdir(c)])
      /\ \A s \in Subdirs : s # Subdir(c) => dirs'[s] = dirs[s]
  BY <1>3 DEF ContextInv, ContextTypes
<1>5. ContextTypes'
  BY <1>1, <1>4 DEF ContextInv, ContextTypes
<1>6. Progressing'
  BY <1>1, <1>2 DEF ContextInv, Progressing
<1>7. Cleared'
  BY <1>1, <1>4 DEF ContextInv, Cleared
<1>8. OwnDirectory'
  <2> SUFFICES ASSUME NEW d \in Contexts, InUse(d)', Kind[d] # "local", d \notin disturbed'
               PROVE  Others(d)' = {} /\ dirs'[Subdir(d)] = Holding(d)
    BY <1>2 DEF OwnDirectory
  <2>1. CASE d = c
    <3>1. Others(c) = {}
      BY <2>1
    <3>2. \A e \in Contexts : Subdir(e) = Subdir(c) => phase[e] \in {"new", "closed"}
      BY <3>1 DEF Others
    <3>3. dirs[Subdir(c)] = NoDir
      BY <1>3, <3>2 DEF ContextInv, Cleared
    <3>4. dirs'[Subdir(c)] = EmptyDir
      BY <1>4, <3>3 DEF Made, NoDir
    <3>5. Written(c) = 0
      BY DEF ContextInv, Progressing
    <3>6. \A f \in Files : ContentAfter(c, 0, f) = NoFile
      <4>1. \A f, t : Of(c, 0, f, t) = {}
        BY DEF Of
      <4> QED BY <4>1, ContentIs
    <3>7. Holding(c) = EmptyDir
      BY <3>5, <3>6 DEF Holding, EmptyDir
    <3>8. Others(c)' = {}
      BY <1>1, <3>2 DEF Others
    <3> QED BY <2>1, <3>4, <3>7, <3>8
  <2>2. CASE d # c
    <3>1. InUse(d) /\ d \notin disturbed
      BY <1>1, <2>2 DEF InUse
    <3>2. Others(d) = {} /\ dirs[Subdir(d)] = Holding(d)
      BY <3>1 DEF ContextInv, OwnDirectory
    <3>3. Subdir(d) # Subdir(c)
      <4>1. Subdir(d) = Subdir(c) => d \in Others(c)
        BY <2>2, <3>1 DEF Others, InUse
      <4> QED BY <4>1
    <3>4. Others(d)' = Others(d)
      BY <1>1, <3>3 DEF Others
    <3>5. Subdir(d) \in Subdirs
      BY SubdirFacts
    <3> QED BY <1>4, <3>2, <3>3, <3>4, <3>5
  <2> QED BY <2>1, <2>2
<1> QED BY <1>5, <1>6, <1>7, <1>8 DEF ContextInv

(* Writing the next entry. *)
LEMMA WriteStep ==
  ASSUME ContextInv, NEW c \in Contexts, ExtractEntry(c) \/ SaveFile(c)
  PROVE  ContextInv'
<1>1. /\ phase[c] = "writing" /\ Kind[c] # "local" /\ left[c] # <<>>
      /\ left' = [left EXCEPT ![c] = Tail(@)] /\ UNCHANGED <<phase, disturbed>>
      /\ DOMAIN dirs' = Subdirs
      /\ \A s \in Subdirs : s # Subdir(c) => dirs'[s] = dirs[s]
  BY DEF ExtractEntry, SaveFile, Archives, ContextInv, ContextTypes
<1> DEFINE n == Written(c)
           entry == Source[c][n + 1]
<1>2. /\ n \in 0 .. Len(Source[c]) - 1 /\ n + 1 \in 1 .. Len(Source[c]) /\ Len(Source[c]) \in Nat
      /\ Head(left[c]) = entry
      /\ Tail(left[c]) = SubSeq(Source[c], (n + 1) + 1, Len(Source[c]))
  <2>1. n \in 0 .. Len(Source[c]) /\ n < Len(Source[c]) /\ left[c] = SubSeq(Source[c], n + 1, Len(Source[c]))
    BY <1>1, LeftFacts DEF ContextInv
  <2>2. Len(Source[c]) \in Nat /\ (n + 1) + 1 = n + 2
    BY <2>1, SourceFacts
  <2> HIDE DEF n
  <2>3. Head(left[c]) = Source[c][n + 1] /\ Tail(left[c]) = SubSeq(Source[c], n + 2, Len(Source[c]))
    BY <1>1, <2>1, SourceFacts
  <2>4. n \in 0 .. Len(Source[c]) - 1 /\ n + 1 \in 1 .. Len(Source[c])
    BY <2>1, <2>2
  <2> QED BY <2>2, <2>3, <2>4
<1>3. /\ DOMAIN left' = Contexts
      /\ left'[c] = SubSeq(Source[c], (n + 1) + 1, Len(Source[c]))
      /\ \A d \in Contexts \ {c} : left'[d] = left[d]
  BY <1>1, <1>2 DEF ContextInv, ContextTypes
<1>4. ContextTypes'
  <2>1. n + 1 \in 0 .. Len(Source[c])
    BY <1>2
  <2> HIDE DEF n
  <2>2. \A d \in Contexts : \E m \in 0 .. Len(Source[d]) :
          left'[d] = SubSeq(Source[d], m + 1, Len(Source[d]))
    BY <1>3, <2>1 DEF ContextInv, ContextTypes
  <2> QED BY <1>1, <1>3, <2>2 DEF ContextInv, ContextTypes
<1>5. Written(c)' = n + 1 /\ \A d \in Contexts \ {c} : Written(d)' = Written(d)
  <2>1. Len(left'[c]) = Len(Source[c]) - (n + 1)
    <3> n + 1 \in 0 .. Len(Source[c])
      BY <1>2
    <3> HIDE DEF n
    <3> QED BY <1>3, SourceFacts
  <2>2. Written(c)' = Len(Source[c]) - Len(left'[c])
    BY DEF Written
  <2>3. \A d \in Contexts \ {c} : Written(d)' = Written(d)
    BY <1>3 DEF Written
  <2>4. n \in Int /\ Len(Source[c]) \in Int
    BY <1>2
  <2> HIDE DEF n
  <2>5. Written(c)' = Len(Source[c]) - (Len(Source[c]) - (n + 1))
    BY <2>1, <2>2
  <2>6. \A a, b \in Int : a - (a - b) = b
    OBVIOUS
  <2>7. n + 1 \in Int
    BY <2>4
  <2> QED BY <2>3, <2>4, <2>5, <2>6, <2>7
<1>6. Progressing'
  <2>1. Kind[c] \in Archives => entry.name \notin Dotted
    BY <1>2 DEF ExtractEntry, SaveFile, Archives, Fits
  <2>2. Kind[c] \in Archives => \A i \in 1 .. n : Source[c][i].name \notin Dotted
    BY <1>1 DEF ContextInv, Progressing
  <2>3. \A i \in 1 .. n + 1 : i \in 1 .. n \/ i = n + 1
    BY <1>2
  <2> HIDE DEF n
  <2> QED BY <1>1, <1>3, <1>5, <2>1, <2>2, <2>3 DEF ContextInv, Progressing
<1>7. Cleared'
  <2>1. phase'[c] \notin {"new", "closed"}
    BY <1>1
  <2> QED BY <1>1, <2>1 DEF ContextInv, Cleared
<1>8. OwnDirectory'
  <2> SUFFICES ASSUME NEW d \in Contexts, InUse(d), Kind[d] # "local", d \notin disturbed
               PROVE  Others(d)' = {} /\ dirs'[Subdir(d)] = Holding(d)'
    BY <1>1 DEF OwnDirectory, InUse
  <2>1. Others(d)' = Others(d)
    BY <1>1 DEF Others
  <2>2. Others(d) = {} /\ dirs[Subdir(d)] = Holding(d) /\ Subdir(d) \in Subdirs
    BY SubdirFacts DEF ContextInv, OwnDirectory
  <2>3. CASE d = c
    <3> DEFINE old == [f \in Files |-> ContentAfter(c, n, f)]
               new == [f \in Files |-> ContentAfter(c, n + 1, f)]
               node == old[entry.name]
    <3>1. /\ entry.name \in Files /\ entry.type \in {"file", "dir", "other"}
          /\ entry.body = [k \in DOMAIN entry.body |-> entry.body[k]]
      BY <1>2, EntryFacts
    <3>2. dirs[Subdir(c)] = [exists |-> TRUE, files |-> old]
      BY <2>2, <2>3 DEF Holding
    <3>3. Holding(c)' = [exists |-> TRUE, files |-> new]
      BY <1>5 DEF Holding
    <3>4. node = ContentAfter(c, n, entry.name)
      BY <3>1
    <3>5. /\ entry.type = "dir" => node.type # "file"
          /\ entry.type = "file" => node.type # "dir"
      <4> HIDE DEF old, n, entry
      <4>1. CASE ExtractEntry(c)
        BY <1>2, <3>2, <4>1 DEF ExtractEntry, Fits, node
      <4>2. CASE SaveFile(c)
        <5>1. node.type # "dir"
          BY <1>2, <3>2, <4>2 DEF SaveFile, node
        <5>2. entry.type = "file"
          <6>1. Len(Source[c]) = 1 /\ Source[c][1].type = "file"
            BY <4>2, ContextAssumption DEF SaveFile
          <6>2. n + 1 = 1
            BY <1>2, <6>1 DEF n
          <6> QED BY <6>1, <6>2 DEF entry
        <5> QED BY <5>1, <5>2
      <4> QED BY <4>1, <4>2
    <3>6. \A f \in Files : new[f] = IF entry.name = f THEN Become(old[f], entry) ELSE old[f]
      BY <1>2, <3>4, <3>5, ContentStep
    <3> HIDE DEF n, entry, old, new
    <3>7. new = [old EXCEPT ![entry.name] = Become(old[entry.name], entry)]
      <4>1. new = [f \in Files |-> new[f]] /\ old = [f \in Files |-> old[f]]
        BY DEF new, old
      <4> QED BY <3>1, <3>6, <4>1
    <3>8. Made(dirs[Subdir(c)]) = dirs[Subdir(c)] /\ dirs[Subdir(c)].files = old
      BY <3>2 DEF Made
    <3>9. dirs'[Subdir(c)] = [exists |-> TRUE, files |-> new]
      <4>1. CASE ExtractEntry(c)
        <5>1. dirs' = [dirs EXCEPT ![Subdir(c)] = Extracted(@, entry)]
          BY <1>2, <4>1 DEF ExtractEntry, entry
        <5>2. dirs'[Subdir(c)] = Extracted(dirs[Subdir(c)], entry)
          BY <2>2, <2>3, <5>1 DEF ContextInv, ContextTypes
        <5>3. CASE entry.type = "dir"
          BY <3>7, <3>8, <5>2, <5>3 DEF Extracted, With, Become
        <5>4. CASE entry.type = "file"
          BY <3>7, <3>8, <5>2, <5>4 DEF Extracted, With, Become
        <5>5. CASE entry.type = "other"
          <6>1. new = old
            <7>1. Become(old[entry.name], entry) = old[entry.name]
              BY <5>5 DEF Become
            <7>2. old = [f \in Files |-> old[f]]
              BY DEF old
            <7> QED BY <3>7, <7>1, <7>2
          <6> QED BY <3>2, <5>2, <5>5, <6>1 DEF Extracted
        <5> QED BY <3>1, <5>3, <5>4, <5>5
      <4>2. CASE SaveFile(c)
        <5>1. dirs' = [dirs EXCEPT ![Subdir(c)] = With(@, entry.name, File(entry.body))]
          BY <1>2, <4>2 DEF SaveFile, entry
        <5>2. dirs'[Subdir(c)] = With(dirs[Subdir(c)], entry.name, File(entry.body))
          BY <2>2, <2>3, <5>1 DEF ContextInv, ContextTypes
        <5>3. Len(Source[c]) = 1 /\ Source[c][1].type = "file"
          BY <4>2, ContextAssumption DEF SaveFile
        <5>4. n = 0 /\ entry.type = "file"
          <6>1. n = 0
            BY <1>2, <5>3 DEF n
          <6> QED BY <5>3, <6>1 DEF entry
        <5>5. old[entry.name].body = <<>>
          <6>1. \A f, t : Of(c, 0, f, t) = {}
            BY DEF Of
          <6> QED BY <3>1, <5>4, <6>1, ContentIs DEF old, NoFile
        <5>6. Overlaid(old[entry.name].body, entry.body) = entry.body
          <6>1. DOMAIN <<>> = {}
            BY EmptySeq
          <6>2. Overlaid(<<>>, entry.body) = [k \in DOMAIN entry.body |-> entry.body[k]]
            BY <6>1 DEF Overlaid
          <6> QED BY <3>1, <5>5, <6>2
        <5> QED BY <3>7, <3>8, <5>2, <5>4, <5>6 DEF With, Become
      <4> QED BY <4>1, <4>2
    <3> QED BY <2>1, <2>2, <2>3, <3>3, <3>9
  <2>4. CASE d # c
    <3>1. Subdir(d) # Subdir(c)
      BY <1>1, <2>2, <2>4 DEF Others
    <3>2. Holding(d)' = Holding(d)
      BY <1>5, <2>4 DEF Holding
    <3> QED BY <1>1, <2>1, <2>2, <3>1, <3>2
  <2> QED BY <2>3, <2>4
<1> QED BY <1>4, <1>6, <1>7, <1>8 DEF ContextInv

LEMMA CloseContextStep ==
  ASSUME ContextInv, NEW c \in Contexts, CloseContext(c)
  PROVE  ContextInv'
<1> USE DEF CloseContext
<1>0. "closed" \in Phases /\ Enter(c, "closed")
  BY DEF Phases
<1>1. /\ phase' \in [Contexts -> Phases]
      /\ phase'[c] = "closed"
      /\ \A d \in Contexts \ {c} : phase'[d] = phase[d]
  BY <1>0, PhaseOf DEF ContextInv
<1>2. /\ DOMAIN dirs' = Subdirs
      /\ \A s \in Subdirs : dirs'[s] = IF s = Subdir(c) THEN NoDir ELSE dirs[s]
  OBVIOUS
<1>3. \A d \in Contexts : Written(d)' = Written(d) /\ Holding(d)' = Holding(d)
  BY DEF Written, Holding
<1>4. CASE Kind[c] = "local"
  BY <1>0, <1>2, <1>4, LocalStep
<1>5. CASE Kind[c] # "local"
  <2>1. ContextTypes'
    BY <1>1, <1>2 DEF ContextInv, ContextTypes
  <2>2. Progressing'
    BY <1>1, <1>3 DEF ContextInv, Progressing
  <2>3. Cleared'
    BY <1>1, <1>2 DEF ContextInv, Cleared
  <2>4. OwnDirectory'
    <3> SUFFICES ASSUME NEW d \in Contexts, InUse(d)', Kind[d] # "local", d \notin disturbed
                 PROVE  Others(d)' = {} /\ dirs'[Subdir(d)] = Holding(d)
      BY <1>3 DEF OwnDirectory
    <3>1. d # c
      BY <1>1 DEF InUse
    <3>2. InUse(d)
      BY <1>1, <3>1 DEF InUse
    <3>3. Others(d) = {} /\ dirs[Subdir(d)] = Holding(d) /\ Subdir(d) \in Subdirs
      BY <3>2, SubdirFacts DEF ContextInv, OwnDirectory
    <3>4. Subdir(d) # Subdir(c)
      BY <3>1, <3>3 DEF Others
    <3>5. Others(d)' = Others(d)
      BY <1>1, <3>4 DEF Others
    <3> QED BY <1>2, <3>3, <3>4, <3>5
  <2> QED BY <2>1, <2>2, <2>3, <2>4 DEF ContextInv
<1> QED BY <1>4, <1>5

LEMMA CloseManagerStep ==
  ASSUME ContextInv, CloseManager
  PROVE  ContextInv'
<1>1. UNCHANGED <<phase, left, disturbed>> /\ dirs' = [s \in Subdirs |-> NoDir]
      /\ \A c \in Contexts : ~InUse(c)
  BY DEF CloseManager
<1>2. ContextTypes' /\ Progressing'
  BY <1>1 DEF ContextInv, ContextTypes, Progressing, Written
<1>3. Cleared'
  BY <1>1 DEF Cleared
<1>4. OwnDirectory'
  BY <1>1 DEF OwnDirectory, InUse
<1> QED BY <1>2, <1>3, <1>4 DEF ContextInv

LEMMA ContextStep == ContextInv /\ [ContextNext]_contextVars => ContextInv'
<1> SUFFICES ASSUME ContextInv, [ContextNext]_contextVars PROVE ContextInv'
  OBVIOUS
<1>1. ASSUME NEW c \in Contexts, PrepareLocal(c) PROVE ContextInv'
  <2>1. PICK p \in {"ready", "failed"} : Enter(c, p)
    BY <1>1 DEF PrepareLocal
  <2>2. p \in Phases /\ Kind[c] = "local" /\ UNCHANGED <<dirs, left, disturbed>>
    BY <1>1 DEF PrepareLocal, Phases
  <2> QED BY <2>1, <2>2, LocalStep DEF ContextInv, ContextTypes
<1>2. ASSUME NEW c \in Contexts, CloneRepository(c) PROVE ContextInv'
  BY <1>2, EnterOnly DEF CloneRepository, InUse
<1>3. ASSUME NEW c \in Contexts, OpenSource(c) PROVE ContextInv'
  BY <1>3, EnterOnly DEF OpenSource, InUse
<1>4. ASSUME NEW c \in Contexts, WriteFails(c) \/ ExcludeFails(c) PROVE ContextInv'
  BY <1>4, EnterOnly DEF WriteFails, ExcludeFails, InUse
<1>5. ASSUME NEW c \in Contexts, ReturnContext(c) PROVE ContextInv'
  BY <1>5, EnterOnly DEF ReturnContext, InUse
<1>6. CASE UNCHANGED contextVars
  <2>1. UNCHANGED <<dirs, phase, left, disturbed>>
    BY <1>6 DEF contextVars
  <2>2. ContextTypes' /\ Progressing' /\ Cleared'
    BY <2>1 DEF ContextInv, ContextTypes, Progressing, Written, Cleared
  <2>3. OwnDirectory'
    BY <2>1 DEF ContextInv, OwnDirectory, InUse, Others, Holding, Written
  <2> QED BY <2>2, <2>3 DEF ContextInv
<1> QED BY <1>1, <1>2, <1>3, <1>4, <1>5, <1>6, MakeDirectoryStep, WriteStep, CloseContextStep,
           CloseManagerStep DEF ContextNext

(* A build context handed out holds what its source holds, for any contexts *)
(* of any types and any sources, in which names may come again, be refused, *)
(* or name links, as long as no other context had its directory together    *)
(* with it: ReadyHoldsSource.                                               *)
THEOREM ReadyAlwaysHoldsSource == ContextSpec => []ReadyHoldsSource
<1>1. ContextInv => ReadyHoldsSource
  <2> SUFFICES ASSUME ContextInv, NEW c \in Contexts, phase[c] = "ready", Kind[c] # "local"
               PROVE  ~Refused(c) /\ (c \notin disturbed => Holds(dirs[Subdir(c)], c))
    BY DEF ReadyHoldsSource
  <2>1. left[c] = <<>>
    BY DEF ContextInv, Progressing
  <2>2. Written(c) = Len(Source[c]) /\ DOMAIN Source[c] = 1 .. Len(Source[c])
    BY <2>1, LeftFacts, SourceFacts DEF ContextInv
  <2>3. ~Refused(c)
    BY <2>2 DEF ContextInv, Progressing, Refused
  <2>4. c \notin disturbed => dirs[Subdir(c)] = Holding(c)
    BY DEF ContextInv, OwnDirectory, InUse
  <2> QED BY <2>2, <2>3, <2>4 DEF Holding, Holds, Content
<1> QED BY <1>1, ContextInitHolds, ContextStep, PTL DEF ContextSpec

------------------------------------------------------------------------------
(* ErrorClassifier *)

LEMMA Smallest ==
  ASSUME NEW S \in SUBSET Nat, S # {}
  PROVE  Min(S) \in S /\ \A j \in S : Min(S) <= j
BY Least DEF Min

-----------------------------------------------------------------------------
Keywords(i) == Categories[Priority[i]].keywords
Ranks == 1 .. 9

LEMMA PriorityFacts ==
  /\ DOMAIN Priority = Ranks
  /\ \A i, j \in Ranks : Priority[i] = Priority[j] => i = j
  /\ \A i \in Ranks : Priority[i] # "unknown"
BY DEF Priority, Ranks

(* The category is the first with a keyword in the text. *)
LEMMA CategoryFacts ==
  ASSUME NEW text
  PROVE  \/ Category(text) = "unknown" /\ \A i \in Ranks : text \cap Keywords(i) = {}
         \/ \E i \in Ranks : /\ Category(text) = Priority[i] /\ text \cap Keywords(i) # {}
                             /\ \A j \in Ranks : j < i => text \cap Keywords(j) = {}
<1> DEFINE matching == {i \in DOMAIN Priority : text \cap Categories[Priority[i]].keywords # {}}
<1>1. matching = {i \in Ranks : text \cap Keywords(i) # {}}
  BY PriorityFacts DEF Keywords
<1>2. Category(text) = IF matching = {} THEN "unknown" ELSE Priority[Min(matching)]
  BY DEF Category
<1>3. CASE matching = {}
  BY <1>1, <1>2, <1>3
<1>4. CASE matching # {}
  <2> DEFINE i == Min(matching)
  <2> HIDE DEF matching
  <2>1. matching \in SUBSET Nat
    BY <1>1 DEF Ranks
  <2>2. i \in matching /\ \A j \in matching : i <= j
    BY <1>4, <2>1, Smallest
  <2>5. Category(text) = Priority[i]
    BY <1>2, <1>4
  <2> HIDE DEF i
  <2>3. i \in Ranks /\ text \cap Keywords(i) # {}
    BY <1>1, <2>2
  <2>4. \A j \in Ranks : j < i => text \cap Keywords(j) = {}
    BY <1>1, <2>2 DEF Ranks
  <2> QED BY <2>3, <2>4, <2>5
<1> QED BY <1>3, <1>4

LEMMA CategoryIs ==
  ASSUME NEW text, NEW i \in Ranks
  PROVE  Category(text) = Priority[i]
           <=> /\ text \cap Keywords(i) # {}
               /\ \A j \in Ranks : j < i => text \cap Keywords(j) = {}
<1>1. ASSUME Category(text) = Priority[i]
      PROVE  /\ text \cap Keywords(i) # {}
             /\ \A j \in Ranks : j < i => text \cap Keywords(j) = {}
  BY <1>1, CategoryFacts, PriorityFacts
<1>2. ASSUME text \cap Keywords(i) # {}, \A j \in Ranks : j < i => text \cap Keywords(j) = {}
      PROVE  Category(text) = Priority[i]
  <2>1. PICK k \in Ranks : /\ Category(text) = Priority[k] /\ text \cap Keywords(k) # {}
                           /\ \A j \in Ranks : j < k => text \cap Keywords(j) = {}
    BY <1>2, CategoryFacts
  <2>2. ~(k < i) /\ ~(i < k)
    BY <1>2, <2>1
  <2>3. k = i
    BY <2>2 DEF Ranks
  <2> QED BY <2>1, <2>3
<1> QED BY <1>1, <1>2

LEMMA CategoryUnknown ==
  ASSUME NEW text
  PROVE  Category(text) = "unknown" <=> \A i \in Ranks : text \cap Keywords(i) = {}
BY CategoryFacts, PriorityFacts

(* Words that are added do not hide what was there, and bring a category of *)
(* their own only.                                                          *)
LEMMA CategoryOfBoth ==
  ASSUME NEW a, NEW b
  PROVE  /\ Category(a \cup b) \in {Category(a), Category(b)}
         /\ Category(a) = "unknown" => Category(a \cup b) = Category(b)
         /\ Category(b) = "unknown" => Category(a \cup b) = Category(a)
         /\ Category(a) = Priority[1] => Category(a \cup b) = Priority[1]
         /\ Category(a) = Priority[2] => Category(a \cup b) \in {Priority[1], Priority[2]}
         /\ Category(a) = Priority[5] => Category(a \cup b) \in {Priority[i] : i \in 1 .. 5}
<1>0. \A i \in Ranks : (a \cup b) \cap Keywords(i) # {}
                         <=> (a \cap Keywords(i) # {} \/ b \cap Keywords(i) # {})
  OBVIOUS
<1>1. CASE Category(a \cup b) = "unknown"
  <2>1. \A i \in Ranks : a \cap Keywords(i) = {} /\ b \cap Keywords(i) = {}
    BY <1>0, <1>1, CategoryUnknown
  <2>2. Category(a) = "unknown" /\ Category(b) = "unknown"
    BY <2>1, CategoryUnknown
  <2>3. 1 \in Ranks /\ 2 \in Ranks /\ 5 \in Ranks
    BY DEF Ranks
  <2> QED BY <1>1, <2>2, <2>3, PriorityFacts
<1>2. CASE Category(a \cup b) # "unknown"
  <2>1. PICK i \in Ranks : /\ Category(a \cup b) = Priority[i] /\ (a \cup b) \cap Keywords(i) # {}
                           /\ \A j \in Ranks : j < i => (a \cup b) \cap Keywords(j) = {}
    BY <1>2, CategoryFacts
  <2>2. \A j \in Ranks : j < i => a \cap Keywords(j) = {} /\ b \cap Keywords(j) = {}
    BY <1>0, <2>1
  <2>3. a \cap Keywords(i) # {} => Category(a) = Priority[i]
    BY <2>2, CategoryIs
  <2>4. b \cap Keywords(i) # {} => Category(b) = Priority[i]
    BY <2>2, CategoryIs
  <2>5. Category(a \cup b) \in {Category(a), Category(b)}
    BY <1>0, <2>1, <2>3, <2>4
  <2>6. Category(a) = "unknown" => Category(a \cup b) = Category(b)
    BY <1>0, <2>1, <2>4, CategoryUnknown
  <2>10. Category(b) = "unknown" => Category(a \cup b) = Category(a)
    BY <1>0, <2>1, <2>3, CategoryUnknown
  <2>7. ASSUME NEW k \in Ranks, Category(a) = Priority[k] PROVE i <= k
    <3>1. ~(k < i)
      BY <2>2, <2>7, CategoryIs
    <3> QED BY <3>1 DEF Ranks
  <2>8. Category(a) = Priority[1] => i = 1
    BY <2>7 DEF Ranks
  <2>9. Category(a) = Priority[2] => i \in {1, 2}
    BY <2>7 DEF Ranks
  <2>11. Category(a) = Priority[5] => i \in 1 .. 5
    BY <2>7 DEF Ranks
  <2> QED BY <2>1, <2>5, <2>6, <2>8, <2>9, <2>10, <2>11
<1> QED BY <1>1, <1>2

(* No message has a keyword of another category. *)
SaysOnly(i, category) ==
  \A m \in DOMAIN category.messages :
    \A j \in Ranks \ {i} : category.messages[m].says \cap Keywords(j) = {}

HasDefault(category) ==
  \E m \in DOMAIN category.messages : category.messages[m].when = {}

LEMMA KeywordsOf ==
  /\ Keywords(1) = ContextErrors.keywords
  /\ Keywords(2) = DockerfileErrors.keywords
  /\ Keywords(3) = DependencyErrors.keywords
  /\ Keywords(4) = PermissionErrors.keywords
  /\ Keywords(5) = NetworkErrors.keywords
  /\ Keywords(6) = CacheErrors.keywords
  /\ Keywords(7) = ResourceErrors.keywords
  /\ Keywords(8) = ExecutionErrors.keywords
  /\ Keywords(9) = ConfigurationErrors.keywords
BY DEF Keywords, Priority, Categories

(* Which category a word is a keyword of. *)
LEMMA WordsOf ==
  \A j \in Ranks :
    /\ "build-context" \in Keywords(j) => j = 1
    /\ "context-directory" \in Keywords(j) => j = 1
    /\ "download" \in Keywords(j) => j = 1
    /\ "http" \in Keywords(j) => j = 1
    /\ "dockerfile" \in Keywords(j) => j = 2
    /\ "syntax-error" \in Keywords(j) => j = 2
    /\ "ast" \in Keywords(j) => j = 2
    /\ "package-not-found" \in Keywords(j) => j = 3
    /\ "command-not-found" \in Keywords(j) => j = 3
    /\ "network" \in Keywords(j) => j = 5
    /\ "connection" \in Keywords(j) => j = 5
    /\ "timeout" \in Keywords(j) => j = 5
    /\ "dns" \in Keywords(j) => j = 5
    /\ "proxy" \in Keywords(j) => j = 5
    /\ "cache" \in Keywords(j) => j = 6
    /\ "execution-failed" \in Keywords(j) => j = 8
    /\ "configuration" \in Keywords(j) => j = 9
    /\ "tar" \notin Keywords(j)
    /\ "syntax" \notin Keywords(j)
<1> SUFFICES ASSUME NEW j \in Ranks
             PROVE  WordsOf!(j)
  OBVIOUS
<1>1. CASE j = 1
  <2> HIDE DEF Ranks
  <2>1. Keywords(j) = ContextErrors.keywords
    BY <1>1, KeywordsOf
  <2> QED BY <1>1, <2>1 DEF ContextErrors
<1>2. CASE j = 2
  <2> HIDE DEF Ranks
  <2>1. Keywords(j) = DockerfileErrors.keywords
    BY <1>2, KeywordsOf
  <2> QED BY <1>2, <2>1 DEF DockerfileErrors
<1>3. CASE j = 3
  <2> HIDE DEF Ranks
  <2>1. Keywords(j) = DependencyErrors.keywords
    BY <1>3, KeywordsOf
  <2> QED BY <1>3, <2>1 DEF DependencyErrors
<1>4. CASE j = 4
  <2> HIDE DEF Ranks
  <2>1. Keywords(j) = PermissionErrors.keywords
    BY <1>4, KeywordsOf
  <2> QED BY <1>4, <2>1 DEF PermissionErrors
<1>5. CASE j = 5
  <2> HIDE DEF Ranks
  <2>1. Keywords(j) = NetworkErrors.keywords
    BY <1>5, KeywordsOf
  <2> QED BY <1>5, <2>1 DEF NetworkErrors
<1>6. CASE j = 6
  <2> HIDE DEF Ranks
  <2>1. Keywords(j) = CacheErrors.keywords
    BY <1>6, KeywordsOf
  <2> QED BY <1>6, <2>1 DEF CacheErrors
<1>7. CASE j = 7
  <2> HIDE DEF Ranks
  <2>1. Keywords(j) = ResourceErrors.keywords
    BY <1>7, KeywordsOf
  <2> QED BY <1>7, <2>1 DEF ResourceErrors
<1>8. CASE j = 8
  <2> HIDE DEF Ranks
  <2>1. Keywords(j) = ExecutionErrors.keywords
    BY <1>8, KeywordsOf
  <2> QED BY <1>8, <2>1 DEF ExecutionErrors
<1>9. CASE j = 9
  <2> HIDE DEF Ranks
  <2>1. Keywords(j) = ConfigurationErrors.keywords
    BY <1>9, KeywordsOf
  <2> QED BY <1>9, <2>1 DEF ConfigurationErrors
<1> QED BY <1>1, <1>2, <1>3, <1>4, <1>5, <1>6, <1>7, <1>8, <1>9 DEF Ranks

(* Every message has a default, and its words are of its own category. *)
LEMMA Messages ==
  \A i \in Ranks : LET category == Categories[Priority[i]] IN
    /\ \E n \in Nat : DOMAIN category.messages = 1 .. n
    /\ HasDefault(category)
    /\ SaysOnly(i, category)
<1> SUFFICES ASSUME NEW i \in Ranks
             PROVE  Messages!(i)
  OBVIOUS
<1>1. CASE i = 1
  <2>1. Categories[Priority[i]] = ContextErrors
    BY <1>1 DEF Categories, Priority
  <2>2. DOMAIN ContextErrors.messages = 1 .. 5
    BY DEF ContextErrors
  <2>3. ContextErrors.messages[5].when = {}
    BY DEF ContextErrors, Default
  <2>4. SaysOnly(1, ContextErrors)
    <3> SUFFICES ASSUME NEW m \in 1 .. 5, NEW j \in Ranks, j # 1
                 PROVE  ContextErrors.messages[m].says \cap Keywords(j) = {}
      BY <2>2 DEF SaysOnly
    <3>1. CASE m = 1
      BY <3>1, WordsOf DEF ContextErrors, Case, Default
    <3>2. CASE m = 2
      BY <3>2, WordsOf DEF ContextErrors, Case, Default
    <3>3. CASE m = 3
      BY <3>3, WordsOf DEF ContextErrors, Case, Default
    <3>4. CASE m = 4
      BY <3>4, WordsOf DEF ContextErrors, Case, Default
    <3>5. CASE m = 5
      BY <3>5, WordsOf DEF ContextErrors, Case, Default
    <3> QED BY <3>1, <3>2, <3>3, <3>4, <3>5
  <2> QED BY <1>1, <2>1, <2>2, <2>3, <2>4 DEF HasDefault
<1>2. CASE i = 2
  <2>1. Categories[Priority[i]] = DockerfileErrors
    BY <1>2 DEF Categories, Priority
  <2>2. DOMAIN DockerfileErrors.messages = 1 .. 4
    BY DEF DockerfileErrors
  <2>3. DockerfileErrors.messages[4].when = {}
    BY DEF DockerfileErrors, Default
  <2>4. SaysOnly(2, DockerfileErrors)
    <3> SUFFICES ASSUME NEW m \in 1 .. 4, NEW j \in Ranks, j # 2
                 PROVE  DockerfileErrors.messages[m].says \cap Keywords(j) = {}
      BY <2>2 DEF SaysOnly
    <3>1. CASE m = 1
      BY <3>1, WordsOf DEF DockerfileErrors, Case, Default
    <3>2. CASE m = 2
      BY <3>2, WordsOf DEF DockerfileErrors, Case, Default
    <3>3. CASE m = 3
      BY <3>3, WordsOf DEF DockerfileErrors, Case, Default
    <3>4. CASE m = 4
      BY <3>4, WordsOf DEF DockerfileErrors, Case, Default
    <3> QED BY <3>1, <3>2, <3>3, <3>4
  <2> QED BY <1>2, <2>1, <2>2, <2>3, <2>4 DEF HasDefault
<1>3. CASE i = 3
  <2>1. Categories[Priority[i]] = DependencyErrors
    BY <1>3 DEF Categories, Priority
  <2>2. DOMAIN DependencyErrors.messages = 1 .. 4
    BY DEF DependencyErrors
  <2>3. DependencyErrors.messages[4].when = {}
    BY DEF DependencyErrors, Default
  <2>4. SaysOnly(3, DependencyErrors)
    <3> SUFFICES ASSUME NEW m \in 1 .. 4, NEW j \in Ranks, j # 3
                 PROVE  DependencyErrors.messages[m].says \cap Keywords(j) = {}
      BY <2>2 DEF SaysOnly
    <3>1. CASE m = 1
      BY <3>1, WordsOf DEF DependencyErrors, Case, Default
    <3>2. CASE m = 2
      BY <3>2, WordsOf DEF DependencyErrors, Case, Default
    <3>3. CASE m = 3
      BY <3>3, WordsOf DEF DependencyErrors, Case, Default
    <3>4. CASE m = 4
      BY <3>4, WordsOf DEF DependencyErrors, Case, Default
    <3> QED BY <3>1, <3>2, <3>3, <3>4
  <2> QED BY <1>3, <2>1, <2>2, <2>3, <2>4 DEF HasDefault
<1>4. CASE i = 4
  <2>1. Categories[Priority[i]] = PermissionErrors
    BY <1>4 DEF Categories, Priority
  <2>2. DOMAIN PermissionErrors.messages = 1 .. 1
    BY DEF PermissionErrors
  <2>3. PermissionErrors.messages[1].when = {}
    BY DEF PermissionErrors, Default
  <2>4. SaysOnly(4, PermissionErrors)
    <3> SUFFICES ASSUME NEW m \in 1 .. 1, NEW j \in Ranks, j # 4
                 PROVE  PermissionErrors.messages[m].says \cap Keywords(j) = {}
      BY <2>2 DEF SaysOnly
    <3>1. CASE m = 1
      BY <3>1, WordsOf DEF PermissionErrors, Case, Default
    <3> QED BY <3>1
  <2> QED BY <1>4, <2>1, <2>2, <2>3, <2>4 DEF HasDefault
<1>5. CASE i = 5
  <2>1. Categories[Priority[i]] = NetworkErrors
    BY <1>5 DEF Categories, Priority
  <2>2. DOMAIN NetworkErrors.messages = 1 .. 4
    BY DEF NetworkErrors
  <2>3. NetworkErrors.messages[4].when = {}
    BY DEF NetworkErrors, Default
  <2>4. SaysOnly(5, NetworkErrors)
    <3> SUFFICES ASSUME NEW m \in 1 .. 4, NEW j \in Ranks, j # 5
                 PROVE  NetworkErrors.messages[m].says \cap Keywords(j) = {}
      BY <2>2 DEF SaysOnly
    <3>1. CASE m = 1
      BY <3>1, WordsOf DEF NetworkErrors, Case, Default
    <3>2. CASE m = 2
      BY <3>2, WordsOf DEF NetworkErrors, Case, Default
    <3>3. CASE m = 3
      BY <3>3, WordsOf DEF NetworkErrors, Case, Default
    <3>4. CASE m = 4
      BY <3>4, WordsOf DEF NetworkErrors, Case, Default
    <3> QED BY <3>1, <3>2, <3>3, <3>4
  <2> QED BY <1>5, <2>1, <2>2, <2>3, <2>4 DEF HasDefault
<1>6. CASE i = 6
  <2>1. Categories[Priority[i]] = CacheErrors
    BY <1>6 DEF Categories, Priority
  <2>2. DOMAIN CacheErrors.messages = 1 .. 1
    BY DEF CacheErrors
  <2>3. CacheErrors.messages[1].when = {}
    BY DEF CacheErrors, Default
  <2>4. SaysOnly(6, CacheErrors)
    <3> SUFFICES ASSUME NEW m \in 1 .. 1, NEW j \in Ranks, j # 6
                 PROVE  CacheErrors.messages[m].says \cap Keywords(j) = {}
      BY <2>2 DEF SaysOnly
    <3>1. CASE m = 1
      BY <3>1, WordsOf DEF CacheErrors, Case, Default
    <3> QED BY <3>1
  <2> QED BY <1>6, <2>1, <2>2, <2>3, <2>4 DEF HasDefault
<1>7. CASE i = 7
  <2>1. Categories[Priority[i]] = ResourceErrors
    BY <1>7 DEF Categories, Priority
  <2>2. DOMAIN ResourceErrors.messages = 1 .. 4
    BY DEF ResourceErrors
  <2>3. ResourceErrors.messages[4].when = {}
    BY DEF ResourceErrors, Default
  <2>4. SaysOnly(7, ResourceErrors)
    <3> SUFFICES ASSUME NEW m \in 1 .. 4, NEW j \in Ranks, j # 7
                 PROVE  ResourceErrors.messages[m].says \cap Keywords(j) = {}
      BY <2>2 DEF SaysOnly
    <3>1. CASE m = 1
      BY <3>1, WordsOf DEF ResourceErrors, Case, Default
    <3>2. CASE m = 2
      BY <3>2, WordsOf DEF ResourceErrors, Case, Default
    <3>3. CASE m = 3
      BY <3>3, WordsOf DEF ResourceErrors, Case, Default
    <3>4. CASE m = 4
      BY <3>4, WordsOf DEF ResourceErrors, Case, Default
    <3> QED BY <3>1, <3>2, <3>3, <3>4
  <2> QED BY <1>7, <2>1, <2>2, <2>3, <2>4 DEF HasDefault
<1>8. CASE i = 8
  <2>1. Categories[Priority[i]] = ExecutionErrors
    BY <1>8 DEF Categories, Priority
  <2>2. DOMAIN ExecutionErrors.messages = 1 .. 1
    BY DEF ExecutionErrors
  <2>3. ExecutionErrors.messages[1].when = {}
    BY DEF ExecutionErrors, Default
  <2>4. SaysOnly(8, ExecutionErrors)
    <3> SUFFICES ASSUME NEW m \in 1 .. 1, NEW j \in Ranks, j # 8
                 PROVE  ExecutionErrors.messages[m].says \cap Keywords(j) = {}
      BY <2>2 DEF SaysOnly
    <3>1. CASE m = 1
      BY <3>1, WordsOf DEF ExecutionErrors, Case, Default
    <3> QED BY <3>1
  <2> QED BY <1>8, <2>1, <2>2, <2>3, <2>4 DEF HasDefault
<1>9. CASE i = 9
  <2>1. Categories[Priority[i]] = ConfigurationErrors
    BY <1>9 DEF Categories, Priority
  <2>2. DOMAIN ConfigurationErrors.messages = 1 .. 1
    BY DEF ConfigurationErrors
  <2>3. ConfigurationErrors.messages[1].when = {}
    BY DEF ConfigurationErrors, Default
  <2>4. SaysOnly(9, ConfigurationErrors)
    <3> SUFFICES ASSUME NEW m \in 1 .. 1, NEW j \in Ranks, j # 9
                 PROVE  ConfigurationErrors.messages[m].says \cap Keywords(j) = {}
      BY <2>2 DEF SaysOnly
    <3>1. CASE m = 1
      BY <3>1, WordsOf DEF ConfigurationErrors, Case, Default
    <3> QED BY <3>1
  <2> QED BY <1>9, <2>1, <2>2, <2>3, <2>4 DEF HasDefault
<1> QED BY <1>1, <1>2, <1>3, <1>4, <1>5, <1>6, <1>7, <1>8, <1>9 DEF Ranks

(* The messages of permission and resources never name them, those of the   *)
(* context and of dependencies may, and all others do.                      *)
LEMMA MessagesName ==
  ASSUME NEW i \in Ranks, NEW m \in DOMAIN Categories[Priority[i]].messages
  PROVE  LET says == Categories[Priority[i]].messages[m].says
         IN  /\ Priority[i] \in {"permission", "resource"} => says \cap Keywords(i) = {}
             /\ Priority[i] \notin {"permission", "resource", "context", "dependency"}
                  => says \cap Keywords(i) # {}
<1>1. CASE i \in {1, 3}
  BY <1>1 DEF Priority
<1>2. CASE i = 2
  <2>1. Categories[Priority[i]] = DockerfileErrors /\ Keywords(i) = DockerfileErrors.keywords
    BY <1>2, KeywordsOf DEF Categories, Priority
  <2>2. m \in 1 .. 4
    BY <2>1 DEF DockerfileErrors
  <2>3. "dockerfile" \in DockerfileErrors.messages[m].says /\ "dockerfile" \in DockerfileErrors.keywords
    BY <2>2 DEF DockerfileErrors, Case, Default
  <2> QED BY <1>2, <2>1, <2>3 DEF Priority
<1>3. CASE i = 4
  <2>1. Categories[Priority[i]] = PermissionErrors
    BY <1>3 DEF Categories, Priority
  <2>2. m = 1 /\ PermissionErrors.messages[1].says = {}
    BY <2>1 DEF PermissionErrors, Default
  <2> QED BY <1>3, <2>1, <2>2 DEF Priority
<1>4. CASE i = 5
  <2>1. Categories[Priority[i]] = NetworkErrors /\ Keywords(i) = NetworkErrors.keywords
    BY <1>4, KeywordsOf DEF Categories, Priority
  <2>2. m \in 1 .. 4
    BY <2>1 DEF NetworkErrors
  <2>3. NetworkErrors.messages[m].says \cap {"network", "dns", "proxy"} # {}
    BY <2>2 DEF NetworkErrors, Case, Default
  <2>4. {"network", "dns", "proxy"} \subseteq NetworkErrors.keywords
    BY DEF NetworkErrors
  <2> QED BY <1>4, <2>1, <2>3, <2>4 DEF Priority
<1>5. CASE i = 6
  <2>1. Categories[Priority[i]] = CacheErrors /\ Keywords(i) = CacheErrors.keywords
    BY <1>5, KeywordsOf DEF Categories, Priority
  <2>2. m = 1 /\ CacheErrors.messages[1].says = {"cache"} /\ "cache" \in CacheErrors.keywords
    BY <2>1 DEF CacheErrors, Default
  <2> QED BY <1>5, <2>1, <2>2 DEF Priority
<1>6. CASE i = 7
  <2>1. Categories[Priority[i]] = ResourceErrors
    BY <1>6 DEF Categories, Priority
  <2>2. m \in 1 .. 4
    BY <2>1 DEF ResourceErrors
  <2>3. ResourceErrors.messages[m].says = {}
    BY <2>2 DEF ResourceErrors, Case, Default
  <2> QED BY <1>6, <2>1, <2>3 DEF Priority
<1>7. CASE i = 8
  <2>1. Categories[Priority[i]] = ExecutionErrors /\ Keywords(i) = ExecutionErrors.keywords
    BY <1>7, KeywordsOf DEF Categories, Priority
  <2>2. m = 1 /\ ExecutionErrors.messages[1].says = {"execution-failed"}
        /\ "execution-failed" \in ExecutionErrors.keywords
    BY <2>1 DEF ExecutionErrors, Default
  <2> QED BY <1>7, <2>1, <2>2 DEF Priority
<1>8. CASE i = 9
  <2>1. Categories[Priority[i]] = ConfigurationErrors /\ Keywords(i) = ConfigurationErrors.keywords
    BY <1>8, KeywordsOf DEF Categories, Priority
  <2>2. m = 1 /\ ConfigurationErrors.messages[1].says = {"configuration"}
        /\ "configuration" \in ConfigurationErrors.keywords
    BY <2>1 DEF ConfigurationErrors, Default
  <2> QED BY <1>8, <2>1, <2>2 DEF Priority
<1> QED BY <1>1, <1>2, <1>3, <1>4, <1>5, <1>6, <1>7, <1>8 DEF Ranks

Types == {Priority[i] : i \in Ranks} \cup {"unknown"}

(* The keywords the texts of errors can have. *)
SaidBy(type) == UNION {Categories[type].messages[m].says : m \in DOMAIN Categories[type].messages}
Words ==
  (UNION {SaidBy(type) : type \in Types}) \cup (UNION {Stages[stage] : stage \in DOMAIN Stages})
    \cup (UNION Causes) \cup (UNION Remarks)
Text == SUBSET Words

LEMMA TextFacts ==
  /\ {} \in Text
  /\ \A a, b \in Text : a \cup b \in Text
  /\ \A stage \in DOMAIN Stages : Stages[stage] \in Text
  /\ \A cause \in Causes : cause \in Text
  /\ \A remark \in Remarks : remark \in Text
  /\ \A type \in Types : \A m \in DOMAIN Categories[type].messages :
       Categories[type].messages[m].says \in Text
<1>1. ASSUME NEW type \in Types, NEW m \in DOMAIN Categories[type].messages
      PROVE  Categories[type].messages[m].says \in Text
  <2>1. Categories[type].messages[m].says \subseteq SaidBy(type)
    BY DEF SaidBy
  <2> QED BY <2>1 DEF Text, Words
<1> QED BY <1>1 DEF Text, Words

LEMMA CategoryIsType == ASSUME NEW text PROVE Category(text) \in Types
BY CategoryFacts DEF Types

(* The message of a category shows of it what Shown says. *)
LEMMA MessageShowsCategory ==
  ASSUME NEW text
  PROVE  /\ Message(Category(text), text) \in Text
         /\ Category(Message(Category(text), text))
              = Shown([type |-> Category(text), text |-> Message(Category(text), text)])
<1> DEFINE category == Categories[Category(text)]
           cases == category.messages
           fits == {m \in DOMAIN cases : cases[m].when = {} \/ cases[m].when \cap text # {}}
           message == Message(Category(text), text)
<1>1. message = cases[Min(fits)].says
  BY DEF Message
<1>2. ASSUME NEW n \in Nat, DOMAIN cases = 1 .. n, HasDefault(category)
      PROVE  Min(fits) \in DOMAIN cases
  <2>1. fits \in SUBSET Nat /\ fits # {}
    BY <1>2 DEF HasDefault
  <2>2. fits \subseteq DOMAIN cases
    OBVIOUS
  <2> HIDE DEF fits, cases
  <2> QED BY <2>1, <2>2, Smallest
<1>3. Category(text) \in Types
  BY CategoryIsType
<1>4. ASSUME Min(fits) \in DOMAIN cases
      PROVE  message \in Text
  <2> HIDE DEF fits
  <2> QED BY <1>1, <1>3, <1>4, TextFacts
<1>5. CASE Category(text) = "unknown"
  <2>1. category = UnknownErrors
    BY <1>5 DEF Categories
  <2>2. /\ DOMAIN UnknownErrors.messages = 1 .. 1
        /\ UnknownErrors.messages[1].when = {}
        /\ UnknownErrors.messages[1].says = {}
    BY DEF UnknownErrors, Default
  <2>3. Min(fits) \in DOMAIN cases
    BY <1>2, <2>1, <2>2 DEF HasDefault
  <2>4. message = {}
    <3> HIDE DEF fits, message
    <3> QED BY <1>1, <2>1, <2>2, <2>3
  <2>5. Category({}) = "unknown"
    BY CategoryUnknown
  <2> HIDE DEF message
  <2>6. Category(message) = "unknown"
    BY <2>4, <2>5
  <2>7. message \in Text
    BY <2>4, TextFacts
  <2> QED BY <1>5, <2>6, <2>7 DEF message, Shown
<1>6. CASE Category(text) # "unknown"
  <2>1. PICK i \in Ranks : Category(text) = Priority[i]
    BY <1>6, CategoryFacts
  <2>2. /\ \E n \in Nat : DOMAIN cases = 1 .. n
        /\ HasDefault(category)
        /\ SaysOnly(i, category)
    BY <2>1, Messages
  <2>3. Min(fits) \in DOMAIN cases
    BY <1>2, <2>2
  <2>4. \A j \in Ranks \ {i} : message \cap Keywords(j) = {}
    <3> HIDE DEF fits, message
    <3> QED BY <1>1, <2>2, <2>3 DEF SaysOnly
  <2>5. message \in Text
    BY <1>4, <2>3
  <2> HIDE DEF message
  <2>6. Category(message) = IF message \cap Keywords(i) = {} THEN "unknown" ELSE Priority[i]
    <3>1. CASE message \cap Keywords(i) = {}
      BY <2>4, <3>1, CategoryUnknown
    <3>2. CASE message \cap Keywords(i) # {}
      <4>1. \A j \in Ranks : j < i => message \cap Keywords(j) = {}
        BY <2>4 DEF Ranks
      <4> QED BY <3>2, <4>1, CategoryIs
    <3> QED BY <3>1, <3>2
  <2>7. /\ Priority[i] \in {"permission", "resource"} => message \cap Keywords(i) = {}
        /\ Priority[i] \notin {"permission", "resource", "context", "dependency"}
             => message \cap Keywords(i) # {}
    <3>1. message = category.messages[Min(fits)].says
      BY <1>1 DEF message
    <3> HIDE DEF fits
    <3> QED BY <2>1, <2>3, <3>1, MessagesName
  <2>8. Keywords(i) = category.keywords
    BY <2>1 DEF Keywords
  <2>9. Category(message) = Shown([type |-> Priority[i], text |-> message])
    <3> HIDE DEF category
    <3>1. Shown([type |-> Priority[i], text |-> message]) =
            IF \/ Priority[i] \in {"permission", "resource"}
               \/ Priority[i] \in {"context", "dependency"} /\ message \cap Keywords(i) = {}
            THEN "unknown" ELSE Priority[i]
      BY DEF Shown, Keywords
    <3> QED BY <2>6, <2>7, <3>1
  <2> QED BY <2>1, <2>5, <2>9 DEF message
<1> QED BY <1>5, <1>6

-----------------------------------------------------------------------------
(* How an error came about. *)
Error ==
  [build : BOOLEAN, type : Types, text : Text, cause : Nat, step : Steps \cup {"none"},
   stage : DOMAIN Stages \cup {"none"}, base : Nat, added : Text]

Raised(x) ==
  /\ x.stage \in DOMAIN Stages
  /\ x.text = Stages[x.stage] \cup x.added

Annotated(x, from) ==
  /\ x.base \in DOMAIN from
  /\ from[x.base].build
  /\ x.text = from[x.base].text \cup x.added

ClassifiedOnce(x, from) ==
  /\ x.cause \in DOMAIN from
  /\ ~from[x.cause].build
  /\ x.type = Category(from[x.cause].text)
  /\ x.text = Message(x.type, from[x.cause].text)

Explained(x, from) ==
  IF x.build THEN ClassifiedOnce(x, from)
  ELSE IF x.base = Nil THEN Raised(x) ELSE Annotated(x, from)

ErrInv ==
  /\ errs \in Seq(Error)
  /\ \A e \in DOMAIN errs : Explained(errs[e], errs)

LEMMA ErrFacts ==
  ASSUME ErrInv
  PROVE  /\ Len(errs) \in Nat /\ DOMAIN errs = 1 .. Len(errs)
         /\ \A e \in DOMAIN errs : errs[e] \in Error /\ e \in Nat \ {0}
BY ElementOfSeq, LenProperties DEF ErrInv

(* What an error is explained by stays as it was. *)
LEMMA StillExplained ==
  ASSUME NEW from, NEW to, DOMAIN from \subseteq DOMAIN to,
         \A e \in DOMAIN from : to[e].build = from[e].build /\ to[e].text = from[e].text
  PROVE  \A x : Explained(x, from) => Explained(x, to)
<1> SUFFICES ASSUME NEW x, Explained(x, from)
             PROVE  Explained(x, to)
  OBVIOUS
<1>1. CASE x.build
  BY <1>1 DEF Explained, ClassifiedOnce
<1>2. CASE ~x.build /\ x.base = Nil
  BY <1>2 DEF Explained, Raised
<1>3. CASE ~x.build /\ x.base # Nil
  BY <1>3 DEF Explained, Annotated
<1> QED BY <1>1, <1>2, <1>3

LEMMA Appended ==
  ASSUME ErrInv, NEW new \in Error, errs' = Append(errs, new), Explained(new, errs)
  PROVE  ErrInv'
<1>1. /\ errs' \in Seq(Error)
      /\ DOMAIN errs' = 1 .. Len(errs) + 1
      /\ \A e \in DOMAIN errs : errs'[e] = errs[e]
      /\ errs'[Len(errs) + 1] = new
  BY ErrFacts, AppendProperties DEF ErrInv
<1>2. DOMAIN errs \subseteq DOMAIN errs'
  BY <1>1, ErrFacts
<1>3. ASSUME NEW e \in DOMAIN errs'
      PROVE  Explained(errs'[e], errs')
  <2>1. Explained(errs'[e], errs)
    <3>1. CASE e \in DOMAIN errs
      BY <1>1, <3>1 DEF ErrInv
    <3>2. CASE e = Len(errs) + 1
      BY <1>1, <3>2
    <3> QED BY <1>1, <3>1, <3>2, ErrFacts
  <2>2. \A c \in DOMAIN errs : errs'[c].build = errs[c].build /\ errs'[c].text = errs[c].text
    BY <1>1
  <2>3. \A x : Explained(x, errs) => Explained(x, errs')
    BY <1>2, <2>2, StillExplained, Zenon
  <2> QED BY <2>1, <2>3
<1> QED BY <1>1, <1>3 DEF ErrInv

LEMMA RaiseStep ==
  ASSUME ErrInv, NEW stage \in DOMAIN Stages, NEW cause \in Causes, Raise(stage, cause)
  PROVE  ErrInv'
<1> DEFINE new == PlainError(Stages[stage] \cup cause, Nil, stage, Nil, cause)
<1>1. new \in Error
  BY TextFacts DEF PlainError, Error, Types, Nil
<1>2. Explained(new, errs)
  BY DEF PlainError, Explained, Raised
<1> QED BY <1>1, <1>2, Appended DEF Raise

LEMMA AnnotateStep ==
  ASSUME ErrInv, NEW d \in DOMAIN errs, NEW remark \in Remarks, Annotate(d, remark)
  PROVE  ErrInv'
<1> DEFINE text == errs[d].text \cup remark
<1>0. errs[d] \in Error /\ d \in Nat \ {0} /\ remark \in Text
  BY ErrFacts, TextFacts
<1>1. errs[d].text \in Text /\ errs[d].added \in Text /\ errs[d].base \in Nat
      /\ errs[d].stage \in DOMAIN Stages \cup {"none"}
  BY <1>0 DEF Error
<1>2. text \in Text /\ errs[d].added \cup remark \in Text
  BY <1>0, <1>1, TextFacts
<1>3. CASE errs[d].build
  <2> DEFINE new == PlainError(text, d, "none", d, remark)
  <2>1. new \in Error
    BY <1>0, <1>2 DEF PlainError, Error, Types
  <2>2. Explained(new, errs)
    BY <1>0, <1>3 DEF PlainError, Explained, Annotated, Nil
  <2> QED BY <1>3, <2>1, <2>2, Appended DEF Annotate
<1>4. CASE ~errs[d].build
  <2> DEFINE new == PlainError(text, d, errs[d].stage, errs[d].base, errs[d].added \cup remark)
  <2>1. new \in Error
    BY <1>0, <1>1, <1>2 DEF PlainError, Error, Types
  <2>2. Explained(errs[d], errs)
    BY DEF ErrInv
  <2>3. Explained(new, errs)
    BY <1>4, <2>2 DEF PlainError, Explained, Raised, Annotated
  <2> QED BY <1>4, <2>1, <2>3, Appended DEF Annotate
<1> QED BY <1>3, <1>4

LEMMA ClassifyStep ==
  ASSUME ErrInv, NEW d \in DOMAIN errs, NEW step \in Steps, ~errs[d].build, WrapError(d, step)
  PROVE  ErrInv'
<1> DEFINE type == Category(errs[d].text)
           classified == Classified(d)
           new == [classified EXCEPT !.step = step]
<1>1. errs' = Append(errs, new)
  BY DEF WrapError
<1>2. type \in Types /\ Message(type, errs[d].text) \in Text
  BY CategoryIsType, MessageShowsCategory
<1>3. /\ classified.build = TRUE /\ classified.type = type /\ classified.cause = d
      /\ classified.text = Message(type, errs[d].text)
  BY DEF Classified, NewBuildError
<1>4. classified \in Error
  <2> DEFINE message == Message(type, errs[d].text)
  <2>1. type \in Types /\ message \in Text /\ d \in Nat /\ {} \in Text /\ Nil \in Nat
    BY <1>2, ErrFacts, TextFacts DEF Nil
  <2>2. classified = [build |-> TRUE, type |-> type, text |-> message, cause |-> d,
                      step |-> "none", stage |-> "none", base |-> Nil, added |-> {}]
    BY DEF Classified, NewBuildError
  <2> HIDE DEF type, message, classified
  <2> QED BY <2>1, <2>2 DEF Error
<1> HIDE DEF type, classified
<1>5. new \in Error
  BY <1>4 DEF Error
<1>6. /\ new.build = TRUE /\ new.type = type /\ new.cause = d
      /\ new.text = Message(type, errs[d].text)
  BY <1>3, <1>4 DEF Error
<1> HIDE DEF new
<1>7. Explained(new, errs)
  BY <1>6 DEF Explained, ClassifiedOnce, type
<1> QED BY <1>1, <1>5, <1>7, Appended

(* Another step does not change what an error is. *)
LEMMA StepStep ==
  ASSUME ErrInv, NEW d \in DOMAIN errs, NEW step \in Steps, errs[d].build, WrapError(d, step)
  PROVE  ErrInv'
<1> DEFINE new == [errs[d] EXCEPT !.step = step]
<1>1. errs' = [errs EXCEPT ![d] = new]
  BY DEF WrapError
<1>2. new \in Error /\ \A e \in DOMAIN errs : errs[e] \in Error
  BY ErrFacts DEF Error
<1>3. /\ new.build = errs[d].build /\ new.type = errs[d].type /\ new.text = errs[d].text
      /\ new.cause = errs[d].cause /\ new.stage = errs[d].stage /\ new.added = errs[d].added
      /\ new.base = errs[d].base
  BY <1>2 DEF Error
<1> HIDE DEF new
<1>4. errs' \in Seq(Error) /\ DOMAIN errs' = DOMAIN errs
  BY <1>1, <1>2, ExceptSeq DEF ErrInv
<1>5. \A e \in DOMAIN errs : errs'[e] = IF e = d THEN new ELSE errs[e]
  BY <1>1
<1>6. ASSUME NEW e \in DOMAIN errs
      PROVE  Explained(errs'[e], errs')
  <2>1. Explained(errs[e], errs)
    BY DEF ErrInv
  <2>2. Explained(errs'[e], errs)
    BY <1>3, <1>5, <2>1 DEF Explained, ClassifiedOnce, Raised, Annotated
  <2>3. \A c \in DOMAIN errs : errs'[c].build = errs[c].build /\ errs'[c].text = errs[c].text
    BY <1>3, <1>5
  <2>4. \A x : Explained(x, errs) => Explained(x, errs')
    BY <2>3, <1>4, StillExplained, Zenon
  <2> QED BY <2>2, <2>4
<1> QED BY <1>4, <1>6 DEF ErrInv

LEMMA RightCategories == ErrInv => CategoriesAreRight
<1> SUFFICES ASSUME ErrInv, NEW b \in DOMAIN errs, errs[b].build
             PROVE  LET plain == errs[errs[b].cause]
                        own == Own(plain)
                        others == Category(plain.added)
                    IN  /\ errs[b].type \in {own, others}
                        /\ own = "context" \/ others = "unknown" => errs[b].type = own
                        /\ own = "unknown" => errs[b].type = others
                        /\ own = "dockerfile" => errs[b].type \in {"context", "dockerfile"}
                        /\ plain.base # Nil =>
                             /\ own = "network" /\ others \notin {"context", "dockerfile", "dependency", "permission"}
                                  => IsRetryableError(b)
                             /\ IsRetryableError(b) => own = "network" \/ others \in {"network", "resource"}
  BY DEF CategoriesAreRight
<1> DEFINE plain == errs[errs[b].cause]
           own == Own(plain)
           others == Category(plain.added)
<1>1. errs[b].cause \in DOMAIN errs /\ ~plain.build /\ errs[b].type = Category(plain.text)
  BY DEF ErrInv, Explained, ClassifiedOnce
<1>2. \E words : plain.text = words \cup plain.added /\ own = Category(words)
                /\ (plain.base # Nil => own # "resource")
  <2>1. CASE plain.base = Nil
    <3>1. Raised(plain)
      BY <1>1, <2>1 DEF ErrInv, Explained
    <3> QED BY <2>1, <3>1 DEF Raised, Own
  <2>2. CASE plain.base # Nil
    <3> DEFINE e == errs[plain.base]
    <3>1. /\ plain.base \in DOMAIN errs /\ e.build
          /\ plain.text = e.text \cup plain.added
      BY <1>1, <2>2 DEF ErrInv, Explained, Annotated
    <3>2. ClassifiedOnce(e, errs)
      BY <3>1 DEF ErrInv, Explained
    <3>3. Category(e.text) = Shown([type |-> e.type, text |-> e.text])
      BY <3>2, MessageShowsCategory DEF ClassifiedOnce
    <3>4. own = Category(e.text) /\ own # "resource"
      BY <2>2, <3>3 DEF Own, Shown
    <3> QED BY <3>1, <3>4
  <2> QED BY <2>1, <2>2
<1>3. PICK words : plain.text = words \cup plain.added /\ own = Category(words)
                 /\ (plain.base # Nil => own # "resource")
  BY <1>2
<1> HIDE DEF plain, own
<1>4. /\ Priority[1] = "context" /\ Priority[2] = "dockerfile" /\ Priority[3] = "dependency"
      /\ Priority[4] = "permission" /\ Priority[5] = "network"
  BY DEF Priority
<1>5. /\ errs[b].type \in {own, others}
      /\ own = "context" => errs[b].type = own
      /\ own = "unknown" => errs[b].type = others
      /\ others = "unknown" => errs[b].type = own
      /\ own = "dockerfile" => errs[b].type \in {"context", "dockerfile"}
      /\ own = "network" => errs[b].type \in {"context", "dockerfile", "dependency", "permission", "network"}
  BY <1>1, <1>3, <1>4, CategoryOfBoth
<1>6. IsRetryableError(b) <=> errs[b].type \in {"network", "resource"}
  BY DEF IsRetryableError
<1> QED BY <1>3, <1>5, <1>6 DEF plain, own

(* The category ClassifyError gives an error is that of its own words or of *)
(* the words that came to them, in the order of CategoriesAreRight, however *)
(* deep it was wrapped; and nothing but the network and what callers say of *)
(* it or of resources makes an error retryable on its way up.               *)
THEOREM CategoriesAreAlwaysRight == ErrSpec => []CategoriesAreRight
<1>1. ErrInit => ErrInv
  BY EmptySeq DEF ErrInit, ErrInv
<1>2. ErrInv /\ [ErrNext]_errs => ErrInv'
  <2> SUFFICES ASSUME ErrInv, [ErrNext]_errs PROVE ErrInv'
    OBVIOUS
  <2>1. CASE UNCHANGED errs
    BY <2>1 DEF ErrInv, Explained, ClassifiedOnce, Raised, Annotated
  <2>2. ASSUME NEW stage \in DOMAIN Stages, NEW cause \in Causes, Raise(stage, cause)
        PROVE  ErrInv'
    BY <2>2, RaiseStep
  <2>3. ASSUME NEW e \in DOMAIN errs, NEW remark \in Remarks, Annotate(e, remark)
        PROVE  ErrInv'
    BY <2>3, AnnotateStep
  <2>4. ASSUME NEW e \in DOMAIN errs, NEW step \in Steps, WrapError(e, step)
        PROVE  ErrInv'
    BY <2>4, ClassifyStep, StepStep
  <2> QED BY <2>1, <2>2, <2>3, <2>4 DEF ErrNext
<1> QED BY <1>1, <1>2, RightCategories, PTL DEF ErrSpec
===============================================================================
