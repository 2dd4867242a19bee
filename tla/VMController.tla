----------------------------- MODULE VMController -----------------------------
(***************************************************************************)
(* The controllers of a BuildKit daemon inside a virtual machine: Lima's   *)
(* (buildkit_controller_lima.go) and Colima's                              *)
(* (buildkit_controller_colima.go).  Constructing one finds the machine    *)
(* running or starts it, waits for the daemon and connects to it; Solve,   *)
(* the import and export of caches, sessions, the commands that look at    *)
(* the daemon and the restart of the machine are called on it in any order *)
(* until it is closed.                                                     *)
(*                                                                         *)
(* Around the controller, the machine stops, and the daemon in it comes up *)
(* late or never, or comes up and does not answer.                         *)
(***************************************************************************)
EXTENDS Naturals, FiniteSets

CONSTANTS
    MaxWait,     \* ticks in the 60 seconds waitForBuildKit waits: 30
    MaxRestarts, \* bound on the calls of RestartVM or RestartProfile
    MaxStops,    \* bound on the times the machine stops by itself
    MaxCaches    \* bound on the entries of an import or export

ASSUME ControllerAssumption ==
    /\ MaxWait \in Nat /\ MaxRestarts \in Nat /\ MaxStops \in Nat /\ MaxCaches \in Nat

VARIABLES
    colima,     \* the controller is Colima's
    vm,         \* the machine's status
    daemon,     \* the daemon in it
    stops,      \* how often the machine stopped by itself
    pc,         \* where the controller is
    op,         \* the operation it is in, or was in last
    vmRunning,  \* c.vmRunning
    client,     \* c.client, 0 for nil; clients are numbered
    clients,    \* how many clients were created
    open,       \* the clients not closed
    elapsed,    \* ticks since waitForBuildKit began
    tick,       \* the ticker's channel holds a tick
    restarts,   \* how often the machine was restarted
    caches,     \* the entries of an import or export that are still to come
    answered,   \* history: the daemon answered in this operation; for an import or
                \* export, it took every entry so far
    result      \* what the operation returned

machineVars == <<colima, vm, daemon, stops>>
clientVars  == <<client, clients, open>>
timeVars    == <<elapsed, tick>>
vars == <<machineVars, pc, op, vmRunning, clientVars, timeVars, restarts, caches, answered, result>>

(* What limactl list and colima status say; Absent stands for no answer and for a
   command that is not installed, Starting for every other status. *)
Status == {"Absent", "Stopped", "Running", "Starting"}

Init ==
    /\ colima \in BOOLEAN
    /\ vm \in Status
    /\ daemon = "down" /\ stops = 0
    /\ pc = "new" /\ op = "new"
    /\ vmRunning = FALSE
    /\ client = 0 /\ clients = 0 /\ open = {}
    /\ elapsed = 0 /\ tick = FALSE
    /\ restarts = 0 /\ caches = 0 /\ answered = FALSE
    /\ result = "none"

-----------------------------------------------------------------------------
(***************************************************************************)
(* The machine and the daemon.                                             *)
(***************************************************************************)
MachineStops ==
    /\ vm = "Running" /\ stops < MaxStops
    /\ vm' = "Stopped" /\ daemon' = "down"
    /\ stops' = stops + 1
    /\ UNCHANGED <<colima, pc, op, vmRunning, clientVars, timeVars, restarts, caches, answered, result>>

DaemonComesUp ==
    /\ vm = "Running" /\ daemon = "down"
    /\ daemon' \in {"ready", "hung"}
    /\ UNCHANGED <<colima, vm, stops, pc, op, vmRunning, clientVars, timeVars, restarts, caches, answered, result>>

(* Mutant: the timeout does not stop the clock. *)
TimePassesOn ==
    /\ pc \in {"wait", "probe"}
    /\ ~tick
    /\ elapsed' = elapsed + 1
    /\ tick' = TRUE
    /\ UNCHANGED <<machineVars, pc, op, vmRunning, clientVars, restarts, caches, answered, result>>

(* Two seconds pass.  The ticker drops a tick nobody takes. *)
TimePasses ==
    /\ pc \in {"wait", "probe"}
    /\ elapsed < MaxWait \/ ~tick
    /\ elapsed' = IF elapsed < MaxWait THEN elapsed + 1 ELSE elapsed
    /\ tick' = TRUE
    /\ UNCHANGED <<machineVars, pc, op, vmRunning, clientVars, restarts, caches, answered, result>>

-----------------------------------------------------------------------------
(* A constructor that fails leaves no controller. *)
Return(res) ==
    /\ result' = res
    /\ pc' = IF op = "new" /\ res = "error" THEN "dead" ELSE "idle"

(***************************************************************************)
(* ensureVMRunning, ensureProfileRunning.                                  *)
(***************************************************************************)
CheckStatus ==
    /\ pc = "new"
    /\ \/ /\ vm = "Running"
          /\ vmRunning' = TRUE /\ pc' = "connect"
          /\ UNCHANGED result
       \/ /\ vm = "Stopped"
          /\ pc' = "start"
          /\ UNCHANGED <<vmRunning, result>>
       \/ /\ Return("error")  \* not installed, no such machine, another status
          /\ UNCHANGED vmRunning
    /\ UNCHANGED <<machineVars, op, clientVars, timeVars, restarts, caches, answered>>

(***************************************************************************)
(* startVM, startProfile and the second half of RestartVM, RestartProfile. *)
(***************************************************************************)
(* RestartVM connects at once, RestartProfile waits and does not connect. *)
AfterStart == IF op = "restart" /\ ~colima THEN "connect" ELSE "wait"

Start ==
    /\ pc = "start"
    /\ \/ /\ vm' = "Running"
          /\ UNCHANGED daemon
          /\ vmRunning' = IF op = "new" THEN TRUE ELSE vmRunning
          /\ pc' = AfterStart
          /\ elapsed' = 0 /\ tick' = FALSE
          /\ UNCHANGED result
       \/ /\ Return("error")
          /\ UNCHANGED <<vm, daemon, vmRunning, timeVars>>
    /\ UNCHANGED <<colima, stops, op, clientVars, restarts, caches, answered>>

(***************************************************************************)
(* waitForBuildKit: a select over the timeout and the ticker.  A tick runs *)
(* isBuildKitReady, which has no deadline of its own.                      *)
(***************************************************************************)
TimeOut ==
    /\ pc = "wait" /\ elapsed = MaxWait
    /\ Return("error")
    /\ UNCHANGED <<machineVars, op, vmRunning, clientVars, timeVars, restarts, caches, answered>>

(* Mutant: every turn of the loop makes a timeout of its own. *)
TakeTickAfresh ==
    /\ pc = "wait" /\ tick
    /\ tick' = FALSE /\ elapsed' = 0
    /\ pc' = "probe"
    /\ UNCHANGED <<machineVars, op, vmRunning, clientVars, restarts, caches, answered, result>>

TakeTick ==
    /\ pc = "wait" /\ tick
    /\ tick' = FALSE
    /\ pc' = "probe"
    /\ UNCHANGED <<machineVars, op, vmRunning, clientVars, elapsed, restarts, caches, answered, result>>

Probe ==
    /\ pc = "probe"
    /\ \/ /\ daemon = "ready"
          /\ answered' = TRUE
          /\ IF op = "new" THEN pc' = "connect" /\ UNCHANGED result ELSE Return("ok")
       \/ /\ daemon # "hung"  \* a ready daemon's answer may be lost as well
          /\ pc' = "wait"
          /\ UNCHANGED <<answered, result>>
    /\ UNCHANGED <<machineVars, op, vmRunning, clientVars, timeVars, restarts, caches>>

(* Mutant: Lima's does not list the workers either. *)
ConnectOnly ==
    /\ pc = "connect"
    /\ clients' = clients + 1
    /\ client' = clients' /\ open' = open \cup {clients'}
    /\ Return("ok")
    /\ UNCHANGED <<machineVars, op, vmRunning, timeVars, restarts, caches, answered>>

(***************************************************************************)
(* connectToBuildKit.  Lima's makes a client, which dials later, and lists *)
(* the workers; Colima's makes an empty client.                            *)
(***************************************************************************)
Connect ==
    /\ pc = "connect"
    /\ IF colima
       THEN client' = 1 /\ Return("ok") /\ UNCHANGED <<clients, open>>
       ELSE \/ /\ clients' = clients + 1
               /\ client' = clients' /\ open' = open \cup {clients'}
               /\ pc' = "list"
               /\ UNCHANGED result
            \/ /\ client' = 0 /\ Return("error")
               /\ UNCHANGED <<clients, open>>
    /\ UNCHANGED <<machineVars, op, vmRunning, timeVars, restarts, caches, answered>>

(* Mutant: a client that cannot list the workers is kept after it is closed. *)
ListAndKeep ==
    /\ pc = "list"
    /\ \/ /\ daemon = "ready"
          /\ answered' = TRUE
          /\ Return("ok")
          /\ UNCHANGED clientVars
       \/ /\ open' = open \ {client}
          /\ Return("error")
          /\ UNCHANGED <<client, clients, answered>>
    /\ UNCHANGED <<machineVars, op, vmRunning, timeVars, restarts, caches>>

(* Mutant: it is forgotten without being closed. *)
ListAndForget ==
    /\ pc = "list"
    /\ \/ /\ daemon = "ready"
          /\ answered' = TRUE
          /\ Return("ok")
          /\ UNCHANGED clientVars
       \/ /\ client' = 0
          /\ Return("error")
          /\ UNCHANGED <<clients, open, answered>>
    /\ UNCHANGED <<machineVars, op, vmRunning, timeVars, restarts, caches>>

(* The call fails when the daemon is down, the caller gives up, or, in a restart,
   two minutes have passed. *)
ListWorkers ==
    /\ pc = "list"
    /\ \/ /\ daemon = "ready"
          /\ answered' = TRUE
          /\ Return("ok")
          /\ UNCHANGED clientVars
       \/ /\ client' = 0 /\ open' = open \ {client}
          /\ Return("error")
          /\ UNCHANGED <<clients, answered>>
    /\ UNCHANGED <<machineVars, op, vmRunning, timeVars, restarts, caches>>

-----------------------------------------------------------------------------
Begin(operation) ==
    /\ pc = "idle"
    /\ op' = operation
    /\ answered' = (operation = "transfer")

(* Lima's Solve looks at the client, Colima's at vmRunning. *)
Solve ==
    /\ Begin("solve")
    /\ IF (colima /\ ~vmRunning) \/ (~colima /\ client = 0)
       THEN result' = "refused" /\ UNCHANGED pc
       ELSE pc' = "solve" /\ UNCHANGED result
    /\ UNCHANGED <<machineVars, vmRunning, clientVars, timeVars, restarts, caches>>

SolveReturns ==
    /\ pc = "solve"
    /\ \/ daemon = "ready" /\ answered' = TRUE /\ Return("ok")
       \/ Return("error") /\ UNCHANGED answered
    /\ UNCHANGED <<machineVars, op, vmRunning, clientVars, timeVars, restarts, caches>>

(* Mutant: an entry the daemon did not take is passed over. *)
TransferWhatGoes ==
    /\ pc = "transfer" /\ caches > 0
    /\ caches' = caches - 1
    /\ answered' = (answered /\ daemon = "ready")
    /\ IF caches' = 0 THEN Return("ok") ELSE UNCHANGED <<pc, result>>
    /\ UNCHANGED <<machineVars, op, vmRunning, clientVars, timeVars, restarts>>

(***************************************************************************)
(* ImportCache and ExportCache.  Colima's runs buildctl for each entry in  *)
(* turn, whatever vmRunning says, and stops at the first that fails;       *)
(* Lima's looks at the types of the entries and asks nobody.               *)
(***************************************************************************)
Transfer ==
    /\ Begin("transfer")
    /\ \/ result' \in {"ok", "error"} /\ ~colima /\ UNCHANGED <<pc, caches>>
       \/ result' = "ok" /\ colima /\ UNCHANGED <<pc, caches>>
       \/ colima /\ caches' \in 1..MaxCaches /\ pc' = "transfer" /\ UNCHANGED result
    /\ UNCHANGED <<machineVars, vmRunning, clientVars, timeVars, restarts>>

TransferEntry ==
    /\ pc = "transfer"
    /\ \/ /\ daemon = "ready"
          /\ caches' = caches - 1
          /\ IF caches' = 0 THEN Return("ok") ELSE UNCHANGED <<pc, result>>
          /\ UNCHANGED answered
       \/ /\ Return("error")
          /\ caches' = 0
          /\ answered' = FALSE
    /\ UNCHANGED <<machineVars, op, vmRunning, clientVars, timeVars, restarts>>

(* GetSession asks nobody: a machine that stopped since is not noticed. *)
GetSession ==
    /\ Begin("session")
    /\ result' = IF (colima /\ ~vmRunning) \/ (~colima /\ client = 0)
                 THEN "refused" ELSE "ok"
    /\ UNCHANGED <<machineVars, pc, vmRunning, clientVars, timeVars, restarts, caches>>

(* PruneCache and GetDiskUsage, which only Colima's has. *)
Command ==
    /\ colima /\ Begin("command")
    /\ pc' = "command"
    /\ UNCHANGED <<machineVars, vmRunning, clientVars, timeVars, restarts, caches, result>>

CommandReturns ==
    /\ pc = "command"
    /\ \/ daemon = "ready" /\ answered' = TRUE /\ Return("ok")
       \/ Return("error") /\ UNCHANGED answered
    /\ UNCHANGED <<machineVars, op, vmRunning, clientVars, timeVars, restarts, caches>>

(* The first half of RestartVM, RestartProfile. *)
Restart ==
    /\ Begin("restart")
    /\ restarts < MaxRestarts
    /\ restarts' = restarts + 1
    /\ \/ /\ vm' = "Stopped" /\ daemon' = "down"
          /\ pc' = "start"
          /\ UNCHANGED result
       \/ /\ result' = "error"
          /\ UNCHANGED <<vm, daemon, pc>>
    /\ UNCHANGED <<colima, stops, vmRunning, clientVars, timeVars, caches>>

Close ==
    /\ Begin("close")
    /\ open' = open \ {client}
    /\ pc' = "closed"
    /\ UNCHANGED <<machineVars, vmRunning, client, clients, timeVars, restarts, caches, result>>

Ended == pc \in {"dead", "closed"} /\ UNCHANGED vars

(* The steps an operation takes once it began. *)
Progress == \/ CheckStatus \/ Start \/ TakeTick \/ Probe \/ Connect \/ ListWorkers
            \/ SolveReturns \/ TransferEntry \/ CommandReturns
Next == \/ MachineStops \/ DaemonComesUp \/ TimePasses
        \/ Progress \/ TimeOut \/ Solve \/ Transfer \/ GetSession \/ Command
        \/ Restart \/ Close \/ Ended

Spec == Init /\ [][Next]_vars

(***************************************************************************)
(* Commands end and time passes.  A select that finds the timeout and a    *)
(* tick takes either at random, so the timeout is not passed over for      *)
(* ever.                                                                   *)
(***************************************************************************)
FairSpec == Spec /\ WF_vars(Progress) /\ WF_vars(TimePasses) /\ SF_vars(TimeOut)

-----------------------------------------------------------------------------
(***************************************************************************)
(* Properties                                                              *)
(***************************************************************************)
TypeOK ==
    /\ colima \in BOOLEAN
    /\ vm \in Status
    /\ daemon \in {"down", "ready", "hung"}
    /\ stops \in 0..MaxStops
    /\ pc \in {"new", "start", "wait", "probe", "connect", "list", "idle", "solve",
               "transfer", "command", "dead", "closed"}
    /\ op \in {"new", "solve", "transfer", "session", "command", "restart", "close"}
    /\ vmRunning \in BOOLEAN
    /\ client \in 0..(MaxRestarts + 1)
    /\ clients \in 0..(restarts + 1)
    /\ open \subseteq 1..clients
    /\ elapsed \in 0..MaxWait
    /\ tick \in BOOLEAN
    /\ restarts \in 0..MaxRestarts
    /\ caches \in 0..MaxCaches /\ (caches > 0 <=> pc = "transfer")
    /\ answered \in BOOLEAN
    /\ result \in {"none", "ok", "error", "refused"}

(***************************************************************************)
(* What reports success had the daemon's answer to all it asked for in     *)
(* this very operation, though the machine may be running with no daemon   *)
(* in it and stop at any moment, and though vmRunning and the client say   *)
(* what was true once: Lima's constructor, a solve, every entry of         *)
(* Colima's import or export, a command, a restart.  Colima's constructor  *)
(* finds a running machine and asks no more, sessions and Lima's imports   *)
(* and exports ask nothing.                                                *)
(***************************************************************************)
AsksTheDaemon == IF colima THEN {"solve", "transfer", "command", "restart"}
                           ELSE {"new", "solve", "restart"}

SuccessMeansAnswered == pc = "idle" /\ result = "ok" /\ op \in AsksTheDaemon => answered

(***************************************************************************)
(* Lima's Solve never uses a client that was closed: a connection that     *)
(* fails leaves none.                                                      *)
(***************************************************************************)
SolveUsesOpenClient == ~colima /\ pc = "solve" => client \in open

(***************************************************************************)
(* A constructor that fails leaves no client open, and a controller that   *)
(* is closed at most one for each restart: a restart connects anew without *)
(* closing the client it had, and Close closes the last.                   *)
(***************************************************************************)
NothingLeftOpen == pc \in {"dead", "closed"} => Cardinality(open) <= restarts

(***************************************************************************)
(* A client is there when it is used, and gone when it no longer is.       *)
(***************************************************************************)
ClientsAreSound == SuccessMeansAnswered /\ SolveUsesOpenClient /\ NothingLeftOpen

(***************************************************************************)
(* Construction ends, with or without a controller, however late the       *)
(* daemon comes up and whenever the machine stops.  Only a daemon that     *)
(* takes a request and does not answer it keeps the constructor waiting    *)
(* beyond its timeout, since a probe has no deadline of its own.           *)
(***************************************************************************)
ConstructionEnds == <>(pc \in {"idle", "dead"} \/ daemon = "hung")
=============================================================================
