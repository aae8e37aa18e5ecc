------------------------------ MODULE CpuMiner ------------------------------
(***************************************************************************)
(* The CPU miner (mining/cpuminer/cpuminer.go): the callers that start,    *)
(* stop and resize it or generate blocks with it, the controller of the    *)
(* workers, the workers, and the speed monitor that they all report to.    *)
(*                                                                         *)
(* The chain is the height of its tip; blocks of other nodes come at any   *)
(* time, also while a block of ours is built, checked or submitted.  The   *)
(* unbuffered channels are rendezvous.  Sleeps and searches that find      *)
(* nothing leave the state as it is.                                       *)
(***************************************************************************)
EXTENDS Integers, Sequences, FiniteSets, SequencesExt, FiniteSetsExt

CONSTANTS Users,         \* the goroutines that call the miner
          MaxWorkers,    \* bounds the workers that are alive at once
          MinePlans      \* [calls, arrivals, solutions, fails, connected, collides]

VARIABLES mineplan,      \* the plan, with what is left of it
          tip,
          lock,          \* who holds the mutex of the miner, or "free"
          started, discreteMining, numWorkers,
          quit,          \* m.quit is closed
          controller, runningWorkers,
          monitor,       \* the speed monitor: "off", "on" or "quitting"
          submitBlockLock,
          worker,        \* by worker: [at, prev, quit]
          user           \* by caller: [at, count]

mineVars == <<mineplan, tip, lock, started, discreteMining, numWorkers, quit, controller, runningWorkers,
              monitor, submitBlockLock, worker, user>>
chainOf == <<tip, submitBlockLock, worker>>
switches == <<started, discreteMining, numWorkers, quit>>
threadsOf == <<controller, runningWorkers, monitor>>

Workers == 1 .. MaxWorkers
Generator == 0           \* the caller of GenerateNBlocks, as a worker
NoOne == -1
NoWorker == [at |-> "none", prev |-> 0, quit |-> FALSE]
Alive(w) == worker[w].at # "none"

Calls(u) == mineplan.calls[u]
Request(u) == Head(Calls(u))
Pending(u, method) == user[u].at = "idle" /\ Calls(u) # <<>> /\ Request(u).method = method

(* The call returns, with the mutex unlocked.                              *)
Return(u) ==
    /\ mineplan' = [mineplan EXCEPT !.calls[u] = Tail(@)]
    /\ user' = [user EXCEPT ![u] = [at |-> "idle", count |-> 0]]

-----------------------------------------------------------------------------
(* The calls.                                                              *)

Start(u) ==
    /\ Pending(u, "start") /\ lock = "free"
    /\ Return(u)
    /\ IF started \/ discreteMining THEN UNCHANGED <<started, quit, controller, monitor>>
       ELSE started' = TRUE /\ quit' = FALSE /\ controller' = "launch" /\ monitor' = "on"
    /\ UNCHANGED <<lock, discreteMining, numWorkers, runningWorkers, chainOf>>

(* Stop, which SetNumWorkers(0) begins with as well.                       *)
Stop(u) ==
    /\ Pending(u, "stop") \/ (Pending(u, "set") /\ Request(u).n = 0)
    /\ lock = "free"
    /\ IF started /\ ~discreteMining
       THEN /\ quit' = TRUE /\ lock' = u
            /\ user' = [user EXCEPT ![u].at = "stopping"]
            /\ UNCHANGED mineplan
       ELSE /\ UNCHANGED <<quit, lock>>
            /\ IF Request(u).method = "stop" THEN Return(u)
               ELSE user' = [user EXCEPT ![u].at = "set"] /\ UNCHANGED mineplan
    /\ UNCHANGED <<started, discreteMining, numWorkers, threadsOf, chainOf>>

Stopped(u) ==
    /\ user[u].at = "stopping" /\ controller = "off" /\ monitor = "off"
    /\ started' = FALSE /\ lock' = "free"
    /\ IF Request(u).method = "stop" THEN Return(u)
       ELSE user' = [user EXCEPT ![u].at = "set"] /\ UNCHANGED mineplan
    /\ UNCHANGED <<discreteMining, numWorkers, quit, threadsOf, chainOf>>

(* SetNumWorkers sends on updateNumWorkers with the mutex locked.          *)
SetNumWorkers(u) ==
    /\ (Pending(u, "set") /\ Request(u).n # 0) \/ user[u].at = "set"
    /\ lock = "free"
    /\ numWorkers' = Request(u).n
    /\ IF started THEN /\ lock' = u
                       /\ user' = [user EXCEPT ![u].at = "sending"]
                       /\ UNCHANGED mineplan
       ELSE Return(u) /\ UNCHANGED lock
    /\ UNCHANGED <<started, discreteMining, quit, threadsOf, chainOf>>

HashesPerSecond(u) ==
    /\ Pending(u, "hashes") /\ lock = "free"
    /\ started => monitor = "on"
    /\ Return(u)
    /\ UNCHANGED <<lock, switches, threadsOf, chainOf>>

(* GenerateNBlocks becomes the Generator.                                      *)
GenerateNBlocks(u) ==
    /\ Pending(u, "generate") /\ lock = "free"
    /\ IF started \/ discreteMining
       THEN Return(u) /\ UNCHANGED <<started, discreteMining, monitor, worker>>
       ELSE /\ started' = TRUE /\ discreteMining' = TRUE /\ monitor' = "on"
            /\ worker' = [worker EXCEPT ![Generator] = [NoWorker EXCEPT !.at = "top"]]
            /\ user' = [user EXCEPT ![u].at = "generating"]
            /\ UNCHANGED mineplan
    /\ UNCHANGED <<lock, numWorkers, quit, controller, runningWorkers, tip, submitBlockLock>>

(* After the last block: the mutex, and the monitor is told to quit.       *)
GenerateEnds(u) ==
    /\ user[u].at = "generating" /\ worker[Generator].at = "ending"
    /\ lock = "free" /\ lock' = u
    /\ monitor' = "quitting"
    /\ worker' = [worker EXCEPT ![Generator] = NoWorker]
    /\ user' = [user EXCEPT ![u].at = "ended"]
    /\ UNCHANGED <<mineplan, tip, switches, controller, runningWorkers, submitBlockLock>>

GenerateReturns(u) ==
    /\ user[u].at = "ended" /\ monitor = "off"
    /\ started' = FALSE /\ discreteMining' = FALSE /\ lock' = "free"
    /\ Return(u)
    /\ UNCHANGED <<numWorkers, quit, threadsOf, chainOf>>

-----------------------------------------------------------------------------
(* The controller and the monitor.                                         *)

(* launchWorkers: goroutines are numbered as they are free.                *)
Idle == SetToSortSeq({w \in Workers : ~Alive(w)}, <)
Launch(n) ==
    /\ runningWorkers' = runningWorkers \o SubSeq(Idle, 1, n)
    /\ worker' = [w \in DOMAIN worker |->
                    IF w \in ToSet(SubSeq(Idle, 1, n)) THEN [NoWorker EXCEPT !.at = "top"] ELSE worker[w]]

LaunchWorkers ==
    /\ controller = "launch" /\ Len(Idle) >= numWorkers
    /\ Launch(numWorkers)
    /\ controller' = "select"
    /\ UNCHANGED <<mineplan, tip, lock, switches, monitor, submitBlockLock, user>>

(* A sender is received from, by the controller or between two blocks of   *)
(* GenerateNBlocks; the sender returns.                                    *)
Receive(u) ==
    /\ user[u].at = "sending"
    /\ \/ controller = "select" /\ controller' = "update" /\ UNCHANGED worker
       \/ worker[Generator].at = "top" /\ worker' = [worker EXCEPT ![Generator].at = "drained"] /\ UNCHANGED controller
    /\ lock' = "free" /\ Return(u)
    /\ UNCHANGED <<switches, runningWorkers, monitor, tip, submitBlockLock>>

QuitAll(ws) == [w \in DOMAIN worker |-> IF w \in ws THEN [worker[w] EXCEPT !.quit = TRUE] ELSE worker[w]]

(* Mutant: the workers that were launched first are told to quit.          *)
ResizeFirst ==
    LET n == Len(runningWorkers) IN
    /\ controller = "update"
    /\ CASE numWorkers > n -> /\ Len(Idle) >= numWorkers - n /\ Launch(numWorkers - n)
                              /\ controller' = "select"
         [] numWorkers = 0 /\ n > 0 -> controller' = "panicked" /\ UNCHANGED <<worker, runningWorkers>>
         [] OTHER -> /\ worker' = QuitAll({runningWorkers[i] : i \in 1 .. n - numWorkers})
                     /\ runningWorkers' = SubSeq(runningWorkers, 1, numWorkers)
                     /\ controller' = "select"
    /\ UNCHANGED <<mineplan, tip, lock, switches, monitor, submitBlockLock, user>>

(* The number is compared with that of the workers that run now.  The loop *)
(* that closes down to it does not end at 0: its index wraps around.       *)
Resize ==
    LET n == Len(runningWorkers) IN
    /\ controller = "update"
    /\ CASE numWorkers > n -> /\ Len(Idle) >= numWorkers - n /\ Launch(numWorkers - n)
                              /\ controller' = "select"
         [] numWorkers = 0 /\ n > 0 -> controller' = "panicked" /\ UNCHANGED <<worker, runningWorkers>>
         [] OTHER -> /\ worker' = QuitAll({runningWorkers[i] : i \in numWorkers + 1 .. n})
                     /\ runningWorkers' = SubSeq(runningWorkers, 1, numWorkers)
                     /\ controller' = "select"
    /\ UNCHANGED <<mineplan, tip, lock, switches, monitor, submitBlockLock, user>>

QuitWorkers ==
    /\ controller = "select" /\ quit
    /\ worker' = QuitAll(ToSet(runningWorkers))
    /\ runningWorkers' = <<>>
    /\ controller' = "waiting"
    /\ UNCHANGED <<mineplan, tip, lock, switches, monitor, submitBlockLock, user>>

(* workerWg.Wait, then the monitor may go.                                 *)
ControllerEnds ==
    /\ controller = "waiting" /\ \A w \in Workers : ~Alive(w)
    /\ controller' = "off" /\ monitor' = "quitting"
    /\ UNCHANGED <<mineplan, lock, switches, runningWorkers, user, chainOf>>

speedMonitorEnds ==
    /\ monitor = "quitting" /\ monitor' = "off"
    /\ UNCHANGED <<mineplan, lock, switches, controller, runningWorkers, user, chainOf>>

-----------------------------------------------------------------------------
(* The workers, and GenerateNBlocks as one of them.                        *)

At(w, place) == worker' = [worker EXCEPT ![w].at = place]
others == <<lock, switches, threadsOf>>

(* generateBlocks at the top of its loop, or out of the search.            *)
WorkerQuits(w) ==
    /\ w # Generator /\ worker[w].at \in {"top", "solving"} /\ worker[w].quit
    /\ worker' = [worker EXCEPT ![w] = NoWorker]
    /\ UNCHANGED <<mineplan, tip, submitBlockLock, user, others>>

(* The template is made under the lock of the submissions.                 *)
LockTemplate(w) ==
    /\ worker[w].at \in {"top", "drained"} /\ ~worker[w].quit
    /\ IF w = Generator THEN worker[w].at = "top" => \A u \in Users : user[u].at # "sending"
       ELSE mineplan.connected
    /\ submitBlockLock = NoOne /\ submitBlockLock' = w
    /\ At(w, "template")
    /\ UNCHANGED <<mineplan, tip, user, others>>

NewBlockTemplate(w) ==
    /\ worker[w].at = "template"
    /\ submitBlockLock' = NoOne
    /\ \/ /\ worker' = [worker EXCEPT ![w].at = "solving", ![w].prev = tip]
          /\ UNCHANGED mineplan
       \/ /\ mineplan.fails > 0 /\ mineplan' = [mineplan EXCEPT !.fails = @ - 1]
          /\ At(w, "top")
    /\ UNCHANGED <<tip, user, others>>

(* solveBlock finds that its work is stale, and reports to the monitor.    *)
Stale(w) ==
    /\ worker[w].at = "solving" /\ monitor = "on"
    /\ worker[w].prev # tip
    /\ At(w, "top")
    /\ UNCHANGED <<mineplan, tip, submitBlockLock, user, others>>

Solved(w) ==
    /\ worker[w].at = "solving" /\ monitor = "on"
    /\ w # Generator => mineplan.solutions > 0
    /\ mineplan' = IF w = Generator THEN mineplan ELSE [mineplan EXCEPT !.solutions = @ - 1]
    /\ At(w, "submit")
    /\ UNCHANGED <<tip, submitBlockLock, user, others>>

(* What follows submitBlock, whatever it returned.                         *)
Submitted(w) ==
    IF w # Generator THEN At(w, "top") /\ UNCHANGED user
    ELSE LET u == CHOOSE v \in Users : user[v].at = "generating" IN
         /\ user' = [user EXCEPT ![u].count = @ + 1]
         /\ At(w, IF user[u].count + 1 = Request(u).n THEN "ending" ELSE "top")

submitBlock(w) ==
    /\ worker[w].at = "submit" /\ submitBlockLock = NoOne
    /\ IF worker[w].prev # tip THEN Submitted(w) /\ UNCHANGED submitBlockLock
       ELSE At(w, "process") /\ submitBlockLock' = w /\ UNCHANGED user
    /\ UNCHANGED <<mineplan, tip, others>>

ProcessBlock(w) ==
    /\ worker[w].at = "process"
    /\ tip' = IF worker[w].prev = tip THEN tip + 1 ELSE tip
    /\ submitBlockLock' = NoOne
    /\ Submitted(w)
    /\ UNCHANGED <<mineplan, others>>

(* A block of another node.                                                *)
Arrives ==
    /\ mineplan.arrivals > 0
    /\ mineplan' = [mineplan EXCEPT !.arrivals = @ - 1]
    /\ tip' = tip + 1
    /\ UNCHANGED <<lock, switches, threadsOf, submitBlockLock, worker, user>>

-----------------------------------------------------------------------------
MineInit ==
    /\ mineplan \in MinePlans
    /\ tip = 0 /\ lock = "free"
    /\ started = FALSE /\ discreteMining = FALSE /\ numWorkers = 1 /\ quit = FALSE
    /\ controller = "off" /\ runningWorkers = <<>> /\ monitor = "off"
    /\ submitBlockLock = NoOne
    /\ worker = [w \in Workers \cup {Generator} |-> NoWorker]
    /\ user = [u \in Users |-> [at |-> "idle", count |-> 0]]

UserStep(u) ==
    \/ Start(u) \/ Stop(u) \/ Stopped(u) \/ SetNumWorkers(u) \/ HashesPerSecond(u)
    \/ GenerateNBlocks(u) \/ GenerateEnds(u) \/ GenerateReturns(u) \/ Receive(u)

WorkerStep(w) ==
    \/ WorkerQuits(w) \/ LockTemplate(w) \/ NewBlockTemplate(w) \/ Stale(w) \/ Solved(w)
    \/ submitBlock(w) \/ ProcessBlock(w)

MinerStep ==
    /\ controller # "panicked"
    /\ \/ \E u \in Users : UserStep(u)
       \/ \E w \in DOMAIN worker : WorkerStep(w)
       \/ LaunchWorkers \/ Resize \/ QuitWorkers \/ ControllerEnds \/ speedMonitorEnds

MineNext == MinerStep \/ Arrives

MineSpec == MineInit /\ [][MineNext]_mineVars

-----------------------------------------------------------------------------
(* When the miner is not started nothing of it runs: no worker, no         *)
(* controller and no monitor is left by a Stop or by GenerateNBlocks, and  *)
(* whoever reports to the monitor finds it (cpuminer.go:425, :473).        *)
StoppedIsQuiet ==
    /\ ~started => /\ controller = "off" /\ monitor = "off"
                   /\ \A w \in DOMAIN worker : ~Alive(w)
    /\ (\E w \in DOMAIN worker : worker[w].at = "solving") => monitor = "on"

(* While the controller waits for something to do, the workers that go on  *)
(* are those it knows of, and as many as were last asked for               *)
(* (cpuminer.go:395).  The controller does not panic unless a start comes  *)
(* in between the two halves of SetNumWorkers(0).                          *)
WorkersAsAsked ==
    /\ ~mineplan.collides => controller # "panicked"
    /\ controller = "select" =>
       /\ {w \in Workers : Alive(w) /\ ~worker[w].quit} = ToSet(runningWorkers)
       /\ (\A u \in Users : user[u].at # "sending") => Len(runningWorkers) = numWorkers

(* A block is handed on only by the one that holds the lock of the         *)
(* submissions (cpuminer.go:156).                                          *)
OneSubmits ==
    \A w \in DOMAIN worker : (submitBlockLock = w) <=> worker[w].at \in {"template", "process"}

(* A miner that is stopped is quiet, one that runs has the workers that    *)
(* were asked for, and one of them submits at a time (cpuminer.go:395).    *)
MinerSound == StoppedIsQuiet /\ WorkersAsAsked /\ OneSubmits

CallsOver == \A u \in Users : Calls(u) = <<>>
=============================================================================
