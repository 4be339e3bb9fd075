------------------------------- MODULE Server -------------------------------
(***************************************************************************)
(* The threads of musicpack-server (crates/musicpack-server): the accept   *)
(* loop, one thread per connection, the single background job, the watcher *)
(* of the shutdown file, the waker of the accept loop, and the drain that  *)
(* ends the process.  A step is what a thread does between two touches of  *)
(* shared state: the shutdown token's atomics, its condition variable, the *)
(* mutex-guarded job slot.                                                 *)
(*                                                                         *)
(* What a request answers and what a job writes is left out: a connection  *)
(* reads a request or starts a job, a job works through its packages.      *)
(***************************************************************************)
EXTENDS Integers, FiniteSets

CONSTANTS Conns,      \* the connections clients open
          Jobs,       \* the job threads that can be started
          Packages    \* how many packages a job works through

ASSUME ConnsAssumption == IsFiniteSet(Conns)
ASSUME JobsAssumption == IsFiniteSet(Jobs) /\ Jobs \cap Conns = {}
ASSUME PackagesAssumption == Packages \in Nat

VARIABLES
  requested,  \* Shutdown::requested
  in_flight,  \* Shutdown::in_flight
  main,       \* the program counter of the serving thread
  late,       \* the deadline of the wait the serving thread is in has passed
  drained,    \* what Shutdown::wait_idle returned
  finished,   \* what jobs::wait_idle returned
  watcher,    \* the shutdown-file watcher: "watching", "notify", "done"
  waker,      \* the accept loop's waker: "polling", "connected", "done"
  conn,       \* each connection's thread
  job,        \* each job's thread
  slot,       \* JobSnapshot: running, kind, failed, each kind's package count
  done        \* how many packages each job has worked through

vars == <<requested, in_flight, main, late, drained, finished, watcher, waker,
          conn, job, slot, done>>

ConnStates == {"new", "backlog", "open", "spawning", "leaving", "notify", "closed",
               "dropped"}
JobStates  == {"none", "spawned", "pass", "sweep", "finish", "failed", "leaving",
               "notify", "over"}
MainStates == {"accept", "test", "sleep", "waiting", "jobs", "exited"}
Kinds      == {"scan", "verify"}

Init ==
  /\ requested = FALSE /\ in_flight = 0
  /\ main = "accept" /\ late = FALSE /\ drained = FALSE /\ finished = FALSE
  /\ watcher = "watching" /\ waker = "polling"
  /\ conn = [c \in Conns |-> "new"]
  /\ job = [j \in Jobs |-> "none"]
  /\ slot = [running |-> FALSE, kind |-> "scan", failed |-> FALSE,
            count |-> [k \in Kinds |-> 0]]
  /\ done = [j \in Jobs |-> 0]

Alive == main # "exited"

(***************************************************************************)
(* notify_all reaches only a thread that is already waiting.               *)
(***************************************************************************)
notify_all == main' = IF main = "waiting" THEN "test" ELSE main

-----------------------------------------------------------------------------
(***************************************************************************)
(* The shutdown token.  request() stores the flag, then notifies.          *)
(***************************************************************************)
Request ==
  /\ Alive /\ watcher = "watching"
  /\ requested' = TRUE /\ watcher' = "notify"
  /\ UNCHANGED <<in_flight, main, late, drained, finished, waker, conn, job, slot, done>>

RequestNotify ==
  /\ Alive /\ watcher = "notify"
  /\ watcher' = "done" /\ notify_all
  /\ UNCHANGED <<requested, in_flight, late, drained, finished, waker, conn, job, slot, done>>

(***************************************************************************)
(* Dropping a ShutdownGuard: fetch_sub, and notify_all by the last one, as *)
(* two steps, and without the mutex the waiter holds.                      *)
(***************************************************************************)
AfterDrop(last) == IF in_flight = 1 THEN "notify" ELSE last

DropConnGuard(c) ==
  /\ Alive /\ conn[c] = "leaving"
  /\ in_flight' = in_flight - 1
  /\ conn' = [conn EXCEPT ![c] = AfterDrop("closed")]
  /\ UNCHANGED <<requested, main, late, drained, finished, watcher, waker, job, slot, done>>

NotifyByConn(c) ==
  /\ Alive /\ conn[c] = "notify"
  /\ conn' = [conn EXCEPT ![c] = "closed"] /\ notify_all
  /\ UNCHANGED <<requested, in_flight, late, drained, finished, watcher, waker, job, slot, done>>

DropJobGuard(j) ==
  /\ Alive /\ job[j] = "leaving"
  /\ in_flight' = in_flight - 1
  /\ job' = [job EXCEPT ![j] = AfterDrop("over")]
  /\ UNCHANGED <<requested, main, late, drained, finished, watcher, waker, conn, slot, done>>

NotifyByJob(j) ==
  /\ Alive /\ job[j] = "notify"
  /\ job' = [job EXCEPT ![j] = "over"] /\ notify_all
  /\ UNCHANGED <<requested, in_flight, late, drained, finished, watcher, waker, conn, slot, done>>

\* Mutant: the waker polls on after the request and never connects.
Waker_Idle ==
  /\ Alive /\ waker = "polling" /\ requested
  /\ UNCHANGED vars

-----------------------------------------------------------------------------
(***************************************************************************)
(* serve_with_shutdown: the waker, the clients and the accept loop.        *)
(***************************************************************************)
Waker ==
  /\ Alive /\ waker = "polling" /\ requested
  /\ waker' = "connected"
  /\ UNCHANGED <<requested, in_flight, main, late, drained, finished, watcher, conn, job, slot, done>>

Connect(c) ==
  /\ Alive /\ conn[c] = "new"
  /\ conn' = [conn EXCEPT ![c] = "backlog"]
  /\ UNCHANGED <<requested, in_flight, main, late, drained, finished, watcher, waker, job, slot, done>>

(***************************************************************************)
(* accept() returned: a drain request drops the stream and ends the loop,  *)
(* otherwise a guard is taken and the connection's thread starts (when it  *)
(* cannot be spawned the guard drops as after a response).                 *)
(***************************************************************************)
AcceptWaker ==
  /\ main = "accept" /\ waker = "connected"
  /\ waker' = "done" /\ main' = "test"
  /\ UNCHANGED <<requested, in_flight, late, drained, finished, watcher, conn, job, slot, done>>

Accept(c) ==
  /\ main = "accept" /\ conn[c] = "backlog"
  /\ IF requested
       THEN /\ conn' = [conn EXCEPT ![c] = "dropped"]
            /\ main' = "test"
            /\ UNCHANGED in_flight
       ELSE /\ conn' = [conn EXCEPT ![c] = "open"]
            /\ in_flight' = in_flight + 1
            /\ UNCHANGED main
  /\ UNCHANGED <<requested, late, drained, finished, watcher, waker, job, slot, done>>

(***************************************************************************)
(* wait_idle: the test of in_flight and the wait are two steps.            *)
(***************************************************************************)
TestIdle ==
  /\ main = "test"
  /\ IF in_flight = 0 \/ late
       THEN main' = "jobs" /\ drained' = (in_flight = 0) /\ late' = FALSE
       ELSE main' = "sleep" /\ UNCHANGED <<drained, late>>
  /\ UNCHANGED <<requested, in_flight, finished, watcher, waker, conn, job, slot, done>>

Wait ==
  /\ main = "sleep"
  /\ main' = "waiting"
  /\ UNCHANGED <<requested, in_flight, late, drained, finished, watcher, waker, conn, job, slot, done>>

(***************************************************************************)
(* A condition variable may wake its waiter for no reason.                 *)
(***************************************************************************)
SpuriousWake ==
  /\ main = "waiting"
  /\ main' = "test"
  /\ UNCHANGED <<requested, in_flight, late, drained, finished, watcher, waker, conn, job, slot, done>>

(***************************************************************************)
(* DRAIN_TIMEOUT passes, in either of the two waits; a wait_timeout whose  *)
(* time is up, before it began or since, returns.                          *)
(***************************************************************************)
Deadline ==
  /\ main \in {"test", "sleep", "waiting", "jobs"} /\ ~late
  /\ late' = TRUE
  /\ UNCHANGED <<requested, in_flight, main, drained, finished, watcher, waker, conn, job, slot, done>>

TimedOut ==
  /\ main = "waiting" /\ late
  /\ main' = "test"
  /\ UNCHANGED <<requested, in_flight, late, drained, finished, watcher, waker, conn, job, slot, done>>

\* Mutant: the process ends once the connections are drained.
WaitForJobs_Skipped ==
  /\ main = "jobs"
  /\ main' = "exited" /\ finished' = TRUE
  /\ UNCHANGED <<requested, in_flight, late, drained, watcher, waker, conn, job, slot, done>>

(***************************************************************************)
(* jobs::wait_idle polls the slot; then run_serve returns, which ends the  *)
(* process and every thread in it.                                         *)
(***************************************************************************)
WaitForJobs ==
  /\ main = "jobs" /\ (~slot.running \/ late)
  /\ main' = "exited" /\ finished' = ~slot.running
  /\ UNCHANGED <<requested, in_flight, late, drained, watcher, waker, conn, job, slot, done>>

-----------------------------------------------------------------------------
(***************************************************************************)
(* A connection's thread: handle_connection answers one request and ends.  *)
(***************************************************************************)
Respond(c) ==
  /\ Alive /\ conn[c] = "open"
  /\ conn' = [conn EXCEPT ![c] = "leaving"]
  /\ UNCHANGED <<requested, in_flight, main, late, drained, finished, watcher, waker, job, slot, done>>

\* Mutant: the counters of the starting kind keep their old values.
begin_NoReset(kind) ==
  slot' = [slot EXCEPT !.running = TRUE, !.kind = kind, !.failed = FALSE]

(***************************************************************************)
(* jobs::start: begin() under the lock refuses a second job and resets the *)
(* starting kind's counters; then the thread is spawned, or the slot is    *)
(* released when that fails.                                               *)
(***************************************************************************)
begin(kind) ==
  slot' = [running |-> TRUE, kind |-> kind, failed |-> FALSE,
           count |-> [slot.count EXCEPT ![kind] = 0]]

\* Mutant: the slot is taken without looking whether a job runs.
StartJob_Unchecked(c) ==
  /\ Alive /\ conn[c] = "open"
  /\ conn' = [conn EXCEPT ![c] = "spawning"]
  /\ \E kind \in Kinds : begin(kind)
  /\ UNCHANGED <<requested, in_flight, main, late, drained, finished, watcher, waker, job, done>>

StartJob(c) ==
  /\ Alive /\ conn[c] = "open"
  /\ IF slot.running
       THEN conn' = [conn EXCEPT ![c] = "leaving"] /\ UNCHANGED slot
       ELSE /\ conn' = [conn EXCEPT ![c] = "spawning"]
            /\ \E kind \in Kinds : begin(kind)
  /\ UNCHANGED <<requested, in_flight, main, late, drained, finished, watcher, waker, job, done>>

\* Mutant: a job that cannot be spawned keeps the slot.
Spawn_KeepsSlot(c) ==
  /\ Alive /\ conn[c] = "spawning"
  /\ conn' = [conn EXCEPT ![c] = "leaving"]
  /\ \/ UNCHANGED job
     \/ \E j \in Jobs : job[j] = "none" /\ job' = [job EXCEPT ![j] = "spawned"]
  /\ UNCHANGED <<requested, in_flight, main, late, drained, finished, watcher, waker, slot, done>>

Spawn(c) ==
  /\ Alive /\ conn[c] = "spawning"
  /\ conn' = [conn EXCEPT ![c] = "leaving"]
  /\ \/ /\ slot' = [slot EXCEPT !.running = FALSE]
        /\ UNCHANGED job
     \/ /\ \E j \in Jobs : job[j] = "none" /\ job' = [job EXCEPT ![j] = "spawned"]
        /\ UNCHANGED slot
  /\ UNCHANGED <<requested, in_flight, main, late, drained, finished, watcher, waker, done>>

\* Mutant: a job's guard is taken without being counted.
TakeGuard_Uncounted(j) ==
  /\ Alive /\ job[j] = "spawned"
  /\ job' = [job EXCEPT ![j] = "pass"]
  /\ UNCHANGED <<requested, in_flight, main, late, drained, finished, watcher, waker, conn, slot, done>>

-----------------------------------------------------------------------------
(***************************************************************************)
(* The job's thread: it takes its guard, works package by package, and     *)
(* after each publishes its count and looks for a drain request.           *)
(***************************************************************************)
TakeGuard(j) ==
  /\ Alive /\ job[j] = "spawned"
  /\ in_flight' = in_flight + 1
  /\ job' = [job EXCEPT ![j] = "pass"]
  /\ UNCHANGED <<requested, main, late, drained, finished, watcher, waker, conn, slot, done>>

Work(j) ==
  /\ Alive /\ job[j] = "pass" /\ done[j] < Packages
  /\ done' = [done EXCEPT ![j] = @ + 1]
  /\ slot' = [slot EXCEPT !.count[slot.kind] = done[j] + 1]
  /\ job' = [job EXCEPT ![j] = IF requested THEN "finish" ELSE "pass"]
  /\ UNCHANGED <<requested, in_flight, main, late, drained, finished, watcher, waker, conn>>

(***************************************************************************)
(* The packages are used up: a scan goes on to its sweep, a verify ends.   *)
(***************************************************************************)
EndPass(j) ==
  /\ Alive /\ job[j] = "pass" /\ done[j] >= Packages
  /\ job' = [job EXCEPT ![j] = IF slot.kind = "scan" THEN "sweep" ELSE "finish"]
  /\ UNCHANGED <<requested, in_flight, main, late, drained, finished, watcher, waker, conn, slot, done>>

Sweep(j) ==
  /\ Alive /\ job[j] = "sweep"
  /\ job' = [job EXCEPT ![j] = "finish"]
  /\ UNCHANGED <<requested, in_flight, main, late, drained, finished, watcher, waker, conn, slot, done>>

(***************************************************************************)
(* The database cannot be opened, or a package aborts the pass.            *)
(***************************************************************************)
Fail(j) ==
  /\ Alive /\ job[j] \in {"pass", "sweep"}
  /\ job' = [job EXCEPT ![j] = "failed"]
  /\ UNCHANGED <<requested, in_flight, main, late, drained, finished, watcher, waker, conn, slot, done>>

(***************************************************************************)
(* The finish bookkeeping, after which the guard drops.                    *)
(***************************************************************************)
Finish(j) ==
  /\ Alive /\ job[j] \in {"finish", "failed"}
  /\ job' = [job EXCEPT ![j] = "leaving"]
  /\ slot' = [slot EXCEPT !.running = FALSE, !.failed = (job[j] = "failed")]
  /\ UNCHANGED <<requested, in_flight, main, late, drained, finished, watcher, waker, conn, done>>

-----------------------------------------------------------------------------
ConnStep(c) ==
  Accept(c) \/ Respond(c) \/ StartJob(c) \/ Spawn(c) \/ DropConnGuard(c) \/ NotifyByConn(c)

JobStep(j) ==
  \/ TakeGuard(j) \/ Work(j) \/ EndPass(j) \/ Sweep(j) \/ Fail(j) \/ Finish(j)
  \/ DropJobGuard(j) \/ NotifyByJob(j)

MainStep == AcceptWaker \/ TestIdle \/ Wait \/ TimedOut \/ WaitForJobs

Stopped == main = "exited" /\ UNCHANGED vars

Next ==
  \/ Request \/ RequestNotify \/ Waker \/ MainStep \/ SpuriousWake \/ Deadline \/ Stopped
  \/ \E c \in Conns : Connect(c) \/ ConnStep(c)
  \/ \E j \in Jobs : JobStep(j)

Spec == Init /\ [][Next]_vars

(***************************************************************************)
(* The operating system runs every thread; clients, supervisors and clocks *)
(* promise nothing.                                                        *)
(***************************************************************************)
Threads ==
  /\ WF_vars(RequestNotify) /\ WF_vars(Waker) /\ WF_vars(MainStep)
  /\ \A c \in Conns : WF_vars(ConnStep(c))
  /\ \A j \in Jobs : WF_vars(JobStep(j))

FairSpec == Spec /\ Threads /\ WF_vars(Deadline)

PatientSpec == Spec /\ Threads

-----------------------------------------------------------------------------
(***************************************************************************)
(* The threads that hold a guard, and the jobs that occupy the slot.       *)
(***************************************************************************)
BusyStates   == {"open", "spawning", "leaving"}
GuardStates  == {"pass", "sweep", "finish", "failed", "leaving"}
ActiveStates == {"spawned", "pass", "sweep", "finish", "failed"}

Busy(c)    == conn[c] \in BusyStates
Guarded(j) == job[j] \in GuardStates
Active(j)  == job[j] \in ActiveStates

Holders == {c \in Conns : Busy(c)} \cup {j \in Jobs : Guarded(j)}

(***************************************************************************)
(* Every variable has its type.                                            *)
(***************************************************************************)
TypeOK ==
  /\ requested \in BOOLEAN /\ in_flight \in Nat /\ main \in MainStates
  /\ late \in BOOLEAN /\ drained \in BOOLEAN /\ finished \in BOOLEAN
  /\ watcher \in {"watching", "notify", "done"}
  /\ waker \in {"polling", "connected", "done"}
  /\ conn \in [Conns -> ConnStates] /\ job \in [Jobs -> JobStates]
  /\ slot \in [running : BOOLEAN, kind : Kinds, failed : BOOLEAN,
             count : [Kinds -> Nat]]
  /\ done \in [Jobs -> Nat]

(***************************************************************************)
(* Shutdown::in_flight is the number of live guards: no path of a          *)
(* connection or a job takes or drops one too many.                        *)
(***************************************************************************)
GuardsCounted == in_flight = Cardinality(Holders)

(***************************************************************************)
(* "Exactly one background job runs at a time": the slot is taken exactly  *)
(* while one connection is spawning a job or one job has not finished, and *)
(* never two of them, though the thread of a finished job may linger.      *)
(***************************************************************************)
SlotHolders == {c \in Conns : conn[c] = "spawning"} \cup {j \in Jobs : Active(j)}

OneJob ==
  /\ slot.running <=> SlotHolders # {}
  /\ \A x, y \in SlotHolders : x = y

(***************************************************************************)
(* A process that exits after both waits reported success cuts nothing     *)
(* off: no connection is being served, and no job has work left, not even  *)
(* one whose thread had not yet taken its guard when the drain looked.     *)
(***************************************************************************)
CleanExit ==
  main = "exited" /\ drained /\ finished =>
    /\ \A c \in Conns : ~Busy(c)
    /\ \A j \in Jobs : ~Active(j)

(***************************************************************************)
(* The status endpoint shows the running job's own progress, never the     *)
(* count of an earlier job.                                                *)
(***************************************************************************)
StatusIsCurrent ==
  \A j \in Jobs : Active(j) => slot.running /\ slot.count[slot.kind] = done[j]

(***************************************************************************)
(* A drain request ends the process: the accept loop is woken, and both    *)
(* waits of the drain return.                                              *)
(***************************************************************************)
DrainEnds == requested ~> (main = "exited")

(***************************************************************************)
(* A job that started finishes and releases the slot, or the process ends. *)
(***************************************************************************)
JobsRelease == slot.running ~> (~slot.running \/ main = "exited")

(***************************************************************************)
(* "When the last guard drops after a request, wait_idle wakes": without   *)
(* waiting for its deadline.                                               *)
(***************************************************************************)
DrainIsPrompt == requested ~> (main \in {"jobs", "exited"})

=============================================================================
