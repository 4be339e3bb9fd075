--------------------------- MODULE Server_proofs ----------------------------
(***************************************************************************)
(* Proofs about Server for any number of connections and jobs and any      *)
(* number of packages: the guards are counted, one job runs at a time, and *)
(* a process that reports a clean drain has cut nothing off.               *)
(*                                                                         *)
(* CleanExit is not inductive.  What keeps it true is that once the drain  *)
(* has seen no guard no connection is ever served again (DrainedIsQuiet),  *)
(* and that sees no guard means no connection only because the guards are  *)
(* counted; the job whose thread had not taken its guard when the drain    *)
(* looked is caught by the second wait, on the slot (FinishedIsIdle),      *)
(* which sees it only because the slot is held while a job is active.      *)
(* StatusIsCurrent needs the count of a job that is still being spawned to *)
(* be zero (ProgressCurrent), and OneJob, so that no other job writes it.  *)
(***************************************************************************)
EXTENDS Server, FiniteSetTheorems, TLAPS

(***************************************************************************)
(* After wait_idle reported success no connection is being served.         *)
(***************************************************************************)
DrainedIsQuiet ==
  main \in {"jobs", "exited"} /\ drained => \A c \in Conns : ~Busy(c)

(***************************************************************************)
(* After jobs::wait_idle reported success no job is active.                *)
(***************************************************************************)
FinishedIsIdle ==
  main = "exited" /\ finished => SlotHolders = {}

(***************************************************************************)
(* The count in the slot is the active job's, and zero while its thread is *)
(* being spawned; a job thread that never started has worked nothing.      *)
(***************************************************************************)
ProgressCurrent ==
  /\ \A j \in Jobs : job[j] = "none" => done[j] = 0
  /\ \A c \in Conns : conn[c] = "spawning" => slot.count[slot.kind] = 0
  /\ \A j \in Jobs : Active(j) => slot.count[slot.kind] = done[j]

Inv ==
  /\ TypeOK
  /\ GuardsCounted
  /\ OneJob
  /\ DrainedIsQuiet
  /\ FinishedIsIdle
  /\ ProgressCurrent

-----------------------------------------------------------------------------
(***************************************************************************)
(* The threads holding a guard are finitely many, so they can be counted.  *)
(***************************************************************************)
LEMMA HoldersFinite == IsFiniteSet(Holders)
<1>1. Holders \subseteq Conns \cup Jobs
  BY DEF Holders
<1>2. IsFiniteSet(Conns \cup Jobs)
  BY FS_Union, ConnsAssumption, JobsAssumption
<1> QED
  BY <1>1, <1>2, FS_Subset

(***************************************************************************)
(* What a step of one connection does to the set of guard holders and of   *)
(* slot holders.                                                           *)
(***************************************************************************)
LEMMA ConnHolders ==
  ASSUME NEW c \in Conns, \A d \in Conns \ {c} : conn'[d] = conn[d], job' = job
  PROVE  /\ Holders' = IF conn'[c] \in BusyStates THEN Holders \cup {c} ELSE Holders \ {c}
         /\ SlotHolders' = IF conn'[c] = "spawning" THEN SlotHolders \cup {c}
                                                 ELSE SlotHolders \ {c}
         /\ c \in Holders <=> conn[c] \in BusyStates
         /\ c \in SlotHolders <=> conn[c] = "spawning"
<1>1. c \notin Jobs
  BY JobsAssumption
<1>2. /\ c \in Holders <=> conn[c] \in BusyStates
      /\ c \in SlotHolders <=> conn[c] = "spawning"
  BY <1>1 DEF Holders, SlotHolders, Busy
<1>3. Holders' = IF conn'[c] \in BusyStates THEN Holders \cup {c} ELSE Holders \ {c}
  BY <1>1 DEF Holders, Busy, Guarded, BusyStates, GuardStates
<1>4. SlotHolders' = IF conn'[c] = "spawning" THEN SlotHolders \cup {c}
                                                 ELSE SlotHolders \ {c}
  BY <1>1 DEF SlotHolders, Active, ActiveStates
<1> QED
  BY <1>2, <1>3, <1>4

(***************************************************************************)
(* The same for a step of one job.                                         *)
(***************************************************************************)
LEMMA JobHolders ==
  ASSUME NEW j \in Jobs, \A i \in Jobs \ {j} : job'[i] = job[i], conn' = conn
  PROVE  /\ Holders' = IF job'[j] \in GuardStates THEN Holders \cup {j} ELSE Holders \ {j}
         /\ SlotHolders' = IF job'[j] \in ActiveStates THEN SlotHolders \cup {j}
                                                     ELSE SlotHolders \ {j}
         /\ j \in Holders <=> job[j] \in GuardStates
         /\ j \in SlotHolders <=> job[j] \in ActiveStates
<1>1. j \notin Conns
  BY JobsAssumption
<1>2. /\ j \in Holders <=> job[j] \in GuardStates
      /\ j \in SlotHolders <=> job[j] \in ActiveStates
  BY <1>1 DEF Holders, SlotHolders, Guarded, Active
<1>3. Holders' = IF job'[j] \in GuardStates THEN Holders \cup {j} ELSE Holders \ {j}
  BY <1>1 DEF Holders, Busy, Guarded, BusyStates, GuardStates
<1>4. SlotHolders' = IF job'[j] \in ActiveStates THEN SlotHolders \cup {j}
                                                     ELSE SlotHolders \ {j}
  BY <1>1 DEF SlotHolders, Active, ActiveStates
<1> QED
  BY <1>2, <1>3, <1>4

(***************************************************************************)
(* Counting: a thread takes its guard, or drops it.                        *)
(***************************************************************************)
LEMMA CountUp ==
  ASSUME TypeOK, GuardsCounted, NEW x, x \notin Holders,
         Holders' = Holders \cup {x}, in_flight' = in_flight + 1
  PROVE  GuardsCounted' /\ in_flight' \in Nat
<1>1. Cardinality(Holders \cup {x}) = Cardinality(Holders) + 1
  BY HoldersFinite, FS_AddElement
<1>2. Cardinality(Holders) \in Nat
  BY HoldersFinite, FS_CardinalityType
<1> QED
  BY <1>1, <1>2 DEF GuardsCounted

LEMMA CountDown ==
  ASSUME TypeOK, GuardsCounted, NEW x, x \in Holders,
         Holders' = Holders \ {x}, in_flight' = in_flight - 1
  PROVE  GuardsCounted' /\ in_flight' \in Nat
<1>1. IsFiniteSet(Holders \ {x}) /\ Cardinality(Holders \ {x}) = Cardinality(Holders) - 1
  BY HoldersFinite, FS_RemoveElement
<1>2. Cardinality(Holders \ {x}) \in Nat
  BY <1>1, FS_CardinalityType
<1> QED
  BY <1>1, <1>2 DEF GuardsCounted

(***************************************************************************)
(* Dropping a ShutdownGuard, by a connection or by a job.                  *)
(***************************************************************************)
LEMMA ConnDrops ==
  ASSUME TypeOK, GuardsCounted, NEW c \in Conns, DropConnGuard(c)
  PROVE  GuardsCounted' /\ in_flight' \in Nat
<1>1. /\ \A d \in Conns \ {c} : conn'[d] = conn[d]
      /\ job' = job /\ conn'[c] \notin BusyStates /\ conn[c] \in BusyStates
      /\ in_flight' = in_flight - 1
  BY DEF DropConnGuard, AfterDrop, TypeOK, BusyStates
<1>2. c \in Holders /\ Holders' = Holders \ {c}
  BY <1>1, ConnHolders
<1> QED
  BY <1>1, <1>2, CountDown

LEMMA JobDrops ==
  ASSUME TypeOK, GuardsCounted, NEW j \in Jobs, DropJobGuard(j)
  PROVE  GuardsCounted' /\ in_flight' \in Nat
<1>1. /\ \A i \in Jobs \ {j} : job'[i] = job[i]
      /\ conn' = conn /\ job'[j] \notin GuardStates /\ job[j] \in GuardStates
      /\ in_flight' = in_flight - 1
  BY DEF DropJobGuard, AfterDrop, TypeOK, GuardStates
<1>2. j \in Holders /\ Holders' = Holders \ {j}
  BY <1>1, JobHolders
<1> QED
  BY <1>1, <1>2, CountDown

(***************************************************************************)
(* Init establishes the invariant.                                         *)
(***************************************************************************)
LEMMA InitInv == Init => Inv
<1> SUFFICES ASSUME Init PROVE Inv
  OBVIOUS
<1>1. TypeOK
  BY DEF Init, TypeOK, ConnStates, JobStates, MainStates, Kinds
<1>2. Holders = {} /\ SlotHolders = {}
  BY DEF Init, Holders, SlotHolders, Busy, Guarded, Active, BusyStates, GuardStates, ActiveStates
<1>3. GuardsCounted
  BY <1>2, FS_EmptySet DEF GuardsCounted, Init
<1>4. OneJob /\ DrainedIsQuiet /\ FinishedIsIdle
  BY <1>2 DEF OneJob, DrainedIsQuiet, FinishedIsIdle, Init
<1>5. ProgressCurrent
  BY DEF Init, ProgressCurrent, Active, ActiveStates
<1> QED
  BY <1>1, <1>3, <1>4, <1>5 DEF Inv

(***************************************************************************)
(* Every step keeps the types, given that guards are counted: a guard that *)
(* is dropped was counted, so in_flight does not wrap below zero.          *)
(***************************************************************************)
LEMMA TypeStep == Inv /\ [Next]_vars => TypeOK'
<1> SUFFICES ASSUME Inv, [Next]_vars PROVE TypeOK'
  OBVIOUS
<1> USE DEF Inv, TypeOK, ConnStates, JobStates, MainStates, Kinds, Alive, notify_all
<1>1. CASE Request
  BY <1>1 DEF Request
<1>2. CASE RequestNotify
  BY <1>2 DEF RequestNotify
<1>3. CASE Waker
  BY <1>3 DEF Waker
<1>4. CASE AcceptWaker
  BY <1>4 DEF AcceptWaker
<1>5. CASE TestIdle
  BY <1>5 DEF TestIdle
<1>6. CASE Wait
  BY <1>6 DEF Wait
<1>7. CASE TimedOut
  BY <1>7 DEF TimedOut
<1>8. CASE WaitForJobs
  BY <1>8 DEF WaitForJobs
<1>9. CASE SpuriousWake
  BY <1>9 DEF SpuriousWake
<1>10. CASE Deadline
  BY <1>10 DEF Deadline
<1>11. CASE Stopped
  BY <1>11 DEF Stopped, vars
<1>12. ASSUME NEW c \in Conns, Connect(c) PROVE TypeOK'
  BY <1>12 DEF Connect
<1>13. ASSUME NEW c \in Conns, Accept(c) PROVE TypeOK'
  BY <1>13 DEF Accept
<1>14. ASSUME NEW c \in Conns, Respond(c) PROVE TypeOK'
  BY <1>14 DEF Respond
<1>15. ASSUME NEW c \in Conns, StartJob(c) PROVE TypeOK'
  <2>1. slot' \in [running : BOOLEAN, kind : Kinds, failed : BOOLEAN, count : [Kinds -> Nat]]
    <3>1. CASE slot' = slot
      BY <3>1
    <3>2. ASSUME NEW kind \in Kinds, begin(kind)
          PROVE  slot' \in [running : BOOLEAN, kind : Kinds, failed : BOOLEAN,
                           count : [Kinds -> Nat]]
      BY <3>2 DEF begin
    <3> QED
      BY <1>15, <3>1, <3>2 DEF StartJob
  <2> QED
    BY <1>15, <2>1 DEF StartJob
<1>16. ASSUME NEW c \in Conns, Spawn(c) PROVE TypeOK'
  BY <1>16, ZenonT(30) DEF Spawn
<1>17. ASSUME NEW c \in Conns, DropConnGuard(c) PROVE TypeOK'
  <2>1. in_flight' \in Nat
    BY <1>17, ConnDrops DEF Inv
  <2> QED
    BY <1>17, <2>1 DEF DropConnGuard, AfterDrop
<1>18. ASSUME NEW c \in Conns, NotifyByConn(c) PROVE TypeOK'
  BY <1>18 DEF NotifyByConn
<1>19. ASSUME NEW j \in Jobs, TakeGuard(j) PROVE TypeOK'
  BY <1>19 DEF TakeGuard
<1>20. ASSUME NEW j \in Jobs, Work(j) PROVE TypeOK'
  BY <1>20 DEF Work
<1>21. ASSUME NEW j \in Jobs, EndPass(j) PROVE TypeOK'
  BY <1>21 DEF EndPass
<1>22. ASSUME NEW j \in Jobs, Sweep(j) PROVE TypeOK'
  BY <1>22 DEF Sweep
<1>23. ASSUME NEW j \in Jobs, Fail(j) PROVE TypeOK'
  BY <1>23 DEF Fail
<1>24. ASSUME NEW j \in Jobs, Finish(j) PROVE TypeOK'
  BY <1>24, ZenonT(30) DEF Finish
<1>25. ASSUME NEW j \in Jobs, DropJobGuard(j) PROVE TypeOK'
  <2>1. in_flight' \in Nat
    BY <1>25, JobDrops DEF Inv
  <2> QED
    BY <1>25, <2>1 DEF DropJobGuard, AfterDrop
<1>26. ASSUME NEW j \in Jobs, NotifyByJob(j) PROVE TypeOK'
  BY <1>26 DEF NotifyByJob
<1>27. CASE UNCHANGED vars
  BY <1>27 DEF vars
<1> QED
  BY <1>1, <1>2, <1>3, <1>4, <1>5, <1>6, <1>7, <1>8, <1>9, <1>10, <1>11,
     <1>12, <1>13, <1>14, <1>15, <1>16, <1>17, <1>18, <1>19, <1>20,
     <1>21, <1>22, <1>23, <1>24, <1>25, <1>26, <1>27
     DEF Next, ConnStep, JobStep, MainStep

(***************************************************************************)
(* A step of neither a connection nor a job moves no guard and no slot.    *)
(***************************************************************************)
LEMMA SameHolders ==
  ASSUME conn' = conn, job' = job
  PROVE  Holders' = Holders /\ SlotHolders' = SlotHolders
  BY DEF Holders, SlotHolders, Busy, Guarded, Active

(***************************************************************************)
(* Every step keeps in_flight equal to the number of guard holders.        *)
(***************************************************************************)
LEMMA GuardsStep == Inv /\ [Next]_vars => GuardsCounted'
<1> SUFFICES ASSUME Inv, [Next]_vars PROVE GuardsCounted'
  OBVIOUS
<1>1. CASE Request
  BY <1>1, SameHolders DEF Request, Inv, GuardsCounted
<1>2. CASE RequestNotify
  BY <1>2, SameHolders DEF RequestNotify, Inv, GuardsCounted
<1>3. CASE Waker
  BY <1>3, SameHolders DEF Waker, Inv, GuardsCounted
<1>4. CASE AcceptWaker
  BY <1>4, SameHolders DEF AcceptWaker, Inv, GuardsCounted
<1>5. CASE TestIdle
  BY <1>5, SameHolders DEF TestIdle, Inv, GuardsCounted
<1>6. CASE Wait
  BY <1>6, SameHolders DEF Wait, Inv, GuardsCounted
<1>7. CASE TimedOut
  BY <1>7, SameHolders DEF TimedOut, Inv, GuardsCounted
<1>8. CASE WaitForJobs
  BY <1>8, SameHolders DEF WaitForJobs, Inv, GuardsCounted
<1>9. CASE SpuriousWake
  BY <1>9, SameHolders DEF SpuriousWake, Inv, GuardsCounted
<1>10. CASE Deadline
  BY <1>10, SameHolders DEF Deadline, Inv, GuardsCounted
<1>11. CASE Stopped
  BY <1>11, SameHolders DEF Stopped, vars, Inv, GuardsCounted
<1>12. ASSUME NEW c \in Conns, Connect(c) PROVE GuardsCounted'
  <2>1. /\ \A d \in Conns \ {c} : conn'[d] = conn[d]
        /\ job' = job /\ UNCHANGED in_flight
        /\ conn[c] \in BusyStates <=> conn'[c] \in BusyStates
    BY <1>12 DEF Connect, Inv, TypeOK, BusyStates
  <2>2. Holders' = Holders
    BY <2>1, ConnHolders
  <2> QED
    BY <2>1, <2>2 DEF Inv, GuardsCounted
<1>13. ASSUME NEW c \in Conns, Accept(c) PROVE GuardsCounted'
  <2>1. /\ \A d \in Conns \ {c} : conn'[d] = conn[d]
        /\ job' = job /\ conn[c] \notin BusyStates
    BY <1>13 DEF Accept, Inv, TypeOK, BusyStates
  <2>2. CASE requested
    <3>1. conn'[c] \notin BusyStates /\ in_flight' = in_flight
      BY <1>13, <2>2 DEF Accept, Inv, TypeOK, BusyStates
    <3>2. Holders' = Holders
      BY <2>1, <3>1, ConnHolders
    <3> QED
      BY <3>1, <3>2 DEF Inv, GuardsCounted
  <2>3. CASE ~requested
    <3>1. conn'[c] \in BusyStates /\ in_flight' = in_flight + 1
      BY <1>13, <2>3 DEF Accept, Inv, TypeOK, BusyStates
    <3>2. c \notin Holders /\ Holders' = Holders \cup {c}
      BY <2>1, <3>1, ConnHolders
    <3> QED
      BY <3>1, <3>2, CountUp DEF Inv
  <2> QED
    BY <2>2, <2>3
<1>14. ASSUME NEW c \in Conns, Respond(c) PROVE GuardsCounted'
  <2>1. /\ \A d \in Conns \ {c} : conn'[d] = conn[d]
        /\ job' = job /\ UNCHANGED in_flight
        /\ conn[c] \in BusyStates <=> conn'[c] \in BusyStates
    BY <1>14 DEF Respond, Inv, TypeOK, BusyStates
  <2>2. Holders' = Holders
    BY <2>1, ConnHolders
  <2> QED
    BY <2>1, <2>2 DEF Inv, GuardsCounted
<1>15. ASSUME NEW c \in Conns, StartJob(c) PROVE GuardsCounted'
  <2>1. /\ \A d \in Conns \ {c} : conn'[d] = conn[d]
        /\ job' = job /\ UNCHANGED in_flight
        /\ conn[c] \in BusyStates <=> conn'[c] \in BusyStates
    BY <1>15 DEF StartJob, Inv, TypeOK, BusyStates
  <2>2. Holders' = Holders
    BY <2>1, ConnHolders
  <2> QED
    BY <2>1, <2>2 DEF Inv, GuardsCounted
<1>16. ASSUME NEW c \in Conns, Spawn(c) PROVE GuardsCounted'
  <2>1. Holders' = Holders
    <3>1. c \in Holders
      BY <1>16 DEF Spawn, Holders, Busy, BusyStates
    <3>2. \A d \in Conns : Busy(d)' <=> Busy(d)
      BY <1>16 DEF Spawn, Busy, BusyStates, Inv, TypeOK
    <3>3. \A j \in Jobs : Guarded(j)' <=> Guarded(j)
      BY <1>16 DEF Spawn, Guarded, GuardStates, Inv, TypeOK
    <3> QED
      BY <3>2, <3>3 DEF Holders
  <2> QED
    BY <1>16, <2>1 DEF Spawn, Inv, GuardsCounted
<1>17. ASSUME NEW c \in Conns, DropConnGuard(c) PROVE GuardsCounted'
  BY <1>17, ConnDrops DEF Inv
<1>18. ASSUME NEW c \in Conns, NotifyByConn(c) PROVE GuardsCounted'
  <2>1. /\ \A d \in Conns \ {c} : conn'[d] = conn[d]
        /\ job' = job /\ UNCHANGED in_flight
        /\ conn[c] \in BusyStates <=> conn'[c] \in BusyStates
    BY <1>18 DEF NotifyByConn, Inv, TypeOK, BusyStates
  <2>2. Holders' = Holders
    BY <2>1, ConnHolders
  <2> QED
    BY <2>1, <2>2 DEF Inv, GuardsCounted
<1>19. ASSUME NEW j \in Jobs, TakeGuard(j) PROVE GuardsCounted'
  <2>1. /\ \A i \in Jobs \ {j} : job'[i] = job[i]
        /\ conn' = conn /\ in_flight' = in_flight + 1
        /\ job[j] \notin GuardStates /\ job'[j] \in GuardStates
    BY <1>19 DEF TakeGuard, Inv, TypeOK, GuardStates
  <2>2. j \notin Holders /\ Holders' = Holders \cup {j}
    BY <2>1, JobHolders
  <2> QED
    BY <2>1, <2>2, CountUp DEF Inv
<1>20. ASSUME NEW j \in Jobs, Work(j) PROVE GuardsCounted'
  <2>1. /\ \A i \in Jobs \ {j} : job'[i] = job[i]
        /\ conn' = conn /\ UNCHANGED in_flight
        /\ job[j] \in GuardStates <=> job'[j] \in GuardStates
    BY <1>20 DEF Work, Inv, TypeOK, GuardStates
  <2>2. Holders' = Holders
    BY <2>1, JobHolders
  <2> QED
    BY <2>1, <2>2 DEF Inv, GuardsCounted
<1>21. ASSUME NEW j \in Jobs, EndPass(j) PROVE GuardsCounted'
  <2>1. /\ \A i \in Jobs \ {j} : job'[i] = job[i]
        /\ conn' = conn /\ UNCHANGED in_flight
        /\ job[j] \in GuardStates <=> job'[j] \in GuardStates
    BY <1>21 DEF EndPass, Inv, TypeOK, GuardStates
  <2>2. Holders' = Holders
    BY <2>1, JobHolders
  <2> QED
    BY <2>1, <2>2 DEF Inv, GuardsCounted
<1>22. ASSUME NEW j \in Jobs, Sweep(j) PROVE GuardsCounted'
  <2>1. /\ \A i \in Jobs \ {j} : job'[i] = job[i]
        /\ conn' = conn /\ UNCHANGED in_flight
        /\ job[j] \in GuardStates <=> job'[j] \in GuardStates
    BY <1>22 DEF Sweep, Inv, TypeOK, GuardStates
  <2>2. Holders' = Holders
    BY <2>1, JobHolders
  <2> QED
    BY <2>1, <2>2 DEF Inv, GuardsCounted
<1>23. ASSUME NEW j \in Jobs, Fail(j) PROVE GuardsCounted'
  <2>1. /\ \A i \in Jobs \ {j} : job'[i] = job[i]
        /\ conn' = conn /\ UNCHANGED in_flight
        /\ job[j] \in GuardStates <=> job'[j] \in GuardStates
    BY <1>23 DEF Fail, Inv, TypeOK, GuardStates
  <2>2. Holders' = Holders
    BY <2>1, JobHolders
  <2> QED
    BY <2>1, <2>2 DEF Inv, GuardsCounted
<1>24. ASSUME NEW j \in Jobs, Finish(j) PROVE GuardsCounted'
  <2>1. /\ \A i \in Jobs \ {j} : job'[i] = job[i]
        /\ conn' = conn /\ UNCHANGED in_flight
        /\ job[j] \in GuardStates <=> job'[j] \in GuardStates
    BY <1>24 DEF Finish, Inv, TypeOK, GuardStates
  <2>2. Holders' = Holders
    BY <2>1, JobHolders
  <2> QED
    BY <2>1, <2>2 DEF Inv, GuardsCounted
<1>25. ASSUME NEW j \in Jobs, DropJobGuard(j) PROVE GuardsCounted'
  BY <1>25, JobDrops DEF Inv
<1>26. ASSUME NEW j \in Jobs, NotifyByJob(j) PROVE GuardsCounted'
  <2>1. /\ \A i \in Jobs \ {j} : job'[i] = job[i]
        /\ conn' = conn /\ UNCHANGED in_flight
        /\ job[j] \in GuardStates <=> job'[j] \in GuardStates
    BY <1>26 DEF NotifyByJob, Inv, TypeOK, GuardStates
  <2>2. Holders' = Holders
    BY <2>1, JobHolders
  <2> QED
    BY <2>1, <2>2 DEF Inv, GuardsCounted
<1>27. CASE UNCHANGED vars
  BY <1>27, SameHolders DEF vars, Inv, GuardsCounted
<1> QED
  BY <1>1, <1>2, <1>3, <1>4, <1>5, <1>6, <1>7, <1>8, <1>9, <1>10, <1>11,
     <1>12, <1>13, <1>14, <1>15, <1>16, <1>17, <1>18, <1>19, <1>20,
     <1>21, <1>22, <1>23, <1>24, <1>25, <1>26, <1>27
     DEF Next, ConnStep, JobStep, MainStep

(***************************************************************************)
(* Every step keeps the slot held by exactly the one thread it is running  *)
(* for.                                                                    *)
(***************************************************************************)
LEMMA SlotStep == Inv /\ [Next]_vars => OneJob'
<1> SUFFICES ASSUME Inv, [Next]_vars PROVE OneJob'
  OBVIOUS
<1>1. CASE Request
  BY <1>1, SameHolders DEF Request, Inv, OneJob
<1>2. CASE RequestNotify
  BY <1>2, SameHolders DEF RequestNotify, Inv, OneJob
<1>3. CASE Waker
  BY <1>3, SameHolders DEF Waker, Inv, OneJob
<1>4. CASE AcceptWaker
  BY <1>4, SameHolders DEF AcceptWaker, Inv, OneJob
<1>5. CASE TestIdle
  BY <1>5, SameHolders DEF TestIdle, Inv, OneJob
<1>6. CASE Wait
  BY <1>6, SameHolders DEF Wait, Inv, OneJob
<1>7. CASE TimedOut
  BY <1>7, SameHolders DEF TimedOut, Inv, OneJob
<1>8. CASE WaitForJobs
  BY <1>8, SameHolders DEF WaitForJobs, Inv, OneJob
<1>9. CASE SpuriousWake
  BY <1>9, SameHolders DEF SpuriousWake, Inv, OneJob
<1>10. CASE Deadline
  BY <1>10, SameHolders DEF Deadline, Inv, OneJob
<1>11. CASE Stopped
  BY <1>11, SameHolders DEF Stopped, vars, Inv, OneJob
<1>12. ASSUME NEW c \in Conns, Connect(c) PROVE OneJob'
  <2>1. /\ \A d \in Conns \ {c} : conn'[d] = conn[d]
        /\ job' = job /\ UNCHANGED slot
        /\ conn[c] # "spawning" /\ conn'[c] # "spawning"
    BY <1>12 DEF Connect, Inv, TypeOK, AfterDrop
  <2>2. SlotHolders' = SlotHolders
    BY <2>1, ConnHolders
  <2> QED
    BY <2>1, <2>2 DEF Inv, OneJob
<1>13. ASSUME NEW c \in Conns, Accept(c) PROVE OneJob'
  <2>1. /\ \A d \in Conns \ {c} : conn'[d] = conn[d]
        /\ job' = job /\ UNCHANGED slot
        /\ conn[c] # "spawning" /\ conn'[c] # "spawning"
    BY <1>13 DEF Accept, Inv, TypeOK, AfterDrop
  <2>2. SlotHolders' = SlotHolders
    BY <2>1, ConnHolders
  <2> QED
    BY <2>1, <2>2 DEF Inv, OneJob
<1>14. ASSUME NEW c \in Conns, Respond(c) PROVE OneJob'
  <2>1. /\ \A d \in Conns \ {c} : conn'[d] = conn[d]
        /\ job' = job /\ UNCHANGED slot
        /\ conn[c] # "spawning" /\ conn'[c] # "spawning"
    BY <1>14 DEF Respond, Inv, TypeOK, AfterDrop
  <2>2. SlotHolders' = SlotHolders
    BY <2>1, ConnHolders
  <2> QED
    BY <2>1, <2>2 DEF Inv, OneJob
<1>15. ASSUME NEW c \in Conns, StartJob(c) PROVE OneJob'
  <2>0. (\A d \in Conns \ {c} : conn'[d] = conn[d]) /\ job' = job /\ conn[c] = "open"
    BY <1>15 DEF StartJob, Inv, TypeOK
  <2>1. CASE slot.running
    <3>1. conn'[c] = "leaving" /\ slot' = slot
      BY <1>15, <2>1 DEF StartJob, Inv, TypeOK
    <3>2. SlotHolders' = SlotHolders
      BY <2>0, <3>1, ConnHolders
    <3> QED
      BY <3>1, <3>2 DEF Inv, OneJob
  <2>2. CASE ~slot.running
    <3>1. slot'.running /\ conn'[c] = "spawning"
      BY <1>15, <2>2 DEF StartJob, begin, Inv, TypeOK
    <3>2. SlotHolders = {} /\ SlotHolders' = SlotHolders \cup {c}
      BY <2>0, <2>2, <3>1, ConnHolders DEF Inv, OneJob
    <3> QED
      BY <3>1, <3>2 DEF OneJob
  <2> QED
    BY <2>1, <2>2
<1>16. ASSUME NEW c \in Conns, Spawn(c) PROVE OneJob'
  <2>1. SlotHolders = {c}
    BY <1>16 DEF Spawn, Inv, OneJob, SlotHolders
  <2>2. CASE UNCHANGED job /\ slot' = [slot EXCEPT !.running = FALSE]
    <3>1. /\ \A d \in Conns \ {c} : conn'[d] = conn[d]
          /\ job' = job /\ conn'[c] # "spawning"
      BY <1>16, <2>2 DEF Spawn, Inv, TypeOK
    <3>2. SlotHolders' = {}
      BY <2>1, <3>1, ConnHolders
    <3> QED
      BY <2>2, <3>2 DEF OneJob, Inv, TypeOK
  <2>3. ASSUME NEW j \in Jobs, job' = [job EXCEPT ![j] = "spawned"], UNCHANGED slot
        PROVE  OneJob'
    <3>1. \A d \in Conns : conn'[d] # "spawning"
      BY <1>16, <2>1 DEF Spawn, SlotHolders, Inv, TypeOK
    <3>2. \A i \in Jobs : Active(i)' <=> i = j
      BY <2>1, <2>3, JobsAssumption DEF SlotHolders, Active, ActiveStates, Inv, TypeOK
    <3>3. SlotHolders' = {j}
      BY <3>1, <3>2 DEF SlotHolders
    <3>4. slot.running
      BY <2>1 DEF Inv, OneJob
    <3> QED
      BY <2>3, <3>3, <3>4 DEF OneJob
  <2> QED
    BY <1>16, <2>2, <2>3 DEF Spawn
<1>17. ASSUME NEW c \in Conns, DropConnGuard(c) PROVE OneJob'
  <2>1. /\ \A d \in Conns \ {c} : conn'[d] = conn[d]
        /\ job' = job /\ UNCHANGED slot
        /\ conn[c] # "spawning" /\ conn'[c] # "spawning"
    BY <1>17 DEF DropConnGuard, Inv, TypeOK, AfterDrop
  <2>2. SlotHolders' = SlotHolders
    BY <2>1, ConnHolders
  <2> QED
    BY <2>1, <2>2 DEF Inv, OneJob
<1>18. ASSUME NEW c \in Conns, NotifyByConn(c) PROVE OneJob'
  <2>1. /\ \A d \in Conns \ {c} : conn'[d] = conn[d]
        /\ job' = job /\ UNCHANGED slot
        /\ conn[c] # "spawning" /\ conn'[c] # "spawning"
    BY <1>18 DEF NotifyByConn, Inv, TypeOK, AfterDrop
  <2>2. SlotHolders' = SlotHolders
    BY <2>1, ConnHolders
  <2> QED
    BY <2>1, <2>2 DEF Inv, OneJob
<1>19. ASSUME NEW j \in Jobs, TakeGuard(j) PROVE OneJob'
  <2>1. /\ \A i \in Jobs \ {j} : job'[i] = job[i]
        /\ conn' = conn /\ UNCHANGED slot
        /\ job[j] \in ActiveStates <=> job'[j] \in ActiveStates
    BY <1>19 DEF TakeGuard, Inv, TypeOK, ActiveStates, AfterDrop
  <2>2. SlotHolders' = SlotHolders
    BY <2>1, JobHolders
  <2> QED
    BY <2>1, <2>2 DEF Inv, OneJob
<1>20. ASSUME NEW j \in Jobs, Work(j) PROVE OneJob'
  <2>1. /\ \A i \in Jobs \ {j} : job'[i] = job[i]
        /\ conn' = conn /\ job[j] \in ActiveStates /\ job'[j] \in ActiveStates
    BY <1>20 DEF Work, Inv, TypeOK, ActiveStates
  <2>2. SlotHolders' = SlotHolders
    BY <2>1, JobHolders
  <2>3. slot'.running = slot.running
    BY <1>20 DEF Work, Inv, TypeOK
  <2> QED
    BY <2>2, <2>3 DEF Inv, OneJob
<1>21. ASSUME NEW j \in Jobs, EndPass(j) PROVE OneJob'
  <2>1. /\ \A i \in Jobs \ {j} : job'[i] = job[i]
        /\ conn' = conn /\ UNCHANGED slot
        /\ job[j] \in ActiveStates <=> job'[j] \in ActiveStates
    BY <1>21 DEF EndPass, Inv, TypeOK, ActiveStates, AfterDrop
  <2>2. SlotHolders' = SlotHolders
    BY <2>1, JobHolders
  <2> QED
    BY <2>1, <2>2 DEF Inv, OneJob
<1>22. ASSUME NEW j \in Jobs, Sweep(j) PROVE OneJob'
  <2>1. /\ \A i \in Jobs \ {j} : job'[i] = job[i]
        /\ conn' = conn /\ UNCHANGED slot
        /\ job[j] \in ActiveStates <=> job'[j] \in ActiveStates
    BY <1>22 DEF Sweep, Inv, TypeOK, ActiveStates, AfterDrop
  <2>2. SlotHolders' = SlotHolders
    BY <2>1, JobHolders
  <2> QED
    BY <2>1, <2>2 DEF Inv, OneJob
<1>23. ASSUME NEW j \in Jobs, Fail(j) PROVE OneJob'
  <2>1. /\ \A i \in Jobs \ {j} : job'[i] = job[i]
        /\ conn' = conn /\ UNCHANGED slot
        /\ job[j] \in ActiveStates <=> job'[j] \in ActiveStates
    BY <1>23 DEF Fail, Inv, TypeOK, ActiveStates, AfterDrop
  <2>2. SlotHolders' = SlotHolders
    BY <2>1, JobHolders
  <2> QED
    BY <2>1, <2>2 DEF Inv, OneJob
<1>24. ASSUME NEW j \in Jobs, Finish(j) PROVE OneJob'
  <2>1. SlotHolders = {j}
    BY <1>24 DEF Finish, Inv, OneJob, SlotHolders, Active, ActiveStates
  <2>2. /\ \A i \in Jobs \ {j} : job'[i] = job[i]
        /\ conn' = conn /\ job'[j] \notin ActiveStates
    BY <1>24 DEF Finish, Inv, TypeOK, ActiveStates
  <2>3. SlotHolders' = {}
    BY <2>1, <2>2, JobHolders
  <2>4. ~slot'.running
    BY <1>24 DEF Finish, Inv, TypeOK
  <2> QED
    BY <2>3, <2>4 DEF OneJob
<1>25. ASSUME NEW j \in Jobs, DropJobGuard(j) PROVE OneJob'
  <2>1. /\ \A i \in Jobs \ {j} : job'[i] = job[i]
        /\ conn' = conn /\ UNCHANGED slot
        /\ job[j] \in ActiveStates <=> job'[j] \in ActiveStates
    BY <1>25 DEF DropJobGuard, Inv, TypeOK, ActiveStates, AfterDrop
  <2>2. SlotHolders' = SlotHolders
    BY <2>1, JobHolders
  <2> QED
    BY <2>1, <2>2 DEF Inv, OneJob
<1>26. ASSUME NEW j \in Jobs, NotifyByJob(j) PROVE OneJob'
  <2>1. /\ \A i \in Jobs \ {j} : job'[i] = job[i]
        /\ conn' = conn /\ UNCHANGED slot
        /\ job[j] \in ActiveStates <=> job'[j] \in ActiveStates
    BY <1>26 DEF NotifyByJob, Inv, TypeOK, ActiveStates, AfterDrop
  <2>2. SlotHolders' = SlotHolders
    BY <2>1, JobHolders
  <2> QED
    BY <2>1, <2>2 DEF Inv, OneJob
<1>27. CASE UNCHANGED vars
  BY <1>27, SameHolders DEF vars, Inv, OneJob
<1> QED
  BY <1>1, <1>2, <1>3, <1>4, <1>5, <1>6, <1>7, <1>8, <1>9, <1>10, <1>11,
     <1>12, <1>13, <1>14, <1>15, <1>16, <1>17, <1>18, <1>19, <1>20,
     <1>21, <1>22, <1>23, <1>24, <1>25, <1>26, <1>27
     DEF Next, ConnStep, JobStep, MainStep

(***************************************************************************)
(* Once the drain saw no guard, no connection is served again.             *)
(***************************************************************************)
LEMMA QuietStep == Inv /\ [Next]_vars => DrainedIsQuiet'
<1> SUFFICES ASSUME Inv, [Next]_vars PROVE DrainedIsQuiet'
  OBVIOUS
<1>1. CASE Request
  BY <1>1 DEF Request, Inv, TypeOK, DrainedIsQuiet, Busy, BusyStates, notify_all, AfterDrop
<1>2. CASE RequestNotify
  BY <1>2 DEF RequestNotify, Inv, TypeOK, DrainedIsQuiet, Busy, BusyStates, notify_all, AfterDrop
<1>3. CASE Waker
  BY <1>3 DEF Waker, Inv, TypeOK, DrainedIsQuiet, Busy, BusyStates, notify_all, AfterDrop
<1>4. CASE AcceptWaker
  BY <1>4 DEF AcceptWaker, Inv, TypeOK, DrainedIsQuiet, Busy, BusyStates, notify_all, AfterDrop
<1>5. CASE TestIdle
  <2>1. CASE in_flight = 0
    <3>1. Holders = {}
      BY <2>1, HoldersFinite, FS_EmptySet DEF Inv, GuardsCounted
    <3> QED
      BY <1>5, <3>1 DEF TestIdle, DrainedIsQuiet, Holders, Busy
  <2>2. CASE in_flight # 0
    BY <1>5, <2>2 DEF TestIdle, DrainedIsQuiet
  <2> QED
    BY <2>1, <2>2
<1>6. CASE Wait
  BY <1>6 DEF Wait, Inv, TypeOK, DrainedIsQuiet, Busy, BusyStates, notify_all, AfterDrop
<1>7. CASE TimedOut
  BY <1>7 DEF TimedOut, Inv, TypeOK, DrainedIsQuiet, Busy, BusyStates, notify_all, AfterDrop
<1>8. CASE WaitForJobs
  BY <1>8 DEF WaitForJobs, Inv, TypeOK, DrainedIsQuiet, Busy, BusyStates, notify_all, AfterDrop
<1>9. CASE SpuriousWake
  BY <1>9 DEF SpuriousWake, Inv, TypeOK, DrainedIsQuiet, Busy, BusyStates, notify_all, AfterDrop
<1>10. CASE Deadline
  BY <1>10 DEF Deadline, Inv, TypeOK, DrainedIsQuiet, Busy, BusyStates, notify_all, AfterDrop
<1>11. CASE Stopped
  BY <1>11 DEF Stopped, vars, Inv, DrainedIsQuiet, Busy
<1>12. ASSUME NEW c \in Conns, Connect(c) PROVE DrainedIsQuiet'
  BY <1>12 DEF Connect, Inv, TypeOK, DrainedIsQuiet, Busy, BusyStates, notify_all, AfterDrop
<1>13. ASSUME NEW c \in Conns, Accept(c) PROVE DrainedIsQuiet'
  BY <1>13 DEF Accept, Inv, TypeOK, DrainedIsQuiet, Busy, BusyStates, notify_all, AfterDrop
<1>14. ASSUME NEW c \in Conns, Respond(c) PROVE DrainedIsQuiet'
  BY <1>14 DEF Respond, Inv, TypeOK, DrainedIsQuiet, Busy, BusyStates, notify_all, AfterDrop
<1>15. ASSUME NEW c \in Conns, StartJob(c) PROVE DrainedIsQuiet'
  BY <1>15 DEF StartJob, Inv, TypeOK, DrainedIsQuiet, Busy, BusyStates, notify_all, AfterDrop
<1>16. ASSUME NEW c \in Conns, Spawn(c) PROVE DrainedIsQuiet'
  BY <1>16 DEF Spawn, Inv, TypeOK, DrainedIsQuiet, Busy, BusyStates, notify_all, AfterDrop
<1>17. ASSUME NEW c \in Conns, DropConnGuard(c) PROVE DrainedIsQuiet'
  BY <1>17 DEF DropConnGuard, Inv, TypeOK, DrainedIsQuiet, Busy, BusyStates, notify_all, AfterDrop
<1>18. ASSUME NEW c \in Conns, NotifyByConn(c) PROVE DrainedIsQuiet'
  BY <1>18 DEF NotifyByConn, Inv, TypeOK, DrainedIsQuiet, Busy, BusyStates, notify_all, AfterDrop
<1>19. ASSUME NEW j \in Jobs, TakeGuard(j) PROVE DrainedIsQuiet'
  BY <1>19 DEF TakeGuard, Inv, TypeOK, DrainedIsQuiet, Busy, BusyStates, notify_all, AfterDrop
<1>20. ASSUME NEW j \in Jobs, Work(j) PROVE DrainedIsQuiet'
  BY <1>20 DEF Work, Inv, TypeOK, DrainedIsQuiet, Busy, BusyStates, notify_all, AfterDrop
<1>21. ASSUME NEW j \in Jobs, EndPass(j) PROVE DrainedIsQuiet'
  BY <1>21 DEF EndPass, Inv, TypeOK, DrainedIsQuiet, Busy, BusyStates, notify_all, AfterDrop
<1>22. ASSUME NEW j \in Jobs, Sweep(j) PROVE DrainedIsQuiet'
  BY <1>22 DEF Sweep, Inv, TypeOK, DrainedIsQuiet, Busy, BusyStates, notify_all, AfterDrop
<1>23. ASSUME NEW j \in Jobs, Fail(j) PROVE DrainedIsQuiet'
  BY <1>23 DEF Fail, Inv, TypeOK, DrainedIsQuiet, Busy, BusyStates, notify_all, AfterDrop
<1>24. ASSUME NEW j \in Jobs, Finish(j) PROVE DrainedIsQuiet'
  BY <1>24 DEF Finish, Inv, TypeOK, DrainedIsQuiet, Busy, BusyStates, notify_all, AfterDrop
<1>25. ASSUME NEW j \in Jobs, DropJobGuard(j) PROVE DrainedIsQuiet'
  BY <1>25 DEF DropJobGuard, Inv, TypeOK, DrainedIsQuiet, Busy, BusyStates, notify_all, AfterDrop
<1>26. ASSUME NEW j \in Jobs, NotifyByJob(j) PROVE DrainedIsQuiet'
  BY <1>26 DEF NotifyByJob, Inv, TypeOK, DrainedIsQuiet, Busy, BusyStates, notify_all, AfterDrop
<1>27. CASE UNCHANGED vars
  BY <1>27 DEF vars, Inv, DrainedIsQuiet, Busy
<1> QED
  BY <1>1, <1>2, <1>3, <1>4, <1>5, <1>6, <1>7, <1>8, <1>9, <1>10, <1>11,
     <1>12, <1>13, <1>14, <1>15, <1>16, <1>17, <1>18, <1>19, <1>20,
     <1>21, <1>22, <1>23, <1>24, <1>25, <1>26, <1>27
     DEF Next, ConnStep, JobStep, MainStep

(***************************************************************************)
(* The process ends with success only when the slot is free, and nothing   *)
(* runs after it.                                                          *)
(***************************************************************************)
LEMMA IdleStep == Inv /\ [Next]_vars => FinishedIsIdle'
<1> SUFFICES ASSUME Inv, [Next]_vars PROVE FinishedIsIdle'
  OBVIOUS
<1>1. CASE Request
  BY <1>1 DEF Request, Inv, TypeOK, FinishedIsIdle, notify_all, AfterDrop, Alive
<1>2. CASE RequestNotify
  BY <1>2 DEF RequestNotify, Inv, TypeOK, FinishedIsIdle, notify_all, AfterDrop, Alive
<1>3. CASE Waker
  BY <1>3 DEF Waker, Inv, TypeOK, FinishedIsIdle, notify_all, AfterDrop, Alive
<1>4. CASE AcceptWaker
  BY <1>4 DEF AcceptWaker, Inv, TypeOK, FinishedIsIdle, notify_all, AfterDrop, Alive
<1>5. CASE TestIdle
  BY <1>5 DEF TestIdle, Inv, TypeOK, FinishedIsIdle, notify_all, AfterDrop, Alive
<1>6. CASE Wait
  BY <1>6 DEF Wait, Inv, TypeOK, FinishedIsIdle, notify_all, AfterDrop, Alive
<1>7. CASE TimedOut
  BY <1>7 DEF TimedOut, Inv, TypeOK, FinishedIsIdle, notify_all, AfterDrop, Alive
<1>8. CASE WaitForJobs
  BY <1>8, SameHolders DEF WaitForJobs, Inv, OneJob, FinishedIsIdle
<1>9. CASE SpuriousWake
  BY <1>9 DEF SpuriousWake, Inv, TypeOK, FinishedIsIdle, notify_all, AfterDrop, Alive
<1>10. CASE Deadline
  BY <1>10 DEF Deadline, Inv, TypeOK, FinishedIsIdle, notify_all, AfterDrop, Alive
<1>11. CASE Stopped
  BY <1>11, SameHolders DEF Stopped, vars, Inv, FinishedIsIdle
<1>12. ASSUME NEW c \in Conns, Connect(c) PROVE FinishedIsIdle'
  BY <1>12 DEF Connect, Inv, TypeOK, FinishedIsIdle, notify_all, AfterDrop, Alive
<1>13. ASSUME NEW c \in Conns, Accept(c) PROVE FinishedIsIdle'
  BY <1>13 DEF Accept, Inv, TypeOK, FinishedIsIdle, notify_all, AfterDrop, Alive
<1>14. ASSUME NEW c \in Conns, Respond(c) PROVE FinishedIsIdle'
  BY <1>14 DEF Respond, Inv, TypeOK, FinishedIsIdle, notify_all, AfterDrop, Alive
<1>15. ASSUME NEW c \in Conns, StartJob(c) PROVE FinishedIsIdle'
  BY <1>15 DEF StartJob, Inv, TypeOK, FinishedIsIdle, notify_all, AfterDrop, Alive
<1>16. ASSUME NEW c \in Conns, Spawn(c) PROVE FinishedIsIdle'
  BY <1>16 DEF Spawn, Inv, TypeOK, FinishedIsIdle, notify_all, AfterDrop, Alive
<1>17. ASSUME NEW c \in Conns, DropConnGuard(c) PROVE FinishedIsIdle'
  BY <1>17 DEF DropConnGuard, Inv, TypeOK, FinishedIsIdle, notify_all, AfterDrop, Alive
<1>18. ASSUME NEW c \in Conns, NotifyByConn(c) PROVE FinishedIsIdle'
  BY <1>18 DEF NotifyByConn, Inv, TypeOK, FinishedIsIdle, notify_all, AfterDrop, Alive
<1>19. ASSUME NEW j \in Jobs, TakeGuard(j) PROVE FinishedIsIdle'
  BY <1>19 DEF TakeGuard, Inv, TypeOK, FinishedIsIdle, notify_all, AfterDrop, Alive
<1>20. ASSUME NEW j \in Jobs, Work(j) PROVE FinishedIsIdle'
  BY <1>20 DEF Work, Inv, TypeOK, FinishedIsIdle, notify_all, AfterDrop, Alive
<1>21. ASSUME NEW j \in Jobs, EndPass(j) PROVE FinishedIsIdle'
  BY <1>21 DEF EndPass, Inv, TypeOK, FinishedIsIdle, notify_all, AfterDrop, Alive
<1>22. ASSUME NEW j \in Jobs, Sweep(j) PROVE FinishedIsIdle'
  BY <1>22 DEF Sweep, Inv, TypeOK, FinishedIsIdle, notify_all, AfterDrop, Alive
<1>23. ASSUME NEW j \in Jobs, Fail(j) PROVE FinishedIsIdle'
  BY <1>23 DEF Fail, Inv, TypeOK, FinishedIsIdle, notify_all, AfterDrop, Alive
<1>24. ASSUME NEW j \in Jobs, Finish(j) PROVE FinishedIsIdle'
  BY <1>24 DEF Finish, Inv, TypeOK, FinishedIsIdle, notify_all, AfterDrop, Alive
<1>25. ASSUME NEW j \in Jobs, DropJobGuard(j) PROVE FinishedIsIdle'
  BY <1>25 DEF DropJobGuard, Inv, TypeOK, FinishedIsIdle, notify_all, AfterDrop, Alive
<1>26. ASSUME NEW j \in Jobs, NotifyByJob(j) PROVE FinishedIsIdle'
  BY <1>26 DEF NotifyByJob, Inv, TypeOK, FinishedIsIdle, notify_all, AfterDrop, Alive
<1>27. CASE UNCHANGED vars
  BY <1>27, SameHolders DEF vars, Inv, FinishedIsIdle
<1> QED
  BY <1>1, <1>2, <1>3, <1>4, <1>5, <1>6, <1>7, <1>8, <1>9, <1>10, <1>11,
     <1>12, <1>13, <1>14, <1>15, <1>16, <1>17, <1>18, <1>19, <1>20,
     <1>21, <1>22, <1>23, <1>24, <1>25, <1>26, <1>27
     DEF Next, ConnStep, JobStep, MainStep

(***************************************************************************)
(* A step that writes no count, starts no spawn and makes no job active    *)
(* keeps the progress current.                                             *)
(***************************************************************************)
LEMMA ProgressKept ==
  ASSUME Inv, slot'.kind = slot.kind, slot'.count = slot.count, done' = done,
         \A c \in Conns : conn'[c] = "spawning" => conn[c] = "spawning",
         \A j \in Jobs : job'[j] \in ActiveStates => job[j] \in ActiveStates,
         \A j \in Jobs : job'[j] = "none" => job[j] = "none"
  PROVE  ProgressCurrent'
  BY DEF Inv, ProgressCurrent, Active

(***************************************************************************)
(* Every step keeps the count in the slot that of the active job.          *)
(***************************************************************************)
LEMMA ProgressStep == Inv /\ [Next]_vars => ProgressCurrent'
<1> SUFFICES ASSUME Inv, [Next]_vars PROVE ProgressCurrent'
  OBVIOUS
<1> USE DEF ActiveStates
<1>1. CASE Request
  BY <1>1, ProgressKept DEF Request
<1>2. CASE RequestNotify
  BY <1>2, ProgressKept DEF RequestNotify
<1>3. CASE Waker
  BY <1>3, ProgressKept DEF Waker
<1>4. CASE AcceptWaker
  BY <1>4, ProgressKept DEF AcceptWaker
<1>5. CASE TestIdle
  BY <1>5, ProgressKept DEF TestIdle
<1>6. CASE Wait
  BY <1>6, ProgressKept DEF Wait
<1>7. CASE TimedOut
  BY <1>7, ProgressKept DEF TimedOut
<1>8. CASE WaitForJobs
  BY <1>8, ProgressKept DEF WaitForJobs
<1>9. CASE SpuriousWake
  BY <1>9, ProgressKept DEF SpuriousWake
<1>10. CASE Deadline
  BY <1>10, ProgressKept DEF Deadline
<1>11. CASE Stopped
  BY <1>11, ProgressKept DEF Stopped, vars
<1>12. ASSUME NEW c \in Conns, Connect(c) PROVE ProgressCurrent'
  BY <1>12, ProgressKept DEF Connect, Inv, TypeOK
<1>13. ASSUME NEW c \in Conns, Accept(c) PROVE ProgressCurrent'
  BY <1>13, ProgressKept DEF Accept, Inv, TypeOK
<1>14. ASSUME NEW c \in Conns, Respond(c) PROVE ProgressCurrent'
  BY <1>14, ProgressKept DEF Respond, Inv, TypeOK
<1>15. ASSUME NEW c \in Conns, StartJob(c) PROVE ProgressCurrent'
  <2>1. CASE slot.running
    BY <1>15, <2>1, ProgressKept DEF StartJob, Inv, TypeOK
  <2>2. CASE ~slot.running
    <3>1. PICK kind \in Kinds : begin(kind)
      BY <1>15, <2>2 DEF StartJob
    <3>2. slot'.count[slot'.kind] = 0
      BY <3>1 DEF begin, Inv, TypeOK
    <3>3. \A j \in Jobs : job[j] \notin ActiveStates
      BY <2>2 DEF Inv, OneJob, SlotHolders, Active
    <3> QED
      BY <1>15, <3>2, <3>3 DEF StartJob, Inv, ProgressCurrent, Active
  <2> QED
    BY <2>1, <2>2
<1>16. ASSUME NEW c \in Conns, Spawn(c) PROVE ProgressCurrent'
  <2>1. CASE slot' = [slot EXCEPT !.running = FALSE] /\ UNCHANGED job
    BY <1>16, <2>1, ProgressKept DEF Spawn, Inv, TypeOK
  <2>2. ASSUME NEW j \in Jobs, job[j] = "none",
               job' = [job EXCEPT ![j] = "spawned"], UNCHANGED slot
        PROVE  ProgressCurrent'
    <3>1. done[j] = 0 /\ slot.count[slot.kind] = 0
      BY <1>16, <2>2 DEF Spawn, Inv, ProgressCurrent
    <3> QED
      BY <1>16, <2>2, <3>1 DEF Spawn, Inv, TypeOK, ProgressCurrent, Active
  <2> QED
    BY <1>16, <2>1, <2>2 DEF Spawn
<1>17. ASSUME NEW c \in Conns, DropConnGuard(c) PROVE ProgressCurrent'
  BY <1>17, ProgressKept DEF DropConnGuard, Inv, TypeOK, AfterDrop
<1>18. ASSUME NEW c \in Conns, NotifyByConn(c) PROVE ProgressCurrent'
  BY <1>18, ProgressKept DEF NotifyByConn, Inv, TypeOK
<1>19. ASSUME NEW j \in Jobs, TakeGuard(j) PROVE ProgressCurrent'
  BY <1>19, ProgressKept DEF TakeGuard, Inv, TypeOK
<1>20. ASSUME NEW j \in Jobs, Work(j) PROVE ProgressCurrent'
  <2>1. j \in SlotHolders
    BY <1>20 DEF Work, SlotHolders, Active
  <2>2. \A i \in Jobs \ {j} : job'[i] = job[i] /\ job[i] \notin ActiveStates
    BY <1>20, <2>1 DEF Work, Inv, TypeOK, OneJob, SlotHolders, Active
  <2>3. \A c \in Conns : conn'[c] # "spawning"
    BY <1>20, <2>1, JobsAssumption DEF Work, Inv, OneJob, SlotHolders
  <2>4. slot'.count[slot'.kind] = done'[j]
    BY <1>20 DEF Work, Inv, TypeOK
  <2>5. job'[j] # "none" /\ \A i \in Jobs \ {j} : done'[i] = done[i]
    BY <1>20 DEF Work, Inv, TypeOK
  <2> QED
    BY <2>2, <2>3, <2>4, <2>5 DEF Inv, ProgressCurrent, Active
<1>21. ASSUME NEW j \in Jobs, EndPass(j) PROVE ProgressCurrent'
  BY <1>21, ProgressKept DEF EndPass, Inv, TypeOK
<1>22. ASSUME NEW j \in Jobs, Sweep(j) PROVE ProgressCurrent'
  BY <1>22, ProgressKept DEF Sweep, Inv, TypeOK
<1>23. ASSUME NEW j \in Jobs, Fail(j) PROVE ProgressCurrent'
  BY <1>23, ProgressKept DEF Fail, Inv, TypeOK
<1>24. ASSUME NEW j \in Jobs, Finish(j) PROVE ProgressCurrent'
  BY <1>24, ProgressKept DEF Finish, Inv, TypeOK
<1>25. ASSUME NEW j \in Jobs, DropJobGuard(j) PROVE ProgressCurrent'
  BY <1>25, ProgressKept DEF DropJobGuard, Inv, TypeOK, AfterDrop
<1>26. ASSUME NEW j \in Jobs, NotifyByJob(j) PROVE ProgressCurrent'
  BY <1>26, ProgressKept DEF NotifyByJob, Inv, TypeOK
<1>27. CASE UNCHANGED vars
  BY <1>27, ProgressKept DEF vars
<1> QED
  BY <1>1, <1>2, <1>3, <1>4, <1>5, <1>6, <1>7, <1>8, <1>9, <1>10, <1>11,
     <1>12, <1>13, <1>14, <1>15, <1>16, <1>17, <1>18, <1>19, <1>20,
     <1>21, <1>22, <1>23, <1>24, <1>25, <1>26, <1>27
     DEF Next, ConnStep, JobStep, MainStep

-----------------------------------------------------------------------------
(***************************************************************************)
(* The inductive invariant holds in every reachable state.                 *)
(***************************************************************************)
THEOREM InvHolds == Spec => []Inv
<1>1. Inv /\ [Next]_vars => Inv'
  BY TypeStep, GuardsStep, SlotStep, QuietStep, IdleStep, ProgressStep DEF Inv
<1> QED
  BY InitInv, <1>1, PTL DEF Spec

(***************************************************************************)
(* Shutdown::in_flight always equals the number of live guards, however    *)
(* connections, jobs and the drain interleave.                             *)
(***************************************************************************)
THEOREM GuardsAlwaysCounted == Spec => []GuardsCounted
<1>1. Inv => GuardsCounted
  BY DEF Inv
<1> QED
  BY InvHolds, <1>1, PTL

(***************************************************************************)
(* At most one background job runs, and the slot is free once it is over.  *)
(***************************************************************************)
THEOREM AlwaysOneJob == Spec => []OneJob
<1>1. Inv => OneJob
  BY DEF Inv
<1> QED
  BY InvHolds, <1>1, PTL

(***************************************************************************)
(* A process that exits after both waits reported success cut no request   *)
(* and no job off, a job that had not yet taken its guard included.        *)
(***************************************************************************)
THEOREM ExitsAreClean == Spec => []CleanExit
<1>1. Inv => CleanExit
  BY DEF Inv, CleanExit, DrainedIsQuiet, FinishedIsIdle, SlotHolders
<1> QED
  BY InvHolds, <1>1, PTL

(***************************************************************************)
(* While a job is starting or running the slot is taken, and the count the *)
(* status endpoint reads is that job's own, never an earlier job's.        *)
(***************************************************************************)
THEOREM StatusAlwaysCurrent == Spec => []StatusIsCurrent
<1>1. Inv => StatusIsCurrent
  BY DEF Inv, OneJob, SlotHolders, ProgressCurrent, StatusIsCurrent
<1> QED
  BY InvHolds, <1>1, PTL

=============================================================================
