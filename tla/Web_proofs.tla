----------------------------- MODULE Web_proofs -----------------------------
(***************************************************************************)
(* Offline downloads of the web application.                               *)
(*                                                                         *)
(* Installed-Package Usability, for any plan, any critical assets, any     *)
(* versions and number of installs, and whatever overlaps.  An install     *)
(* holds, or has still to download, every critical asset (Good); so the    *)
(* record it publishes lacks none.  Records that lost assets to the audit, *)
(* or were put back by an update check, are flagged.                       *)
(***************************************************************************)
EXTENDS Offline, SequenceTheorems, TLAPS

Good(state) ==
  /\ state.pc = "stage" => state.todo # << >>
                           /\ Critical \subseteq Keys(state.have) \cup Keys(state.todo)
  /\ state.pc \in {"commit", "publish"} => Critical \subseteq Keys(state.have)
  /\ state.pc \notin {"new", "over"} => state.version \in Versions

RunsGood == \A r \in Runs : Good(run[r])

IInv ==
  /\ TypeOK
  /\ RunsGood
  /\ boot.pc = "apply" => boot.pkg \in Packages
  /\ CriticalComplete

-----------------------------------------------------------------------------
LEMMA HeadAndTail ==
  ASSUME NEW S, NEW list \in Seq(S), list # << >>
  PROVE  /\ Head(list) \in S /\ Tail(list) \in Seq(S)
         /\ Keys(list) = {Head(list)} \cup Keys(Tail(list))
<1>1. Head(list) \in S /\ Tail(list) \in Seq(S)
  OBVIOUS
<1>2. Len(list) \in Nat \ {0} /\ Len(Tail(list)) = Len(list) - 1 /\ Head(list) = list[1]
  OBVIOUS
<1>3. \A i \in 1..Len(list) - 1 : Tail(list)[i] = list[i + 1]
  OBVIOUS
<1>4. DOMAIN list = 1..Len(list) /\ DOMAIN Tail(list) = 1..Len(list) - 1
  BY <1>1, <1>2
<1>5. ASSUME NEW i \in DOMAIN list PROVE list[i] \in {Head(list)} \cup Keys(Tail(list))
  <2>1. CASE i = 1
    BY <1>2, <2>1
  <2>2. CASE i # 1
    <3>1. i - 1 \in DOMAIN Tail(list) /\ Tail(list)[i - 1] = list[i]
      BY <1>2, <1>3, <1>4, <2>2
    <3> QED
      BY <3>1 DEF Keys
  <2> QED
    BY <2>1, <2>2
<1>6. ASSUME NEW i \in DOMAIN Tail(list) PROVE Tail(list)[i] \in Keys(list)
  <2>1. i + 1 \in DOMAIN list /\ Tail(list)[i] = list[i + 1]
    BY <1>2, <1>3, <1>4
  <2> QED
    BY <2>1 DEF Keys
<1>7. Head(list) \in Keys(list)
  <2>1. 1 \in DOMAIN list
    BY <1>2, <1>4
  <2> QED
    BY <1>2, <2>1 DEF Keys
<1> QED
  BY <1>1, <1>5, <1>6, <1>7 DEF Keys

LEMMA AppendKeys ==
  ASSUME NEW S, NEW list \in Seq(S), NEW a \in S
  PROVE  Append(list, a) \in Seq(S) /\ Keys(Append(list, a)) = Keys(list) \cup {a}
<1>1. /\ Append(list, a) \in Seq(S) /\ Len(list) \in Nat
      /\ Len(Append(list, a)) = Len(list) + 1
      /\ DOMAIN list = 1..Len(list) /\ DOMAIN Append(list, a) = 1..Len(list) + 1
      /\ \A i \in 1..Len(list) : Append(list, a)[i] = list[i]
      /\ Append(list, a)[Len(list) + 1] = a
  OBVIOUS
<1>2. \A i \in DOMAIN Append(list, a) : Append(list, a)[i] \in Keys(list) \cup {a}
  BY <1>1 DEF Keys
<1>3. \A i \in DOMAIN list : list[i] \in Keys(Append(list, a))
  BY <1>1 DEF Keys
<1>4. a \in Keys(Append(list, a))
  BY <1>1 DEF Keys
<1> QED
  BY <1>1, <1>2, <1>3, <1>4 DEF Keys

LEMMA KeysOf ==
  ASSUME NEW S, NEW list \in Seq(S)
  PROVE  Keys(list) \subseteq S
  BY DEF Keys

LEMMA OnwardGood ==
  ASSUME NEW state \in RunStates, state.pc = "stage", state.version \in Versions,
         Critical \subseteq Keys(state.have) \cup Keys(state.todo)
  PROVE  Onward(state) \in RunStates /\ Good(Onward(state))
<1>1. CASE state.todo = << >>
  <2>1. Onward(state) = [state EXCEPT !.pc = "commit", !.todo = state.have]
    BY <1>1 DEF Onward
  <2>2. Critical \subseteq Keys(state.have)
    BY <1>1 DEF Keys
  <2> QED
    BY <2>1, <2>2 DEF RunStates, Good
<1>2. CASE state.todo # << >> /\ state.aborted
  <2>1. Onward(state) = [state EXCEPT !.pc = "fail"]
    BY <1>2 DEF Onward, Failing
  <2> QED
    BY <2>1 DEF RunStates, Good
<1>3. CASE state.todo # << >> /\ ~state.aborted
  <2>1. Onward(state) = state
    BY <1>3 DEF Onward
  <2> QED
    BY <1>3, <2>1 DEF Good
<1> QED
  BY <1>1, <1>2, <1>3

LEMMA NotStartedGood == NotStarted \in RunStates /\ Good(NotStarted)
<1>1. << >> \in Seq(Assets)
  OBVIOUS
<1> QED
  BY <1>1 DEF NotStarted, RunStates, Good

LEMMA OverGood ==
  ASSUME NEW state \in RunStates
  PROVE  Over(state) \in RunStates /\ Good(Over(state)) /\ Over(state).pc = "over"
<1>1. Over(state) = [NotStarted EXCEPT !.pc = "over", !.staged = state.staged]
  BY DEF Over
<1>2. Over(state) \in RunStates /\ Over(state).pc = "over"
  BY <1>1, NotStartedGood DEF RunStates
<1> QED
  BY <1>2 DEF Good

LEMMA AbortedGood ==
  ASSUME NEW state \in RunStates, Good(state)
  PROVE  /\ [state EXCEPT !.aborted = TRUE] \in RunStates
         /\ Good([state EXCEPT !.aborted = TRUE])
<1> DEFINE new == [state EXCEPT !.aborted = TRUE]
<1>1. /\ new \in RunStates /\ new.pc = state.pc /\ new.todo = state.todo
      /\ new.have = state.have /\ new.version = state.version
  BY DEF RunStates
<1> HIDE DEF new
<1>2. Good(new)
  BY <1>1 DEF Good
<1> QED
  BY <1>1, <1>2 DEF new

LEMMA UnstagedGood ==
  ASSUME NEW state \in RunStates, Good(state)
  PROVE  /\ [state EXCEPT !.staged = {}] \in RunStates
         /\ Good([state EXCEPT !.staged = {}])
<1> DEFINE new == [state EXCEPT !.staged = {}]
<1>1. /\ new \in RunStates /\ new.pc = state.pc /\ new.todo = state.todo
      /\ new.have = state.have /\ new.version = state.version
  BY DEF RunStates
<1> HIDE DEF new
<1>2. Good(new)
  BY <1>1 DEF Good
<1> QED
  BY <1>1, <1>2 DEF new

(***************************************************************************)
(* What IInv says of the boot and of an update check.                      *)
(***************************************************************************)
LEMMA BootTyped ==
  ASSUME IInv, boot.pc = "apply"
  PROVE  boot.pkg \in Packages /\ boot.damaged \in SUBSET Assets
<1>1. boot.pkg \in Packages
  BY DEF IInv
<1>2. boot \in [pc : {"hydrate", "sweep", "audit", "reread", "apply", "idle"},
                damaged : SUBSET Assets, pkg : Packages \cup {None}]
  BY DEF IInv, TypeOK
<1> QED
  BY <1>1, <1>2

LEMMA CheckedTyped ==
  ASSUME IInv, checked # None
  PROVE  checked \in Packages
  BY Zenon DEF IInv, TypeOK

LEMMA BecomesGood ==
  ASSUME IInv, NEW r \in Runs, NEW state \in RunStates, Good(state), Becomes(r, state)
  PROVE  run' \in [Runs -> RunStates] /\ RunsGood'
  BY DEF IInv, TypeOK, RunsGood, Becomes

(***************************************************************************)
(* What is left to show of a step that changes run alone.                  *)
(***************************************************************************)
LEMMA OnlyRun ==
  ASSUME IInv, run' \in [Runs -> RunStates], RunsGood',
         UNCHANGED <<files, record, active, available, boot, removing, checked, failures>>
  PROVE  IInv'
  BY DEF IInv, TypeOK, RunsGood, Good, CriticalComplete

-----------------------------------------------------------------------------
LEMMA InstallKeeps ==
  ASSUME IInv, NEW version \in Versions, install(version)
  PROVE  IInv'
<1>1. PICK r \in Runs :
        /\ run' = [q \in Runs |->
                     IF q = r THEN [NotStarted EXCEPT !.pc = "stage", !.version = version,
                                                      !.todo = Plan]
                     ELSE IF q = active THEN [run[q] EXCEPT !.aborted = TRUE]
                     ELSE run[q]]
        /\ active' = r
  BY DEF install
<1>2. UNCHANGED <<files, record, available, boot, removing, checked, failures>>
  BY DEF install
<1> DEFINE new == [NotStarted EXCEPT !.pc = "stage", !.version = version, !.todo = Plan]
<1>3. new \in RunStates /\ Good(new)
  <2>1. Plan \in Seq(Assets) /\ Plan # << >> /\ Critical \subseteq Keys(Plan)
    BY PlanAssumption DEF Assets
  <2>2. new \in RunStates /\ new.pc = "stage" /\ new.todo = Plan /\ new.version = version
    BY <2>1, NotStartedGood DEF RunStates
  <2> QED
    BY <2>1, <2>2 DEF Good
<1> HIDE DEF new
<1>4. ASSUME NEW q \in Runs
      PROVE  [run[q] EXCEPT !.aborted = TRUE] \in RunStates
             /\ Good([run[q] EXCEPT !.aborted = TRUE])
  BY AbortedGood DEF IInv, TypeOK, RunsGood
<1>5. run' = [q \in Runs |-> IF q = r THEN new
                             ELSE IF q = active THEN [run[q] EXCEPT !.aborted = TRUE]
                             ELSE run[q]]
  BY <1>1 DEF new
<1>6. run' \in [Runs -> RunStates] /\ RunsGood'
  BY <1>3, <1>4, <1>5 DEF IInv, TypeOK, RunsGood
<1> QED
  BY <1>1, <1>2, <1>6 DEF IInv, TypeOK, RunsGood, Good, CriticalComplete

LEMMA CancelKeeps ==
  ASSUME IInv, cancel
  PROVE  IInv'
<1>1. active \in Runs /\ Becomes(active, [run[active] EXCEPT !.aborted = TRUE])
  BY DEF cancel, IInv, TypeOK, Becomes
<1>2. /\ [run[active] EXCEPT !.aborted = TRUE] \in RunStates
      /\ Good([run[active] EXCEPT !.aborted = TRUE])
  BY <1>1, AbortedGood DEF IInv, TypeOK, RunsGood
<1> QED
  BY <1>1, <1>2, BecomesGood, OnlyRun DEF cancel

LEMMA StageKeeps ==
  ASSUME IInv, NEW r \in Runs, Stage(r)
  PROVE  IInv'
<1> DEFINE a == Head(run[r].todo)
<1>1. /\ run[r] \in RunStates /\ run[r].pc = "stage" /\ run[r].version \in Versions
      /\ run[r].todo # << >>
      /\ Critical \subseteq Keys(run[r].have) \cup Keys(run[r].todo)
  BY DEF IInv, TypeOK, RunsGood, Good, Stage, StageOk, StageDamaged, StageFails
<1>2. run[r].todo \in Seq(Assets) /\ run[r].have \in Seq(Assets)
  BY <1>1 DEF RunStates
<1>3. a \in Assets /\ Tail(run[r].todo) \in Seq(Assets)
      /\ Keys(run[r].todo) = {a} \cup Keys(Tail(run[r].todo))
  BY <1>1, <1>2, HeadAndTail
<1>4. /\ Append(run[r].have, a) \in Seq(Assets)
      /\ Keys(Append(run[r].have, a)) = Keys(run[r].have) \cup {a}
  BY <1>2, <1>3, AppendKeys
<1>5. Failing(run[r]) \in RunStates /\ Good(Failing(run[r]))
  BY <1>1 DEF Failing, RunStates, Good
<1>6. CASE StageOk(r)
  <2> DEFINE x == [run[r] EXCEPT !.todo = Tail(@), !.have = Append(@, a), !.staged = @ \cup {a}]
  <2>1. /\ x \in RunStates /\ x.pc = "stage" /\ x.version \in Versions
        /\ x.have = Append(run[r].have, a) /\ x.todo = Tail(run[r].todo)
    BY <1>1, <1>3, <1>4 DEF RunStates
  <2>2. Becomes(r, Onward(x))
    BY <1>6 DEF StageOk
  <2> HIDE DEF x
  <2>3. Critical \subseteq Keys(x.have) \cup Keys(x.todo)
    BY <1>1, <1>3, <1>4, <2>1
  <2>4. Onward(x) \in RunStates /\ Good(Onward(x))
    BY <2>1, <2>3, OnwardGood
  <2>5. run' \in [Runs -> RunStates] /\ RunsGood'
    BY <2>2, <2>4, BecomesGood
  <2> QED
    BY <2>5, OnlyRun DEF Stage
<1>7. CASE StageDamaged(r)
  <2> DEFINE x == [run[r] EXCEPT !.todo = Tail(@)]
  <2>1. CASE run[r].aborted \/ a \in Critical
    <3>1. Becomes(r, Failing(run[r]))
      BY <1>7, <2>1 DEF StageDamaged
    <3>2. run' \in [Runs -> RunStates] /\ RunsGood'
      BY <1>5, <3>1, BecomesGood
    <3> QED
      BY <3>2, OnlyRun DEF Stage
  <2>2. CASE ~(run[r].aborted \/ a \in Critical)
    <3>1. /\ x \in RunStates /\ x.pc = "stage" /\ x.version \in Versions
          /\ x.have = run[r].have /\ x.todo = Tail(run[r].todo)
      BY <1>1, <1>3 DEF RunStates
    <3>2. Becomes(r, Onward(x))
      BY <1>7, <2>2 DEF StageDamaged
    <3> HIDE DEF x
    <3>3. Critical \subseteq Keys(x.have) \cup Keys(x.todo)
      BY <1>1, <1>3, <2>2, <3>1
    <3>4. Onward(x) \in RunStates /\ Good(Onward(x))
      BY <3>1, <3>3, OnwardGood
    <3>5. run' \in [Runs -> RunStates] /\ RunsGood'
      BY <3>2, <3>4, BecomesGood
    <3> QED
      BY <3>5, OnlyRun DEF Stage
  <2> QED
    BY <2>1, <2>2
<1>8. CASE StageFails(r)
  <2>1. run' \in [Runs -> RunStates] /\ RunsGood'
    BY <1>5, <1>8, BecomesGood DEF StageFails
  <2> QED
    BY <2>1, OnlyRun DEF Stage
<1> QED
  BY <1>6, <1>7, <1>8 DEF Stage

LEMMA CommitKeeps ==
  ASSUME IInv, NEW r \in Runs, Commit(r)
  PROVE  IInv'
<1>1. /\ run[r] \in RunStates /\ run[r].pc = "commit" /\ run[r].version \in Versions
      /\ Critical \subseteq Keys(run[r].have)
  BY DEF IInv, TypeOK, RunsGood, Good, Commit
<1>2. run[r].todo \in Seq(Assets) /\ run[r].todo # << >>
  BY <1>1 DEF Commit, RunStates
<1>3. Tail(run[r].todo) \in Seq(Assets)
  BY <1>2, HeadAndTail
<1>4. files' \in [Assets -> Versions \cup {Empty, Lost, None}]
  BY <1>1 DEF IInv, TypeOK, Commit
<1> DEFINE x == [run[r] EXCEPT !.todo = Tail(@)]
<1>5. x \in RunStates /\ Good(x)
  BY <1>1, <1>3 DEF RunStates, Good
<1>6. Becomes(r, x)
  BY DEF Commit
<1> HIDE DEF x
<1>7. run' \in [Runs -> RunStates] /\ RunsGood'
  BY <1>5, <1>6, BecomesGood
<1> QED
  BY <1>4, <1>7 DEF IInv, TypeOK, RunsGood, Good, CriticalComplete, Commit

LEMMA ClearStagingKeeps ==
  ASSUME IInv, NEW r \in Runs, ClearStaging(r)
  PROVE  IInv'
<1>1. run[r] \in RunStates /\ Good(run[r]) /\ run[r].pc = "commit"
  BY DEF IInv, TypeOK, RunsGood, ClearStaging
<1> DEFINE x == [run[r] EXCEPT !.pc = "publish", !.staged = {}]
<1>2. x \in RunStates /\ Good(x) /\ Becomes(r, x)
  BY <1>1 DEF RunStates, Good, ClearStaging
<1> HIDE DEF x
<1> QED
  BY <1>2, BecomesGood, OnlyRun DEF ClearStaging

LEMMA PublishKeeps ==
  ASSUME IInv, NEW r \in Runs, Publish(r)
  PROVE  IInv'
<1>1. /\ run[r] \in RunStates /\ Good(run[r]) /\ run[r].version \in Versions
      /\ run[r].have \in Seq(Assets) /\ Critical \subseteq Keys(run[r].have)
  BY DEF IInv, TypeOK, RunsGood, Good, RunStates, Publish
<1> DEFINE x == [run[r] EXCEPT !.pc = "done"]
<1>2. x \in RunStates /\ Good(x) /\ Becomes(r, x)
  BY <1>1 DEF RunStates, Good, Publish
<1> HIDE DEF x
<1>3. run' \in [Runs -> RunStates] /\ RunsGood'
  BY <1>2, BecomesGood
<1>4. /\ record' \in Packages /\ Critical \subseteq record'.assets
  <2>1. Keys(run[r].have) \subseteq Assets
    BY <1>1, KeysOf
  <2>2. record' = [status |-> "installed", version |-> run[r].version,
                   assets |-> Keys(run[r].have), stale |-> FALSE]
    BY DEF Publish
  <2> QED
    BY <1>1, <2>1, <2>2 DEF Packages
<1> QED
  BY <1>3, <1>4 DEF IInv, TypeOK, RunsGood, Good, CriticalComplete, Publish

LEMMA FailureKeeps ==
  ASSUME IInv, NEW r \in Runs, CommitFails(r) \/ PublishFails(r) \/ Unstage(r)
  PROVE  IInv'
<1>1. /\ run[r] \in RunStates /\ run[r].version \in Versions
  BY DEF IInv, TypeOK, RunsGood, Good, CommitFails, PublishFails, Unstage
<1>2. CASE CommitFails(r) \/ PublishFails(r)
  <2>1. Failing(run[r]) \in RunStates /\ Good(Failing(run[r]))
    BY <1>1 DEF Failing, RunStates, Good
  <2>2. run' \in [Runs -> RunStates] /\ RunsGood'
    BY <1>2, <2>1, BecomesGood DEF CommitFails, PublishFails
  <2>3. files' \in [Assets -> Versions \cup {Empty, Lost, None}]
    BY <1>2 DEF CommitFails, PublishFails, IInv, TypeOK
  <2>4. UNCHANGED <<record, active, available, boot, removing, checked, failures>>
    BY <1>2 DEF CommitFails, PublishFails
  <2> QED
    BY <2>2, <2>3, <2>4 DEF IInv, TypeOK, RunsGood, Good, CriticalComplete
<1>3. CASE Unstage(r)
  <2> DEFINE x == [run[r] EXCEPT !.pc = "record", !.staged = {}]
  <2>1. x \in RunStates /\ Good(x) /\ Becomes(r, x)
    BY <1>1, <1>3 DEF RunStates, Good, Unstage
  <2> HIDE DEF x
  <2> QED
    BY <1>3, <2>1, BecomesGood, OnlyRun DEF Unstage
<1> QED
  BY <1>2, <1>3

LEMMA RecordFailureKeeps ==
  ASSUME IInv, NEW r \in Runs, RecordFailure(r)
  PROVE  IInv'
<1>1. run[r] \in RunStates /\ run[r].version \in Versions
  BY DEF IInv, TypeOK, RunsGood, Good, RecordFailure
<1> DEFINE x == [run[r] EXCEPT !.pc = "failed"]
           failure == [status |-> "failed", version |-> run[r].version, assets |-> {},
                       stale |-> FALSE]
<1>2. x \in RunStates /\ Good(x) /\ Becomes(r, x)
  BY <1>1 DEF RunStates, Good, RecordFailure
<1>3. failure \in Packages /\ ~IsInstalled(failure)
  BY <1>1 DEF Packages, IsInstalled
<1>4. record' \in {record, failure}
  BY DEF RecordFailure
<1> HIDE DEF x, failure
<1>5. run' \in [Runs -> RunStates] /\ RunsGood'
  BY <1>2, BecomesGood
<1> QED
  BY <1>3, <1>4, <1>5 DEF IInv, TypeOK, RunsGood, Good, CriticalComplete, RecordFailure

LEMMA SettleKeeps ==
  ASSUME IInv, NEW r \in Runs, Settle(r)
  PROVE  IInv'
<1>1. /\ run[r] \in RunStates /\ run[r].version \in Versions
  BY DEF IInv, TypeOK, RunsGood, Good, Settle
<1> DEFINE x == IF run[r].pc = "done" THEN [run[r] EXCEPT !.pc = "refresh"] ELSE Over(run[r])
<1>2. x \in RunStates /\ Good(x) /\ Becomes(r, x)
  <2>1. Becomes(r, x)
    BY DEF Settle
  <2>2. CASE run[r].pc = "done"
    BY <1>1, <2>1, <2>2 DEF RunStates, Good
  <2> QED
    BY <1>1, <2>1, <2>2, OverGood
<1> HIDE DEF x
<1>3. run' \in [Runs -> RunStates] /\ RunsGood'
  BY <1>2, BecomesGood
<1> QED
  BY <1>3 DEF IInv, TypeOK, RunsGood, Good, CriticalComplete, Settle

LEMMA RefreshKeeps ==
  ASSUME IInv, NEW r \in Runs, Refresh(r) \/ RefreshFails(r)
  PROVE  IInv'
<1>1. run[r] \in RunStates /\ Becomes(r, Over(run[r]))
  BY DEF IInv, TypeOK, Refresh, RefreshFails
<1>2. run' \in [Runs -> RunStates] /\ RunsGood'
  BY <1>1, OverGood, BecomesGood
<1>3. CASE Refresh(r)
  BY <1>2, <1>3 DEF IInv, TypeOK, RunsGood, Good, CriticalComplete, IsInstalled, Refresh
<1>4. CASE RefreshFails(r)
  BY <1>2, <1>4 DEF IInv, TypeOK, RunsGood, Good, CriticalComplete, RefreshFails
<1> QED
  BY <1>3, <1>4

LEMMA RunStepKeeps ==
  ASSUME IInv, NEW r \in Runs, RunStep(r)
  PROVE  IInv'
BY StageKeeps, CommitKeeps, ClearStagingKeeps, PublishKeeps, FailureKeeps,
   RecordFailureKeeps, SettleKeeps, RefreshKeeps DEF RunStep

-----------------------------------------------------------------------------
LEMMA RemovalKeeps ==
  ASSUME IInv, remove \/ RemoveFile \/ deletePackage \/ deletePackageFails
  PROVE  IInv'
<1>1. CASE remove
  <2>1. record.assets \in SUBSET Assets
    BY <1>1 DEF remove, IInv, TypeOK, Packages
  <2> QED
    BY <1>1, <2>1 DEF remove, IInv, TypeOK, RunsGood, Good, CriticalComplete
<1>2. CASE RemoveFile
  <2>1. PICK a \in removing : /\ files' = [files EXCEPT ![a] = None]
                              /\ removing' = removing \ {a}
    BY <1>2 DEF RemoveFile
  <2>2. removing \in SUBSET Assets
    BY <1>2 DEF RemoveFile, IInv, TypeOK
  <2>3. /\ files' \in [Assets -> Versions \cup {Empty, Lost, None}]
        /\ removing' \in SUBSET Assets
    BY <2>1, <2>2 DEF IInv, TypeOK
  <2> QED
    BY <1>2, <2>3 DEF RemoveFile, IInv, TypeOK, RunsGood, Good, CriticalComplete
<1>3. CASE deletePackage
  BY <1>3 DEF deletePackage, IInv, TypeOK, RunsGood, Good, CriticalComplete, IsInstalled
<1>4. CASE deletePackageFails
  BY <1>4 DEF deletePackageFails, IInv, TypeOK, RunsGood, Good, CriticalComplete
<1> QED
  BY <1>1, <1>2, <1>3, <1>4

LEMMA FlaggedStale ==
  ASSUME NEW pkg \in Packages, NEW lost \in SUBSET Assets
  PROVE  /\ [pkg EXCEPT !.stale = TRUE] \in Packages
         /\ [pkg EXCEPT !.stale = TRUE].stale
         /\ [pkg EXCEPT !.assets = @ \ lost, !.stale = TRUE] \in Packages
         /\ [pkg EXCEPT !.assets = @ \ lost, !.stale = TRUE].stale
BY DEF Packages

LEMMA UpdateCheckKeeps ==
  ASSUME IInv, FlagStale \/ \E version \in Offers : checkForUpdate(version)
  PROVE  IInv'
<1>1. CASE FlagStale
  <2>1. checked \in Packages
    BY <1>1, CheckedTyped DEF FlagStale
  <2>2. record' = record \/ (record' \in Packages /\ record'.stale)
    BY <1>1, <2>1, FlaggedStale DEF FlagStale
  <2> QED
    BY <1>1, <2>2 DEF FlagStale, IInv, TypeOK, RunsGood, Good, CriticalComplete
<1>2. CASE \E version \in Offers : checkForUpdate(version)
  <2>1. checked' = record /\ record \in Packages /\ record.status = "installed"
    BY <1>2 DEF checkForUpdate, IInv, TypeOK, IsInstalled
  <2>2. UNCHANGED <<files, record, run, active, available, boot, removing, failures>>
    BY <1>2 DEF checkForUpdate
  <2> QED
    BY <2>1, <2>2 DEF IInv, TypeOK, RunsGood, Good, CriticalComplete
<1> QED
  BY <1>1, <1>2

-----------------------------------------------------------------------------
BootStates ==
  [pc : {"hydrate", "sweep", "audit", "reread", "apply", "idle"},
   damaged : SUBSET Assets, pkg : Packages \cup {None}]

LEMMA BootedTyped == Booted \in BootStates /\ NewBoot \in BootStates
                     /\ Booted.pc = "idle" /\ NewBoot.pc = "hydrate"
BY DEF Booted, NewBoot, BootStates

LEMMA OnlyBoot ==
  ASSUME IInv, boot' \in BootStates, boot'.pc = "apply" => boot'.pkg \in Packages,
         failures' \subseteq failures \cup {"hydrate", "audit"},
         UNCHANGED <<files, record, run, active, available, removing, checked>>
  PROVE  IInv'
BY DEF IInv, TypeOK, RunsGood, Good, CriticalComplete, BootStates

LEMMA BootKeeps ==
  ASSUME IInv, BootStep
  PROVE  IInv'
<1>0. boot \in BootStates
  BY DEF IInv, TypeOK, BootStates
<1>1. CASE hydrate
  <2>1. boot' \in BootStates /\ boot'.pc = "sweep"
    BY <1>0, <1>1 DEF hydrate, BootStates
  <2> QED
    BY <1>1, <2>1 DEF hydrate, IInv, TypeOK, RunsGood, Good, CriticalComplete, IsInstalled,
                      BootStates
<1>2. CASE SweepStaging
  <2>1. boot' \in BootStates /\ (boot'.pc = "audit" \/ boot' = boot)
    BY <1>0, <1>2 DEF SweepStaging, BootStates
  <2>2. ASSUME NEW r \in Runs
        PROVE  [run[r] EXCEPT !.staged = {}] \in RunStates /\ Good([run[r] EXCEPT !.staged = {}])
               /\ ([run[r] EXCEPT !.staged = {}]).todo = run[r].todo
               /\ ([run[r] EXCEPT !.staged = {}]).pc = run[r].pc
    BY DEF IInv, TypeOK, RunsGood, RunStates, Good
  <2>3. run' \in [Runs -> RunStates] /\ RunsGood'
    BY <1>2, <2>2 DEF SweepStaging, IInv, TypeOK, RunsGood
  <2> QED
    BY <1>2, <2>1, <2>3 DEF SweepStaging, IInv, TypeOK, RunsGood, Good, CriticalComplete,
                            BootStates
<1>3. CASE auditPackage
  <2>1. CASE IsInstalled(record) /\ Damaged(record) # {}
    <3>1. record \in Packages
      BY <2>1 DEF IInv, TypeOK, IsInstalled
    <3>2. Damaged(record) \in SUBSET Assets
      BY <3>1 DEF Damaged, Packages
    <3>3. boot' = [boot EXCEPT !.pc = "reread", !.damaged = Damaged(record)]
      BY <1>3, <2>1 DEF auditPackage
    <3>4. boot' \in BootStates /\ boot'.pc = "reread"
      BY <1>0, <3>2, <3>3 DEF BootStates
    <3> QED
      BY <1>3, <3>4, OnlyBoot DEF auditPackage
  <2>2. CASE ~(IsInstalled(record) /\ Damaged(record) # {})
    <3>1. boot' = Booted
      BY <1>3, <2>2 DEF auditPackage
    <3> QED
      BY <1>3, <3>1, BootedTyped, OnlyBoot DEF auditPackage
  <2> QED
    BY <2>1, <2>2
<1>4. CASE RereadPackage
  <2>1. CASE record = None
    BY <1>4, <2>1, BootedTyped, OnlyBoot DEF RereadPackage
  <2>2. CASE record # None
    <3>1. record \in Packages
      BY <2>2 DEF IInv, TypeOK
    <3>2. boot' = [boot EXCEPT !.pc = "apply", !.pkg = record]
      BY <1>4, <2>2 DEF RereadPackage
    <3>3. boot' \in BootStates /\ boot'.pkg \in Packages
      BY <1>0, <3>1, <3>2 DEF BootStates
    <3> QED
      BY <1>4, <3>3, OnlyBoot DEF RereadPackage
  <2> QED
    BY <2>1, <2>2
<1>5. CASE applyAudit
  <2>1. boot.pkg \in Packages /\ boot.damaged \in SUBSET Assets
    BY <1>5, BootTyped DEF applyAudit
  <2>2. Audited \in Packages /\ Audited.stale
    BY <2>1, FlaggedStale DEF Audited
  <2>3. record' = Audited /\ available' \in {Audited, available} /\ boot' = Booted
        /\ (available' = available \/ IsInstalled(Audited))
    BY <1>5 DEF applyAudit
  <2>4. UNCHANGED <<files, run, active, removing, checked, failures>>
    BY <1>5 DEF applyAudit
  <2>5. TypeOK'
    BY <2>2, <2>3, <2>4, BootedTyped DEF IInv, TypeOK, IsInstalled, BootStates
  <2>6. CriticalComplete' /\ RunsGood' /\ (boot.pc = "apply" => boot.pkg \in Packages)'
    BY <2>2, <2>3, <2>4, BootedTyped DEF IInv, RunsGood, Good, CriticalComplete
  <2> QED
    BY <2>5, <2>6 DEF IInv
<1>6. CASE BootFails
  BY <1>6, BootedTyped, OnlyBoot DEF BootFails
<1> QED
  BY <1>1, <1>2, <1>3, <1>4, <1>5, <1>6 DEF BootStep

LEMMA ReloadKeeps ==
  ASSUME IInv, Reload
  PROVE  IInv'
<1>1. run' \in [Runs -> RunStates] /\ RunsGood'
  BY OverGood DEF Reload, IInv, TypeOK, RunsGood
<1>2. files' \in [Assets -> Versions \cup {Empty, Lost, None}]
  BY DEF Reload, IInv, TypeOK
<1>3. /\ record' = record /\ active' = None /\ available' = None /\ boot' = NewBoot
      /\ removing' = None /\ checked' = None /\ failures' = {}
  BY DEF Reload
<1> QED
  BY <1>1, <1>2, <1>3, BootedTyped DEF IInv, TypeOK, RunsGood, Good, CriticalComplete,
                                       IsInstalled, BootStates

LEMMA EvictKeeps ==
  ASSUME IInv, Evict
  PROVE  IInv'
BY DEF Evict, IInv, TypeOK, RunsGood, Good, CriticalComplete

-----------------------------------------------------------------------------
LEMMA InitHolds == Init => IInv
<1> SUFFICES ASSUME Init PROVE IInv
  OBVIOUS
<1>1. run \in [Runs -> RunStates] /\ RunsGood
  BY NotStartedGood DEF Init, RunsGood
<1>2. boot \in BootStates /\ boot.pc = "hydrate"
  BY BootedTyped DEF Init
<1> QED
  BY <1>1, <1>2 DEF Init, IInv, TypeOK, RunsGood, Good, CriticalComplete, IsInstalled, BootStates

LEMMA StepKeeps == IInv /\ [Next]_vars => IInv'
<1> SUFFICES ASSUME IInv, [Next]_vars PROVE IInv'
  OBVIOUS
<1>1. CASE \E version \in Versions : install(version)
  BY <1>1, InstallKeeps
<1>2. CASE cancel
  BY <1>2, CancelKeeps
<1>3. CASE \E r \in Runs : RunStep(r)
  BY <1>3, RunStepKeeps
<1>4. CASE remove \/ RemoveFile \/ deletePackage \/ deletePackageFails
  BY <1>4, RemovalKeeps
<1>5. CASE FlagStale \/ \E version \in Offers : checkForUpdate(version)
  BY <1>5, UpdateCheckKeeps
<1>6. CASE BootStep
  BY <1>6, BootKeeps
<1>7. CASE Reload
  BY <1>7, ReloadKeeps
<1>8. CASE Evict
  BY <1>8, EvictKeeps
<1>9. CASE UNCHANGED vars
  BY <1>9 DEF vars, IInv, TypeOK, RunsGood, Good, CriticalComplete
<1> QED
  BY <1>1, <1>2, <1>3, <1>4, <1>5, <1>6, <1>7, <1>8, <1>9 DEF Next

LEMMA Invariance == Spec => []IInv
<1> QED
  BY InitHolds, StepKeeps, PTL DEF Spec

(***************************************************************************)
(* Whatever installs, cancellations, removals, update checks, boots and    *)
(* reloads do to each other, the release's record and files, the installs, *)
(* and what init and remove hold between awaits have their types; and an   *)
(* install that downloads has an asset to download.                        *)
(***************************************************************************)
THEOREM TypeCorrect == Spec => []TypeOK
<1>1. IInv => TypeOK
  BY DEF IInv
<1> QED
  BY <1>1, Invariance, PTL

(***************************************************************************)
(* A record the installer published, and what availability took from it,   *)
(* lacks no critical asset unless it is flagged stale: for any plan, any   *)
(* number of installs, and with every overlap the page allows.             *)
(***************************************************************************)
THEOREM InstalledIsUsable == Spec => []CriticalComplete
<1>1. IInv => CriticalComplete
  BY DEF IInv
<1> QED
  BY <1>1, Invariance, PTL

-----------------------------------------------------------------------------
(***************************************************************************)
(* What availability remembers, between the moments at which it is known   *)
(* to be right: it may lag behind an installed record only until the boot  *)
(* hydrates it, or until an install that has published, its own or one     *)
(* beside it, refreshes it; for good, only if either fails to.             *)
(***************************************************************************)
Pending(state) == state.pc \in {"done", "refresh"}

Remembered ==
  /\ record = None => available = None
  /\ IsInstalled(record) /\ ~record.stale /\ failures \cap {"hydrate", "refresh"} = {} =>
       \/ /\ available # None
          /\ available.assets = record.assets /\ available.version = record.version
       \/ boot.pc = "hydrate"
       \/ \E r \in Runs : Pending(run[r])

LEMMA SameRemembered ==
  ASSUME Remembered, UNCHANGED <<record, available>>,
         boot.pc = "hydrate" => boot'.pc = "hydrate", failures \subseteq failures',
         \A r \in Runs : Pending(run[r]) => Pending(run'[r])
  PROVE  Remembered'
  BY DEF Remembered, IsInstalled

LEMMA BecomesPending ==
  ASSUME IInv, NEW r \in Runs, NEW state, Becomes(r, state),
         Pending(run[r]) => Pending(state)
  PROVE  /\ \A q \in Runs : Pending(run[q]) => Pending(run'[q])
         /\ Pending(state) => \E q \in Runs : Pending(run'[q])
  BY DEF IInv, TypeOK, Becomes

LEMMA OnwardPc ==
  ASSUME NEW state \in RunStates
  PROVE  Onward(state).pc \in {state.pc, "commit", "fail"} /\ Failing(state).pc = "fail"
  BY DEF Onward, Failing, RunStates

LEMMA RunRemembers ==
  ASSUME IInv, IInv', Remembered, NEW r \in Runs, RunStep(r)
  PROVE  Remembered'
<1>0. run \in [Runs -> RunStates] /\ run[r] \in RunStates
  BY DEF IInv, TypeOK
<1>1. CASE \/ Stage(r) \/ Commit(r) \/ CommitFails(r) \/ ClearStaging(r)
           \/ PublishFails(r) \/ Unstage(r)
  <2>1. PICK state : Becomes(r, state)
    BY <1>1 DEF Stage, StageOk, StageDamaged, StageFails, Commit, CommitFails, ClearStaging,
                PublishFails, Unstage
  <2>2. ~Pending(run[r])
    BY <1>1 DEF Stage, StageOk, StageDamaged, StageFails, Commit, CommitFails, ClearStaging,
                PublishFails, Unstage, Pending
  <2>3. UNCHANGED <<record, available, boot, failures>>
    BY <1>1 DEF Stage, Commit, CommitFails, ClearStaging, PublishFails, Unstage
  <2> QED
    BY <2>1, <2>2, <2>3, BecomesPending, SameRemembered
<1>2. CASE Publish(r)
  <2> DEFINE state == [run[r] EXCEPT !.pc = "done"]
  <2>1. Becomes(r, state) /\ Pending(state)
    BY <1>0, <1>2 DEF Publish, Pending, RunStates
  <2> HIDE DEF state
  <2>2. \E q \in Runs : Pending(run'[q])
    BY <2>1, BecomesPending
  <2>3. record' # None
    <3>1. run[r].version \in Versions /\ Keys(run[r].have) \subseteq Assets
      BY <1>0, <1>2, KeysOf DEF Publish, IInv, RunsGood, Good, RunStates
    <3>2. record' \in Packages
      BY <1>2, <3>1 DEF Publish, Packages
    <3> QED
      BY <3>2, NothingAssumption
  <2> QED
    BY <2>2, <2>3 DEF Remembered
<1>3. CASE RecordFailure(r)
  <2> DEFINE state == [run[r] EXCEPT !.pc = "failed"]
             failure == [status |-> "failed", version |-> run[r].version, assets |-> {},
                         stale |-> FALSE]
  <2>1. Becomes(r, state) /\ ~Pending(run[r])
    BY <1>3 DEF RecordFailure, Pending
  <2>2. failure # None
    <3>1. run[r].version \in Versions
      BY <1>3 DEF IInv, RunsGood, Good, RecordFailure
    <3>2. failure \in Packages
      BY <3>1 DEF Packages
    <3> QED
      BY <3>2, NothingAssumption
  <2>3. UNCHANGED <<available, boot, failures>> /\ record' \in {record, failure}
    BY <1>3 DEF RecordFailure
  <2>4. ~IsInstalled(failure)
    BY DEF IsInstalled
  <2> HIDE DEF state, failure
  <2>5. \A q \in Runs : Pending(run[q]) => Pending(run'[q])
    BY <2>1, BecomesPending
  <2>6. CASE record' = record
    BY <2>3, <2>5, <2>6, SameRemembered
  <2>7. CASE record' = failure
    BY <2>2, <2>3, <2>4, <2>7 DEF Remembered, IsInstalled
  <2> QED
    BY <2>3, <2>6, <2>7
<1>4. CASE Settle(r)
  <2> DEFINE state ==
        IF run[r].pc = "done" THEN [run[r] EXCEPT !.pc = "refresh"] ELSE Over(run[r])
  <2>1. Becomes(r, state) /\ (Pending(run[r]) => Pending(state))
    BY <1>0, <1>4 DEF Settle, Pending, RunStates
  <2>2. UNCHANGED <<record, available, boot, failures>>
    BY <1>4 DEF Settle
  <2> HIDE DEF state
  <2> QED
    BY <2>1, <2>2, BecomesPending, SameRemembered
<1>5. CASE Refresh(r)
  <2>1. /\ UNCHANGED record
        /\ available' = IF IsInstalled(record) THEN record ELSE available
    BY <1>5 DEF Refresh
  <2> QED
    BY <2>1 DEF Remembered, IsInstalled
<1>6. CASE RefreshFails(r)
  BY <1>6 DEF RefreshFails, Remembered, IsInstalled
<1> QED
  BY <1>1, <1>2, <1>3, <1>4, <1>5, <1>6 DEF RunStep

LEMMA StepRemembers ==
  ASSUME IInv, IInv', Remembered, [Next]_vars
  PROVE  Remembered'
<1>0. run \in [Runs -> RunStates]
  BY DEF IInv, TypeOK
<1>1. CASE cancel \/ \E version \in Versions : install(version)
  <2>1. UNCHANGED <<record, available, boot, failures>>
    BY <1>1 DEF cancel, install
  <2>2. \A q \in Runs : Pending(run[q]) => Pending(run'[q])
    <3>1. CASE cancel
      BY <1>0, <3>1 DEF cancel, Pending, RunStates
    <3>2. CASE \E version \in Versions : install(version)
      <4>1. PICK r \in Runs :
              \E new : /\ run[r].pc = "new"
                       /\ run' = [q \in Runs |->
                                     IF q = r THEN new
                                     ELSE IF q = active THEN [run[q] EXCEPT !.aborted = TRUE]
                                     ELSE run[q]]
        BY <3>2 DEF install
      <4>2. PICK new : /\ run[r].pc = "new"
                       /\ run' = [q \in Runs |->
                                     IF q = r THEN new
                                     ELSE IF q = active THEN [run[q] EXCEPT !.aborted = TRUE]
                                     ELSE run[q]]
        BY <4>1
      <4> QED
        BY <1>0, <4>2 DEF Pending, RunStates
    <3> QED
      BY <1>1, <3>1, <3>2
  <2> QED
    BY <2>1, <2>2, SameRemembered
<1>2. CASE \E r \in Runs : RunStep(r)
  BY <1>2, RunRemembers
<1>3. CASE \/ remove \/ RemoveFile \/ deletePackageFails \/ Evict
           \/ (\E version \in Offers : checkForUpdate(version)) \/ UNCHANGED vars
  BY <1>3, SameRemembered
     DEF remove, RemoveFile, deletePackageFails, Evict, checkForUpdate, vars
<1>4. CASE deletePackage
  BY <1>4 DEF deletePackage, Remembered, IsInstalled
<1>5. CASE FlagStale
  <2>1. CASE record' = record
    BY <1>5, <2>1, SameRemembered DEF FlagStale
  <2>2. CASE record' # record
    <3>1. checked \in Packages /\ record' = [checked EXCEPT !.stale = TRUE]
      BY <1>5, <2>2, CheckedTyped DEF FlagStale
    <3>2. record'.stale /\ record' # None
      BY <3>1, FlaggedStale, NothingAssumption
    <3> QED
      BY <3>2 DEF Remembered
  <2> QED
    BY <2>1, <2>2
<1>6. CASE BootStep
  <2>0. boot \in BootStates
    BY DEF IInv, TypeOK, BootStates
  <2>1. CASE hydrate
    BY <2>1 DEF hydrate, Remembered, IsInstalled
  <2>2. CASE SweepStaging \/ auditPackage \/ RereadPackage
    <3>1. UNCHANGED <<record, available, failures>> /\ (boot.pc = "hydrate" => boot' = boot)
      BY <2>2 DEF SweepStaging, auditPackage, RereadPackage
    <3>2. \A q \in Runs : Pending(run[q]) => Pending(run'[q])
      BY <1>0, <2>2 DEF SweepStaging, auditPackage, RereadPackage, Pending, RunStates
    <3> QED
      BY <3>1, <3>2, SameRemembered
  <2>3. CASE applyAudit
    <3>1. boot.pkg \in Packages /\ boot.damaged \in SUBSET Assets
      BY <2>3, BootTyped DEF applyAudit
    <3>2. record' \in Packages /\ record'.stale
      BY <2>3, <3>1, FlaggedStale DEF applyAudit, Audited
    <3> QED
      BY <3>2, NothingAssumption DEF Remembered
  <2>4. CASE BootFails /\ boot.pc = "hydrate"
    BY <2>4 DEF BootFails, Remembered, IsInstalled
  <2>5. CASE BootFails /\ boot.pc # "hydrate"
    BY <2>5, SameRemembered DEF BootFails
  <2> QED
    BY <1>6, <2>1, <2>2, <2>3, <2>4, <2>5 DEF BootStep
<1>7. CASE Reload
  BY <1>7 DEF Reload, Remembered, NewBoot
<1> QED
  BY <1>1, <1>2, <1>3, <1>4, <1>5, <1>6, <1>7 DEF Next

(***************************************************************************)
(* Once everything has come to rest, what the catalog calls installed and  *)
(* does not flag is what playback is offered, and what was removed is not, *)
(* however installs, removals, update checks and reloads overlapped or     *)
(* failed: but where the boot could not read the catalog, or the manager   *)
(* could not after an install.  It says nothing of a package whose         *)
(* reinstall failed; what is offered then is not what the catalog says     *)
(* (CatalogIsTruth).                                                       *)
(***************************************************************************)
THEOREM InstalledIsAlwaysOffered == Spec => []InstalledIsOffered
<1>1. Init => Remembered
  BY DEF Init, Remembered, IsInstalled
<1>2. IInv /\ IInv' /\ Remembered /\ [Next]_vars => Remembered'
  BY StepRemembers
<1>3. Remembered => InstalledIsOffered
  BY DEF Remembered, InstalledIsOffered, Quiet, Live, Pending
<1> QED
  BY <1>1, <1>2, <1>3, Invariance, PTL DEF Spec

-----------------------------------------------------------------------------
(***************************************************************************)
(* The offered bytes are the verified ones, while the server's content     *)
(* stays the same and nothing overlaps.  A boot, a removal and an update   *)
(* check have the page to themselves (Apart).  What an install has staged  *)
(* and copied is in place (Copies), so is what it has published and what   *)
(* availability names, but for what a boot has still to find and for what  *)
(* a failed audit or removal left behind (Offered); and a boot and an      *)
(* update check write back what they read (Reread).                        *)
(***************************************************************************)
InPlace(a) == files[a] \in Versions \cup {Lost}

Apart ==
  /\ (\E r \in Runs : Live(r)) => boot.pc = "idle" /\ removing = None /\ checked = None
  /\ removing # None => boot.pc = "idle" /\ checked = None
  /\ checked # None => boot.pc = "idle"

Copied(state) ==
  /\ state.pc = "stage" => Keys(state.have) \subseteq state.staged
  /\ state.pc = "commit" =>
       /\ Keys(state.todo) \subseteq state.staged
       /\ \A a \in Keys(state.have) \ Keys(state.todo) : InPlace(a)
  /\ state.pc = "publish" => \A a \in Keys(state.have) : InPlace(a)

Copies == \A r \in Runs : Copied(run[r])

Checked == failures \cap {"audit", "removal"} = {}

Offered ==
  boot.pc = "idle" /\ removing = None =>
    /\ IsInstalled(record) /\ (\E r \in Runs : Pending(run[r])) =>
         \A a \in record.assets : InPlace(a)
    /\ Checked /\ available # None => \A a \in available.assets : InPlace(a)

Reread ==
  /\ boot.pc = "hydrate" => available = None
  /\ boot.pc # "idle" /\ available # None => available = record
  /\ boot.pc \in {"reread", "apply"} =>
       IsInstalled(record) /\ \A a \in record.assets \ boot.damaged : InPlace(a)
  /\ boot.pc = "apply" => boot.pkg = record
  /\ checked # None => checked = record

Sound == Apart /\ Copies /\ Offered /\ Reread

(***************************************************************************)
(* A step that leaves record, available, boot, removal and check alone,    *)
(* and loses no file, is sound if the installs remain so.                  *)
(***************************************************************************)
LEMMA RunsSound ==
  ASSUME Sound, UNCHANGED <<record, available, boot, removing, checked, failures>>,
         \A a \in Assets : InPlace(a) => InPlace(a)', IInv,
         \A r \in Runs : Pending(run'[r]) => Pending(run[r]),
         \A r \in Runs : Live(r)' => Live(r) /\ Copied(run[r])',
         \A r \in Runs : ~Live(r)' => run'[r].pc \in {"new", "over"}
  PROVE  Sound'
<1>1. Apart'
  BY DEF Sound, Apart
<1>2. Copies'
  BY DEF Copies, Copied, Live
<1>3. Offered'
  <2>1. IsInstalled(record) => record.assets \subseteq Assets
    BY DEF IInv, TypeOK, IsInstalled, Packages
  <2>2. available # None => available.assets \subseteq Assets
    BY DEF IInv, TypeOK, Packages
  <2> QED
    BY <2>1, <2>2 DEF Sound, Offered, IsInstalled, Checked
<1>4. Reread'
  <2>1. IsInstalled(record) => record.assets \subseteq Assets
    BY DEF IInv, TypeOK, IsInstalled, Packages
  <2> QED
    BY <2>1 DEF Sound, Reread, IsInstalled
<1> QED
  BY <1>1, <1>2, <1>3, <1>4 DEF Sound

LEMMA SameFiles == ASSUME UNCHANGED files, NEW a PROVE InPlace(a)' <=> InPlace(a)
BY DEF InPlace

LEMMA BecomesCopied ==
  ASSUME IInv, Sound, NEW r \in Runs, NEW state, Becomes(r, state), Live(r),
         UNCHANGED <<record, available, boot, removing, checked, failures>>,
         \A a \in Assets : InPlace(a) => InPlace(a)',
         Pending(state) => Pending(run[r]),
         state.pc = "over" \/ Copied(state)'
  PROVE  Sound'
<1>0. run \in [Runs -> RunStates] /\ run' = [run EXCEPT ![r] = state]
  BY DEF IInv, TypeOK, Becomes
<1>1. ASSUME NEW q \in Runs, q # r PROVE run'[q] = run[q] /\ Copied(run[q])'
  <2>1. run'[q] = run[q] /\ Copied(run[q])
    BY <1>0, <1>1 DEF Sound, Copies
  <2>2. Keys(run[q].have) \subseteq Assets
    BY <1>0, KeysOf DEF RunStates
  <2> QED
    BY <1>1, <2>1, <2>2 DEF Copied
<1>2. run'[r] = state
  BY <1>0
<1>3. \A q \in Runs : Live(q)' => Live(q) /\ Copied(run[q])'
  BY <1>1, <1>2 DEF Live
<1>4. \A q \in Runs : ~Live(q)' => run'[q].pc \in {"new", "over"}
  BY DEF Live
<1>5. \A q \in Runs : Pending(run'[q]) => Pending(run[q])
  BY <1>1, <1>2
<1> QED
  BY <1>3, <1>4, <1>5, RunsSound

LEMMA OnwardCopied ==
  ASSUME NEW state \in RunStates, state.pc = "stage", Keys(state.have) \subseteq state.staged
  PROVE  Copied(Onward(state)) /\ Copied(Failing(state))
<1>1. Copied(state) /\ Copied(Failing(state))
  BY DEF Copied, Failing, RunStates
<1>2. CASE state.todo = << >>
  <2>1. Onward(state) = [state EXCEPT !.pc = "commit", !.todo = state.have]
    BY <1>2 DEF Onward
  <2>2. /\ Onward(state).pc = "commit" /\ Onward(state).have = state.have
        /\ Onward(state).todo = state.have /\ Onward(state).staged = state.staged
    BY <2>1 DEF RunStates
  <2> QED
    BY <1>1, <2>2 DEF Copied
<1> QED
  BY <1>1, <1>2 DEF Onward

LEMMA StageSound ==
  ASSUME IInv, Sound, NEW r \in Runs, Stage(r)
  PROVE  Sound'
<1> DEFINE a == Head(run[r].todo)
<1>1. /\ run[r] \in RunStates /\ run[r].pc = "stage" /\ run[r].todo # << >> /\ Live(r)
      /\ Keys(run[r].have) \subseteq run[r].staged
  BY DEF IInv, TypeOK, Sound, Copies, Copied, Live, Stage, StageOk, StageDamaged, StageFails
<1>2. run[r].todo \in Seq(Assets) /\ run[r].have \in Seq(Assets)
  BY <1>1 DEF RunStates
<1>3. a \in Assets /\ Tail(run[r].todo) \in Seq(Assets)
  BY <1>1, <1>2, HeadAndTail
<1>4. /\ Append(run[r].have, a) \in Seq(Assets)
      /\ Keys(Append(run[r].have, a)) = Keys(run[r].have) \cup {a}
  BY <1>2, <1>3, AppendKeys
<1>5. UNCHANGED <<files, record, available, boot, removing, checked, failures>>
  BY DEF Stage
<1>6. PICK state : Becomes(r, state) /\ Copied(state) /\ ~Pending(state)
  <2>1. CASE StageOk(r)
    <3> DEFINE x == [run[r] EXCEPT !.todo = Tail(@), !.have = Append(@, a), !.staged = @ \cup {a}]
    <3>1. /\ x \in RunStates /\ x.pc = "stage" /\ x.have = Append(run[r].have, a)
          /\ x.staged = run[r].staged \cup {a}
      BY <1>1, <1>3, <1>4 DEF RunStates
    <3>2. Becomes(r, Onward(x))
      BY <2>1 DEF StageOk
    <3> HIDE DEF x
    <3>3. Copied(Onward(x)) /\ ~Pending(Onward(x))
      BY <1>1, <1>4, <3>1, OnwardCopied, OnwardPc DEF Pending
    <3> QED
      BY <3>2, <3>3
  <2>2. CASE StageDamaged(r)
    <3> DEFINE x == [run[r] EXCEPT !.todo = Tail(@)]
    <3>1. x \in RunStates /\ x.pc = "stage" /\ x.have = run[r].have /\ x.staged = run[r].staged
      BY <1>1, <1>3 DEF RunStates
    <3>2. Becomes(r, Failing(run[r])) \/ Becomes(r, Onward(x))
      BY <2>2 DEF StageDamaged
    <3> HIDE DEF x
    <3> QED
      BY <1>1, <3>1, <3>2, OnwardCopied, OnwardPc DEF Pending
  <2>3. CASE StageFails(r)
    BY <1>1, <2>3, OnwardCopied, OnwardPc DEF StageFails, Pending
  <2> QED
    BY <2>1, <2>2, <2>3 DEF Stage
<1>7. Copied(state)'
  BY <1>5, <1>6, SameFiles DEF Copied
<1> QED
  BY <1>1, <1>5, <1>6, <1>7, SameFiles, BecomesCopied

LEMMA CommitSound ==
  ASSUME IInv, Sound, NEW r \in Runs, Commit(r)
  PROVE  Sound'
<1>1. /\ run[r] \in RunStates /\ run[r].pc = "commit" /\ run[r].todo # << >> /\ Live(r)
      /\ run[r].version \in Versions
      /\ Keys(run[r].todo) \subseteq run[r].staged
      /\ \A b \in Keys(run[r].have) \ Keys(run[r].todo) : InPlace(b)
  BY DEF IInv, TypeOK, RunsGood, Good, Sound, Copies, Copied, Live, Commit
<1>2. run[r].todo \in Seq(Assets) /\ Keys(run[r].have) \subseteq Assets
  BY <1>1, KeysOf DEF RunStates
<1>3. PICK a : a = Head(run[r].todo)
  OBVIOUS
<1>4. a \in Assets /\ Keys(run[r].todo) = {a} \cup Keys(Tail(run[r].todo))
  BY <1>1, <1>2, <1>3, HeadAndTail
<1>5. files \in [Assets -> Versions \cup {Empty, Lost, None}]
  BY DEF IInv, TypeOK
<1>6. files' = [files EXCEPT ![a] = run[r].version]
  BY <1>1, <1>3, <1>4 DEF Commit
<1>7. InPlace(a)'
  BY <1>1, <1>4, <1>5, <1>6 DEF InPlace
<1>8. \A b \in Assets : InPlace(b) => InPlace(b)'
  BY <1>1, <1>4, <1>5, <1>6 DEF InPlace
<1>9. PICK state : state = [run[r] EXCEPT !.todo = Tail(@)]
  OBVIOUS
<1>10. /\ state.pc = "commit" /\ state.todo = Tail(run[r].todo) /\ state.have = run[r].have
       /\ state.staged = run[r].staged
  BY <1>1, <1>9 DEF RunStates
<1>11. Becomes(r, state) /\ UNCHANGED <<record, available, boot, removing, checked, failures>>
  BY <1>9 DEF Commit
<1>12. Keys(state.todo) \subseteq state.staged
  BY <1>1, <1>4, <1>10
<1>13. \A b \in Keys(state.have) \ Keys(state.todo) : InPlace(b)'
  BY <1>1, <1>2, <1>4, <1>7, <1>8, <1>10
<1>14. Copied(state)' /\ ~Pending(state)
  BY <1>10, <1>12, <1>13 DEF Copied, Pending
<1> QED
  BY <1>1, <1>8, <1>11, <1>14, BecomesCopied

LEMMA FailureSound ==
  ASSUME IInv, Sound, NEW r \in Runs, CommitFails(r) \/ PublishFails(r)
  PROVE  Sound'
<1>1. PICK state : state = Failing(run[r])
  OBVIOUS
<1>2. run[r] \in RunStates /\ Live(r) /\ Becomes(r, state)
  BY <1>1 DEF IInv, TypeOK, CommitFails, PublishFails, Live
<1>3. Copied(state)' /\ ~Pending(state)
  BY <1>1, <1>2 DEF Failing, Copied, Pending, RunStates
<1>4. UNCHANGED <<record, available, boot, removing, checked, failures>>
  BY DEF CommitFails, PublishFails
<1>5. \A a \in Assets : InPlace(a) => InPlace(a)'
  <2>1. files \in [Assets -> Versions \cup {Empty, Lost, None}]
    BY DEF IInv, TypeOK
  <2>2. CASE CommitFails(r)
    <3>1. PICK a : files' \in {files, [files EXCEPT ![a] = IF @ = None THEN Empty ELSE @]}
      BY <2>2 DEF CommitFails
    <3>2. \A b \in Assets : files[b] = None \/ files'[b] = files[b]
      BY <2>1, <3>1
    <3>3. \A b \in Assets : InPlace(b) => files[b] # None
      BY ContentsAssumption DEF InPlace
    <3> QED
      BY <3>2, <3>3 DEF InPlace
  <2>3. CASE PublishFails(r)
    BY <2>3 DEF PublishFails, InPlace
  <2> QED
    BY <2>2, <2>3
<1> QED
  BY <1>2, <1>3, <1>4, <1>5, BecomesCopied

(***************************************************************************)
(* A step of a live install that leaves the files alone, whatever it puts  *)
(* in the catalog or in availability.                                      *)
(***************************************************************************)
LEMMA LiveStepSound ==
  ASSUME IInv, Sound, NEW r \in Runs, NEW state, Becomes(r, state), Live(r),
         UNCHANGED <<files, boot, removing, checked>>,
         state.pc = "over" \/ Copied(state),
         IsInstalled(record') /\ (\E q \in Runs : Pending(run'[q])) =>
           \A a \in record'.assets : InPlace(a),
         Checked' /\ available' # None => \A a \in available'.assets : InPlace(a)
  PROVE  Sound'
<1>1. run' = [run EXCEPT ![r] = state] /\ run \in [Runs -> RunStates]
  BY DEF IInv, TypeOK, Becomes
<1>2. boot.pc = "idle" /\ removing = None /\ checked = None
  BY DEF Sound, Apart
<1>3. Copies'
  <2> SUFFICES ASSUME NEW q \in Runs PROVE Copied(run[q])'
    BY DEF Copies
  <2>1. (run'[q] = run[q] /\ Copied(run[q])) \/ (run'[q] = state /\ (state.pc = "over" \/ Copied(state)))
    BY <1>1 DEF Sound, Copies
  <2> QED
    BY <2>1, SameFiles DEF Copied
<1>4. Offered'
  BY SameFiles DEF Offered, IsInstalled
<1> QED
  BY <1>2, <1>3, <1>4 DEF Sound, Apart, Reread

(* The same for one that leaves the catalog and availability alone too.    *)
LEMMA QuietStepSound ==
  ASSUME IInv, Sound, NEW r \in Runs, NEW state, Becomes(r, state), Live(r),
         UNCHANGED <<files, record, available, boot, removing, checked, failures>>,
         state.pc = "over" \/ Copied(state), Pending(state) => Pending(run[r])
  PROVE  Sound'
<1>1. Copied(state)' \/ state.pc = "over"
  BY SameFiles DEF Copied
<1> QED
  BY <1>1, SameFiles, BecomesCopied

LEMMA RunStepSound ==
  ASSUME IInv, Sound, NEW r \in Runs, RunStep(r)
  PROVE  Sound'
<1>1. run \in [Runs -> RunStates] /\ run[r] \in RunStates
  BY DEF IInv, TypeOK
<1>2. /\ Live(r) =>
           /\ IsInstalled(record) /\ (\E q \in Runs : Pending(run[q])) =>
                \A a \in record.assets : InPlace(a)
           /\ Checked /\ available # None => \A a \in available.assets : InPlace(a)
      /\ Copied(run[r])
  BY DEF Sound, Apart, Offered, Copies
<1>3. CASE Stage(r)
  BY <1>3, StageSound
<1>4. CASE Commit(r)
  BY <1>4, CommitSound
<1>5. CASE ClearStaging(r)
  <2>1. PICK state : state = [run[r] EXCEPT !.pc = "publish", !.staged = {}]
    OBVIOUS
  <2>2. state.pc = "publish" /\ state.have = run[r].have
    BY <1>1, <2>1 DEF RunStates
  <2>3. Keys(run[r].todo) = {} /\ Live(r) /\ run[r].pc = "commit"
    BY <1>5 DEF ClearStaging, Keys, Live
  <2>4. Copied(state) /\ ~Pending(state)
    BY <1>2, <2>2, <2>3 DEF Copied, Pending
  <2> QED
    BY <1>5, <2>1, <2>3, <2>4, QuietStepSound DEF ClearStaging
<1>6. CASE Publish(r)
  <2>1. PICK state : state = [run[r] EXCEPT !.pc = "done"]
    OBVIOUS
  <2>2. Copied(state) /\ Live(r)
    BY <1>1, <1>6, <2>1 DEF Copied, RunStates, Publish, Live
  <2>3. record'.assets = Keys(run[r].have) /\ \A a \in Keys(run[r].have) : InPlace(a)
    BY <1>2, <1>6 DEF Publish, Copied
  <2>4. UNCHANGED <<files, available, boot, removing, checked, failures>> /\ Becomes(r, state)
    BY <1>6, <2>1 DEF Publish
  <2> QED
    BY <1>2, <2>2, <2>3, <2>4, LiveStepSound DEF Checked
<1>7. CASE CommitFails(r) \/ PublishFails(r)
  BY <1>7, FailureSound
<1>8. CASE Unstage(r)
  <2>1. PICK state : state = [run[r] EXCEPT !.pc = "record", !.staged = {}]
    OBVIOUS
  <2>2. Copied(state) /\ Live(r) /\ ~Pending(state)
    BY <1>1, <1>8, <2>1 DEF Copied, RunStates, Unstage, Live, Pending
  <2> QED
    BY <1>8, <2>1, <2>2, QuietStepSound DEF Unstage
<1>9. CASE RecordFailure(r)
  <2>1. PICK state : state = [run[r] EXCEPT !.pc = "failed"]
    OBVIOUS
  <2>2. Copied(state) /\ Live(r) /\ ~Pending(state)
    BY <1>1, <1>9, <2>1 DEF Copied, RunStates, RecordFailure, Live, Pending
  <2>3. IsInstalled(record') => record' = record
    BY <1>9 DEF RecordFailure, IsInstalled
  <2>4. UNCHANGED <<files, available, boot, removing, checked, failures>> /\ Becomes(r, state)
    BY <1>9, <2>1 DEF RecordFailure
  <2>5. (\E q \in Runs : Pending(run'[q])) => \E q \in Runs : Pending(run[q])
    BY <1>1, <2>2, <2>4 DEF Becomes
  <2> QED
    BY <1>2, <2>2, <2>3, <2>4, <2>5, LiveStepSound DEF Checked
<1>10. CASE Settle(r)
  <2>1. PICK state :
          state = IF run[r].pc = "done" THEN [run[r] EXCEPT !.pc = "refresh"] ELSE Over(run[r])
    OBVIOUS
  <2>2. (state.pc = "over" \/ Copied(state)) /\ Live(r) /\ (Pending(state) => Pending(run[r]))
    <3>1. CASE run[r].pc = "done"
      <4>1. state = [run[r] EXCEPT !.pc = "refresh"]
        BY <2>1, <3>1
      <4> QED
        BY <1>1, <3>1, <4>1 DEF Copied, RunStates, Live, Pending
    <3>2. CASE run[r].pc # "done"
      BY <1>1, <1>10, <2>1, <3>2, OverGood DEF Settle, Live, Pending
    <3> QED
      BY <3>1, <3>2
  <2> QED
    BY <1>10, <2>1, <2>2, QuietStepSound DEF Settle
<1>11. CASE Refresh(r) \/ RefreshFails(r)
  <2>1. PICK state : state = Over(run[r])
    OBVIOUS
  <2>2. state.pc = "over" /\ Live(r) /\ Pending(run[r]) /\ ~Pending(state)
    BY <1>1, <1>11, <2>1, OverGood DEF Refresh, RefreshFails, Live, Pending
  <2>3. /\ \/ available' = available /\ (Checked' => Checked)
           \/ IsInstalled(record) /\ available' = record
        /\ UNCHANGED <<files, record, boot, removing, checked>> /\ Becomes(r, state)
    BY <1>11, <2>1 DEF Refresh, RefreshFails, Checked
  <2> QED
    BY <1>2, <2>2, <2>3, LiveStepSound
<1> QED
  BY <1>3, <1>4, <1>5, <1>6, <1>7, <1>8, <1>9, <1>10, <1>11 DEF RunStep

(***************************************************************************)
(* With no install live there is nothing staged or copied to look after.   *)
(***************************************************************************)
LEMMA NoneLive == (\A r \in Runs : ~Live(r)) => Copies
BY DEF Copies, Copied, Live

LEMMA InstallSound ==
  ASSUME IInv, Sound, ~Overlap, NEW v \in Versions, install(v)
  PROVE  Sound'
<1>1. boot.pc = "idle" /\ removing = None /\ checked = None
  BY DEF install
<1>2. UNCHANGED <<files, record, available, boot, removing, checked, failures>>
  BY DEF install
<1>3. \A q \in Runs : Copied(run'[q]) /\ (Pending(run'[q]) => Pending(run[q]))
  <2> SUFFICES ASSUME NEW q \in Runs
               PROVE  Copied(run'[q]) /\ (Pending(run'[q]) => Pending(run[q]))
    OBVIOUS
  <2>1. PICK r \in Runs :
          run' = [p \in Runs |->
                    IF p = r THEN [NotStarted EXCEPT !.pc = "stage", !.version = v, !.todo = Plan]
                    ELSE IF p = active THEN [run[p] EXCEPT !.aborted = TRUE] ELSE run[p]]
    BY DEF install
  <2>2. run[q] \in RunStates /\ Copied(run[q])
    BY DEF IInv, TypeOK, Sound, Copies
  <2>3. CASE q = r
    <3>1. run'[q] = [NotStarted EXCEPT !.pc = "stage", !.version = v, !.todo = Plan]
      BY <2>1, <2>3
    <3>2. run'[q].pc = "stage" /\ run'[q].have = << >>
      BY <3>1 DEF NotStarted
    <3> QED
      BY <3>2 DEF Copied, Keys, Pending
  <2>4. CASE q # r
    <3>1. run'[q] = [run[q] EXCEPT !.aborted = TRUE] \/ run'[q] = run[q]
      BY <2>1, <2>4
    <3>2. /\ run'[q].pc = run[q].pc /\ run'[q].todo = run[q].todo
          /\ run'[q].have = run[q].have /\ run'[q].staged = run[q].staged
      BY <2>2, <3>1 DEF RunStates
    <3> QED
      BY <2>2, <3>2 DEF Copied, Pending
  <2> QED
    BY <2>3, <2>4
<1>4. Copies'
  BY <1>2, <1>3, SameFiles DEF Copies, Copied
<1>5. Offered'
  BY <1>2, <1>3, SameFiles DEF Sound, Offered, IsInstalled, Checked
<1> QED
  BY <1>1, <1>2, <1>4, <1>5 DEF Sound, Apart, Reread

LEMMA CancelSound == ASSUME IInv, Sound, cancel PROVE Sound'
<1>1. run \in [Runs -> RunStates] /\ active \in Runs
      /\ run' = [run EXCEPT ![active].aborted = TRUE]
  BY DEF IInv, TypeOK, cancel
<1>2. UNCHANGED <<files, record, available, boot, removing, checked, failures>>
  BY DEF cancel
<1>3. ASSUME NEW q \in Runs
      PROVE  /\ run'[q].pc = run[q].pc /\ run'[q].todo = run[q].todo
             /\ run'[q].have = run[q].have /\ run'[q].staged = run[q].staged
  BY <1>1 DEF RunStates
<1>4. \A q \in Runs : Live(q)' => Live(q) /\ Copied(run[q])'
  BY <1>2, <1>3, SameFiles DEF Live, Sound, Copies, Copied
<1>5. \A q \in Runs : ~Live(q)' => run'[q].pc \in {"new", "over"}
  BY DEF Live
<1>6. \A q \in Runs : Pending(run'[q]) => Pending(run[q])
  BY <1>3 DEF Pending
<1> QED
  BY <1>2, <1>4, <1>5, <1>6, RunsSound, SameFiles

LEMMA RemovalSound ==
  ASSUME IInv, Sound, ~Overlap, remove \/ RemoveFile \/ deletePackage \/ deletePackageFails
  PROVE  Sound'
<1>1. CASE remove
  <2>1. removing' # None
    BY <1>1, NothingAssumption DEF remove, IInv, TypeOK, Packages
  <2>2. Quiet /\ UNCHANGED <<files, record, run, available, boot, checked>>
    BY <1>1 DEF remove
  <2>3. Copies'
    BY <2>2, NoneLive, SameFiles DEF Quiet, Copies, Copied, Live
  <2> QED
    BY <2>1, <2>2, <2>3 DEF Sound, Apart, Offered, Reread, Quiet, Live
<1>2. CASE RemoveFile
  <2>1. removing # None /\ removing' # None
    BY <1>2, NothingAssumption DEF RemoveFile, IInv, TypeOK
  <2>2. UNCHANGED <<record, run, available, boot, checked>>
    BY <1>2 DEF RemoveFile
  <2>3. boot.pc = "idle" /\ checked = None /\ \A r \in Runs : ~Live(r)
    BY <2>1 DEF Sound, Apart
  <2>4. Copies'
    BY <2>2, <2>3 DEF Copies, Copied, Live
  <2> QED
    BY <2>1, <2>2, <2>3, <2>4 DEF Sound, Apart, Offered, Reread, Live
<1>3. CASE deletePackage
  <2>1. removing # None
    BY <1>3, NothingAssumption DEF deletePackage
  <2>2. boot.pc = "idle" /\ checked = None /\ \A r \in Runs : ~Live(r)
    BY <2>1 DEF Sound, Apart
  <2>3. record' = None /\ available' = None /\ removing' = None
        /\ UNCHANGED <<files, run, boot, checked>>
    BY <1>3 DEF deletePackage
  <2>4. Copies'
    BY <2>2, <2>3 DEF Copies, Copied, Live
  <2> QED
    BY <2>2, <2>3, <2>4 DEF Sound, Apart, Offered, Reread, Live, IsInstalled
<1>4. CASE deletePackageFails
  <2>1. removing # None
    BY <1>4, NothingAssumption DEF deletePackageFails
  <2>2. boot.pc = "idle" /\ checked = None /\ \A r \in Runs : ~Live(r)
    BY <2>1 DEF Sound, Apart
  <2>3. removing' = None /\ ~Checked'
        /\ UNCHANGED <<files, record, run, available, boot, checked>>
    BY <1>4 DEF deletePackageFails, Checked
  <2>4. Copies'
    BY <2>2, <2>3 DEF Copies, Copied, Live
  <2>5. Offered'
    BY <2>2, <2>3 DEF Offered, Live, Pending
  <2> QED
    BY <2>2, <2>3, <2>4, <2>5 DEF Sound, Apart, Reread, Live
<1> QED
  BY <1>1, <1>2, <1>3, <1>4

LEMMA UpdateCheckSound ==
  ASSUME IInv, Sound, ~Overlap, FlagStale \/ \E version \in Offers : checkForUpdate(version)
  PROVE  Sound'
<1>1. ASSUME NEW version \in Offers, checkForUpdate(version) PROVE Sound'
  <2>1. Quiet /\ checked' = record
        /\ UNCHANGED <<files, record, run, available, boot, removing, failures>>
    BY <1>1 DEF checkForUpdate
  <2>2. Copies'
    BY <2>1 DEF Quiet, Copies, Copied, Live
  <2>3. Offered'
    BY <2>1, SameFiles DEF Sound, Offered, IsInstalled, Checked
  <2> QED
    BY <2>1, <2>2, <2>3, SameFiles DEF Sound, Apart, Reread, Quiet, Live, IsInstalled
<1>2. CASE FlagStale
  <2>1. /\ boot.pc = "idle" /\ removing = None /\ checked = record
        /\ \A r \in Runs : ~Live(r)
    BY <1>2 DEF FlagStale, Sound, Apart, Reread
  <2>2. checked' = None /\ UNCHANGED <<files, run, available, boot, removing, failures>>
    BY <1>2 DEF FlagStale
  <2>3. Copies'
    BY <2>1, <2>2 DEF Copies, Copied, Live
  <2>4. Offered'
    BY <2>1, <2>2, SameFiles DEF Sound, Offered, Live, Pending, Checked
  <2> QED
    BY <2>1, <2>2, <2>3, <2>4 DEF Sound, Apart, Reread, Live
<1> QED
  BY <1>1, <1>2

(***************************************************************************)
(* What an audit does not call damaged is in place: an empty file never    *)
(* has an asset's size.                                                    *)
(***************************************************************************)
LEMMA UndamagedInPlace ==
  ASSUME IInv, IsInstalled(record)
  PROVE  \A a \in record.assets \ Damaged(record) : InPlace(a)
<1>1. record \in Packages
  BY DEF IInv, TypeOK, IsInstalled
<1>2. record.version \in Versions /\ record.assets \subseteq Assets
  BY <1>1 DEF Packages
<1>3. SizeOf[record.version] # 0
  BY <1>2, SizesAssumption
<1>4. ASSUME NEW a \in record.assets, a \notin Damaged(record) PROVE InPlace(a)
  <2>1. files[a] \in Versions \cup {Empty, Lost, None}
    BY <1>2 DEF IInv, TypeOK
  <2>2. files[a] \notin {None, Lost} /\ Size(files[a]) = SizeOf[record.version]
    BY <1>4 DEF Damaged
  <2>3. files[a] # Empty
    BY <1>3, <2>2 DEF Size
  <2> QED
    BY <2>1, <2>2, <2>3 DEF InPlace
<1> QED
  BY <1>4

LEMMA BootSound ==
  ASSUME IInv, Sound, ~OtherPage, BootStep
  PROVE  Sound'
<1>1. boot.pc # "idle" /\ UNCHANGED <<files, removing, checked>>
  BY DEF BootStep, hydrate, SweepStaging, auditPackage, RereadPackage, applyAudit, BootFails
<1>2. removing = None /\ checked = None /\ \A r \in Runs : ~Live(r)
  BY <1>1 DEF Sound, Apart
<1>3. \A r \in Runs : run'[r].pc = run[r].pc
  <2>1. CASE SweepStaging
    <3>1. \A r \in Runs : run[r] \in RunStates /\ run'[r] = [run[r] EXCEPT !.staged = {}]
      BY <2>1 DEF SweepStaging, IInv, TypeOK
    <3> QED
      BY <3>1 DEF RunStates
  <2> QED
    BY <2>1 DEF BootStep, hydrate, auditPackage, RereadPackage, applyAudit, BootFails
<1>4. Apart' /\ Copies' /\ \A r \in Runs : ~Pending(run'[r])
  BY <1>1, <1>2, <1>3 DEF Apart, Copies, Copied, Live, Pending
<1>5. boot \in [pc : {"hydrate", "sweep", "audit", "reread", "apply", "idle"},
                damaged : SUBSET Assets, pkg : Packages \cup {None}]
  BY DEF IInv, TypeOK
<1>6. Booted.pc = "idle"
  BY DEF Booted, NewBoot
<1>7. Offered' /\ Reread'
  <2>1. CASE hydrate
    <3>1. boot'.pc = "sweep" /\ UNCHANGED record
      BY <1>5, <2>1 DEF hydrate
    <3>2. available' # None => available' = record
      BY <2>1 DEF hydrate, Sound, Reread
    <3> QED
      BY <1>1, <1>2, <3>1, <3>2 DEF Offered, Reread
  <2>2. CASE SweepStaging
    <3>1. boot'.pc = "audit" /\ UNCHANGED <<record, available>>
      BY <1>5, <2>2 DEF SweepStaging
    <3> QED
      BY <1>1, <1>2, <3>1 DEF Sound, Offered, Reread
  <2>3. CASE auditPackage
    <3>1. UNCHANGED <<record, available>> /\ (available # None => available = record)
      BY <1>1, <2>3 DEF auditPackage, Sound, Reread
    <3>2. CASE IsInstalled(record) /\ Damaged(record) # {}
      <4>1. boot' = [boot EXCEPT !.pc = "reread", !.damaged = Damaged(record)]
        BY <2>3, <3>2 DEF auditPackage
      <4>2. boot'.pc = "reread" /\ boot'.damaged = Damaged(record)
        BY <1>5, <4>1
      <4>3. \A a \in record.assets \ boot'.damaged : InPlace(a)
        BY <3>2, <4>2, UndamagedInPlace
      <4> QED
        BY <1>1, <1>2, <1>4, <3>1, <3>2, <4>2, <4>3, SameFiles DEF Offered, Reread, IsInstalled
    <3>3. CASE ~(IsInstalled(record) /\ Damaged(record) # {})
      <4>1. boot'.pc = "idle"
        BY <1>6, <2>3, <3>3 DEF auditPackage
      <4>2. IsInstalled(record) => \A a \in record.assets : InPlace(a)
        BY <3>3, UndamagedInPlace
      <4>3. available # None => IsInstalled(record)
        BY <3>1 DEF IInv, TypeOK, IsInstalled
      <4> QED
        BY <1>1, <1>2, <1>4, <3>1, <4>1, <4>2, <4>3, SameFiles DEF Offered, Reread, IsInstalled
    <3> QED
      BY <3>2, <3>3
  <2>4. CASE RereadPackage
    <3>1. record # None /\ UNCHANGED <<record, available>>
      BY <2>4 DEF RereadPackage, Sound, Reread, IsInstalled
    <3>2. boot' = [boot EXCEPT !.pc = "apply", !.pkg = record]
      BY <2>4, <3>1 DEF RereadPackage
    <3>3. boot'.pc = "apply" /\ boot'.pkg = record /\ boot'.damaged = boot.damaged
      BY <1>5, <3>2
    <3>4. /\ IsInstalled(record) /\ \A a \in record.assets \ boot.damaged : InPlace(a)
          /\ available # None => available = record
      BY <2>4 DEF RereadPackage, Sound, Reread
    <3> QED
      BY <1>1, <1>2, <3>1, <3>3, <3>4, SameFiles DEF Offered, Reread, IsInstalled
  <2>5. CASE applyAudit
    <3>1. /\ boot.pkg = record /\ IsInstalled(record) /\ record \in Packages
          /\ \A a \in record.assets \ boot.damaged : InPlace(a)
      BY <2>5 DEF applyAudit, Sound, Reread, IInv, TypeOK, IsInstalled
    <3>2. Audited.assets = record.assets \ boot.damaged /\ IsInstalled(Audited)
      BY <3>1, NothingAssumption, ZenonT(30) DEF Audited, IsInstalled, Packages
    <3>3. record' = Audited /\ available' = Audited /\ boot'.pc = "idle"
      BY <1>6, <2>5, <3>2 DEF applyAudit
    <3> QED
      BY <1>1, <1>2, <1>4, <3>1, <3>2, <3>3, SameFiles DEF Offered, Reread
  <2>6. CASE BootFails
    <3>1. boot'.pc = "idle" /\ UNCHANGED <<record, available>>
      BY <1>6, <2>6 DEF BootFails
    <3>2. available = None \/ ~Checked'
      BY <2>6 DEF BootFails, Checked, Sound, Reread
    <3> QED
      BY <1>1, <1>2, <1>4, <3>1, <3>2 DEF Offered, Reread
  <2> QED
    BY <2>1, <2>2, <2>3, <2>4, <2>5, <2>6 DEF BootStep
<1> QED
  BY <1>4, <1>7 DEF Sound

LEMMA ReloadSound == ASSUME Reload PROVE Sound'
<1>1. boot'.pc = "hydrate" /\ available' = None /\ removing' = None /\ checked' = None
  BY DEF Reload, NewBoot
<1>2. \A r \in Runs : run'[r].pc \in {"new", "over"}
  <2> SUFFICES ASSUME NEW r \in Runs PROVE run'[r].pc \in {"new", "over"}
    OBVIOUS
  <2>1. run'[r] = IF Live(r) THEN Over(run[r]) ELSE run[r]
    BY DEF Reload
  <2>2. Over(run[r]).pc = "over"
    BY DEF Over, NotStarted
  <2> QED
    BY <2>1, <2>2 DEF Live
<1> QED
  BY <1>1, <1>2 DEF Sound, Apart, Copies, Copied, Offered, Reread, Live

LEMMA EvictSound == ASSUME IInv, Sound, Evict PROVE Sound'
<1>1. files \in [Assets -> Versions \cup {Empty, Lost, None}]
  BY DEF IInv, TypeOK
<1>2. UNCHANGED <<record, run, available, boot, removing, checked, failures>>
  BY DEF Evict
<1>3. \A a \in Assets : InPlace(a) => InPlace(a)'
  BY <1>1 DEF Evict, InPlace
<1>4. \A q \in Runs : run[q].have \in Seq(Assets)
  BY DEF IInv, TypeOK, RunStates
<1>5. \A q \in Runs : Keys(run[q].have) \subseteq Assets
  BY <1>4, KeysOf
<1>6. \A q \in Runs : Copied(run[q])'
  BY <1>2, <1>3, <1>5 DEF Sound, Copies, Copied
<1> QED
  BY <1>2, <1>3, <1>6, RunsSound DEF Live

LEMMA StepSound ==
  ASSUME IInv, Sound, ~Overlap, ~OtherPage, [Next]_vars
  PROVE  Sound'
<1>1. CASE UNCHANGED vars
  BY <1>1 DEF vars, Sound, Apart, Copies, Copied, Offered, Reread, InPlace, Live, IsInstalled,
              Checked
<1>2. CASE \E version \in Versions : install(version)
  BY <1>2, InstallSound
<1>3. CASE cancel
  BY <1>3, CancelSound
<1>4. CASE \E r \in Runs : RunStep(r)
  BY <1>4, RunStepSound
<1>5. CASE remove \/ RemoveFile \/ deletePackage \/ deletePackageFails
  BY <1>5, RemovalSound
<1>6. CASE FlagStale \/ \E version \in Offers : checkForUpdate(version)
  BY <1>6, UpdateCheckSound
<1>7. CASE BootStep
  BY <1>7, BootSound
<1>8. CASE Reload
  BY <1>8, ReloadSound
<1>9. CASE Evict
  BY <1>9, EvictSound
<1> QED
  BY <1>1, <1>2, <1>3, <1>4, <1>5, <1>6, <1>7, <1>8, <1>9 DEF Next

(***************************************************************************)
(* OffersVerified holds while the server's content stays one version, the  *)
(* application is open in one page, and removals, update checks and        *)
(* installs do not overlap: whatever install is cancelled, fails or is cut *)
(* off by a reload, and whatever read or write of the catalog fails but    *)
(* that of an audit or a removal, nothing unverified is on offer.  Each    *)
(* hypothesis is needed (README, section 4).                               *)
(***************************************************************************)
THEOREM OfferedIsVerified ==
  ASSUME ~Overlap, ~OtherPage, NEW v, Versions = {v}
  PROVE  Spec => []OffersVerified
<1>1. Init => Sound
  BY DEF Init, NewBoot, NotStarted, Sound, Apart, Copies, Copied, Offered, Reread, Live, IsInstalled
<1>2. IInv /\ Sound /\ [Next]_vars => Sound'
  BY StepSound
<1>3. IInv /\ Sound => OffersVerified
  BY DEF IInv, TypeOK, Sound, Offered, OffersVerified, InPlace, Packages, Checked
<1> QED
  BY <1>1, <1>2, <1>3, Invariance, PTL DEF Spec

=============================================================================
