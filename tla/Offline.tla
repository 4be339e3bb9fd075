------------------------------ MODULE Offline -------------------------------
(***************************************************************************)
(* Offline downloads of the web player, for one release: the installer     *)
(* (fetch, stage, verify, commit, publish), the manager around it, and     *)
(* the boot that follows a page reload.  The page is single-threaded; its  *)
(* calls interleave wherever they await, and each action runs from one     *)
(* await to the next.  A version stands for a set of manifest hashes.      *)
(* Reading and writing the catalog may fail at every await.                *)
(***************************************************************************)
EXTENDS Integers, Sequences

CONSTANTS Plan,      \* the release's assets in download order
          Critical,  \* those an install cannot do without
          Versions,  \* the contents the server may have when it installs
          Offers,    \* and when it only checks for an update
          SizeOf,    \* the size of an asset in each version
          MaxRuns,   \* bound on the installs of a behaviour
          Overlap,   \* whether removal and update check overlap with each
                     \* other and with installs
          OtherPage, \* whether the application is open in a second page too
          Empty,     \* what a file holds that was created and never written
          Lost,      \* what the browser evicted while the page was open
          None

Keys(list) == {list[i] : i \in DOMAIN list}

Assets == Keys(Plan)
Runs == 1..MaxRuns

ASSUME PlanAssumption == Plan \in Seq(Assets) \ {<< >>} /\ Critical \subseteq Assets
ASSUME SizesAssumption == SizeOf \in [Versions \cup Offers -> Nat \ {0}]
ASSUME ContentsAssumption ==
  Empty # Lost /\ Lost # None /\ None # Empty /\ {Empty, Lost, None} \cap Versions = {}
ASSUME BoundsAssumption == MaxRuns \in Nat /\ {Overlap, OtherPage} \subseteq BOOLEAN

VARIABLES
  files,      \* the committed file of each asset: a version, Empty, Lost or None
  record,     \* the release's record in the catalog, or None
  run,        \* the installs, by install id
  active,     \* the install whose controller the installer holds, or None
  available,  \* what availability holds in memory, or None
  boot,       \* what init is doing, with what it found damaged and read back
  removing,   \* None, or the keys remove has still to delete
  checked,    \* None, or the record an update check is about to flag
  failures    \* for the properties: the failed tasks that nobody has made up
              \* for since, by a new boot, install or removal

vars == <<files, record, run, active, available, boot, removing, checked, failures>>

NotStarted ==
  [pc |-> "new", version |-> None, todo |-> << >>, staged |-> {}, have |-> << >>, aborted |-> FALSE]

NewBoot == [pc |-> "hydrate", damaged |-> {}, pkg |-> None]
Booted == [NewBoot EXCEPT !.pc = "idle"]

Init ==
  /\ files = [a \in Assets |-> None]
  /\ record = None
  /\ run = [r \in Runs |-> NotStarted]
  /\ active = None
  /\ available = None
  /\ boot = NewBoot
  /\ removing = None
  /\ checked = None
  /\ failures = {}

Live(r) == run[r].pc \notin {"new", "over"}
Quiet == boot.pc = "idle" /\ removing = None /\ checked = None /\ \A r \in Runs : ~Live(r)
IsInstalled(pkg) == pkg # None /\ pkg.status = "installed"

-----------------------------------------------------------------------------
(***************************************************************************)
(* An install starts: the one before it is told to abort, and the plan's   *)
(* first download begins.  Until the boot has ended the page shows nothing *)
(* that would start an install, a removal or an update check.              *)
(***************************************************************************)
install(version) ==
  /\ boot.pc = "idle"
  /\ Overlap \/ (removing = None /\ checked = None)
  /\ \E r \in Runs :
       /\ run[r].pc = "new" /\ \A q \in Runs : run[q].pc = "new" => r <= q
       /\ run' = [q \in Runs |->
                    IF q = r THEN [NotStarted EXCEPT !.pc = "stage", !.version = version,
                                                     !.todo = Plan]
                    ELSE IF q = active THEN [run[q] EXCEPT !.aborted = TRUE]
                    ELSE run[q]]
       /\ active' = r
  /\ UNCHANGED <<files, record, available, boot, removing, checked, failures>>

cancel ==
  /\ active # None
  /\ run' = [run EXCEPT ![active].aborted = TRUE]
  /\ UNCHANGED <<files, record, active, available, boot, removing, checked, failures>>

Becomes(r, state) == run' = [run EXCEPT ![r] = state]
Failing(state) == [state EXCEPT !.pc = "fail"]
Over(state) == [NotStarted EXCEPT !.pc = "over", !.staged = state.staged]

(***************************************************************************)
(* Where the loop over the plan goes on.  The signal is looked at before   *)
(* each download, and no more once the last has ended.                     *)
(***************************************************************************)
Onward(state) ==
  CASE state.todo = << >> -> [state EXCEPT !.pc = "commit", !.todo = state.have]
    [] state.todo # << >> /\ state.aborted -> Failing(state)
    [] OTHER -> state

StageOk(r) ==
  /\ run[r].pc = "stage"
  /\ LET a == Head(run[r].todo) IN
       Becomes(r, Onward([run[r] EXCEPT !.todo = Tail(@), !.have = Append(@, a),
                                        !.staged = @ \cup {a}]))

\* Mutants: a damaged critical asset is left out; a failed install starts over.
StageDamaged_Skips(r) ==
  /\ run[r].pc = "stage"
  /\ Becomes(r, IF run[r].aborted THEN Failing(run[r])
                ELSE Onward([run[r] EXCEPT !.todo = Tail(@)]))

StageFails_Restarts(r) ==
  /\ run[r].pc = "stage"
  /\ Becomes(r, [run[r] EXCEPT !.todo = Plan, !.have = << >>, !.staged = {}])

\* A download whose bytes are not what the manifest says.
StageDamaged(r) ==
  /\ run[r].pc = "stage"
  /\ Becomes(r, IF run[r].aborted \/ Head(run[r].todo) \in Critical THEN Failing(run[r])
                ELSE Onward([run[r] EXCEPT !.todo = Tail(@)]))

\* Network, server, quota, or the abort.
StageFails(r) == run[r].pc = "stage" /\ Becomes(r, Failing(run[r]))

Stage(r) ==
  /\ StageOk(r) \/ StageDamaged(r) \/ StageFails(r)
  /\ UNCHANGED <<files, record, active, available, boot, removing, checked, failures>>

-----------------------------------------------------------------------------
(***************************************************************************)
(* The files are copied one by one over those of an earlier install; then  *)
(* staging is removed and the record is put.  A staged file that has gone  *)
(* is created anew.  Any of it but the removal can fail; a copy that does  *)
(* may leave the file it has just created, where there was none.           *)
(***************************************************************************)
Commit(r) ==
  /\ run[r].pc = "commit" /\ run[r].todo # << >>
  /\ LET a == Head(run[r].todo) IN
       files' = [files EXCEPT ![a] = IF a \in run[r].staged THEN run[r].version ELSE Empty]
  /\ Becomes(r, [run[r] EXCEPT !.todo = Tail(@)])
  /\ UNCHANGED <<record, active, available, boot, removing, checked, failures>>

ClearStaging(r) ==
  /\ run[r].pc = "commit" /\ run[r].todo = << >>
  /\ Becomes(r, [run[r] EXCEPT !.pc = "publish", !.staged = {}])
  /\ UNCHANGED <<files, record, active, available, boot, removing, checked, failures>>

Publish(r) ==
  /\ run[r].pc = "publish"
  /\ record' = [status |-> "installed", version |-> run[r].version, assets |-> Keys(run[r].have),
                stale |-> FALSE]
  /\ Becomes(r, [run[r] EXCEPT !.pc = "done"])
  /\ UNCHANGED <<files, active, available, boot, removing, checked, failures>>

CommitFails(r) ==
  /\ run[r].pc = "commit" /\ run[r].todo # << >>
  /\ LET a == Head(run[r].todo) IN
       files' \in {files, [files EXCEPT ![a] = IF @ = None THEN Empty ELSE @]}
  /\ Becomes(r, Failing(run[r]))
  /\ UNCHANGED <<record, active, available, boot, removing, checked, failures>>

PublishFails(r) ==
  /\ run[r].pc = "publish"
  /\ Becomes(r, Failing(run[r]))
  /\ UNCHANGED <<files, record, active, available, boot, removing, checked, failures>>

\* fail: staging is removed, then a failed record is put, if it can be.
Unstage(r) ==
  /\ run[r].pc = "fail"
  /\ Becomes(r, [run[r] EXCEPT !.pc = "record", !.staged = {}])
  /\ UNCHANGED <<files, record, active, available, boot, removing, checked, failures>>

RecordFailure(r) ==
  /\ run[r].pc = "record"
  /\ record' \in {record, [status |-> "failed", version |-> run[r].version, assets |-> {},
                           stale |-> FALSE]}
  /\ Becomes(r, [run[r] EXCEPT !.pc = "failed"])
  /\ UNCHANGED <<files, active, available, boot, removing, checked, failures>>

(***************************************************************************)
(* The promise settles: the installer's entry for the release is deleted,  *)
(* whichever install it is for.  After a success the manager reads the     *)
(* record back and remembers it.                                           *)
(***************************************************************************)
Settle(r) ==
  /\ run[r].pc \in {"done", "failed"}
  /\ active' = None
  /\ Becomes(r, IF run[r].pc = "done" THEN [run[r] EXCEPT !.pc = "refresh"] ELSE Over(run[r]))
  /\ UNCHANGED <<files, record, available, boot, removing, checked, failures>>

\* Mutant: the manager does not remember what was installed.
Refresh_Forgets(r) ==
  /\ run[r].pc = "refresh"
  /\ Becomes(r, Over(run[r]))
  /\ UNCHANGED <<files, record, active, available, boot, removing, checked, failures>>

Refresh(r) ==
  /\ run[r].pc = "refresh"
  /\ available' = IF IsInstalled(record) THEN record ELSE available
  /\ failures' = IF IsInstalled(record) THEN {} ELSE failures
  /\ Becomes(r, Over(run[r]))
  /\ UNCHANGED <<files, record, active, boot, removing, checked>>

RefreshFails(r) ==
  /\ run[r].pc = "refresh"
  /\ failures' = failures \cup {"refresh"}
  /\ Becomes(r, Over(run[r]))
  /\ UNCHANGED <<files, record, active, available, boot, removing, checked>>

RunStep(r) ==
  \/ Stage(r)
  \/ Commit(r) \/ CommitFails(r) \/ ClearStaging(r) \/ Publish(r) \/ PublishFails(r)
  \/ Unstage(r) \/ RecordFailure(r)
  \/ Settle(r) \/ Refresh(r) \/ RefreshFails(r)

-----------------------------------------------------------------------------
(***************************************************************************)
(* remove: the record's files one by one, then the record; and the update  *)
(* check, which reads the record and puts it back flagged.                 *)
(***************************************************************************)
remove ==
  /\ boot.pc = "idle" /\ removing = None /\ record # None
  /\ Overlap \/ Quiet
  /\ removing' = record.assets
  /\ UNCHANGED <<files, record, run, active, available, boot, checked, failures>>

RemoveFile ==
  /\ removing # None
  /\ \E a \in removing :
       /\ files' = [files EXCEPT ![a] = None]
       /\ removing' = removing \ {a}
  /\ UNCHANGED <<record, run, active, available, boot, checked, failures>>

deletePackage ==
  /\ removing = {}
  /\ record' = None /\ available' = None /\ removing' = None
  /\ failures' = {}
  /\ UNCHANGED <<files, run, active, boot, checked>>

\* Record and availability keep what the files were removed of.
deletePackageFails ==
  /\ removing = {}
  /\ removing' = None
  /\ failures' = failures \cup {"removal"}
  /\ UNCHANGED <<files, record, run, active, available, boot, checked>>

checkForUpdate(version) ==
  /\ boot.pc = "idle" /\ checked = None
  /\ Overlap \/ Quiet
  /\ IsInstalled(record) /\ record.version # version /\ record.assets # {}
  /\ checked' = record
  /\ UNCHANGED <<files, record, run, active, available, boot, removing, failures>>

FlagStale ==
  /\ checked # None
  /\ record' \in {record, [checked EXCEPT !.stale = TRUE]}
  /\ checked' = None
  /\ UNCHANGED <<files, run, active, available, boot, removing, failures>>

-----------------------------------------------------------------------------
(***************************************************************************)
(* init: hydrate, sweep the staging left behind, audit by presence and     *)
(* size, and strip the record of what is damaged.  Wherever the catalog    *)
(* fails, what is left of it is skipped, and the page goes on with what    *)
(* memory holds by then.                                                   *)
(***************************************************************************)
hydrate ==
  /\ boot.pc = "hydrate"
  /\ available' = IF IsInstalled(record) THEN record ELSE available
  /\ boot' = [boot EXCEPT !.pc = "sweep"]
  /\ UNCHANGED <<files, record, run, active, removing, checked, failures>>

\* The boot of a second page, OtherPage, sweeps the staging of this one's installs too.
SweepStaging ==
  /\ boot.pc = "sweep" \/ OtherPage
  /\ run' = [r \in Runs |-> [run[r] EXCEPT !.staged = {}]]
  /\ boot' = IF boot.pc = "sweep" THEN [boot EXCEPT !.pc = "audit"] ELSE boot
  /\ UNCHANGED <<files, record, active, available, removing, checked, failures>>

Size(content) == IF content = Empty THEN 0 ELSE SizeOf[content]

\* Mutant: only what is there with another size counts as damaged.
Damaged_Present(pkg) ==
  {a \in pkg.assets : files[a] \notin {None, Lost} /\ Size(files[a]) # SizeOf[pkg.version]}

Damaged(pkg) ==
  {a \in pkg.assets : files[a] \in {None, Lost} \/ Size(files[a]) # SizeOf[pkg.version]}

auditPackage ==
  /\ boot.pc = "audit"
  /\ boot' = IF IsInstalled(record) /\ Damaged(record) # {}
               THEN [boot EXCEPT !.pc = "reread", !.damaged = Damaged(record)]
               ELSE Booted
  /\ UNCHANGED <<files, record, run, active, available, removing, checked, failures>>

RereadPackage ==
  /\ boot.pc = "reread"
  /\ boot' = IF record = None THEN Booted ELSE [boot EXCEPT !.pc = "apply", !.pkg = record]
  /\ UNCHANGED <<files, record, run, active, available, removing, checked, failures>>

Audited == [boot.pkg EXCEPT !.assets = @ \ boot.damaged, !.stale = TRUE]

applyAudit ==
  /\ boot.pc = "apply"
  /\ record' = Audited
  /\ available' = IF IsInstalled(Audited) THEN Audited ELSE available
  /\ boot' = Booted
  /\ UNCHANGED <<files, run, active, removing, checked, failures>>

BootFails ==
  /\ boot.pc \in {"hydrate", "audit", "reread", "apply"}
  /\ boot' = Booted
  /\ failures' = failures \cup {IF boot.pc = "hydrate" THEN "hydrate" ELSE "audit"}
  /\ UNCHANGED <<files, record, run, active, available, removing, checked>>

BootStep ==
  hydrate \/ SweepStaging \/ auditPackage \/ RereadPackage \/ applyAudit \/ BootFails

(***************************************************************************)
(* The page is reloaded or dies: memory is lost, files and catalog stay,   *)
(* an install's staging too.                                               *)
(***************************************************************************)
Reload ==
  /\ run' = [r \in Runs |-> IF Live(r) THEN Over(run[r]) ELSE run[r]]
  /\ files' = [a \in Assets |-> IF files[a] = Lost THEN None ELSE files[a]]
  /\ active' = None /\ available' = None /\ boot' = NewBoot
  /\ removing' = None /\ checked' = None
  /\ failures' = {}
  /\ UNCHANGED record

Evict ==
  /\ \E a \in Assets : files[a] \notin {None, Lost} /\ files' = [files EXCEPT ![a] = Lost]
  /\ UNCHANGED <<record, run, active, available, boot, removing, checked, failures>>

-----------------------------------------------------------------------------
Next ==
  \/ \E version \in Versions : install(version)
  \/ cancel
  \/ \E r \in Runs : RunStep(r)
  \/ remove \/ RemoveFile \/ deletePackage \/ deletePackageFails
  \/ \E version \in Offers : checkForUpdate(version)
  \/ FlagStale
  \/ BootStep
  \/ Reload \/ Evict

Spec == Init /\ [][Next]_vars

(***************************************************************************)
(* Every await of a running install is answered.                           *)
(***************************************************************************)
FairSpec == Spec /\ \A r \in Runs : WF_vars(RunStep(r))

-----------------------------------------------------------------------------
Packages == [status : {"installed", "failed"}, version : Versions, assets : SUBSET Assets,
             stale : BOOLEAN]

\* What is absent is told from what is there.
ASSUME NothingAssumption ==
  None \notin Packages /\ \A keys \in SUBSET Assets : keys # None

RunStates ==
  [pc : {"new", "stage", "commit", "publish", "done", "refresh", "fail", "record", "failed", "over"},
   version : Versions \cup {None}, todo : Seq(Assets), staged : SUBSET Assets,
   have : Seq(Assets), aborted : BOOLEAN]

(***************************************************************************)
(* Every variable has its type, and a download in progress has an asset.   *)
(***************************************************************************)
TypeOK ==
  /\ files \in [Assets -> Versions \cup {Empty, Lost, None}]
  /\ record \in Packages \cup {None}
  /\ run \in [Runs -> RunStates]
  /\ \A r \in Runs : run[r].pc = "stage" => run[r].todo # << >>
  /\ active \in Runs \cup {None}
  /\ available = None \/ (available \in Packages /\ available.status = "installed")
  /\ boot \in [pc : {"hydrate", "sweep", "audit", "reread", "apply", "idle"},
              damaged : SUBSET Assets, pkg : Packages \cup {None}]
  /\ removing = None \/ removing \in SUBSET Assets
  /\ checked = None \/ (checked \in Packages /\ checked.status = "installed")
  /\ failures \subseteq {"hydrate", "audit", "removal", "refresh"}

(***************************************************************************)
(* Installed-Package Usability: what is installed and not flagged lacks no *)
(* critical asset, in the catalog or in what playback consults, whatever   *)
(* was damaged, cancelled, superseded or cut off by a reload.              *)
(***************************************************************************)
CriticalComplete ==
  \A pkg \in {record, available} :
    IsInstalled(pkg) /\ ~pkg.stale => Critical \subseteq pkg.assets

(***************************************************************************)
(* Once booted, availability offers an asset only where its verified bytes *)
(* are in place, unless the browser evicted them since, whatever installs  *)
(* were cancelled, failed or cut off.  Two failures of the catalog are     *)
(* left out: one that ends the audit, and one that keeps the record of     *)
(* files that were removed.                                                *)
(***************************************************************************)
OffersVerified ==
  boot.pc = "idle" /\ removing = None /\ available # None
  /\ failures \cap {"audit", "removal"} = {} =>
    \A a \in available.assets : files[a] \in {available.version, Lost}

(***************************************************************************)
(* When nothing runs, what was removed is not offered, and what is         *)
(* installed is, in the version and with the assets the catalog has, but   *)
(* where the catalog could not be read.  A package whose reinstall failed  *)
(* is neither: see CatalogIsTruth.                                         *)
(***************************************************************************)
InstalledIsOffered ==
  Quiet =>
    /\ record = None => available = None
    /\ IsInstalled(record) /\ ~record.stale /\ failures \cap {"hydrate", "refresh"} = {} =>
         /\ available # None
         /\ available.assets = record.assets /\ available.version = record.version

(***************************************************************************)
(* types.ts: the catalog is the single source of truth for what is         *)
(* installed.  When nothing runs and nothing has failed but an install,    *)
(* playback is offered nothing else.                                       *)
(***************************************************************************)
CatalogIsTruth ==
  Quiet /\ failures = {} /\ available # None => IsInstalled(record)

(***************************************************************************)
(* manager.ts: availability never points at vanished bytes.  Once booted,  *)
(* what it names was there when the page was opened.                       *)
(***************************************************************************)
NothingVanished ==
  boot.pc = "idle" /\ removing = None /\ available # None =>
    \A a \in available.assets : files[a] # None

(***************************************************************************)
(* installer.ts: a reinstall replaces the whole set atomically.  Once      *)
(* booted, what is offered is not partly of another version.               *)
(***************************************************************************)
OfferedIsOneVersion ==
  boot.pc = "idle" /\ available # None /\ failures = {} /\ (\A r \in Runs : ~Live(r)) =>
    \A a, b \in available.assets : {files[a], files[b]} \subseteq Versions => files[a] = files[b]

(***************************************************************************)
(* stores.ts: a commit of missing keys throws.  What an install is about   *)
(* to publish is in place.                                                 *)
(***************************************************************************)
CommittedInPlace ==
  \A r \in Runs : run[r].pc = "publish" =>
    \A a \in Keys(run[r].have) : files[a] # Empty

(***************************************************************************)
(* "One live install per release": all but one have been told to abort.    *)
(***************************************************************************)
OneLiveInstall ==
  \A q, r \in Runs : Live(q) /\ Live(r) /\ q # r => run[q].aborted \/ run[r].aborted

(***************************************************************************)
(* An install that was started ends, cancelled or superseded or not.       *)
(***************************************************************************)
InstallsEnd == \A r \in Runs : Live(r) ~> ~Live(r)
=============================================================================
