------------------------------ MODULE Library ------------------------------
(***************************************************************************)
(* The library database of musicpack-server and the three things that      *)
(* write it: a scan (discover, one transaction per package, final sweep),  *)
(* the verify job, and the people and tools that change the library        *)
(* directory meanwhile.  Several scans may run at once: the server's job   *)
(* and the command line open the same database.                            *)
(*                                                                         *)
(* A manifest stands for its text, its SHA-256 and its fingerprint; the    *)
(* release it names is ReleaseOf.  What a package's objects are like is    *)
(* one of Objects.  A scan's transaction is two steps: the reads that      *)
(* precede BEGIN, and the transaction.  last_scan names the running scan   *)
(* whose token it is: only equality with a running scan's token is asked.  *)
(***************************************************************************)
EXTENDS Integers, Sequences, FiniteSets

CONSTANTS Paths,       \* where packages can lie, as numbers in sorting order
          Manifests,   \* the manifests that parse
          Broken,      \* the manifests that do not
          Releases,    \* what group_key and release_key name
          ReleaseOf,   \* the release a manifest describes
          Objects,     \* the states of a package's objects that occur
          Scanners,    \* the processes that scan
          VerifyJobs,  \* whether the server runs verify jobs
          LiveEdits,   \* whether packages change while a scan or job runs
          Overlap,     \* whether scans and jobs of several processes overlap
          Unreadable,  \* a manifest file that cannot be read
          None         \* NULL, or the empty string

ASSUME PathsAssumption == IsFiniteSet(Paths) /\ Paths \subseteq Nat
ASSUME ManifestsAssumption ==
  /\ Manifests \cap Broken = {}
  /\ Unreadable \notin Manifests \cup Broken /\ None \notin Manifests \cup Broken
  /\ Unreadable # None
ASSUME ReleasesAssumption == None \notin Releases /\ ReleaseOf \in [Manifests -> Releases]
ASSUME ObjectsAssumption == Objects \subseteq {"intact", "odd", "missing", "corrupt"}
ASSUME ScannersAssumption == None \notin Scanners
ASSUME SwitchesAssumption ==
  VerifyJobs \in BOOLEAN /\ LiveEdits \in BOOLEAN /\ Overlap \in BOOLEAN

VARIABLES
  disk,      \* what lies at each path: a package, or None
  packages,  \* the packages table, in id order; no row is ever deleted
  releases,  \* the releases table: owner_package_id (0: NULL) and the manifest
             \* its graph was written from (None: no row)
  pc,        \* what each scan is doing
  deep,      \* whether it verifies
  body,      \* the manifest it discovered at each path (None: nothing there)
  todo,      \* the candidates it has not processed
  plan,      \* what its reads decided for the candidate at hand
  audit      \* the <<id, path>> pairs the verify job has left

vars == <<disk, packages, releases, pc, deep, body, todo, plan, audit>>
scans == <<pc, deep, body, todo, plan>>

Ids == DOMAIN packages

Bodies == Manifests \cup Broken \cup {Unreadable}
OnDisk == [manifest : Manifests, objects : Objects] \cup
          [manifest : Broken \cup {Unreadable}, objects : {"missing"}]

NoPlan == [kind |-> "none"]

Init ==
  /\ disk = [p \in Paths |-> None]
  /\ packages = << >>
  /\ releases = [r \in Releases |-> [owner |-> 0, content |-> None]]
  /\ pc = [s \in Scanners |-> "idle"]
  /\ deep = [s \in Scanners |-> FALSE]
  /\ body = [s \in Scanners |-> [p \in Paths |-> None]]
  /\ todo = [s \in Scanners |-> {}]
  /\ plan = [s \in Scanners |-> NoPlan]
  /\ audit = << >>

-----------------------------------------------------------------------------
(***************************************************************************)
(* The library directory: a package is put in place, replaced, damaged or  *)
(* repaired, removed, or moved.                                            *)
(***************************************************************************)
Quiet == audit = << >> /\ \A s \in Scanners : pc[s] = "idle"
MayStart == Overlap \/ Quiet

Put(p, c) ==
  /\ LiveEdits \/ Quiet
  /\ disk[p] # c
  /\ disk' = [disk EXCEPT ![p] = c]
  /\ UNCHANGED <<packages, releases, scans, audit>>

Move(p, q) ==
  /\ LiveEdits \/ Quiet
  /\ disk[p] # None /\ disk[q] = None
  /\ disk' = [disk EXCEPT ![q] = disk[p], ![p] = None]
  /\ UNCHANGED <<packages, releases, scans, audit>>

-----------------------------------------------------------------------------
(***************************************************************************)
(* Verdicts: a status and a verify_status.                                 *)
(***************************************************************************)
Opens(p) == disk[p] # None /\ disk[p].manifest \in Manifests

Verified(p) ==
  CASE disk[p].objects = "intact" -> <<"valid", "valid">>
    [] disk[p].objects = "odd"    -> <<"warning", "warning">>
    [] OTHER                      -> <<"checksum-failed", "checksum-failed">>

(***************************************************************************)
(* count_missing_objects looks for the objects the manifest at hand names: *)
(* when the directory has changed since, some may or may not be there.     *)
(***************************************************************************)
SomeMissing(p, m) ==
  CASE disk[p] = None         -> {TRUE}
    [] disk[p] # None /\ disk[p].manifest = m -> {disk[p].objects = "missing"}
    [] OTHER                  -> BOOLEAN

determine_status(p, m, verify) ==
  IF verify
    THEN {IF Opens(p) THEN Verified(p) ELSE <<"checksum-failed", "checksum-failed">>}
    ELSE {<<IF missing THEN "warning" ELSE "valid", "unverified">> : missing \in SomeMissing(p, m)}

Quarantined == <<"conflict", "unverified">>

Row(p, release, fingerprint, sha, verdict, s) ==
  [path |-> p, release_id |-> release, fingerprint |-> fingerprint, sha |-> sha,
   status |-> verdict[1], verify_status |-> verdict[2], last_scan |-> s]

\* package_by_path, as the set of the matching ids
RowsAt(p) == {id \in Ids : packages[id].path = p}

\* package_by_fingerprint: the first row in id order
FirstWith(m) == {id \in Ids : /\ packages[id].fingerprint = m
                              /\ \A j \in Ids : packages[j].fingerprint = m => id <= j}

\* Mutants: a corrupt owner counts as gone; a taken path gives a second row.
owner_present_Intact(id) ==
  packages[id].status \notin {"unavailable", "invalid", "conflict", "checksum-failed"}

Store_Inserts(id, row) == packages' = Append(packages, row)

owner_present(id) == packages[id].status \notin {"unavailable", "invalid", "conflict"}

-----------------------------------------------------------------------------
(***************************************************************************)
(* A scan starts: it discovers every candidate and draws a token, which no *)
(* row carries yet.                                                        *)
(***************************************************************************)
StartScan(s, verify) ==
  /\ MayStart /\ pc[s] = "idle"
  /\ pc' = [pc EXCEPT ![s] = "scan"]
  /\ deep' = [deep EXCEPT ![s] = verify]
  /\ body' = [body EXCEPT ![s] = [p \in Paths |-> IF disk[p] = None THEN None
                                                  ELSE disk[p].manifest]]
  /\ todo' = [todo EXCEPT ![s] = {p \in Paths : disk[p] # None}]
  /\ UNCHANGED <<disk, packages, releases, plan, audit>>

(***************************************************************************)
(* What process_candidate reads and decides before it begins to write.     *)
(***************************************************************************)
Refresh(id, verdict, s) ==
  [kind |-> "row", id |-> id,
   row |-> [packages[id] EXCEPT !.status = verdict[1], !.verify_status = verdict[2],
                                !.last_scan = s]]

\* The row as it is, to be touched only: an unchanged invalid manifest.
InvalidRows(p, sha) == {id \in RowsAt(p) : packages[id].status = "invalid" /\ packages[id].sha = sha}

UnchangedRows(p, m) == {id \in RowsAt(p) : packages[id].sha = m}

UnchangedVerdicts(id, p, m) ==
  {IF missing THEN <<"warning", "unverified">>
   ELSE <<IF packages[id].status = "unavailable" THEN "valid" ELSE packages[id].status,
          packages[id].verify_status>> : missing \in SomeMissing(p, m)}

\* Mutant: a copy elsewhere is taken for a move, wherever the original is.
MovedRows_Anywhere(p, m) == {id \in FirstWith(m) : packages[id].path # p}

MovedRows(p, m) == {id \in FirstWith(m) : packages[id].path # p /\ disk[packages[id].path] = None}

MovedVerdicts(id, p, m, verify) ==
  IF packages[id].status = "conflict" THEN {Quarantined} ELSE determine_status(p, m, verify)

\* Mutant: a package does not recognise itself as the owner.
Takes_NotOwn(p, r) ==
  \/ releases[r].content = None
  \/ releases[r].owner = 0
  \/ ~owner_present(releases[r].owner)

(***************************************************************************)
(* The arbitration of ingest_valid: take over when there is no release, or *)
(* its owner is this row or gone; an active owner with another fingerprint *)
(* makes a conflict, with the same one a mirror.                           *)
(***************************************************************************)
Takes(p, r) ==
  \/ releases[r].content = None
  \/ releases[r].owner \in RowsAt(p)
  \/ releases[r].owner = 0
  \/ ~owner_present(releases[r].owner)

Conflicts(p, m) ==
  /\ ~Takes(p, ReleaseOf[m])
  /\ packages[releases[ReleaseOf[m]].owner].fingerprint # m

ValidPlans(s, p, m, fast) ==
  IF fast /\ UnchangedRows(p, m) # {}
    THEN UNION {{Refresh(id, v, s) : v \in UnchangedVerdicts(id, p, m)} : id \in UnchangedRows(p, m)}
  ELSE IF RowsAt(p) = {} /\ MovedRows(p, m) # {}
    THEN UNION {{[kind |-> "row", id |-> id,
                  row |-> Row(p, packages[id].release_id, m, m, v, s)] :
                 v \in MovedVerdicts(id, p, m, deep[s])} : id \in MovedRows(p, m)}
  ELSE {[kind |-> "ingest", have |-> RowsAt(p), take |-> Takes(p, ReleaseOf[m]),
         conflict |-> Conflicts(p, m)]}

Plans(s, p, sha) ==
  LET fast == ~deep[s] IN
  CASE fast /\ InvalidRows(p, sha) # {} ->
         {Refresh(id, <<"invalid", packages[id].verify_status>>, s) : id \in InvalidRows(p, sha)}
    [] sha \notin Manifests /\ ~(fast /\ InvalidRows(p, sha) # {}) ->
         {[kind |-> "invalid", sha |-> IF sha = Unreadable THEN None ELSE sha]}
    [] OTHER -> ValidPlans(s, p, sha, fast)

Head1(s) == CHOOSE p \in todo[s] : \A q \in todo[s] : p <= q

Decide(s) ==
  /\ pc[s] = "scan" /\ todo[s] # {}
  /\ \E c \in Plans(s, Head1(s), body[s][Head1(s)]) : plan' = [plan EXCEPT ![s] = c]
  /\ pc' = [pc EXCEPT ![s] = "write"]
  /\ UNCHANGED <<disk, packages, releases, deep, body, todo, audit>>

-----------------------------------------------------------------------------
(***************************************************************************)
(* The transaction.  packages.path is UNIQUE: a write that would give two  *)
(* rows one path fails, which ends the scan (Stop).                        *)
(***************************************************************************)
Store(id, row) ==
  /\ RowsAt(row.path) \subseteq {id}
  /\ packages' = IF id \in Ids THEN [packages EXCEPT ![id] = row] ELSE Append(packages, row)

NewId == Len(packages) + 1
IdOf(have) == IF have = {} THEN NewId ELSE CHOOSE id \in have : TRUE

WriteRow(s) ==
  /\ plan[s].kind = "row"
  /\ Store(plan[s].id, plan[s].row)
  /\ UNCHANGED releases

RecordInvalid(s, p) ==
  /\ plan[s].kind = "invalid"
  /\ Store(IdOf(RowsAt(p)), Row(p, None, None, plan[s].sha, <<"invalid", "unverified">>, s))
  /\ UNCHANGED releases

Ingest(s, p) ==
  LET m  == body[s][p]
      id == IdOf(plan[s].have)
  IN  /\ plan[s].kind = "ingest"
      /\ \E v \in determine_status(p, m, deep[s]) :
           Store(id, Row(p, ReleaseOf[m], m, m, IF plan[s].conflict THEN Quarantined ELSE v, s))
      /\ releases' = IF plan[s].take
                       THEN [releases EXCEPT ![ReleaseOf[m]] = [owner |-> id, content |-> m]]
                       ELSE releases

Write(s) ==
  /\ pc[s] = "write"
  /\ LET p == Head1(s) IN
       /\ WriteRow(s) \/ RecordInvalid(s, p) \/ Ingest(s, p)
       /\ todo' = [todo EXCEPT ![s] = @ \ {p}]
  /\ pc' = [pc EXCEPT ![s] = "scan"]
  /\ plan' = [plan EXCEPT ![s] = NoPlan]
  /\ UNCHANGED <<disk, deep, body, audit>>

(***************************************************************************)
(* The scan is over: its token is nobody's, and what it knew is forgotten. *)
(***************************************************************************)
Forget(s) ==
  /\ deep' = [deep EXCEPT ![s] = FALSE]
  /\ body' = [body EXCEPT ![s] = [p \in Paths |-> None]]
  /\ todo' = [todo EXCEPT ![s] = {}]
  /\ plan' = [plan EXCEPT ![s] = NoPlan]

Unstamped(row, s) == IF row.last_scan = s THEN [row EXCEPT !.last_scan = None] ELSE row

(***************************************************************************)
(* The final sweep of what this scan has not seen.                         *)
(***************************************************************************)
package_sweep(s) ==
  packages' = [id \in Ids |->
    IF packages[id].last_scan # s /\ packages[id].status \notin {"unavailable", "conflict"}
      THEN [packages[id] EXCEPT !.status = "unavailable"] ELSE Unstamped(packages[id], s)]

Sweep(s) ==
  /\ pc[s] = "scan" /\ todo[s] = {}
  /\ package_sweep(s)
  /\ pc' = [pc EXCEPT ![s] = "idle"]
  /\ Forget(s)
  /\ UNCHANGED <<disk, releases, audit>>

\* Mutant: a scan that stops sweeps what it had not reached.
Stop_Sweeps(s) ==
  /\ pc[s] \in {"scan", "write"}
  /\ package_sweep(s)
  /\ pc' = [pc EXCEPT ![s] = "idle"]
  /\ Forget(s)
  /\ UNCHANGED <<disk, releases, audit>>

(***************************************************************************)
(* A scan ends early, without a sweep: a drain between two packages, a     *)
(* failed transaction (rolled back), a crash.                              *)
(***************************************************************************)
Stop(s) ==
  /\ pc[s] \in {"scan", "write"}
  /\ packages' = [id \in Ids |-> Unstamped(packages[id], s)]
  /\ pc' = [pc EXCEPT ![s] = "idle"]
  /\ Forget(s)
  /\ UNCHANGED <<disk, releases, audit>>

-----------------------------------------------------------------------------
(***************************************************************************)
(* The verify job: candidates collected before any write, then a verdict   *)
(* per package, each its own write; a drain or a crash drops the rest.     *)
(***************************************************************************)
Candidate(id) == packages[id].status \notin {"unavailable", "invalid", "conflict"}

StartVerify ==
  /\ VerifyJobs /\ MayStart /\ audit = << >>
  /\ audit' = SelectSeq([id \in Ids |-> <<id, packages[id].path>>],
                        LAMBDA e : Candidate(e[1]))
  /\ audit' # << >>
  /\ UNCHANGED <<disk, packages, releases, scans>>

package_set_verify(id, verdict) ==
  packages' = IF packages[id].status = "conflict" THEN packages
              ELSE [packages EXCEPT ![id].status = verdict[1], ![id].verify_status = verdict[2]]

Verify ==
  /\ audit # << >>
  /\ LET id == Head(audit)[1]
         p  == Head(audit)[2]
     IN  package_set_verify(id, IF Opens(p) THEN Verified(p) ELSE <<"warning", "unverified">>)
  /\ audit' = Tail(audit)
  /\ UNCHANGED <<disk, releases, scans>>

StopVerify ==
  /\ audit # << >>
  /\ audit' = << >>
  /\ UNCHANGED <<disk, packages, releases, scans>>

-----------------------------------------------------------------------------
Edit ==
  \/ \E p \in Paths : \E c \in OnDisk \cup {None} : Put(p, c)
  \/ \E p, q \in Paths : Move(p, q)

ScanStep(s) == Decide(s) \/ Write(s) \/ Sweep(s)

Next ==
  \/ Edit
  \/ \E s \in Scanners : \/ \E verify \in BOOLEAN : StartScan(s, verify)
                         \/ ScanStep(s)
                         \/ Stop(s)
  \/ StartVerify \/ Verify \/ StopVerify

Spec == Init /\ [][Next]_vars

-----------------------------------------------------------------------------
Statuses == {"valid", "warning", "checksum-failed", "invalid", "unavailable", "conflict"}
Verdicts == {"unverified", "valid", "warning", "checksum-failed"}

(***************************************************************************)
(* Every variable has its type, and no two rows share a path.              *)
(***************************************************************************)
RowType ==
  [path : Paths, release_id : Releases \cup {None}, fingerprint : Manifests \cup {None},
   sha : Manifests \cup Broken \cup {None}, status : Statuses, verify_status : Verdicts,
   last_scan : Scanners \cup {None}]

TypeOK ==
  /\ disk \in [Paths -> OnDisk \cup {None}]
  /\ packages \in Seq(RowType)
  /\ \A i, j \in Ids : packages[i].path = packages[j].path => i = j
  /\ releases \in [Releases -> [owner : {0} \cup Ids, content : Manifests \cup {None}]]
  /\ pc \in [Scanners -> {"idle", "scan", "write"}]
  /\ deep \in [Scanners -> BOOLEAN]
  /\ body \in [Scanners -> [Paths -> Bodies \cup {None}]]
  /\ todo \in [Scanners -> SUBSET Paths]
  /\ \A i \in DOMAIN audit : audit[i] \in Ids \X Paths

(***************************************************************************)
(* The gate every read applies: a release is served when its owner's       *)
(* status and verify_status both allow it.                                 *)
(***************************************************************************)
Visible(r) ==
  /\ releases[r].owner # 0
  /\ packages[releases[r].owner].status \in {"valid", "warning"}
  /\ packages[releases[r].owner].verify_status \in {"valid", "warning"}

(***************************************************************************)
(* A release whose owner still claims it is served from the graph of that  *)
(* package's recorded manifest, and its owner is never quarantined: no     *)
(* arbitration, mirror or move leaves an owner beside another's graph.     *)
(***************************************************************************)
OwnerServes ==
  \A r \in Releases : LET o == releases[r].owner IN
    o # 0 /\ packages[o].release_id = r =>
      packages[o].fingerprint = releases[r].content /\ packages[o].status # "conflict"

(***************************************************************************)
(* "First-discovered wins": a release changes hands only when its owner is *)
(* unavailable, invalid or quarantined.                                    *)
(***************************************************************************)
OwnersHold ==
  [][\A r \in Releases : LET o == releases[r].owner IN
       o # 0 /\ packages[o].status \in {"valid", "warning", "checksum-failed"} =>
         releases'[r].owner = o]_vars

(***************************************************************************)
(* A scan that reaches its end leaves the table agreeing with the library  *)
(* it discovered: a sound package has a row that records it and is not     *)
(* written off, a broken one an invalid row, and a path where nothing lies *)
(* at most a row that is written off or quarantined.                       *)
(***************************************************************************)
Records(row, found) ==
  CASE found = None         -> row.status \in {"unavailable", "conflict"}
    [] found \in Manifests -> /\ row.fingerprint = found /\ row.sha = found
                              /\ row.release_id = ReleaseOf[found]
                              /\ row.status \notin {"unavailable", "invalid"}
    [] OTHER                -> row.status = "invalid"

Reflects(found) ==
  /\ \A id \in Ids : Records(packages[id], found[packages[id].path])
  /\ \A p \in Paths : found[p] # None => RowsAt(p) # {}

(***************************************************************************)
(* When it verifies, it also judges every package by its objects.         *)
(***************************************************************************)
Judges(found) ==
  \A id \in Ids : LET row == packages[id] IN
    found[row.path] \in Manifests /\ row.status # "conflict" =>
      <<row.status, row.verify_status>> = Verified(row.path)

ScanReflects ==
  [][\A s \in Scanners : Sweep(s) =>
       \A found \in {body[s]} : Reflects(found)' /\ (deep[s] => Judges(found)')]_vars

(***************************************************************************)
(* The sweep writes off "packages unseen by this scan", and nothing else   *)
(* writes a package off: neither a cancelled scan nor a crashed one.       *)
(***************************************************************************)
WrittenOff(id) == packages[id].status # "unavailable" /\ packages'[id].status = "unavailable"

SweepSparesSeen ==
  [][\A id \in Ids : WrittenOff(id) =>
       \E s \in Scanners : Sweep(s) /\ body[s][packages[id].path] = None]_vars

(***************************************************************************)
(* The database is a projection of the library: after a scan, a release    *)
(* that is served is one that its owner's package still describes.         *)
(***************************************************************************)
Projection ==
  [][\A s \in Scanners : Sweep(s) =>
       \A r \in Releases : Visible(r)' => packages'[releases'[r].owner].release_id = r]_vars

(***************************************************************************)
(* Nothing is served before its content was verified: the graph of a       *)
(* release that becomes visible is that of the manifest just verified.     *)
(***************************************************************************)
VerifiedServed ==
  [][\A r \in Releases : ~Visible(r) /\ Visible(r)' =>
       LET o == releases'[r].owner IN
         Opens(packages'[o].path) => disk[packages'[o].path].manifest = releases'[r].content]_vars
=============================================================================
