-------------------------- MODULE Library_proofs ---------------------------
(***************************************************************************)
(* Proofs about the library database, for any number of paths, manifests,  *)
(* releases and scanners, while packages change under a running scan or    *)
(* verify job, as long as scans and jobs do not overlap (~Overlap): a      *)
(* release is served from its owner's manifest, and keeps its owner as     *)
(* long as that owner is present; and only a finished scan writes a        *)
(* package off.  While nobody edits the library under a scan, what the     *)
(* scan leaves is the library it discovered.                               *)
(*                                                                         *)
(* None is inductive: a transaction writes what its scan decided           *)
(* before, so the invariant says of every decided plan that it still fits  *)
(* the table (PlansFit), which rests on nobody else writing in between     *)
(* (Exclusive).                                                            *)
(***************************************************************************)
EXTENDS Library, SequenceTheorems, WellFoundedInduction, TLAPS

OnePath == \A i, j \in Ids : packages[i].path = packages[j].path => i = j

Types ==
  /\ disk \in [Paths -> OnDisk \cup {None}]
  /\ packages \in Seq(RowType)
  /\ releases \in [Releases -> [owner : {0} \cup Ids, content : Manifests \cup {None}]]
  /\ pc \in [Scanners -> {"idle", "scan", "write"}]
  /\ body \in [Scanners -> [Paths -> Bodies \cup {None}]]
  /\ todo \in [Scanners -> SUBSET Paths]
  /\ DOMAIN plan = Scanners

(***************************************************************************)
(* One scan or one verify job at a time.                                   *)
(***************************************************************************)
Exclusive ==
  /\ \A s, t \in Scanners : pc[s] # "idle" /\ pc[t] # "idle" => s = t
  /\ audit # << >> => \A s \in Scanners : pc[s] = "idle"

(***************************************************************************)
(* What is left to process was discovered.                                 *)
(***************************************************************************)
Discovered == \A s \in Scanners : \A p \in todo[s] : body[s][p] # None

(***************************************************************************)
(* Only a release that was written has an owner.                           *)
(***************************************************************************)
Unowned == \A r \in Releases : releases[r].content = None => releases[r].owner = 0

(***************************************************************************)
(* What a plan for the candidate p, with manifest m, may be.  A plan that  *)
(* rewrites a row keeps what the row says of its release, and quarantines  *)
(* no row that was not; a plan that ingests knows the row, and arbitrates  *)
(* on the owner, as they are.                                              *)
(***************************************************************************)
KeepsIdentity(c) ==
  /\ c.kind = "row" /\ c.id \in Ids /\ c.row \in RowType
  /\ c.row.release_id = packages[c.id].release_id
  /\ c.row.fingerprint = packages[c.id].fingerprint
  /\ c.row.status = "conflict" => packages[c.id].status = "conflict"

Rejects(c) == c.kind = "invalid" /\ c.sha \in Broken \cup {None}

Arbitrates(c, p, m) ==
  /\ c.kind = "ingest" /\ m \in Manifests
  /\ c.have = RowsAt(p)
  /\ c.take <=> Takes(p, ReleaseOf[m])
  /\ c.conflict <=> Conflicts(p, m)

PlanFits(c, p, m) == KeepsIdentity(c) \/ Rejects(c) \/ Arbitrates(c, p, m)

PlansFit ==
  \A s \in Scanners : pc[s] = "write" =>
    todo[s] # {} /\ PlanFits(plan[s], Head1(s), body[s][Head1(s)])

Inv ==
  /\ Types
  /\ OnePath
  /\ Exclusive
  /\ Discovered
  /\ Unowned
  /\ PlansFit
  /\ OwnerServes

-----------------------------------------------------------------------------
(***************************************************************************)
(* A set of paths that is not empty has a first one in sorting order.      *)
(***************************************************************************)
LEMMA FirstExists ==
  ASSUME NEW T, T \subseteq Nat, T # {}
  PROVE  \E x \in T : \A y \in T : x <= y
<1> DEFINE R == OpToRel(<, Nat)
<1>1. IsWellFoundedOn(R, Nat)
  BY NatLessThanWellFounded
<1>2. \A x, y \in Nat : <<y, x>> \in R <=> y < x
  BY DEF OpToRel
<1> HIDE DEF R
<1>3. PICK x \in T : \A y \in T : ~(<<y, x>> \in R)
  BY <1>1, WFMin
<1>4. ASSUME NEW y \in T PROVE x <= y
  <2>1. x \in Nat /\ y \in Nat
    OBVIOUS
  <2>2. ~(y < x)
    BY <1>2, <1>3, <2>1
  <2> QED
    BY <2>1, <2>2
<1> QED
  BY <1>4

(* The candidate at hand is one of those left. *)
LEMMA HeadLeft ==
  ASSUME Types, NEW s \in Scanners, todo[s] # {}
  PROVE  Head1(s) \in todo[s] /\ Head1(s) \in Paths
<1>1. todo[s] \subseteq Paths
  BY DEF Types
<1>2. \E p \in todo[s] : \A q \in todo[s] : p <= q
  BY <1>1, FirstExists, PathsAssumption
<1> QED
  BY <1>1, <1>2 DEF Head1

-----------------------------------------------------------------------------
(***************************************************************************)
(* Updates of a row, written out field by field.                           *)
(***************************************************************************)
LEMMA SetStatus ==
  ASSUME NEW row \in RowType, NEW status
  PROVE  [row EXCEPT !.status = status]
         = Row(row.path, row.release_id, row.fingerprint, row.sha,
               <<status, row.verify_status>>, row.last_scan)
BY DEF RowType, Row

(* An update of the verify status leaves the other columns alone. *)
LEMMA SetVerdict ==
  ASSUME NEW row \in RowType, NEW verify_status
  PROVE  [row EXCEPT !.verify_status = verify_status]
         = Row(row.path, row.release_id, row.fingerprint, row.sha,
               <<row.status, verify_status>>, row.last_scan)
BY DEF RowType, Row

(* An update of the scan token leaves the other columns alone. *)
LEMMA SetToken ==
  ASSUME NEW row \in RowType, NEW last_scan
  PROVE  [row EXCEPT !.last_scan = last_scan]
         = Row(row.path, row.release_id, row.fingerprint, row.sha,
               <<row.status, row.verify_status>>, last_scan)
BY DEF RowType, Row

(* A row of well-typed columns. *)
LEMMA RowOK ==
  ASSUME NEW path \in Paths, NEW release \in Releases \cup {None},
         NEW fingerprint \in Manifests \cup {None},
         NEW sha \in Manifests \cup Broken \cup {None},
         NEW verdict, verdict[1] \in Statuses, verdict[2] \in Verdicts,
         NEW token \in Scanners \cup {None}
  PROVE  /\ Row(path, release, fingerprint, sha, verdict, token) \in RowType
         /\ Row(path, release, fingerprint, sha, verdict, token).path = path
         /\ Row(path, release, fingerprint, sha, verdict, token).release_id = release
         /\ Row(path, release, fingerprint, sha, verdict, token).fingerprint = fingerprint
         /\ Row(path, release, fingerprint, sha, verdict, token).sha = sha
         /\ Row(path, release, fingerprint, sha, verdict, token).status = verdict[1]
         /\ Row(path, release, fingerprint, sha, verdict, token).verify_status = verdict[2]
         /\ Row(path, release, fingerprint, sha, verdict, token).last_scan = token
BY DEF RowType, Row

(* The columns of a row have their types. *)
LEMMA Columns ==
  ASSUME NEW row \in RowType
  PROVE  /\ row.path \in Paths /\ row.release_id \in Releases \cup {None}
         /\ row.fingerprint \in Manifests \cup {None}
         /\ row.sha \in Manifests \cup Broken \cup {None}
         /\ row.status \in Statuses /\ row.verify_status \in Verdicts
         /\ row.last_scan \in Scanners \cup {None}
BY DEF RowType

-----------------------------------------------------------------------------
(***************************************************************************)
(* A verdict on a package never quarantines it or writes it off.           *)
(***************************************************************************)
LEMMA VerifiedOK ==
  ASSUME NEW p
  PROVE  /\ Verified(p)[1] \in {"valid", "warning", "checksum-failed"}
         /\ Verified(p)[2] \in Verdicts
BY DEF Verified, Verdicts

(* Nor does the status of an ingested package. *)
LEMMA DetermineOK ==
  ASSUME NEW p, NEW m, NEW verify, NEW v \in determine_status(p, m, verify)
  PROVE  /\ v[1] \in {"valid", "warning", "checksum-failed"}
         /\ v[2] \in Verdicts
<1>1. CASE verify
  BY <1>1, VerifiedOK DEF determine_status, Verdicts
<1>2. CASE ~verify
  BY <1>2 DEF determine_status, Verdicts
<1> QED
  BY <1>1, <1>2

-----------------------------------------------------------------------------
(***************************************************************************)
(* A refreshed row, column by column.                                      *)
(***************************************************************************)
LEMMA RefreshRow ==
  ASSUME Types, NEW id \in Ids, NEW s \in Scanners, NEW verdict,
         verdict[1] \in Statuses, verdict[2] \in Verdicts
  PROVE  /\ packages[id] \in RowType
         /\ Refresh(id, verdict, s)
            = [kind |-> "row", id |-> id,
               row |-> Row(packages[id].path, packages[id].release_id, packages[id].fingerprint,
                           packages[id].sha, verdict, s)]
<1> DEFINE old == packages[id]
           one == [old EXCEPT !.status = verdict[1]]
           two == [one EXCEPT !.verify_status = verdict[2]]
           row == [two EXCEPT !.last_scan = s]
<1>1. old \in RowType
  BY LenProperties, ElementOfSeq DEF Types, Ids
<1>2. Refresh(id, verdict, s) = [kind |-> "row", id |-> id, row |-> row]
  BY Zenon DEF Refresh
<1> HIDE DEF old
<1>3. one = Row(old.path, old.release_id, old.fingerprint, old.sha,
                <<verdict[1], old.verify_status>>, old.last_scan)
  BY <1>1, SetStatus
<1> HIDE DEF one
<1>4. one \in RowType
  BY <1>1, <1>3 DEF Row, RowType
<1>5. two = Row(one.path, one.release_id, one.fingerprint, one.sha,
                <<one.status, verdict[2]>>, one.last_scan)
  BY <1>4, SetVerdict
<1>6. two = Row(old.path, old.release_id, old.fingerprint, old.sha, verdict, old.last_scan)
  BY <1>3, <1>5 DEF Row
<1> HIDE DEF two
<1>7. two \in RowType
  BY <1>1, <1>6 DEF Row, RowType
<1>8. row = Row(two.path, two.release_id, two.fingerprint, two.sha,
                <<two.status, two.verify_status>>, s)
  BY <1>7, SetToken
<1>9. row = Row(old.path, old.release_id, old.fingerprint, old.sha, verdict, s)
  BY <1>6, <1>8 DEF Row
<1> HIDE DEF row
<1> QED
  BY <1>1, <1>2, <1>9 DEF old

(***************************************************************************)
(* A refreshed row keeps its identity, as does one that follows its        *)
(* package to another path.                                                *)
(***************************************************************************)
LEMMA RefreshKeeps ==
  ASSUME Types, NEW id \in Ids, NEW s \in Scanners, NEW verdict,
         verdict[1] \in Statuses, verdict[2] \in Verdicts,
         verdict[1] = "conflict" => packages[id].status = "conflict"
  PROVE  KeepsIdentity(Refresh(id, verdict, s))
<1> DEFINE old == packages[id]
           row == Row(old.path, old.release_id, old.fingerprint, old.sha, verdict, s)
<1>1. old \in RowType /\ Refresh(id, verdict, s) = [kind |-> "row", id |-> id, row |-> row]
  BY RefreshRow
<1> HIDE DEF old
<1>2. /\ row \in RowType /\ row.release_id = old.release_id
      /\ row.fingerprint = old.fingerprint /\ row.status = verdict[1]
  BY <1>1 DEF Row, RowType
<1> HIDE DEF row
<1> QED
  BY <1>1, <1>2 DEF old, KeepsIdentity

(* A row that follows its package to another path. *)
LEMMA MovedKeeps ==
  ASSUME Types, NEW p \in Paths, NEW m \in Manifests, NEW verify, NEW s \in Scanners,
         NEW id \in MovedRows(p, m), NEW v \in MovedVerdicts(id, p, m, verify)
  PROVE  KeepsIdentity([kind |-> "row", id |-> id,
                        row |-> Row(p, packages[id].release_id, m, m, v, s)])
<1>1. id \in Ids /\ packages[id].fingerprint = m
  BY DEF MovedRows, FirstWith
<1>2. packages[id] \in RowType
  BY <1>1, LenProperties, ElementOfSeq DEF Types, Ids
<1>3. v[1] \in Statuses /\ v[2] \in Verdicts /\ (v[1] = "conflict" => packages[id].status = "conflict")
  <2>1. CASE packages[id].status = "conflict"
    BY <2>1 DEF MovedVerdicts, Quarantined, Statuses, Verdicts
  <2>2. CASE packages[id].status # "conflict"
    <3>1. v \in determine_status(p, m, verify)
      BY <2>2 DEF MovedVerdicts
    <3> QED
      BY <3>1, DetermineOK DEF Statuses
  <2> QED
    BY <2>1, <2>2
<1> DEFINE row == Row(p, packages[id].release_id, m, m, v, s)
<1>4. /\ row \in RowType /\ row.release_id = packages[id].release_id
      /\ row.fingerprint = m /\ row.status = v[1]
  BY <1>2, <1>3 DEF Row, RowType
<1> HIDE DEF row
<1>5. KeepsIdentity([kind |-> "row", id |-> id, row |-> row])
  BY <1>1, <1>3, <1>4 DEF KeepsIdentity
<1> QED
  BY <1>5 DEF row

(***************************************************************************)
(* Whatever a scan decides for a candidate fits the table it read.         *)
(***************************************************************************)
LEMMA ValidPlansFit ==
  ASSUME Types, NEW s \in Scanners, NEW p \in Paths, NEW m \in Manifests, NEW fast,
         NEW c \in ValidPlans(s, p, m, fast)
  PROVE  PlanFits(c, p, m)
<1>1. CASE fast /\ UnchangedRows(p, m) # {}
  <2>1. c \in UNION {{Refresh(id, v, s) : v \in UnchangedVerdicts(id, p, m)} :
                     id \in UnchangedRows(p, m)}
    BY <1>1 DEF ValidPlans
  <2>2. PICK id \in UnchangedRows(p, m) : \E v \in UnchangedVerdicts(id, p, m) : c = Refresh(id, v, s)
    BY <2>1
  <2>3. PICK v \in UnchangedVerdicts(id, p, m) : c = Refresh(id, v, s)
    BY <2>2
  <2>4. id \in Ids
    BY DEF UnchangedRows, RowsAt
  <2>5. packages[id].status \in Statuses /\ packages[id].verify_status \in Verdicts
    BY <2>4, LenProperties, ElementOfSeq, Columns DEF Types, Ids
  <2>6. /\ v[1] \in Statuses /\ v[2] \in Verdicts
        /\ v[1] = "conflict" => packages[id].status = "conflict"
    BY <2>3, <2>5 DEF UnchangedVerdicts, Statuses, Verdicts
  <2> QED
    BY <2>3, <2>4, <2>6, RefreshKeeps DEF PlanFits
<1>2. CASE ~(fast /\ UnchangedRows(p, m) # {}) /\ RowsAt(p) = {} /\ MovedRows(p, m) # {}
  <2>1. c \in UNION {{[kind |-> "row", id |-> id,
                       row |-> Row(p, packages[id].release_id, m, m, v, s)] :
                      v \in MovedVerdicts(id, p, m, deep[s])} : id \in MovedRows(p, m)}
    BY <1>2 DEF ValidPlans
  <2>2. PICK id \in MovedRows(p, m) : \E v \in MovedVerdicts(id, p, m, deep[s]) :
          c = [kind |-> "row", id |-> id, row |-> Row(p, packages[id].release_id, m, m, v, s)]
    BY <2>1
  <2> QED
    BY <2>2, MovedKeeps DEF PlanFits
<1>3. CASE ~(fast /\ UnchangedRows(p, m) # {}) /\ ~(RowsAt(p) = {} /\ MovedRows(p, m) # {})
  <2>1. c = [kind |-> "ingest", have |-> RowsAt(p), take |-> Takes(p, ReleaseOf[m]),
             conflict |-> Conflicts(p, m)]
    BY <1>3 DEF ValidPlans
  <2>2. /\ c.kind = "ingest" /\ c.have = RowsAt(p)
        /\ c.take = Takes(p, ReleaseOf[m]) /\ c.conflict = Conflicts(p, m)
    BY <2>1, Zenon
  <2> QED
    BY <2>2, Zenon DEF PlanFits, Arbitrates
<1> QED
  BY <1>1, <1>2, <1>3

(* The same for every manifest that can be discovered, readable or not. *)
LEMMA PlansFitTable ==
  ASSUME Types, NEW s \in Scanners, NEW p \in Paths, NEW sha \in Bodies,
         NEW c \in Plans(s, p, sha)
  PROVE  PlanFits(c, p, sha)
<1> DEFINE fast    == ~deep[s]
           skipped == fast /\ InvalidRows(p, sha) # {}
<1>1. CASE skipped
  <2>1. c \in {Refresh(id, <<"invalid", packages[id].verify_status>>, s) : id \in InvalidRows(p, sha)}
    BY <1>1 DEF Plans
  <2>2. PICK id \in InvalidRows(p, sha) :
          c = Refresh(id, <<"invalid", packages[id].verify_status>>, s)
    BY <2>1
  <2>3. id \in Ids
    BY DEF InvalidRows, RowsAt
  <2>4. packages[id].verify_status \in Verdicts
    BY <2>3, LenProperties, ElementOfSeq, Columns DEF Types, Ids
  <2> DEFINE v == <<"invalid", packages[id].verify_status>>
  <2>5. v[1] = "invalid" /\ v[1] \in Statuses /\ v[2] \in Verdicts /\ v[1] # "conflict"
    BY <2>4 DEF Statuses
  <2> HIDE DEF v
  <2>6. KeepsIdentity(Refresh(id, v, s))
    BY <2>3, <2>5, RefreshKeeps
  <2> QED
    BY <2>2, <2>6 DEF v, PlanFits
<1>2. CASE sha \notin Manifests /\ ~skipped
  <2>1. c \in {[kind |-> "invalid", sha |-> IF sha = Unreadable THEN None ELSE sha]}
    BY <1>2 DEF Plans
  <2>2. c.kind = "invalid" /\ c.sha = IF sha = Unreadable THEN None ELSE sha
    BY <2>1
  <2> QED
    BY <2>2, <1>2 DEF Bodies, Rejects, PlanFits
<1>3. CASE sha \in Manifests /\ ~skipped
  <2>1. c \in ValidPlans(s, p, sha, fast)
    BY <1>3 DEF Plans
  <2> QED
    BY <2>1, <1>3, ValidPlansFit
<1> QED
  BY <1>1, <1>2, <1>3

-----------------------------------------------------------------------------
(***************************************************************************)
(* A statement's effect on the table: the row written is the one at id,    *)
(* every other row stays, and paths stay unique.                           *)
(***************************************************************************)
LEMMA StoreOK ==
  ASSUME Types, OnePath, NEW id, id \in Ids \/ id = NewId, NEW row \in RowType,
         Store(id, row)
  PROVE  /\ packages' \in Seq(RowType)
         /\ Ids' = Ids \cup {id}
         /\ packages'[id] = row
         /\ \A j \in Ids : j # id => packages'[j] = packages[j]
         /\ OnePath'
<1>1. /\ packages \in Seq(RowType) /\ Len(packages) \in Nat
      /\ Ids = 1 .. Len(packages)
  BY LenProperties DEF Types, Ids
<1>2. /\ packages' \in Seq(RowType)
      /\ Ids' = Ids \cup {id}
      /\ packages'[id] = row
      /\ \A j \in Ids : j # id => packages'[j] = packages[j]
  <2>1. CASE id \in Ids
    <3>1. packages' = [packages EXCEPT ![id] = row]
      BY <2>1 DEF Store
    <3>2. packages' \in Seq(RowType) /\ Len(packages') = Len(packages)
      BY <1>1, <2>1, <3>1, ExceptSeq
    <3>3. DOMAIN packages' = DOMAIN packages
      BY <3>1
    <3> QED
      BY <1>1, <2>1, <3>1, <3>2, <3>3 DEF Ids
  <2>2. CASE id = NewId /\ id \notin Ids
    <3>1. packages' = Append(packages, row)
      BY <2>2 DEF Store
    <3>2. /\ packages' \in Seq(RowType) /\ Len(packages') = Len(packages) + 1
          /\ packages'[Len(packages) + 1] = row
          /\ \A j \in 1 .. Len(packages) : packages'[j] = packages[j]
      BY <1>1, <3>1, AppendProperties
    <3>3. DOMAIN packages' = 1 .. Len(packages) + 1
      BY <3>2, LenProperties
    <3> QED
      BY <1>1, <2>2, <3>2, <3>3 DEF Ids, NewId
  <2> QED
    BY <2>1, <2>2
<1>3. \A j \in Ids : packages[j].path = row.path => j = id
  BY DEF Store, RowsAt
<1>4. \A i, j \in Ids' : packages'[i].path = packages'[j].path => i = j
  BY <1>2, <1>3 DEF OnePath
<1> QED
  BY <1>2, <1>4 DEF OnePath

(***************************************************************************)
(* Rows rewritten in place, with their release and fingerprint kept and    *)
(* none quarantined anew, leave every release served as it was.            *)
(***************************************************************************)
LEMMA RewrittenServe ==
  ASSUME Types, OwnerServes, releases' = releases, Ids' = Ids,
         \A j \in Ids : /\ packages'[j].release_id = packages[j].release_id
                        /\ packages'[j].fingerprint = packages[j].fingerprint
                        /\ packages'[j].status = "conflict" => packages[j].status = "conflict"
  PROVE  OwnerServes' /\ releases' \in [Releases -> [owner : {0} \cup Ids', content : Manifests \cup {None}]]
<1>1. \A r \in Releases : releases[r].owner \in {0} \cup Ids
  BY DEF Types
<1>2. ASSUME NEW r \in Releases, releases'[r].owner # 0,
             packages'[releases'[r].owner].release_id = r
      PROVE  /\ packages'[releases'[r].owner].fingerprint = releases'[r].content
             /\ packages'[releases'[r].owner].status # "conflict"
  BY <1>1, <1>2 DEF OwnerServes
<1> QED
  BY <1>2 DEF OwnerServes, Types

(***************************************************************************)
(* Rows judged again: by the sweep, by a scan that stops, by the verify    *)
(* job.                                                                    *)
(***************************************************************************)
Rejudged ==
  /\ packages' \in [Ids -> RowType]
  /\ \A j \in Ids : /\ packages'[j].path = packages[j].path
                    /\ packages'[j].release_id = packages[j].release_id
                    /\ packages'[j].fingerprint = packages[j].fingerprint
                    /\ packages'[j].sha = packages[j].sha
                    /\ packages'[j].last_scan \in {packages[j].last_scan, None}
                    /\ packages'[j].status = "conflict" => packages[j].status = "conflict"
                    /\ packages'[j].status = "invalid" => packages[j].status = "invalid"

(* The same when every row also keeps its path: what sweeps and the verify job do. *)
LEMMA RejudgedServe ==
  ASSUME Types, OnePath, OwnerServes, releases' = releases, Rejudged
  PROVE  /\ packages' \in Seq(RowType) /\ Ids' = Ids
         /\ OnePath' /\ OwnerServes'
         /\ releases' \in [Releases -> [owner : {0} \cup Ids', content : Manifests \cup {None}]]
<1>1. Len(packages) \in Nat /\ Ids = 1 .. Len(packages)
  BY LenProperties DEF Types, Ids
<1>2. Ids' = Ids
  BY DEF Rejudged, Ids
<1>3. packages' \in [1 .. Len(packages) -> RowType]
  BY <1>1 DEF Rejudged
<1>4. packages' \in Seq(RowType)
  BY <1>1, <1>3, SeqDef
<1>5. OnePath'
  <2>1. \A j \in Ids : packages'[j].path = packages[j].path
    BY DEF Rejudged
  <2> QED
    BY <1>2, <2>1 DEF OnePath
<1>6. \A j \in Ids : /\ packages'[j].release_id = packages[j].release_id
                     /\ packages'[j].fingerprint = packages[j].fingerprint
                     /\ packages'[j].status = "conflict" => packages[j].status = "conflict"
  BY DEF Rejudged
<1> QED
  BY <1>2, <1>4, <1>5, <1>6, RewrittenServe

(* Whether a plan fits depends on the table alone. *)
LEMMA PlanFitsKept ==
  ASSUME UNCHANGED <<packages, releases>>
  PROVE  \A c, p, m : PlanFits(c, p, m)' <=> PlanFits(c, p, m)
<1>1. \A p : RowsAt(p)' = RowsAt(p)
  BY Zenon DEF RowsAt, Ids
<1>2. \A p, r : Takes(p, r)' <=> Takes(p, r)
  BY <1>1, Zenon DEF Takes, owner_present
<1>3. \A p, m : Conflicts(p, m)' <=> Conflicts(p, m)
  BY <1>2, Zenon DEF Conflicts
<1>4. \A c : KeepsIdentity(c)' <=> KeepsIdentity(c)
  BY DEF KeepsIdentity, Ids
<1>5. \A c : Rejects(c)' <=> Rejects(c)
  BY DEF Rejects
<1>6. ASSUME NEW c, NEW p, NEW m PROVE Arbitrates(c, p, m)' <=> Arbitrates(c, p, m)
  <2>1. /\ RowsAt(p)' = RowsAt(p)
        /\ Takes(p, ReleaseOf[m])' <=> Takes(p, ReleaseOf[m])
        /\ Conflicts(p, m)' <=> Conflicts(p, m)
    BY <1>1, <1>2, <1>3, Zenon
  <2> QED
    BY <2>1, Zenon DEF Arbitrates
<1> QED
  BY <1>4, <1>5, <1>6, Zenon DEF PlanFits

(* Plans go on fitting a table nobody writes. *)
LEMMA PlansKept ==
  ASSUME PlansFit, UNCHANGED <<packages, releases, pc, body, todo, plan>>
  PROVE  PlansFit'
<1>1. \A c, p, m : PlanFits(c, p, m)' <=> PlanFits(c, p, m)
  BY PlanFitsKept
<1>2. \A s : Head1(s)' = Head1(s)
  BY Zenon DEF Head1
<1> QED
  BY <1>1, <1>2, Zenon DEF PlansFit

(* No scan has decided anything: there is nothing to fit. *)
LEMMA NoPlans ==
  ASSUME \A s \in Scanners : pc'[s] # "write"
  PROVE  PlansFit'
BY DEF PlansFit

-----------------------------------------------------------------------------
(***************************************************************************)
(* The invariant: initially, and kept by every step.                       *)
(***************************************************************************)
LEMMA InitInv == Init => Inv
<1> SUFFICES ASSUME Init PROVE Inv
  OBVIOUS
<1>1. packages = << >> /\ Ids = {}
  BY DEF Init, Ids
<1>2. packages \in Seq(RowType)
  BY <1>1, EmptySeq
<1>3. Types
  BY <1>1, <1>2 DEF Types, Init
<1>4. OnePath /\ OwnerServes
  BY <1>1 DEF OnePath, OwnerServes, Init
<1>5. Exclusive /\ Discovered /\ Unowned /\ PlansFit
  BY DEF Exclusive, Discovered, Unowned, PlansFit, Init
<1> QED
  BY <1>3, <1>4, <1>5 DEF Inv

(* Packages may change at any time. *)
LEMMA EditKeeps ==
  ASSUME Inv, Edit
  PROVE  Inv'
<1>1. UNCHANGED <<packages, releases, scans, audit>>
  BY DEF Edit, Put, Move
<1>2. disk' \in [Paths -> OnDisk \cup {None}]
  <2>1. disk \in [Paths -> OnDisk \cup {None}]
    BY DEF Inv, Types
  <2>2. CASE \E p \in Paths : \E c \in OnDisk \cup {None} : Put(p, c)
    BY <2>1, <2>2 DEF Put
  <2>3. CASE \E p, q \in Paths : Move(p, q)
    BY <2>1, <2>3 DEF Move
  <2> QED
    BY <2>2, <2>3 DEF Edit
<1>3. Ids' = Ids
  BY <1>1 DEF Ids
<1>4. Types'
  BY <1>1, <1>2, <1>3 DEF Inv, Types, scans
<1>5. PlansFit'
  BY <1>1, PlansKept DEF Inv, scans
<1>6. OnePath' /\ OwnerServes' /\ Exclusive' /\ Discovered' /\ Unowned'
  BY <1>1, <1>3 DEF Inv, OnePath, OwnerServes, Exclusive, Discovered, Unowned, scans
<1> QED
  BY <1>4, <1>5, <1>6 DEF Inv

(* A scan starts when no other scan or job runs. *)
LEMMA StartScanKeeps ==
  ASSUME ~Overlap, Inv, NEW s \in Scanners, NEW verify \in BOOLEAN, StartScan(s, verify)
  PROVE  Inv'
<1>1. Quiet /\ UNCHANGED <<disk, packages, releases, plan, audit>>
  BY DEF StartScan, MayStart
<1>2. pc' = [pc EXCEPT ![s] = "scan"] /\ Types
  BY DEF StartScan, Inv
<1>3. \A t \in Scanners : pc'[t] = (IF t = s THEN "scan" ELSE "idle")
  BY <1>1, <1>2 DEF Types, Quiet
<1>4. \A p \in Paths : disk[p] # None =>
        disk[p].manifest \in Bodies /\ disk[p].manifest # None
  <2>1. \A p \in Paths : disk[p] # None => disk[p] \in OnDisk
    BY <1>2 DEF Types
  <2>2. \A c \in OnDisk : c.manifest \in Bodies
    BY DEF OnDisk, Bodies
  <2>3. None \notin Bodies
    BY ManifestsAssumption DEF Bodies
  <2> QED
    BY <2>1, <2>2, <2>3
<1>5. Ids' = Ids
  BY <1>1 DEF Ids
<1> DEFINE found == [p \in Paths |-> IF disk[p] = None THEN None ELSE disk[p].manifest]
           there == {p \in Paths : disk[p] # None}
<1>6. found \in [Paths -> Bodies \cup {None}] /\ there \in SUBSET Paths
  BY <1>4
<1>7. \A p \in there : found[p] # None
  BY <1>4
<1>8. body' = [body EXCEPT ![s] = found] /\ todo' = [todo EXCEPT ![s] = there]
  BY DEF StartScan
<1> HIDE DEF found, there
<1>9. Types'
  BY <1>1, <1>2, <1>5, <1>6, <1>8 DEF Types
<1>10. Discovered'
  BY <1>2, <1>7, <1>8 DEF Types, Discovered, Inv
<1>11. PlansFit'
  BY <1>3, NoPlans
<1>12. Exclusive'
  BY <1>1, <1>3 DEF Exclusive, Quiet
<1>13. OnePath' /\ OwnerServes' /\ Unowned'
  BY <1>1, <1>5 DEF Inv, OnePath, OwnerServes, Unowned
<1> QED
  BY <1>9, <1>10, <1>11, <1>12, <1>13 DEF Inv

(* A scan reads the table and decides. *)
LEMMA DecideKeeps ==
  ASSUME Inv, NEW s \in Scanners, Decide(s)
  PROVE  Inv'
<1>1. /\ UNCHANGED <<disk, packages, releases, deep, body, todo, audit>>
      /\ pc[s] = "scan" /\ todo[s] # {} /\ pc' = [pc EXCEPT ![s] = "write"]
      /\ Types
  BY DEF Decide, Inv
<1> DEFINE p == Head1(s)
<1>2. PICK c \in Plans(s, p, body[s][p]) : plan' = [plan EXCEPT ![s] = c]
  BY DEF Decide
<1>3. p \in todo[s] /\ p \in Paths
  BY <1>1, HeadLeft
<1>4. body[s][p] \in Bodies
  <2>1. body[s][p] \in Bodies \cup {None}
    BY <1>1, <1>3 DEF Types
  <2>2. body[s][p] # None
    BY <1>3 DEF Inv, Discovered
  <2> QED
    BY <2>1, <2>2
<1>5. PlanFits(c, p, body[s][p])
  BY <1>1, <1>2, <1>3, <1>4, PlansFitTable
<1>6. Ids' = Ids
  BY <1>1 DEF Ids
<1>7. Types'
  BY <1>1, <1>2, <1>6 DEF Types
<1>8. \A t \in Scanners : pc'[t] # "idle" <=> pc[t] # "idle"
  BY <1>1 DEF Types
<1>9. Exclusive'
  BY <1>1, <1>8 DEF Inv, Exclusive
<1>10. \A t \in Scanners : pc'[t] = "write" => t = s
  BY <1>1, <1>8 DEF Inv, Exclusive, Types
<1>11. plan'[s] = c
  BY <1>1, <1>2 DEF Types
<1>12. PlansFit'
  <2>1. \A d, q, m : PlanFits(d, q, m)' <=> PlanFits(d, q, m)
    BY <1>1, PlanFitsKept
  <2>2. Head1(s)' = p
    BY <1>1, Zenon DEF Head1
  <2>3. PlanFits(plan[s], Head1(s), body[s][Head1(s)])'
    BY <1>1, <1>5, <1>11, <2>1, <2>2, Zenon
  <2> QED
    BY <1>1, <1>10, <2>3 DEF PlansFit
<1>13. OnePath' /\ OwnerServes' /\ Unowned' /\ Discovered'
  BY <1>1, <1>6 DEF Inv, OnePath, OwnerServes, Unowned, Discovered
<1> QED
  BY <1>7, <1>9, <1>12, <1>13 DEF Inv

-----------------------------------------------------------------------------
(***************************************************************************)
(* A release changes hands in no step that leaves its owner's place        *)
(* occupied.                                                               *)
(***************************************************************************)
OwnersStay ==
  \A r \in Releases : LET o == releases[r].owner IN
    o # 0 /\ packages[o].status \in {"valid", "warning", "checksum-failed"} =>
      releases'[r].owner = o

(* What a transaction's writes must establish; the rest of its step is the same for all. *)
Wrote ==
  /\ packages' \in Seq(RowType)
  /\ releases' \in [Releases -> [owner : {0} \cup Ids', content : Manifests \cup {None}]]
  /\ OnePath' /\ OwnerServes' /\ Unowned'
  /\ OwnersStay

(* The row a package's path already has, or a new one. *)
LEMMA IdOfOK ==
  ASSUME NEW p
  PROVE  (IdOf(RowsAt(p)) = NewId /\ RowsAt(p) = {}) \/ IdOf(RowsAt(p)) \in RowsAt(p)
BY DEF IdOf

(* A new row is not among those there are. *)
LEMMA NewIdOK ==
  ASSUME Types
  PROVE  NewId \notin Ids /\ NewId # 0
BY LenProperties DEF Types, Ids, NewId

(* A row rewritten for an unchanged or moved package. *)
LEMMA WriteRowKeeps ==
  ASSUME Inv, NEW s \in Scanners, NEW p, NEW m, PlanFits(plan[s], p, m), WriteRow(s)
  PROVE  Wrote
<1>1. KeepsIdentity(plan[s]) /\ Types /\ OnePath /\ releases' = releases
  BY DEF WriteRow, PlanFits, Rejects, Arbitrates, Inv
<1> DEFINE id == plan[s].id
           row == plan[s].row
<1>2. /\ id \in Ids /\ row \in RowType
      /\ row.release_id = packages[id].release_id
      /\ row.fingerprint = packages[id].fingerprint
      /\ row.status = "conflict" => packages[id].status = "conflict"
      /\ Store(id, row)
  BY <1>1 DEF KeepsIdentity, WriteRow
<1> HIDE DEF id, row
<1>3. /\ packages' \in Seq(RowType) /\ Ids' = Ids \cup {id} /\ packages'[id] = row
      /\ \A j \in Ids : j # id => packages'[j] = packages[j]
      /\ OnePath'
  BY <1>1, <1>2, StoreOK
<1>4. Ids' = Ids
  BY <1>2, <1>3
<1>5. \A j \in Ids : /\ packages'[j].release_id = packages[j].release_id
                     /\ packages'[j].fingerprint = packages[j].fingerprint
                     /\ packages'[j].status = "conflict" => packages[j].status = "conflict"
  BY <1>2, <1>3
<1>6. /\ OwnerServes'
      /\ releases' \in [Releases -> [owner : {0} \cup Ids', content : Manifests \cup {None}]]
  BY <1>1, <1>4, <1>5, RewrittenServe DEF Inv
<1>7. Unowned' /\ OwnersStay
  BY <1>1 DEF Inv, Unowned, OwnersStay
<1> QED
  BY <1>3, <1>6, <1>7 DEF Wrote

(* A row recorded for a manifest that does not parse. *)
LEMMA RecordInvalidKeeps ==
  ASSUME Inv, NEW s \in Scanners, NEW p \in Paths, NEW m, PlanFits(plan[s], p, m),
         RecordInvalid(s, p)
  PROVE  Wrote
<1>1. Rejects(plan[s]) /\ Types /\ OnePath /\ releases' = releases
  BY DEF RecordInvalid, PlanFits, KeepsIdentity, Arbitrates, Inv
<1> DEFINE id == IdOf(RowsAt(p))
           row == Row(p, None, None, plan[s].sha, <<"invalid", "unverified">>, s)
<1>2. Store(id, row)
  BY DEF RecordInvalid
<1>3. row \in RowType /\ row.release_id = None /\ row.status = "invalid"
  BY <1>1 DEF Rejects, Row, RowType, Statuses, Verdicts
<1>4. id \in Ids \/ id = NewId
  BY IdOfOK DEF RowsAt
<1> HIDE DEF id, row
<1>5. /\ packages' \in Seq(RowType) /\ Ids' = Ids \cup {id} /\ packages'[id] = row
      /\ \A j \in Ids : j # id => packages'[j] = packages[j]
      /\ OnePath'
  BY <1>1, <1>2, <1>3, <1>4, StoreOK
<1>6. releases' \in [Releases -> [owner : {0} \cup Ids', content : Manifests \cup {None}]]
  BY <1>1, <1>5 DEF Types
<1>7. ASSUME NEW r \in Releases, releases'[r].owner # 0,
             packages'[releases'[r].owner].release_id = r
      PROVE  /\ packages'[releases'[r].owner].fingerprint = releases'[r].content
             /\ packages'[releases'[r].owner].status # "conflict"
  <2>1. releases[r].owner \in Ids
    BY <1>1, <1>7 DEF Types
  <2>2. releases[r].owner # id
    BY <1>1, <1>3, <1>5, <1>7, ReleasesAssumption
  <2> QED
    BY <1>1, <1>5, <1>7, <2>1, <2>2 DEF Inv, OwnerServes
<1>8. OwnerServes'
  BY <1>7 DEF OwnerServes
<1>9. Unowned' /\ OwnersStay
  BY <1>1 DEF Inv, Unowned, OwnersStay
<1> QED
  BY <1>5, <1>6, <1>8, <1>9 DEF Wrote

(* A package ingested, as the arbitration decided. *)
LEMMA IngestKeeps ==
  ASSUME Inv, NEW s \in Scanners, NEW p \in Paths, PlanFits(plan[s], p, body[s][p]), Ingest(s, p)
  PROVE  Wrote
<1> DEFINE m   == body[s][p]
           R   == ReleaseOf[m]
           id  == IdOf(RowsAt(p))
<1>1. Arbitrates(plan[s], p, m) /\ Types /\ OnePath
  BY DEF Ingest, PlanFits, KeepsIdentity, Rejects, Inv
<1>2. /\ m \in Manifests /\ R \in Releases /\ R # None /\ m # None
      /\ plan[s].have = RowsAt(p)
      /\ plan[s].take <=> Takes(p, R)
      /\ plan[s].conflict <=> Conflicts(p, m)
  BY <1>1, ReleasesAssumption, ManifestsAssumption DEF Arbitrates
<1>3. PICK v \in determine_status(p, m, deep[s]) :
        Store(id, Row(p, R, m, m, IF plan[s].conflict THEN Quarantined ELSE v, s))
  BY <1>2 DEF Ingest
<1> DEFINE verdict == IF plan[s].conflict THEN Quarantined ELSE v
           row     == Row(p, R, m, m, verdict, s)
<1>4. /\ verdict[1] \in Statuses /\ verdict[2] \in Verdicts
      /\ verdict[1] = "conflict" => ~Takes(p, R)
  BY <1>2, DetermineOK DEF Quarantined, Statuses, Verdicts, Conflicts
<1>5. releases' = IF plan[s].take THEN [releases EXCEPT ![R] = [owner |-> id, content |-> m]]
                  ELSE releases
  BY <1>2 DEF Ingest
<1>6. Store(id, row)
  BY <1>3
<1> HIDE DEF verdict
<1>7. row \in RowType /\ row.release_id = R /\ row.fingerprint = m /\ row.status = verdict[1]
  BY <1>2, <1>4 DEF Row, RowType
<1>8. (id = NewId /\ RowsAt(p) = {}) \/ id \in RowsAt(p)
  BY IdOfOK
<1>9. id # 0 /\ (id \in Ids \/ id = NewId)
  <2>1. \A j \in RowsAt(p) : j \in Ids /\ j # 0
    BY <1>1, LenProperties DEF RowsAt, Types, Ids
  <2> QED
    BY <1>1, <1>8, <2>1, NewIdOK
<1> HIDE DEF id, row, m, R
<1>10. /\ packages' \in Seq(RowType) /\ Ids' = Ids \cup {id} /\ packages'[id] = row
       /\ \A j \in Ids : j # id => packages'[j] = packages[j]
       /\ OnePath'
  BY <1>1, <1>6, <1>7, <1>9, StoreOK
<1>11. releases' \in [Releases -> [owner : {0} \cup Ids', content : Manifests \cup {None}]]
  BY <1>1, <1>2, <1>5, <1>10 DEF Types
<1>12. \A r \in Releases : releases'[r] = IF plan[s].take /\ r = R
                                           THEN [owner |-> id, content |-> m] ELSE releases[r]
  BY <1>1, <1>5 DEF Types
<1>13. ~Takes(p, R) => releases[R].owner # id
  <2>1. ~Takes(p, R) => releases[R].owner \notin RowsAt(p) /\ releases[R].owner \in Ids
    BY <1>1, <1>2 DEF Takes, Types
  <2> QED
    BY <1>1, <1>8, <2>1, NewIdOK
<1>14. ASSUME NEW r \in Releases, releases'[r].owner # 0,
              packages'[releases'[r].owner].release_id = r
       PROVE  /\ packages'[releases'[r].owner].fingerprint = releases'[r].content
              /\ packages'[releases'[r].owner].status # "conflict"
  <2>1. CASE plan[s].take /\ r = R
    BY <1>2, <1>4, <1>7, <1>10, <1>12, <2>1
  <2>2. CASE ~(plan[s].take /\ r = R)
    <3>1. releases'[r] = releases[r]
      BY <1>12, <2>2
    <3>2. releases[r].owner # id
      <4>1. CASE r = R
        BY <1>2, <1>13, <2>2, <4>1
      <4>2. CASE r # R
        BY <1>7, <1>10, <1>14, <3>1, <4>2
      <4> QED
        BY <4>1, <4>2
    <3>3. releases[r].owner \in Ids
      BY <1>1, <1>14, <3>1 DEF Types
    <3>4. packages'[releases[r].owner] = packages[releases[r].owner]
      BY <1>10, <3>2, <3>3
    <3> QED
      BY <1>14, <3>1, <3>4 DEF Inv, OwnerServes
  <2> QED
    BY <2>1, <2>2
<1>15. OwnerServes'
  BY <1>14 DEF OwnerServes
<1>16. Unowned'
  BY <1>2, <1>12 DEF Inv, Unowned
<1>17. ASSUME NEW r \in Releases, releases[r].owner # 0,
              packages[releases[r].owner].status \in {"valid", "warning", "checksum-failed"}
       PROVE  releases'[r].owner = releases[r].owner
  <2>1. CASE plan[s].take /\ r = R
    <3>1. releases[R].content # None
      BY <1>2, <1>17, <2>1 DEF Inv, Unowned
    <3>2. owner_present(releases[R].owner)
      BY <1>17, <2>1 DEF owner_present
    <3>3. releases[R].owner \in RowsAt(p)
      BY <1>2, <1>17, <2>1, <3>1, <3>2 DEF Takes
    <3>4. releases[R].owner = id
      BY <1>1, <1>8, <3>3 DEF RowsAt, OnePath
    <3> QED
      BY <1>12, <2>1, <3>4
  <2>2. CASE ~(plan[s].take /\ r = R)
    BY <1>12, <2>2
  <2> QED
    BY <2>1, <2>2
<1>18. OwnersStay
  BY <1>17 DEF OwnersStay
<1> QED
  BY <1>10, <1>11, <1>15, <1>16, <1>18 DEF Wrote

(* A scan writes what it decided. *)
LEMMA WriteKeeps ==
  ASSUME Inv, NEW s \in Scanners, Write(s)
  PROVE  Inv' /\ OwnersStay
<1> DEFINE p == Head1(s)
<1>1. /\ pc[s] = "write" /\ pc' = [pc EXCEPT ![s] = "scan"]
      /\ plan' = [plan EXCEPT ![s] = NoPlan]
      /\ todo' = [todo EXCEPT ![s] = @ \ {p}]
      /\ WriteRow(s) \/ RecordInvalid(s, p) \/ Ingest(s, p)
      /\ UNCHANGED <<disk, deep, body, audit>>
      /\ Types
  BY DEF Write, Inv
<1>2. todo[s] # {} /\ PlanFits(plan[s], p, body[s][p])
  BY <1>1 DEF Inv, PlansFit
<1>3. p \in Paths
  BY <1>1, <1>2, HeadLeft
<1>4. Wrote
  BY <1>1, <1>2, <1>3, WriteRowKeeps, RecordInvalidKeeps, IngestKeeps
<1> HIDE DEF p
<1>5. Types'
  BY <1>1, <1>4 DEF Types, Wrote
<1>6. \A t \in Scanners : (pc'[t] # "idle" <=> pc[t] # "idle") /\ (t # s => pc'[t] = pc[t])
  BY <1>1 DEF Types
<1>7. Exclusive'
  BY <1>1, <1>6 DEF Inv, Exclusive
<1>8. PlansFit'
  <2>1. \A t \in Scanners : pc'[t] # "write"
    BY <1>1, <1>6 DEF Inv, Exclusive, Types
  <2> QED
    BY <2>1, NoPlans
<1>9. Discovered'
  BY <1>1 DEF Inv, Discovered, Types
<1> QED
  BY <1>4, <1>5, <1>7, <1>8, <1>9 DEF Inv, Wrote

-----------------------------------------------------------------------------
(* A row whose token is nobody's any more. *)
LEMMA UnstampedOK ==
  ASSUME NEW row \in RowType, NEW s
  PROVE  /\ Unstamped(row, s) \in RowType
         /\ Unstamped(row, s).path = row.path
         /\ Unstamped(row, s).release_id = row.release_id
         /\ Unstamped(row, s).fingerprint = row.fingerprint
         /\ Unstamped(row, s).sha = row.sha
         /\ Unstamped(row, s).status = row.status
         /\ Unstamped(row, s).verify_status = row.verify_status
         /\ Unstamped(row, s).last_scan = IF row.last_scan = s THEN None ELSE row.last_scan
<1>1. CASE row.last_scan = s
  <2>1. Unstamped(row, s) = Row(row.path, row.release_id, row.fingerprint, row.sha,
                                <<row.status, row.verify_status>>, None)
    BY <1>1, SetToken DEF Unstamped
  <2> QED
    BY <1>1, <2>1 DEF Row, RowType
<1>2. CASE row.last_scan # s
  BY <1>2 DEF Unstamped
<1> QED
  BY <1>1, <1>2

(* The sweep. *)
Swept(j, s) == packages[j].last_scan # s /\ packages[j].status \notin {"unavailable", "conflict"}

LEMMA SweepRejudges ==
  ASSUME Types, NEW s, package_sweep(s)
  PROVE  /\ Rejudged
         /\ \A j \in Ids : Swept(j, s) => packages'[j].status = "unavailable"
                                          /\ packages'[j].last_scan = packages[j].last_scan
         /\ \A j \in Ids : ~Swept(j, s) => packages'[j] = Unstamped(packages[j], s)
<1>1. \A j \in Ids : packages[j] \in RowType
  BY LenProperties, ElementOfSeq DEF Types, Ids
<1> DEFINE new(j) == IF Swept(j, s) THEN [packages[j] EXCEPT !.status = "unavailable"]
                     ELSE Unstamped(packages[j], s)
<1>2. packages' = [j \in Ids |-> new(j)]
  BY Zenon DEF package_sweep, Swept
<1>3. ASSUME NEW j \in Ids, Swept(j, s)
      PROVE  /\ new(j) \in RowType /\ new(j).path = packages[j].path
             /\ new(j).release_id = packages[j].release_id
             /\ new(j).fingerprint = packages[j].fingerprint
             /\ new(j).sha = packages[j].sha
             /\ new(j).last_scan = packages[j].last_scan
             /\ new(j).status = "unavailable"
  <2> DEFINE row == packages[j]
  <2>1. row \in RowType
    BY <1>1
  <2>2. new(j) = [row EXCEPT !.status = "unavailable"]
    BY <1>3, Zenon
  <2> HIDE DEF row, new
  <2>3. new(j) = Row(row.path, row.release_id, row.fingerprint, row.sha,
                     <<"unavailable", row.verify_status>>, row.last_scan)
    BY <2>1, <2>2, SetStatus
  <2>4. /\ new(j) \in RowType /\ new(j).path = row.path /\ new(j).release_id = row.release_id
        /\ new(j).fingerprint = row.fingerprint /\ new(j).sha = row.sha
        /\ new(j).last_scan = row.last_scan /\ new(j).status = "unavailable"
    BY <2>1, <2>3 DEF Row, RowType, Statuses
  <2> QED
    BY <2>4 DEF row
<1>4. ASSUME NEW j \in Ids, ~Swept(j, s) PROVE new(j) = Unstamped(packages[j], s)
  BY <1>4
<1> HIDE DEF new
<1>5. ASSUME NEW j \in Ids
      PROVE  /\ new(j) \in RowType
             /\ new(j).path = packages[j].path
             /\ new(j).release_id = packages[j].release_id
             /\ new(j).fingerprint = packages[j].fingerprint
             /\ new(j).sha = packages[j].sha
             /\ new(j).last_scan \in {packages[j].last_scan, None}
             /\ new(j).status = "conflict" => packages[j].status = "conflict"
             /\ new(j).status = "invalid" => packages[j].status = "invalid"
  <2>1. CASE Swept(j, s)
    BY <1>3, <2>1
  <2>2. CASE ~Swept(j, s)
    BY <1>1, <1>4, <2>2, UnstampedOK
  <2> QED
    BY <2>1, <2>2
<1> QED
  BY <1>2, <1>3, <1>4, <1>5 DEF Rejudged

(* A scan that ends early forgets its token. *)
LEMMA StopRejudges ==
  ASSUME Types, NEW s, packages' = [id \in Ids |-> Unstamped(packages[id], s)]
  PROVE  Rejudged
<1>1. \A j \in Ids : packages[j] \in RowType
  BY LenProperties, ElementOfSeq DEF Types, Ids
<1> QED
  BY <1>1, UnstampedOK DEF Rejudged

(* The scan is over. *)
LEMMA EndKeeps ==
  ASSUME Inv, NEW s \in Scanners, Sweep(s) \/ Stop(s)
  PROVE  Inv'
<1>1. /\ Types /\ OnePath /\ OwnerServes /\ pc' = [pc EXCEPT ![s] = "idle"] /\ Forget(s)
      /\ UNCHANGED <<disk, releases, audit>> /\ pc[s] # "idle"
  BY DEF Inv, Sweep, Stop
<1>2. Rejudged
  BY <1>1, SweepRejudges, StopRejudges DEF Sweep, Stop
<1>3. /\ packages' \in Seq(RowType) /\ Ids' = Ids /\ OnePath' /\ OwnerServes'
      /\ releases' \in [Releases -> [owner : {0} \cup Ids', content : Manifests \cup {None}]]
  BY <1>1, <1>2, RejudgedServe
<1>4. Types'
  BY <1>1, <1>3 DEF Types, Forget
<1>5. \A t \in Scanners : pc'[t] = "idle"
  BY <1>1 DEF Inv, Exclusive, Types
<1>6. Exclusive' /\ PlansFit'
  BY <1>5, NoPlans DEF Exclusive
<1>7. Discovered' /\ Unowned'
  BY <1>1 DEF Inv, Discovered, Unowned, Forget, Types
<1> QED
  BY <1>3, <1>4, <1>6, <1>7 DEF Inv

(***************************************************************************)
(* A verdict of the verify job: on a row that is not quarantined, or on    *)
(* none.                                                                   *)
(***************************************************************************)
WritesNobodyOff ==
  \A j \in Ids : packages'[j].status = "unavailable" => packages[j].status = "unavailable"

LEMMA VerdictRejudges ==
  ASSUME Types, NEW id, NEW verdict, verdict[1] \in Statuses, verdict[2] \in Verdicts,
         verdict[1] \notin {"conflict", "invalid", "unavailable"}, package_set_verify(id, verdict)
  PROVE  Rejudged /\ WritesNobodyOff
<1>1. \A j \in Ids : packages[j] \in RowType
  BY LenProperties, ElementOfSeq DEF Types, Ids
<1>2. CASE packages' = packages
  <2>1. packages \in [Ids -> RowType]
    <3>1. packages \in [1 .. Len(packages) -> RowType] /\ Ids = 1 .. Len(packages)
      BY LenProperties DEF Types, Ids
    <3> QED
      BY <3>1
  <2> QED
    BY <1>2, <2>1 DEF Rejudged, WritesNobodyOff
<1>3. CASE packages' = [packages EXCEPT ![id].status = verdict[1], ![id].verify_status = verdict[2]]
  <2> DEFINE marked == [packages EXCEPT ![id] = [packages[id] EXCEPT !.status = verdict[1]]]
             one == marked[id]
             new == [one EXCEPT !.verify_status = verdict[2]]
  <2>1. packages' = [marked EXCEPT ![id] = new]
    BY <1>3, Zenon
  <2>2. DOMAIN marked = Ids /\ \A j \in Ids : j # id => marked[j] = packages[j]
    BY Zenon DEF Ids
  <2>3. id \in Ids => one = [packages[id] EXCEPT !.status = verdict[1]]
    BY Zenon DEF Ids
  <2> HIDE DEF marked, new
  <2>4. packages' = [j \in Ids |-> IF j = id THEN new ELSE marked[j]]
    BY <2>1, <2>2
  <2>5. ASSUME id \in Ids
        PROVE  /\ new \in RowType /\ new.path = packages[id].path
               /\ new.release_id = packages[id].release_id
               /\ new.fingerprint = packages[id].fingerprint
               /\ new.sha = packages[id].sha /\ new.last_scan = packages[id].last_scan
               /\ new.status = verdict[1]
    <3> DEFINE row == packages[id]
    <3>1. row \in RowType
      BY <1>1, <2>5
    <3>2. one = [row EXCEPT !.status = verdict[1]]
      BY <2>3, <2>5
    <3> HIDE DEF row, one
    <3>3. one = Row(row.path, row.release_id, row.fingerprint, row.sha,
                    <<verdict[1], row.verify_status>>, row.last_scan)
      BY <3>1, <3>2, SetStatus
    <3>4. /\ one \in RowType /\ one.path = row.path /\ one.release_id = row.release_id
          /\ one.fingerprint = row.fingerprint /\ one.sha = row.sha
          /\ one.last_scan = row.last_scan /\ one.status = verdict[1]
      BY <3>1, <3>3 DEF Row, RowType
    <3>5. new = Row(one.path, one.release_id, one.fingerprint, one.sha,
                    <<one.status, verdict[2]>>, one.last_scan)
      BY <3>4, SetVerdict DEF new
    <3>6. /\ new \in RowType /\ new.path = row.path /\ new.release_id = row.release_id
          /\ new.fingerprint = row.fingerprint /\ new.sha = row.sha
          /\ new.last_scan = row.last_scan /\ new.status = verdict[1]
      BY <3>4, <3>5 DEF Row, RowType
    <3> QED
      BY <3>6 DEF row
  <2>6. ASSUME NEW j \in Ids
        PROVE  /\ packages'[j] \in RowType
               /\ packages'[j].path = packages[j].path
               /\ packages'[j].release_id = packages[j].release_id
               /\ packages'[j].fingerprint = packages[j].fingerprint
               /\ packages'[j].sha = packages[j].sha
               /\ packages'[j].last_scan = packages[j].last_scan
               /\ packages'[j].status = packages[j].status \/ packages'[j].status = verdict[1]
    <3>1. packages'[j] = IF j = id THEN new ELSE packages[j]
      BY <2>2, <2>4
    <3>2. CASE j = id
      BY <2>5, <3>1, <3>2
    <3>3. CASE j # id
      BY <1>1, <3>1, <3>3
    <3> QED
      BY <3>2, <3>3
  <2>7. packages' \in [Ids -> RowType]
    BY <2>4, <2>6
  <2> QED
    BY <2>6, <2>7 DEF Rejudged, WritesNobodyOff
<1> QED
  BY <1>2, <1>3 DEF package_set_verify

(* The verify job starts alone, judges a package, or ends. *)
LEMMA AuditKeeps ==
  ASSUME ~Overlap, Inv, StartVerify \/ Verify \/ StopVerify
  PROVE  Inv'
<1>1. Types /\ OnePath /\ OwnerServes /\ UNCHANGED <<disk, releases, scans>>
  BY DEF Inv, StartVerify, Verify, StopVerify
<1>2. \A s \in Scanners : pc[s] = "idle"
  BY DEF Inv, Exclusive, StartVerify, MayStart, Quiet, Verify, StopVerify
<1>3. Rejudged
  <2>1. CASE StartVerify \/ StopVerify
    <3>1. packages' = packages
      BY <2>1 DEF StartVerify, StopVerify
    <3>2. packages \in [1 .. Len(packages) -> RowType] /\ Ids = 1 .. Len(packages)
      BY <1>1, LenProperties DEF Types, Ids
    <3> QED
      BY <3>1, <3>2 DEF Rejudged
  <2>2. CASE Verify
    <3> DEFINE id == Head(audit)[1]
               p == Head(audit)[2]
               verdict == IF Opens(p) THEN Verified(p) ELSE <<"warning", "unverified">>
    <3>1. package_set_verify(id, verdict)
      BY <2>2 DEF Verify
    <3>2. /\ verdict[1] \in Statuses /\ verdict[2] \in Verdicts
          /\ verdict[1] \notin {"conflict", "invalid", "unavailable"}
      BY VerifiedOK DEF Statuses, Verdicts
    <3> HIDE DEF id, verdict
    <3> QED
      BY <1>1, <3>1, <3>2, VerdictRejudges
  <2> QED
    BY <2>1, <2>2
<1>4. /\ packages' \in Seq(RowType) /\ Ids' = Ids /\ OnePath' /\ OwnerServes'
      /\ releases' \in [Releases -> [owner : {0} \cup Ids', content : Manifests \cup {None}]]
  BY <1>1, <1>3, RejudgedServe
<1>5. Types'
  BY <1>1, <1>4 DEF Types, scans
<1>6. \A s \in Scanners : pc'[s] = "idle"
  BY <1>1, <1>2 DEF scans
<1>7. Exclusive' /\ PlansFit'
  BY <1>6, NoPlans DEF Exclusive
<1>8. Discovered' /\ Unowned'
  BY <1>1 DEF Inv, Discovered, Unowned, scans
<1> QED
  BY <1>4, <1>5, <1>7, <1>8 DEF Inv

(* Every step keeps the invariant, and no owner that is present loses its release. *)
LEMMA StepInv ==
  ASSUME ~Overlap, Inv, [Next]_vars
  PROVE  Inv' /\ (OwnersStay \/ UNCHANGED vars)
<1>1. CASE Edit
  BY <1>1, EditKeeps DEF Edit, Put, Move, OwnersStay
<1>2. ASSUME NEW s \in Scanners, NEW verify \in BOOLEAN, StartScan(s, verify)
      PROVE  Inv' /\ OwnersStay
  BY <1>2, StartScanKeeps DEF StartScan, OwnersStay
<1>3. ASSUME NEW s \in Scanners, Decide(s)
      PROVE  Inv' /\ OwnersStay
  BY <1>3, DecideKeeps DEF Decide, OwnersStay
<1>4. ASSUME NEW s \in Scanners, Write(s)
      PROVE  Inv' /\ OwnersStay
  BY <1>4, WriteKeeps
<1>5. ASSUME NEW s \in Scanners, Sweep(s) \/ Stop(s)
      PROVE  Inv' /\ OwnersStay
  BY <1>5, EndKeeps DEF Sweep, Stop, OwnersStay
<1>6. CASE StartVerify \/ Verify \/ StopVerify
  BY <1>6, AuditKeeps DEF StartVerify, Verify, StopVerify, OwnersStay
<1>7. CASE UNCHANGED vars
  <2>1. Types' /\ OnePath' /\ Exclusive' /\ Discovered' /\ Unowned' /\ OwnerServes'
    BY <1>7 DEF Inv, Types, OnePath, Exclusive, Discovered, Unowned, OwnerServes, Ids, vars
  <2>2. PlansFit'
    BY <1>7, PlansKept DEF Inv, vars
  <2> QED
    BY <1>7, <2>1, <2>2 DEF Inv
<1> QED
  BY <1>1, <1>2, <1>3, <1>4, <1>5, <1>6, <1>7 DEF Next, ScanStep

-----------------------------------------------------------------------------
(***************************************************************************)
(* As long as scans and jobs do not overlap, a release whose owner still   *)
(* claims it is served from that package's recorded manifest, and its      *)
(* owner is not quarantined, however packages change meanwhile.            *)
(***************************************************************************)
THEOREM OwnerAlwaysServes == ASSUME ~Overlap PROVE Spec => []OwnerServes
<1>1. Inv /\ [Next]_vars => Inv'
  BY StepInv
<1>2. Inv => OwnerServes
  BY DEF Inv
<1> QED
  BY InitInv, <1>1, <1>2, PTL DEF Spec

(***************************************************************************)
(* And a release changes hands only when its owner is unavailable, invalid *)
(* or quarantined: "first-discovered wins".                                *)
(***************************************************************************)
THEOREM OwnersAlwaysHold == ASSUME ~Overlap PROVE Spec => OwnersHold
<1>1. Inv /\ [Next]_vars => Inv'
  BY StepInv
<1>2. Inv /\ [Next]_vars =>
        [\A r \in Releases : LET o == releases[r].owner IN
           o # 0 /\ packages[o].status \in {"valid", "warning", "checksum-failed"} =>
             releases'[r].owner = o]_vars
  BY StepInv DEF OwnersStay
<1> QED
  BY InitInv, <1>1, <1>2, PTL DEF Spec, OwnersHold

-----------------------------------------------------------------------------
(***************************************************************************)
(* What a scan leaves.  While it runs, the rows that carry its token are   *)
(* those at the paths it has processed, and they record what it found      *)
(* there; and what it has decided will leave such a row.                   *)
(***************************************************************************)
(***************************************************************************)
(* What a row says of a manifest that parses hangs together, and a row is  *)
(* invalid for no such manifest.                                           *)
(***************************************************************************)
Sane(row) ==
  /\ row.fingerprint \in Manifests =>
       row.sha = row.fingerprint /\ row.release_id = ReleaseOf[row.fingerprint]
  /\ row.sha \in Manifests => row.fingerprint = row.sha
  /\ row.status = "invalid" => row.sha \notin Manifests

(***************************************************************************)
(* A scan's token marks exactly the rows at the paths it has processed,    *)
(* and these record what it discovered there.                              *)
(***************************************************************************)
Processed(s, p) == body[s][p] # None /\ p \notin todo[s]

Stamped(row, s) == Processed(s, row.path) /\ Records(row, body[s][row.path])

Seen ==
  \A id \in Ids :
    /\ Sane(packages[id])
    /\ \A s \in Scanners :
         /\ packages[id].last_scan = s => pc[s] # "idle" /\ Stamped(packages[id], s)
         /\ pc[s] # "idle" /\ Processed(s, packages[id].path) => packages[id].last_scan = s

(***************************************************************************)
(* What a decided plan will leave at the candidate p, with manifest m.     *)
(***************************************************************************)
Leaves(c, s, p, m) ==
  /\ c.kind = "row" => /\ c.row.path = p /\ c.row.last_scan = s
                       /\ Sane(c.row) /\ Records(c.row, m)
  /\ c.kind = "invalid" => m \notin Manifests

PlansLeave ==
  \A s \in Scanners : pc[s] = "write" => Leaves(plan[s], s, Head1(s), body[s][Head1(s)])

(* A row rebuilt with its identity stays sane, unless it becomes invalid. *)
LEMMA SaneKept ==
  ASSUME NEW old, NEW new, Sane(old), new.release_id = old.release_id,
         new.fingerprint = old.fingerprint, new.sha = old.sha,
         new.status = "invalid" => old.status = "invalid"
  PROVE  Sane(new)
BY DEF Sane

(***************************************************************************)
(* Whatever a scan decides for a candidate will leave a row that records   *)
(* it.                                                                     *)
(***************************************************************************)
LEMMA RefreshLeaves ==
  ASSUME Types, NEW id \in Ids, NEW s \in Scanners, NEW verdict, NEW m \in Bodies,
         verdict[1] \in Statuses, verdict[2] \in Verdicts, Sane(packages[id]),
         verdict[1] = "invalid" => packages[id].status = "invalid",
         IF m \in Manifests
           THEN packages[id].sha = m /\ verdict[1] \notin {"unavailable", "invalid"}
           ELSE verdict[1] = "invalid"
  PROVE  Leaves(Refresh(id, verdict, s), s, packages[id].path, m)
<1> DEFINE old == packages[id]
           row == Row(old.path, old.release_id, old.fingerprint, old.sha, verdict, s)
<1>1. old \in RowType /\ Refresh(id, verdict, s) = [kind |-> "row", id |-> id, row |-> row]
  BY RefreshRow
<1> HIDE DEF old
<1>2. /\ row.path = old.path /\ row.release_id = old.release_id
      /\ row.fingerprint = old.fingerprint /\ row.sha = old.sha
      /\ row.status = verdict[1] /\ row.last_scan = s
  BY <1>1 DEF Row
<1> HIDE DEF row
<1>3. Sane(row)
  BY <1>2, SaneKept DEF old
<1>4. None \notin Bodies
  BY ManifestsAssumption DEF Bodies
<1>5. Records(row, m)
  BY <1>2, <1>3, <1>4 DEF old, Records, Sane
<1> QED
  BY <1>1, <1>2, <1>3, <1>5 DEF old, Leaves

LEMMA PlansLeaveRow ==
  ASSUME Inv, Seen, NEW s \in Scanners, NEW p \in Paths, NEW m \in Bodies,
         NEW c \in Plans(s, p, m)
  PROVE  Leaves(c, s, p, m)
<1> DEFINE fast    == ~deep[s]
           skipped == fast /\ InvalidRows(p, m) # {}
<1>0. /\ Types /\ None \notin Bodies
      /\ \A id \in Ids : packages[id] \in RowType /\ Sane(packages[id])
  BY LenProperties, ElementOfSeq, ManifestsAssumption DEF Inv, Types, Ids, Seen, Bodies
<1>1. CASE skipped
  <2>1. c \in {Refresh(id, <<"invalid", packages[id].verify_status>>, s) : id \in InvalidRows(p, m)}
    BY <1>1 DEF Plans
  <2>2. PICK id \in InvalidRows(p, m) : c = Refresh(id, <<"invalid", packages[id].verify_status>>, s)
    BY <2>1
  <2>3. id \in Ids /\ packages[id].path = p /\ packages[id].status = "invalid" /\ packages[id].sha = m
    BY DEF InvalidRows, RowsAt
  <2>4. packages[id].verify_status \in Verdicts /\ m \notin Manifests
    BY <1>0, <2>3, Columns DEF Sane
  <2>5. PICK v : v = <<"invalid", packages[id].verify_status>>
    OBVIOUS
  <2>6. v[1] = "invalid" /\ v[1] \in Statuses /\ v[2] \in Verdicts
    BY <2>4, <2>5 DEF Statuses
  <2>7. Leaves(Refresh(id, v, s), s, packages[id].path, m)
    BY <1>0, <2>3, <2>4, <2>6, RefreshLeaves
  <2> QED
    BY <2>2, <2>3, <2>5, <2>7
<1>2. CASE m \notin Manifests /\ ~skipped
  <2>1. c \in {[kind |-> "invalid", sha |-> IF m = Unreadable THEN None ELSE m]}
    BY <1>2 DEF Plans
  <2> QED
    BY <1>2, <2>1 DEF Leaves
<1>3. CASE m \in Manifests /\ ~skipped /\ fast /\ UnchangedRows(p, m) # {}
  <2>1. c \in UNION {{Refresh(id, v, s) : v \in UnchangedVerdicts(id, p, m)} :
                     id \in UnchangedRows(p, m)}
    BY <1>3 DEF Plans, ValidPlans
  <2>2. PICK id \in UnchangedRows(p, m) : \E v \in UnchangedVerdicts(id, p, m) : c = Refresh(id, v, s)
    BY <2>1
  <2>3. PICK v \in UnchangedVerdicts(id, p, m) : c = Refresh(id, v, s)
    BY <2>2
  <2>4. id \in Ids /\ packages[id].path = p /\ packages[id].sha = m
    BY DEF UnchangedRows, RowsAt
  <2>5. /\ packages[id].status \in Statuses /\ packages[id].verify_status \in Verdicts
        /\ packages[id].status # "invalid"
    BY <1>0, <1>3, <2>4, Columns DEF Sane
  <2>6. v[1] \in Statuses \ {"unavailable", "invalid"} /\ v[2] \in Verdicts
    BY <2>3, <2>5 DEF UnchangedVerdicts, Statuses, Verdicts
  <2>7. Leaves(Refresh(id, v, s), s, packages[id].path, m)
    BY <1>0, <1>3, <2>4, <2>6, RefreshLeaves
  <2> QED
    BY <2>3, <2>4, <2>7
<1>4. CASE m \in Manifests /\ ~skipped /\ ~(fast /\ UnchangedRows(p, m) # {})
           /\ RowsAt(p) = {} /\ MovedRows(p, m) # {}
  <2>1. c \in UNION {{[kind |-> "row", id |-> id,
                       row |-> Row(p, packages[id].release_id, m, m, v, s)] :
                      v \in MovedVerdicts(id, p, m, deep[s])} : id \in MovedRows(p, m)}
    BY <1>4 DEF Plans, ValidPlans
  <2>2. PICK id \in MovedRows(p, m) : \E v \in MovedVerdicts(id, p, m, deep[s]) :
          c = [kind |-> "row", id |-> id, row |-> Row(p, packages[id].release_id, m, m, v, s)]
    BY <2>1
  <2>3. PICK v \in MovedVerdicts(id, p, m, deep[s]) :
          c = [kind |-> "row", id |-> id, row |-> Row(p, packages[id].release_id, m, m, v, s)]
    BY <2>2
  <2>4. id \in Ids /\ packages[id].fingerprint = m
    BY DEF MovedRows, FirstWith
  <2>5. packages[id].release_id = ReleaseOf[m]
    BY <1>0, <1>4, <2>4 DEF Sane
  <2>6. v[1] \notin {"unavailable", "invalid"}
    BY <2>3, DetermineOK DEF MovedVerdicts, Quarantined
  <2> DEFINE row == Row(p, packages[id].release_id, m, m, v, s)
  <2>7. /\ row.path = p /\ row.release_id = ReleaseOf[m] /\ row.fingerprint = m /\ row.sha = m
        /\ row.status = v[1] /\ row.last_scan = s
    BY <2>5 DEF Row
  <2> HIDE DEF row
  <2>8. Sane(row) /\ Records(row, m)
    BY <1>0, <1>4, <2>6, <2>7 DEF Sane, Records
  <2>9. c.kind = "row" /\ c.row = row
    BY <2>3 DEF row
  <2> QED
    BY <2>7, <2>8, <2>9 DEF Leaves
<1>5. CASE m \in Manifests /\ ~skipped /\ ~(fast /\ UnchangedRows(p, m) # {})
           /\ ~(RowsAt(p) = {} /\ MovedRows(p, m) # {})
  <2>1. c.kind = "ingest"
    BY <1>5 DEF Plans, ValidPlans
  <2> QED
    BY <2>1 DEF Leaves
<1> QED
  BY <1>1, <1>2, <1>3, <1>4, <1>5

(***************************************************************************)
(* The row a transaction leaves at its candidate.  A deep scan judges it,  *)
(* unless the scan had done so when it decided.                            *)
(***************************************************************************)
WritesRow(s, id, row) ==
  /\ id \in Ids \/ id = NewId
  /\ row \in RowType /\ Store(id, row)
  /\ row.path = Head1(s) /\ row.last_scan = s
  /\ Sane(row) /\ Records(row, body[s][Head1(s)])

Planned(s, id, row) == plan[s].kind = "row" /\ plan[s].id = id /\ plan[s].row = row

Judged(row) == row.status # "conflict" => <<row.status, row.verify_status>> = Verified(row.path)

LEMMA WrittenRow ==
  ASSUME Inv, PlansLeave, NEW s \in Scanners, Write(s)
  PROVE  \E id, row :
           /\ WritesRow(s, id, row)
           /\ Planned(s, id, row)
              \/ /\ id \in Ids => packages[id].path = row.path
                 /\ deep[s] /\ body[s][row.path] \in Manifests /\ Opens(row.path) => Judged(row)
<1> DEFINE p == Head1(s)
           m == body[s][p]
<1>1. /\ Types /\ pc[s] = "write" /\ todo[s] # {} /\ PlanFits(plan[s], p, m)
      /\ Leaves(plan[s], s, p, m)
      /\ WriteRow(s) \/ RecordInvalid(s, p) \/ Ingest(s, p)
  BY DEF Inv, PlansFit, PlansLeave, Write
<1>2. p \in todo[s] /\ p \in Paths
  BY <1>1, HeadLeft
<1>3. m \in Bodies /\ None \notin Bodies
  BY <1>1, <1>2, ManifestsAssumption DEF Types, Inv, Discovered, Bodies
<1>4. \A id \in RowsAt(p) : id \in Ids /\ packages[id].path = p
  BY DEF RowsAt
<1>5. /\ IdOf(RowsAt(p)) \in Ids => packages[IdOf(RowsAt(p))].path = p
      /\ IdOf(RowsAt(p)) \in Ids \/ IdOf(RowsAt(p)) = NewId
  BY <1>1, <1>4, IdOfOK, NewIdOK
<1> HIDE DEF p
<1>6. CASE WriteRow(s)
  <2>1. /\ plan[s].kind = "row" /\ plan[s].id \in Ids /\ plan[s].row \in RowType
        /\ Store(plan[s].id, plan[s].row)
    BY <1>1, <1>6 DEF WriteRow, PlanFits, KeepsIdentity, Rejects, Arbitrates
  <2>2. WritesRow(s, plan[s].id, plan[s].row)
    BY <1>1, <2>1 DEF Leaves, WritesRow, p
  <2> QED
    BY <2>1, <2>2 DEF Planned
<1>7. CASE RecordInvalid(s, p)
  <2>1. /\ plan[s].kind = "invalid" /\ plan[s].sha \in Broken \cup {None}
        /\ Store(IdOf(RowsAt(p)), Row(p, None, None, plan[s].sha, <<"invalid", "unverified">>, s))
    BY <1>1, <1>7 DEF RecordInvalid, PlanFits, KeepsIdentity, Rejects, Arbitrates
  <2>2. PICK row : row = Row(p, None, None, plan[s].sha, <<"invalid", "unverified">>, s)
    OBVIOUS
  <2>3. /\ row \in RowType /\ row.path = p /\ row.last_scan = s
        /\ row.status = "invalid" /\ row.fingerprint = None /\ row.sha = plan[s].sha
    BY <1>2, <2>1, <2>2 DEF Row, RowType, Statuses, Verdicts
  <2>4. m \notin Manifests /\ plan[s].sha \notin Manifests
    BY <1>1, <1>3, <2>1, ManifestsAssumption DEF Leaves
  <2>5. Sane(row) /\ Records(row, m)
    BY <1>3, <2>3, <2>4, ManifestsAssumption DEF Sane, Records
  <2>6. WritesRow(s, IdOf(RowsAt(p)), row)
    BY <1>5, <2>1, <2>2, <2>3, <2>5 DEF WritesRow, p
  <2> QED
    BY <1>5, <2>3, <2>4, <2>6
<1>8. CASE Ingest(s, p)
  <2>1. /\ plan[s].kind = "ingest" /\ m \in Manifests /\ plan[s].have = RowsAt(p)
        /\ \E v \in determine_status(p, m, deep[s]) :
             Store(IdOf(plan[s].have),
                   Row(p, ReleaseOf[m], m, m, IF plan[s].conflict THEN Quarantined ELSE v, s))
    BY <1>1, <1>8 DEF Ingest, PlanFits, KeepsIdentity, Rejects, Arbitrates
  <2>2. PICK v \in determine_status(p, m, deep[s]) :
          Store(IdOf(RowsAt(p)),
                Row(p, ReleaseOf[m], m, m, IF plan[s].conflict THEN Quarantined ELSE v, s))
    BY <2>1
  <2>3. PICK verdict : verdict = IF plan[s].conflict THEN Quarantined ELSE v
    OBVIOUS
  <2>4. PICK row : row = Row(p, ReleaseOf[m], m, m, verdict, s)
    OBVIOUS
  <2>5. /\ verdict[1] \in Statuses \ {"unavailable", "invalid"} /\ verdict[2] \in Verdicts
        /\ deep[s] /\ Opens(p) /\ verdict[1] # "conflict" => verdict = Verified(p)
    BY <2>3, DetermineOK DEF Quarantined, Statuses, Verdicts, determine_status
  <2>6. ReleaseOf[m] \in Releases
    BY <2>1, ReleasesAssumption
  <2>7. /\ row \in RowType /\ row.path = p /\ row.release_id = ReleaseOf[m]
        /\ row.fingerprint = m /\ row.sha = m /\ row.last_scan = s
        /\ row.status = verdict[1] /\ row.verify_status = verdict[2]
    BY <1>2, <2>1, <2>4, <2>5, <2>6 DEF Row, RowType
  <2>8. Sane(row) /\ Records(row, m)
    BY <1>3, <2>1, <2>5, <2>7 DEF Sane, Records
  <2>9. WritesRow(s, IdOf(RowsAt(p)), row)
    BY <1>5, <2>2, <2>3, <2>4, <2>7, <2>8 DEF WritesRow, p
  <2>10. deep[s] /\ Opens(row.path) => Judged(row)
    BY <2>5, <2>7 DEF Judged, Verified
  <2> QED
    BY <1>5, <2>7, <2>9, <2>10
<1> QED
  BY <1>1, <1>6, <1>7, <1>8

-----------------------------------------------------------------------------
(* No scan has decided anything: nothing will be left. *)
LEMMA NoPlansLeave ==
  ASSUME \A s \in Scanners : pc'[s] # "write"
  PROVE  PlansLeave'
BY DEF PlansLeave

(* What the rows say of the scans depends on the table and on what is left to process. *)
LEMMA SeenKept ==
  ASSUME Inv, Seen, UNCHANGED <<packages, body, todo>>,
         \A s \in Scanners : pc'[s] # "idle" <=> pc[s] # "idle"
  PROVE  Seen'
BY DEF Seen, Stamped, Processed, Ids

LEMMA StartScanSees ==
  ASSUME ~Overlap, Inv, Seen, NEW s \in Scanners, NEW verify \in BOOLEAN, StartScan(s, verify)
  PROVE  Seen' /\ PlansLeave'
<1>1. Quiet /\ UNCHANGED <<disk, packages>> /\ pc' = [pc EXCEPT ![s] = "scan"] /\ Types
  BY DEF StartScan, MayStart, Inv
<1>2. \A t \in Scanners : pc[t] = "idle" /\ pc'[t] = (IF t = s THEN "scan" ELSE "idle")
  BY <1>1 DEF Types, Quiet
<1>3. /\ body'[s] = [p \in Paths |-> IF disk[p] = None THEN None ELSE disk[p].manifest]
      /\ todo'[s] = {p \in Paths : disk[p] # None}
  BY <1>1 DEF StartScan, Types
<1>4. \A p \in Paths : ~Processed(s, p)'
  BY <1>3 DEF Processed
<1>5. ASSUME NEW id \in Ids', NEW t \in Scanners
      PROVE  /\ Sane(packages[id])' /\ (packages[id].last_scan # t)'
             /\ packages[id].path \in Paths
  <2>1. id \in Ids /\ packages[id] \in RowType
    BY <1>1, LenProperties, ElementOfSeq DEF Types, Ids
  <2> QED
    BY <1>1, <1>2, <2>1, Columns DEF Seen, Sane
<1>6. Seen'
  BY <1>1, <1>2, <1>4, <1>5 DEF Seen
<1> QED
  BY <1>2, <1>6, NoPlansLeave

LEMMA DecideSees ==
  ASSUME Inv, Seen, NEW s \in Scanners, Decide(s)
  PROVE  Seen' /\ PlansLeave'
<1>1. /\ UNCHANGED <<disk, packages, releases, deep, body, todo, audit>>
      /\ pc[s] = "scan" /\ todo[s] # {} /\ pc' = [pc EXCEPT ![s] = "write"]
      /\ Types
  BY DEF Decide, Inv
<1>2. PICK c \in Plans(s, Head1(s), body[s][Head1(s)]) : plan' = [plan EXCEPT ![s] = c]
  BY DEF Decide
<1>3. Head1(s) \in todo[s] /\ Head1(s) \in Paths
  BY <1>1, HeadLeft
<1>4. body[s][Head1(s)] \in Bodies
  BY <1>1, <1>3 DEF Types, Inv, Discovered
<1>5. Leaves(c, s, Head1(s), body[s][Head1(s)])
  BY <1>2, <1>3, <1>4, PlansLeaveRow
<1>6. \A t \in Scanners : (pc'[t] # "idle" <=> pc[t] # "idle") /\ (pc'[t] = "write" => t = s)
  BY <1>1 DEF Types, Inv, Exclusive
<1>7. Head1(s)' = Head1(s)
  BY <1>1, Zenon DEF Head1
<1>8. plan'[s] = c
  BY <1>1, <1>2 DEF Types
<1>9. Leaves(plan[s], s, Head1(s), body[s][Head1(s)])'
  BY <1>1, <1>5, <1>7, <1>8 DEF Leaves, Sane, Records
<1> QED
  BY <1>1, <1>6, <1>9, SeenKept DEF PlansLeave

LEMMA WriteSees ==
  ASSUME Inv, Seen, PlansLeave, NEW s \in Scanners, Write(s)
  PROVE  Seen' /\ PlansLeave' /\ WritesNobodyOff
<1>1. /\ Types /\ OnePath /\ pc[s] = "write" /\ pc' = [pc EXCEPT ![s] = "scan"]
      /\ todo' = [todo EXCEPT ![s] = @ \ {Head1(s)}] /\ UNCHANGED body
      /\ todo[s] # {}
  BY DEF Write, Inv, PlansFit
<1>2. PICK id, row : WritesRow(s, id, row)
  BY WrittenRow
<1>3. /\ Ids' = Ids \cup {id} /\ packages'[id] = row
      /\ \A j \in Ids : j # id => packages'[j] = packages[j]
      /\ OnePath' /\ packages' \in Seq(RowType)
  BY <1>1, <1>2, StoreOK DEF WritesRow
<1>4. /\ row.path = Head1(s) /\ row.last_scan = s /\ Sane(row)
      /\ Records(row, body[s][row.path])
  BY <1>2 DEF WritesRow
<1>5. PICK p : p = Head1(s)
  OBVIOUS
<1>6. p \in todo[s] /\ p \in Paths /\ body[s][p] # None
  BY <1>1, <1>5, HeadLeft DEF Inv, Discovered
<1>7. \A t \in Scanners : pc'[t] # "idle" <=> t = s
  BY <1>1 DEF Inv, Exclusive, Types
<1>8. \A t \in Scanners : pc[t] # "idle" <=> t = s
  BY <1>1 DEF Inv, Exclusive, Types
<1>9. todo'[s] = todo[s] \ {p}
  BY <1>1, <1>5 DEF Types
<1>10. Seen'
  <2> SUFFICES ASSUME NEW j \in Ids'
               PROVE  /\ Sane(packages[j])'
                      /\ \A t \in Scanners :
                           /\ packages'[j].last_scan = t => t = s /\ Stamped(packages[j], t)'
                           /\ t = s /\ Processed(t, packages[j].path)' => packages'[j].last_scan = t
    BY <1>7 DEF Seen
  <2>1. CASE j = id
    <3>1. Processed(s, p)'
      BY <1>1, <1>6, <1>9 DEF Processed
    <3> QED
      BY <1>1, <1>3, <1>4, <1>5, <2>1, <3>1 DEF Sane, Stamped, Records
  <2>2. CASE j # id
    <3>1. j \in Ids /\ packages'[j] = packages[j] /\ packages[j].path # p
      BY <1>3, <1>4, <1>5, <2>2 DEF OnePath
    <3>2. Processed(s, packages[j].path)' <=> Processed(s, packages[j].path)
      BY <1>1, <1>9, <3>1 DEF Processed
    <3> QED
      BY <1>1, <1>8, <3>1, <3>2 DEF Seen, Sane, Stamped, Records
  <2> QED
    BY <2>1, <2>2
<1>11. row.status # "unavailable"
  BY <1>4, <1>5, <1>6 DEF Records
<1>12. PlansLeave'
  BY <1>1, <1>7, NoPlansLeave DEF Types
<1> QED
  BY <1>3, <1>10, <1>11, <1>12 DEF WritesNobodyOff

(* Rows judged again while no scan runs, or when the only one ends, stay sane. *)
LEMMA RejudgedSane ==
  ASSUME Types, Seen, Rejudged
  PROVE  Ids' = Ids /\ \A j \in Ids : Sane(packages'[j]) /\ packages'[j].path \in Paths
<1>1. Ids' = Ids
  BY DEF Rejudged, Ids
<1>2. \A j \in Ids : Sane(packages'[j])
  BY SaneKept DEF Rejudged, Seen
<1>3. \A j \in Ids : packages'[j] \in RowType
  BY DEF Rejudged
<1> QED
  BY <1>1, <1>2, <1>3, Columns

(* With no scan running, no row carries a token. *)
LEMMA IdleSees ==
  ASSUME Types, Seen, Rejudged, \A t \in Scanners : pc'[t] = "idle",
         \A t \in Scanners : \A j \in Ids : packages'[j].last_scan # t
  PROVE  Seen' /\ PlansLeave'
<1>1. Ids' = Ids /\ \A j \in Ids : Sane(packages'[j])
  BY RejudgedSane
<1>2. \A j \in Ids : Sane(packages[j])'
  BY <1>1 DEF Sane
<1> QED
  BY <1>1, <1>2, NoPlansLeave DEF Seen

(* Only a sweep writes a package off, and only one its scan has not seen. *)
LEMMA EndSees ==
  ASSUME Inv, Seen, NEW s \in Scanners, Sweep(s) \/ Stop(s)
  PROVE  /\ Seen' /\ PlansLeave'
         /\ WritesNobodyOff
            \/ (Sweep(s) /\ \A j \in Ids : WrittenOff(j) => body[s][packages[j].path] = None)
<1>1. /\ Types /\ pc' = [pc EXCEPT ![s] = "idle"] /\ pc[s] # "idle"
  BY DEF Inv, Sweep, Stop
<1>2. \A t \in Scanners : pc'[t] = "idle" /\ (pc[t] # "idle" => t = s)
  BY <1>1 DEF Inv, Exclusive, Types
<1>3. \A j \in Ids : packages[j] \in RowType
  BY <1>1, LenProperties, ElementOfSeq DEF Types, Ids
<1>4. \A t \in Scanners : \A j \in Ids : packages[j].last_scan = t => t = s
  BY <1>2 DEF Seen
<1>5. CASE Stop(s)
  <2>1. packages' = [j \in Ids |-> Unstamped(packages[j], s)]
    BY <1>5 DEF Stop
  <2>2. Rejudged
    BY <1>1, <2>1, StopRejudges
  <2>3. \A j \in Ids : /\ packages'[j].status = packages[j].status
                       /\ packages'[j].last_scan = IF packages[j].last_scan = s THEN None
                                                   ELSE packages[j].last_scan
    BY <1>3, <2>1, UnstampedOK
  <2>4. \A t \in Scanners : \A j \in Ids : packages'[j].last_scan # t
    BY <1>4, <2>3, ScannersAssumption
  <2> QED
    BY <1>1, <1>2, <2>2, <2>3, <2>4, IdleSees DEF WritesNobodyOff
<1>6. CASE Sweep(s)
  <2>1. package_sweep(s) /\ todo[s] = {}
    BY <1>6 DEF Sweep
  <2>2. /\ Rejudged
        /\ \A j \in Ids : Swept(j, s) => packages'[j].status = "unavailable"
                                         /\ packages'[j].last_scan = packages[j].last_scan
        /\ \A j \in Ids : ~Swept(j, s) => packages'[j] = Unstamped(packages[j], s)
    BY <1>1, <2>1, SweepRejudges
  <2>3. \A j \in Ids : ~Swept(j, s) =>
          /\ packages'[j].status = packages[j].status
          /\ packages'[j].last_scan = IF packages[j].last_scan = s THEN None
                                      ELSE packages[j].last_scan
    BY <1>3, <2>2, UnstampedOK
  <2>4. \A t \in Scanners : \A j \in Ids : packages'[j].last_scan # t
    BY <1>4, <2>2, <2>3, ScannersAssumption DEF Swept
  <2>5. ASSUME NEW j \in Ids, WrittenOff(j) PROVE body[s][packages[j].path] = None
    <3>1. packages[j].last_scan # s
      BY <2>3, <2>5 DEF WrittenOff, Swept
    <3>2. ~Processed(s, packages[j].path)
      BY <1>1, <3>1 DEF Seen
    <3> QED
      BY <2>1, <3>2 DEF Processed
  <2> QED
    BY <1>1, <1>2, <1>6, <2>2, <2>4, <2>5, IdleSees
<1> QED
  BY <1>5, <1>6

LEMMA AuditSees ==
  ASSUME ~Overlap, Inv, Seen, StartVerify \/ Verify \/ StopVerify
  PROVE  Seen' /\ PlansLeave' /\ WritesNobodyOff
<1>1. Types /\ UNCHANGED <<disk, releases, scans>>
  BY DEF Inv, StartVerify, Verify, StopVerify
<1>2. \A t \in Scanners : pc[t] = "idle" /\ pc'[t] = "idle"
  BY <1>1 DEF Inv, Exclusive, StartVerify, MayStart, Quiet, Verify, StopVerify, scans
<1>3. CASE StartVerify \/ StopVerify
  <2>1. UNCHANGED packages
    BY <1>3 DEF StartVerify, StopVerify
  <2> QED
    BY <1>1, <1>2, <2>1, SeenKept, NoPlansLeave DEF scans, WritesNobodyOff
<1>4. CASE Verify
  <2>1. Rejudged /\ WritesNobodyOff
    <3>1. PICK id, verdict :
            /\ package_set_verify(id, verdict)
            /\ \E p : verdict = IF Opens(p) THEN Verified(p) ELSE <<"warning", "unverified">>
      BY <1>4 DEF Verify
    <3>2. /\ verdict[1] \in Statuses /\ verdict[2] \in Verdicts
          /\ verdict[1] \notin {"conflict", "invalid", "unavailable"}
      BY <3>1, VerifiedOK DEF Statuses, Verdicts
    <3> QED
      BY <1>1, <3>1, <3>2, VerdictRejudges
  <2>2. \A t \in Scanners : \A j \in Ids : packages[j].last_scan # t
    BY <1>2 DEF Seen
  <2>3. \A t \in Scanners : \A j \in Ids : packages'[j].last_scan # t
    BY <2>1, <2>2, ScannersAssumption DEF Rejudged
  <2> QED
    BY <1>1, <1>2, <2>1, <2>3, IdleSees
<1> QED
  BY <1>3, <1>4

LEMMA StepSees ==
  ASSUME ~Overlap, Inv, Seen, PlansLeave, [Next]_vars
  PROVE  /\ Seen' /\ PlansLeave'
         /\ WritesNobodyOff
            \/ \E s \in Scanners :
                 Sweep(s) /\ \A j \in Ids : WrittenOff(j) => body[s][packages[j].path] = None
<1>1. CASE Edit \/ UNCHANGED vars
  <2>1. UNCHANGED <<packages, releases, scans, audit>>
    BY <1>1 DEF Edit, Put, Move, vars, scans
  <2>2. Seen' /\ WritesNobodyOff
    BY <2>1, SeenKept DEF scans, WritesNobodyOff
  <2>3. \A s : Head1(s)' = Head1(s)
    BY <2>1, Zenon DEF Head1, scans
  <2>4. PlansLeave'
    BY <2>1, <2>3 DEF PlansLeave, Leaves, scans, Sane, Records
  <2> QED
    BY <2>2, <2>4
<1>2. ASSUME NEW s \in Scanners, NEW verify \in BOOLEAN, StartScan(s, verify)
      PROVE  Seen' /\ PlansLeave' /\ WritesNobodyOff
  BY <1>2, StartScanSees DEF StartScan, WritesNobodyOff
<1>3. ASSUME NEW s \in Scanners, Decide(s)
      PROVE  Seen' /\ PlansLeave' /\ WritesNobodyOff
  BY <1>3, DecideSees DEF Decide, WritesNobodyOff
<1>4. ASSUME NEW s \in Scanners, Write(s)
      PROVE  Seen' /\ PlansLeave' /\ WritesNobodyOff
  BY <1>4, WriteSees
<1>5. CASE \E s \in Scanners : Sweep(s) \/ Stop(s)
  BY <1>5, EndSees
<1>6. CASE StartVerify \/ Verify \/ StopVerify
  BY <1>6, AuditSees
<1> QED
  BY <1>1, <1>2, <1>3, <1>4, <1>5, <1>6 DEF Next, ScanStep

LEMMA InitSees == Init => Seen /\ PlansLeave
<1> SUFFICES ASSUME Init PROVE Seen /\ PlansLeave
  OBVIOUS
<1>1. Ids = {}
  BY DEF Init, Ids
<1> QED
  BY <1>1 DEF Init, Seen, PlansLeave

(***************************************************************************)
(* Nothing but the sweep of a finished scan writes a package off, and only *)
(* one at whose path the scan found nothing: not a scan that was drained,  *)
(* failed or crashed, nor the verify job, whatever changes in the library  *)
(* meanwhile, as long as scans and jobs do not overlap.                    *)
(***************************************************************************)
THEOREM SeenNeverWrittenOff == ASSUME ~Overlap PROVE Spec => SweepSparesSeen
<1>1. Inv /\ [Next]_vars => Inv'
  BY StepInv
<1>2. Inv /\ Seen /\ PlansLeave /\ [Next]_vars => Seen' /\ PlansLeave'
  BY StepSees
<1>3. Inv /\ Seen /\ PlansLeave /\ [Next]_vars =>
        [\A id \in Ids : WrittenOff(id) =>
           \E s \in Scanners : Sweep(s) /\ body[s][packages[id].path] = None]_vars
  BY StepSees DEF WritesNobodyOff, WrittenOff
<1> QED
  BY InitInv, InitSees, <1>1, <1>2, <1>3, PTL DEF Spec, SweepSparesSeen

-----------------------------------------------------------------------------
(***************************************************************************)
(* While nobody edits the library, it stays as the scan discovered it      *)
(* (Frozen); every processed package has a row, which a deep scan has      *)
(* judged (Covers); and no decided plan takes a processed package's row    *)
(* away (PlansCover).                                                      *)
(***************************************************************************)
Frozen ==
  \A s \in Scanners : pc[s] # "idle" =>
    \A p \in Paths : body[s][p] = IF disk[p] = None THEN None ELSE disk[p].manifest

Covers ==
  \A s \in Scanners : pc[s] # "idle" =>
    /\ \A p \in Paths : Processed(s, p) => RowsAt(p) # {}
    /\ deep[s] => \A id \in Ids : packages[id].last_scan = s
                                  /\ body[s][packages[id].path] \in Manifests => Judged(packages[id])

PlanCovers(c, s, p) ==
  c.kind = "row" =>
    /\ packages[c.id].path = p \/ body[s][packages[c.id].path] = None
    /\ deep[s] /\ body[s][p] \in Manifests => Judged(c.row)

PlansCover == \A s \in Scanners : pc[s] = "write" => PlanCovers(plan[s], s, Head1(s))

Undisturbed == Frozen /\ Covers /\ PlansCover

(* What a scan decides covers what it has processed. *)
LEMMA PlanCoversRow ==
  ASSUME Types, Frozen, NEW s \in Scanners, pc[s] # "idle", NEW p \in Paths,
         NEW c \in Plans(s, p, body[s][p])
  PROVE  PlanCovers(c, s, p)
<1> DEFINE m       == body[s][p]
           fast    == ~deep[s]
           skipped == fast /\ InvalidRows(p, m) # {}
<1>0. \A id \in Ids : packages[id].path \in Paths
  BY LenProperties, ElementOfSeq, Columns DEF Types, Ids
<1>1. ASSUME NEW id \in RowsAt(p), NEW v, c = Refresh(id, v, s), fast
      PROVE  PlanCovers(c, s, p)
  BY <1>1 DEF RowsAt, Refresh, PlanCovers
<1>2. CASE skipped
  <2>1. c \in {Refresh(id, <<"invalid", packages[id].verify_status>>, s) : id \in InvalidRows(p, m)}
    BY <1>2 DEF Plans
  <2> QED
    BY <1>1, <1>2, <2>1 DEF InvalidRows
<1>3. CASE m \notin Manifests /\ ~skipped
  <2>1. c \in {[kind |-> "invalid", sha |-> IF m = Unreadable THEN None ELSE m]}
    BY <1>3 DEF Plans
  <2> QED
    BY <2>1 DEF PlanCovers
<1>4. CASE m \in Manifests /\ ~skipped /\ fast /\ UnchangedRows(p, m) # {}
  <2>1. c \in UNION {{Refresh(id, v, s) : v \in UnchangedVerdicts(id, p, m)} :
                     id \in UnchangedRows(p, m)}
    BY <1>4 DEF Plans, ValidPlans
  <2>2. PICK id \in UnchangedRows(p, m) : \E v \in UnchangedVerdicts(id, p, m) : c = Refresh(id, v, s)
    BY <2>1
  <2> QED
    BY <1>1, <1>4, <2>2 DEF UnchangedRows
<1>5. CASE m \in Manifests /\ ~skipped /\ ~(fast /\ UnchangedRows(p, m) # {})
           /\ RowsAt(p) = {} /\ MovedRows(p, m) # {}
  <2>1. c \in UNION {{[kind |-> "row", id |-> id,
                       row |-> Row(p, packages[id].release_id, m, m, v, s)] :
                      v \in MovedVerdicts(id, p, m, deep[s])} : id \in MovedRows(p, m)}
    BY <1>5 DEF Plans, ValidPlans
  <2>2. PICK id \in MovedRows(p, m) : \E v \in MovedVerdicts(id, p, m, deep[s]) :
          c = [kind |-> "row", id |-> id, row |-> Row(p, packages[id].release_id, m, m, v, s)]
    BY <2>1
  <2>3. PICK v \in MovedVerdicts(id, p, m, deep[s]) :
          c = [kind |-> "row", id |-> id, row |-> Row(p, packages[id].release_id, m, m, v, s)]
    BY <2>2
  <2>4. id \in Ids /\ disk[packages[id].path] = None
    BY DEF MovedRows, FirstWith
  <2>5. body[s][packages[id].path] = None
    BY <1>0, <2>4 DEF Frozen
  <2>6. Opens(p)
    BY <1>5, ManifestsAssumption DEF Frozen, Opens
  <2>7. deep[s] /\ v[1] # "conflict" => v = Verified(p)
    BY <2>3, <2>6 DEF MovedVerdicts, Quarantined, determine_status
  <2> DEFINE row == Row(p, packages[id].release_id, m, m, v, s)
  <2>8. row.path = p /\ row.status = v[1] /\ row.verify_status = v[2]
    BY DEF Row
  <2> HIDE DEF row
  <2>9. deep[s] => Judged(row)
    BY <2>7, <2>8 DEF Judged, Verified
  <2>10. c.id = id /\ c.row = row
    BY <2>3 DEF row
  <2> QED
    BY <2>5, <2>9, <2>10 DEF PlanCovers
<1>6. CASE m \in Manifests /\ ~skipped /\ ~(fast /\ UnchangedRows(p, m) # {})
           /\ ~(RowsAt(p) = {} /\ MovedRows(p, m) # {})
  <2>1. c.kind = "ingest"
    BY <1>6 DEF Plans, ValidPlans
  <2> QED
    BY <2>1 DEF PlanCovers
<1> QED
  BY <1>2, <1>3, <1>4, <1>5, <1>6

LEMMA StartScanUndisturbed ==
  ASSUME ~Overlap, Inv, Seen, NEW s \in Scanners, NEW verify \in BOOLEAN, StartScan(s, verify)
  PROVE  Undisturbed'
<1>1. Quiet /\ UNCHANGED <<disk, packages>> /\ pc' = [pc EXCEPT ![s] = "scan"] /\ Types
  BY DEF StartScan, MayStart, Inv
<1>2. \A t \in Scanners : pc[t] = "idle" /\ pc'[t] = (IF t = s THEN "scan" ELSE "idle")
  BY <1>1 DEF Types, Quiet
<1>3. /\ body'[s] = [p \in Paths |-> IF disk[p] = None THEN None ELSE disk[p].manifest]
      /\ todo'[s] = {p \in Paths : disk[p] # None}
  BY <1>1 DEF StartScan, Types
<1>4. \A p \in Paths : ~Processed(s, p)'
  BY <1>3 DEF Processed
<1>5. \A id \in Ids : packages[id].last_scan # s
  BY <1>2 DEF Seen
<1> QED
  BY <1>1, <1>2, <1>3, <1>4, <1>5 DEF Undisturbed, Frozen, Covers, PlansCover, Ids

LEMMA DecideUndisturbed ==
  ASSUME Inv, Undisturbed, NEW s \in Scanners, Decide(s)
  PROVE  Undisturbed'
<1>1. /\ UNCHANGED <<disk, packages, releases, deep, body, todo, audit>>
      /\ pc[s] = "scan" /\ todo[s] # {} /\ pc' = [pc EXCEPT ![s] = "write"]
      /\ Types /\ Frozen /\ Covers
  BY DEF Decide, Inv, Undisturbed
<1>2. PICK c \in Plans(s, Head1(s), body[s][Head1(s)]) : plan' = [plan EXCEPT ![s] = c]
  BY DEF Decide
<1>3. PlanCovers(c, s, Head1(s))
  BY <1>1, <1>2, HeadLeft, PlanCoversRow
<1>4. \A t \in Scanners : (pc'[t] # "idle" <=> pc[t] # "idle") /\ (pc'[t] = "write" => t = s)
  BY <1>1 DEF Types, Inv, Exclusive
<1>5. Head1(s)' = Head1(s) /\ plan'[s] = c
  BY <1>1, <1>2 DEF Head1, Types
<1>6. PlanCovers(plan[s], s, Head1(s))'
  BY <1>1, <1>3, <1>5 DEF PlanCovers, Judged, Verified
<1>7. Frozen'
  BY <1>1, <1>4 DEF Frozen
<1>8. Covers'
  BY <1>1, <1>4 DEF Covers, Processed, RowsAt, Ids, Judged, Verified
<1> QED
  BY <1>4, <1>6, <1>7, <1>8 DEF Undisturbed, PlansCover

LEMMA WriteUndisturbed ==
  ASSUME Inv, PlansLeave, Undisturbed, NEW s \in Scanners, Write(s)
  PROVE  Undisturbed'
<1>1. /\ Types /\ OnePath /\ pc[s] = "write" /\ pc' = [pc EXCEPT ![s] = "scan"]
      /\ todo' = [todo EXCEPT ![s] = @ \ {Head1(s)}] /\ UNCHANGED <<disk, body, deep>>
      /\ todo[s] # {}
  BY DEF Write, Inv, PlansFit
<1>2. PICK id, row :
           /\ WritesRow(s, id, row)
           /\ Planned(s, id, row)
              \/ /\ id \in Ids => packages[id].path = row.path
                 /\ deep[s] /\ body[s][row.path] \in Manifests /\ Opens(row.path) => Judged(row)
  BY WrittenRow
<1>3. /\ Ids' = Ids \cup {id} /\ packages'[id] = row
      /\ \A j \in Ids : j # id => packages'[j] = packages[j]
  BY <1>1, <1>2, StoreOK DEF WritesRow
<1>4. PICK p : p = Head1(s)
  OBVIOUS
<1>5. p \in Paths /\ row.path = p /\ todo'[s] = todo[s] \ {p}
  BY <1>1, <1>2, <1>4, HeadLeft DEF WritesRow, Types
<1>6. \A t \in Scanners : pc'[t] # "idle" <=> t = s
  BY <1>1 DEF Inv, Exclusive, Types
<1>7. \A q \in Paths : body[s][q] = IF disk[q] = None THEN None ELSE disk[q].manifest
  BY <1>1 DEF Undisturbed, Frozen
<1>8. Frozen'
  BY <1>1, <1>6, <1>7 DEF Frozen
<1>9. PlanCovers(plan[s], s, p)
  BY <1>1, <1>4 DEF Undisturbed, PlansCover
<1>10. id \in Ids => packages[id].path = p \/ body[s][packages[id].path] = None
  BY <1>2, <1>5, <1>9 DEF Planned, PlanCovers
<1>11. ASSUME deep[s], body[s][p] \in Manifests PROVE Judged(row)
  <2>1. Opens(p)
    BY <1>5, <1>7, <1>11, ManifestsAssumption DEF Opens
  <2> QED
    BY <1>2, <1>5, <1>9, <1>11, <2>1 DEF Planned, PlanCovers
<1>12. ASSUME NEW q \in Paths, Processed(s, q)' PROVE RowsAt(q)' # {}
  <2>1. CASE q = p
    BY <1>3, <1>5, <2>1 DEF RowsAt
  <2>2. CASE q # p
    <3>1. Processed(s, q)
      BY <1>1, <1>5, <1>12, <2>2 DEF Processed
    <3>2. PICK j \in Ids : packages[j].path = q
      BY <1>1, <3>1 DEF Undisturbed, Covers, RowsAt
    <3>3. j # id
      BY <1>10, <2>2, <3>1, <3>2 DEF Processed
    <3> QED
      BY <1>3, <3>2, <3>3 DEF RowsAt
  <2> QED
    BY <2>1, <2>2
<1>13. ASSUME deep[s], NEW j \in Ids', packages'[j].last_scan = s,
              body[s][packages'[j].path] \in Manifests
       PROVE  Judged(packages[j])'
  <2>1. Judged(packages'[j])
    <3>1. CASE j = id
      BY <1>3, <1>5, <1>11, <1>13, <3>1
    <3>2. CASE j # id
      BY <1>1, <1>3, <1>13, <3>2 DEF Undisturbed, Covers
    <3> QED
      BY <3>1, <3>2
  <2> QED
    BY <1>1, <2>1 DEF Judged, Verified
<1>14. Covers'
  BY <1>1, <1>6, <1>12, <1>13 DEF Covers
<1>15. PlansCover'
  BY <1>1, <1>6 DEF PlansCover, Types
<1> QED
  BY <1>8, <1>14, <1>15 DEF Undisturbed

(***************************************************************************)
(* What the sweep leaves is the library the scan discovered.               *)
(***************************************************************************)
LEMMA SweepReflects ==
  ASSUME Inv, Seen, Undisturbed, NEW s \in Scanners, Sweep(s), NEW found, found = body[s]
  PROVE  Reflects(found)' /\ (deep[s] => Judges(found)')
<1>1. /\ Types /\ pc[s] # "idle" /\ todo[s] = {} /\ package_sweep(s) /\ UNCHANGED disk
  BY DEF Inv, Sweep
<1>2. \A j \in Ids : packages[j] \in RowType
  BY <1>1, LenProperties, ElementOfSeq DEF Types, Ids
<1>3. /\ Rejudged
      /\ \A j \in Ids : Swept(j, s) => packages'[j].status = "unavailable"
      /\ \A j \in Ids : ~Swept(j, s) => packages'[j] = Unstamped(packages[j], s)
  BY <1>1, SweepRejudges
<1>4. Ids' = Ids /\ \A j \in Ids : packages'[j].path = packages[j].path
  BY <1>3 DEF Rejudged, Ids
<1>5. \A j \in Ids : ~Swept(j, s) =>
        /\ packages'[j].release_id = packages[j].release_id
        /\ packages'[j].fingerprint = packages[j].fingerprint
        /\ packages'[j].sha = packages[j].sha
        /\ packages'[j].status = packages[j].status
        /\ packages'[j].verify_status = packages[j].verify_status
  BY <1>2, <1>3, UnstampedOK
<1>6. \A q : found[q] # None <=> Processed(s, q)
  BY <1>1 DEF Processed
<1>7. ASSUME NEW j \in Ids, found[packages[j].path] # None
      PROVE  /\ ~Swept(j, s) /\ packages[j].last_scan = s
             /\ Records(packages[j], found[packages[j].path])
  <2>1. packages[j].last_scan = s
    BY <1>1, <1>6, <1>7 DEF Seen
  <2> QED
    BY <2>1 DEF Seen, Stamped, Swept
<1>8. ASSUME NEW j \in Ids PROVE Records(packages'[j], found[packages[j].path])
  <2>1. CASE found[packages[j].path] = None
    <3>1. packages[j].last_scan # s
      BY <1>6, <2>1 DEF Seen, Stamped
    <3>2. packages'[j].status \in {"unavailable", "conflict"}
      BY <1>3, <1>5, <3>1 DEF Swept
    <3> QED
      BY <2>1, <3>2, ManifestsAssumption DEF Records
  <2>2. CASE found[packages[j].path] # None
    BY <1>5, <1>7, <2>2 DEF Records
  <2> QED
    BY <2>1, <2>2
<1>9. \A p \in Paths : found[p] # None => RowsAt(p)' # {}
  <2>1. \A p \in Paths : found[p] # None => RowsAt(p) # {}
    BY <1>1, <1>6 DEF Undisturbed, Covers
  <2> QED
    BY <1>4, <2>1 DEF RowsAt
<1>10. \A j \in Ids' : Records(packages[j], found[packages[j].path])'
  BY <1>4, <1>8 DEF Records
<1>11. Reflects(found)'
  BY <1>9, <1>10 DEF Reflects
<1>12. ASSUME deep[s], NEW j \in Ids, found[packages[j].path] \in Manifests,
              packages'[j].status # "conflict"
       PROVE  <<packages'[j].status, packages'[j].verify_status>> = Verified(packages[j].path)
  <2>1. found[packages[j].path] # None
    BY <1>12, ManifestsAssumption
  <2>2. Judged(packages[j])
    BY <1>1, <1>7, <1>12, <2>1 DEF Undisturbed, Covers
  <2> QED
    BY <1>5, <1>7, <1>12, <2>1, <2>2 DEF Judged
<1>13. deep[s] => Judges(found)'
  BY <1>1, <1>4, <1>12 DEF Judges, Verified
<1> QED
  BY <1>11, <1>13

LEMMA StepUndisturbed ==
  ASSUME ~Overlap, ~LiveEdits, Inv, Inv', Seen, PlansLeave, Undisturbed, [Next]_vars
  PROVE  Undisturbed'
<1>1. CASE Edit
  <2>1. \A s \in Scanners : pc[s] = "idle" /\ pc'[s] = "idle"
    BY <1>1, SwitchesAssumption DEF Edit, Put, Move, Quiet, scans
  <2> QED
    BY <2>1 DEF Undisturbed, Frozen, Covers, PlansCover
<1>2. CASE UNCHANGED vars
  <2>1. UNCHANGED <<disk, packages, pc, deep, body, todo, plan>>
    BY <1>2 DEF vars
  <2>2. \A s : Head1(s)' = Head1(s)
    BY <2>1, Zenon DEF Head1
  <2>3. Frozen' /\ Covers'
    BY <2>1 DEF Undisturbed, Frozen, Covers, Processed, RowsAt, Ids, Judged, Verified
  <2>4. PlansCover'
    BY <2>1, <2>2 DEF Undisturbed, PlansCover, PlanCovers, Judged, Verified
  <2> QED
    BY <2>3, <2>4 DEF Undisturbed
<1>3. ASSUME NEW s \in Scanners, NEW verify \in BOOLEAN, StartScan(s, verify)
      PROVE  Undisturbed'
  BY <1>3, StartScanUndisturbed
<1>4. ASSUME NEW s \in Scanners, Decide(s) PROVE Undisturbed'
  BY <1>4, DecideUndisturbed
<1>5. ASSUME NEW s \in Scanners, Write(s) PROVE Undisturbed'
  BY <1>5, WriteUndisturbed
<1>6. ASSUME NEW s \in Scanners, Sweep(s) \/ Stop(s) PROVE Undisturbed'
  <2>1. \A t \in Scanners : pc'[t] = "idle"
    BY <1>6 DEF Sweep, Stop, Inv, Exclusive, Types
  <2> QED
    BY <2>1 DEF Undisturbed, Frozen, Covers, PlansCover
<1>7. CASE StartVerify \/ Verify \/ StopVerify
  <2>1. \A t \in Scanners : pc'[t] = "idle"
    BY <1>7 DEF StartVerify, MayStart, Quiet, Verify, StopVerify, Inv, Exclusive, scans
  <2> QED
    BY <2>1 DEF Undisturbed, Frozen, Covers, PlansCover
<1> QED
  BY <1>1, <1>2, <1>3, <1>4, <1>5, <1>6, <1>7 DEF Next, ScanStep

(***************************************************************************)
(* A scan that reaches its end leaves the table agreeing with the library  *)
(* it discovered, and when it verifies with every package's objects, as    *)
(* long as scans, jobs and edits of the library do not overlap.            *)
(***************************************************************************)
THEOREM ScanAlwaysReflects == ASSUME ~Overlap, ~LiveEdits PROVE Spec => ScanReflects
<1>1. Inv /\ [Next]_vars => Inv'
  BY StepInv
<1>2. Inv /\ Seen /\ PlansLeave /\ [Next]_vars => Seen' /\ PlansLeave'
  BY StepSees
<1>3. Inv /\ Inv' /\ Seen /\ PlansLeave /\ Undisturbed /\ [Next]_vars => Undisturbed'
  BY StepUndisturbed
<1>4. Inv /\ Seen /\ PlansLeave /\ Undisturbed /\ [Next]_vars =>
        [\A s \in Scanners : Sweep(s) =>
           \A found \in {body[s]} : Reflects(found)' /\ (deep[s] => Judges(found)')]_vars
  BY SweepReflects
<1>5. Init => Undisturbed
  BY DEF Init, Undisturbed, Frozen, Covers, PlansCover
<1> QED
  BY InitInv, InitSees, <1>1, <1>2, <1>3, <1>4, <1>5, PTL DEF Spec, ScanReflects

=============================================================================
