-------------------------- MODULE Authoring_proofs --------------------------
(***************************************************************************)
(* What a session keeps of a draft and of its staged files, for any        *)
(* albums, any number of edits and of staging directories, however slow a  *)
(* validation, and whichever commands may come during what but the Racing  *)
(* ones: staged files are there as long as the draft needs them and no     *)
(* longer, and what a restart would offer can be opened; and, without the  *)
(* Outrunning ones, the draft on show is saved or about to be.             *)
(*                                                                         *)
(* The argument: an encode has the session to itself (EncodeAlone); a      *)
(* draft is saved, or handed to a task, only with the album's own files    *)
(* (Rooted); and a build, once nothing may change the draft under it, ends *)
(* the session of the draft it was made of (BuildHolds).                   *)
(***************************************************************************)
EXTENDS Authoring, TLAPS

Timers(A) == [save : Drafts(A) \cup {None}, validate : BOOLEAN]
Panes == [encoded : BOOLEAN, autoStarted : BOOLEAN, createOpen : BOOLEAN, createResult : BOOLEAN]
Calls(A) ==
  [open : A \cup {None}, identify : Drafts(A) \cup {None}, validate : Checks \cup {None},
   encode : Tasks(A) \cup {None}, waveform : Tasks(A) \cup {None}, build : Builds(A) \cup {None}]
Hosts == [made : Nat, dirs : SUBSET Nat, stage_cancel : BOOLEAN]
Disks(A) ==
  [saved : Drafts(A) \cup {None}, sources : {A \ Packages},
   packages : [A \cap Packages -> [version : Nat, waveform : Statuses]]]

\* A is the library: the albums, and the packages, a behaviour is about.
Typed(A) ==
  /\ A \subseteq Sources \cup Packages
  /\ draft \in Drafts(A) \cup {None}
  /\ encodeStaging \in Nat
  /\ timers \in Timers(A)
  /\ ui \in Panes
  /\ calls \in Calls(A)
  /\ host \in Hosts
  /\ disk \in Disks(A)
  /\ offer \in Drafts(A) \cup {None}
  /\ timers.validate => draft # None

\* The panel's one chance to generate the waveforms by itself has passed.
Settled(d) == ui.autoStarted \/ d.waveform # "not_generated"

Staged ==
  /\ encodeStaging # 0 =>
       /\ draft # None /\ draft.root = encodeStaging /\ encodeStaging \in host.dirs
       /\ calls.open = None /\ calls.identify = None /\ calls.encode = None /\ calls.waveform = None
  /\ 0 \notin host.dirs
  /\ calls.encode = None => host.dirs \subseteq {encodeStaging}
  /\ draft # None /\ draft.root # 0 => Settled(draft)

EncodeAlone ==
  calls.encode # None =>
    /\ calls.open = None /\ calls.identify = None /\ calls.waveform = None
    /\ calls.build # None => calls.build.draft.album \in Sources /\ calls.build.at # "reopening"
    /\ draft # None /\ draft.album \in Sources /\ draft.root = 0 /\ Settled(draft)
    /\ calls.encode.draft.root = 0 /\ Settled(calls.encode.draft)
    /\ host.dirs = IF calls.encode.at \in {"working", "done"} THEN {host.made} ELSE {}

Rooted ==
  /\ disk.saved # None => disk.saved.root = 0
  /\ timers.save # None => timers.save.root = 0
  /\ offer # None => offer.root = 0
  /\ calls.identify # None => calls.identify.root = 0
  /\ calls.waveform # None => calls.waveform.draft.root = 0 /\ (draft # None => draft.root = 0)

Reopened == calls.build # None /\ calls.build.at = "reopening" => encodeStaging = 0

Sound(A) == Typed(A) /\ Staged /\ EncodeAlone /\ Rooted /\ Reopened

-----------------------------------------------------------------------------
(***************************************************************************)
(* The parts of a state, and what becomes of them.                         *)
(***************************************************************************)
LEMMA NothingApart ==
  ASSUME NEW A, Typed(A)
  PROVE  /\ None \notin A /\ None \notin Drafts(A) /\ None \notin Checks
         /\ None \notin Tasks(A) /\ None \notin Builds(A)
  BY AlbumsAssumption, NothingAssumption DEF Typed, Drafts, Tasks, Builds

(* A draft after an edit of one of its parts, *)
LEMMA DraftEdits ==
  ASSUME NEW A, NEW d \in Drafts(A)
  PROVE  /\ \A n \in Nat : [d EXCEPT !.root = n] \in Drafts(A)
         /\ [d EXCEPT !.version = @ + 1] \in Drafts(A)
         /\ \A status \in Statuses : [d EXCEPT !.waveform = status] \in Drafts(A)
  BY DEF Drafts

(* ... the calls after one of them was made or answered, *)
LEMMA CallEdits ==
  ASSUME NEW A, NEW c \in Calls(A)
  PROVE  /\ \A x \in A \cup {None} : [c EXCEPT !.open = x] \in Calls(A)
         /\ \A x \in Drafts(A) \cup {None} : [c EXCEPT !.identify = x] \in Calls(A)
         /\ \A x \in Checks \cup {None} : [c EXCEPT !.validate = x] \in Calls(A)
         /\ \A x \in Tasks(A) \cup {None} : [c EXCEPT !.encode = x] \in Calls(A)
         /\ \A x \in Tasks(A) \cup {None} : [c EXCEPT !.waveform = x] \in Calls(A)
         /\ \A x \in Builds(A) \cup {None} : [c EXCEPT !.build = x] \in Calls(A)
  BY DEF Calls

(* ... a task as it goes on, *)
LEMMA TaskEdits ==
  ASSUME NEW A, NEW call \in Tasks(A)
  PROVE  /\ [call EXCEPT !.mounted = FALSE] \in Tasks(A)
         /\ \A at \in {"asked", "working", "done", "cancelled", "failed"} :
              [call EXCEPT !.at = at] \in Tasks(A)
  BY DEF Tasks

(* ... the calls as a task or a build goes on, *)
LEMMA StageEdits ==
  ASSUME NEW A, calls \in Calls(A), None \notin Tasks(A) \cup Builds(A)
  PROVE  /\ \A at \in {"asked", "working", "done", "cancelled", "failed"} :
              /\ calls.encode # None => [calls EXCEPT !.encode.at = at] \in Calls(A)
              /\ calls.waveform # None => [calls EXCEPT !.waveform.at = at] \in Calls(A)
         /\ \A at \in {"built", "failed", "reopening"} :
              calls.build # None => [calls EXCEPT !.build.at = at] \in Calls(A)
<1>1. /\ calls.encode \in Tasks(A) \cup {None} /\ calls.waveform \in Tasks(A) \cup {None}
      /\ calls.build \in Builds(A) \cup {None}
  BY DEF Calls
<1>2. ASSUME NEW at \in {"asked", "working", "done", "cancelled", "failed"}
      PROVE  /\ calls.encode # None => [calls EXCEPT !.encode.at = at] \in Calls(A)
             /\ calls.waveform # None => [calls EXCEPT !.waveform.at = at] \in Calls(A)
  BY <1>1, TaskEdits, CallEdits
<1>3. ASSUME NEW at \in {"built", "failed", "reopening"}, calls.build # None
      PROVE  [calls EXCEPT !.build.at = at] \in Calls(A)
  <2>1. [calls.build EXCEPT !.at = at] \in Builds(A)
    BY <1>1, <1>3 DEF Builds
  <2> QED
    BY <2>1, CallEdits
<1> QED
  BY <1>2, <1>3

(* ... as a call of any kind is answered, *)
LEMMA CallsAnswered ==
  ASSUME NEW A, calls \in Calls(A), NEW kind \in DOMAIN Silent
  PROVE  Answered(kind) \in Calls(A)
  BY DEF Answered, Calls, Silent

(* ... and as panels are unmounted. *)
LEMMA CallsOrphaned ==
  ASSUME NEW A, NEW c \in Calls(A), None \notin Tasks(A)
  PROVE  /\ [c EXCEPT !.encode = Orphan(@)] \in Calls(A)
         /\ [c EXCEPT !.encode = Orphan(@), !.waveform = Orphan(@)] \in Calls(A)
         /\ \A d : Unmounting(c, d) \in Calls(A)
<1>1. ASSUME NEW call \in Tasks(A) \cup {None} PROVE Orphan(call) \in Tasks(A) \cup {None}
  BY <1>1, TaskEdits DEF Orphan
<1>2. c.encode \in Tasks(A) \cup {None} /\ c.waveform \in Tasks(A) \cup {None}
  BY DEF Calls
<1>3. [c EXCEPT !.encode = Orphan(@)] \in Calls(A)
  BY <1>1, <1>2, CallEdits
<1>4. [c EXCEPT !.encode = Orphan(@), !.waveform = Orphan(@)] \in Calls(A)
  BY <1>1, <1>2 DEF Calls
<1> QED
  BY <1>3, <1>4 DEF Unmounting

(* What follows a change of the draft is well typed, *)
LEMMA ChangesTyped ==
  ASSUME NEW A, Typed(A), NEW d \in Drafts(A), NEW staging, NEW c \in Calls(A),
         None \notin Checks, Changes(d, staging, c)
  PROVE  draft' \in Drafts(A) /\ timers' \in Timers(A) /\ calls' \in Calls(A)
<1>1. timers' \in Timers(A)
  BY DEF Changes, Typed, Timers
<1>2. calls' \in Calls(A)
  <2>1. c.validate \in Checks \cup {None}
    BY DEF Calls
  <2>2. c.validate # None => [c.validate EXCEPT !.current = FALSE] \in Checks
    BY <2>1 DEF Checks
  <2> QED
    BY <2>1, <2>2, CallEdits DEF Changes
<1> QED
  BY <1>1, <1>2 DEF Changes

(* ... and so is a view that shows another draft. *)
LEMMA setDraftTyped ==
  ASSUME NEW A, Typed(A), NEW d \in Drafts(A), NEW staging \in Nat, NEW c \in Calls(A),
         setDraft(d, staging, c)
  PROVE  /\ draft' \in Drafts(A) /\ timers' \in Timers(A) /\ calls' \in Calls(A)
         /\ encodeStaging' \in Nat /\ offer' \in Drafts(A) \cup {None}
<1>1. Unmounting(c, d) \in Calls(A)
  BY CallsOrphaned, NothingApart
<1> QED
  BY <1>1, ChangesTyped, NothingApart DEF setDraft

(* The panels and the dialog after a change of their flags, *)
LEMMA PanelsTyped ==
  ASSUME NEW A, Typed(A), NEW d
  PROVE  /\ Panels(d) \in Panes
         /\ \A flag \in BOOLEAN :
              /\ [ui EXCEPT !.createResult = FALSE, !.encoded = flag] \in Panes
              /\ [ui EXCEPT !.autoStarted = flag] \in Panes
              /\ [ui EXCEPT !.createOpen = flag] \in Panes
              /\ [ui EXCEPT !.createResult = flag] \in Panes
              /\ [ui EXCEPT !.createOpen = FALSE, !.createResult = flag] \in Panes
              /\ [Panels(d) EXCEPT !.createResult = flag] \in Panes
  BY DEF Panels, Panes, Typed

(* ... the staging directories as they come and go, *)
LEMMA HostEdits ==
  ASSUME NEW A, Typed(A)
  PROVE  /\ \A flag \in BOOLEAN : [host EXCEPT !.stage_cancel = flag] \in Hosts
         /\ \A S : [host EXCEPT !.dirs = @ \ S] \in Hosts
         /\ [host EXCEPT !.dirs = {}, !.stage_cancel = FALSE] \in Hosts
         /\ [made |-> host.made + 1, dirs |-> host.dirs \cup {host.made + 1},
             stage_cancel |-> FALSE] \in Hosts
<1>1. host \in [made : Nat, dirs : SUBSET Nat, stage_cancel : BOOLEAN]
  BY DEF Typed, Hosts
<1>2. \A flag \in BOOLEAN : [host EXCEPT !.stage_cancel = flag] \in Hosts
  BY <1>1 DEF Hosts
<1>3. \A S : [host EXCEPT !.dirs = @ \ S] \in Hosts
  <2>1. \A S : host.dirs \ S \in SUBSET Nat
    BY <1>1
  <2> QED
    BY <1>1, <2>1 DEF Hosts
<1>4. [host EXCEPT !.dirs = {}, !.stage_cancel = FALSE] \in Hosts
  <2>1. {} \in SUBSET Nat
    OBVIOUS
  <2> QED
    BY <1>1, <2>1 DEF Hosts
<1>5. host.made + 1 \in Nat /\ host.dirs \cup {host.made + 1} \in SUBSET Nat
  BY <1>1
<1> QED
  BY <1>2, <1>3, <1>4, <1>5 DEF Hosts

(* ... and the autosaved draft. *)
LEMMA DiskEdits ==
  ASSUME NEW A, Typed(A)
  PROVE  \A d \in Drafts(A) \cup {None} : [disk EXCEPT !.saved = d] \in Disks(A)
  BY DEF Typed, Disks

(* A draft just opened has the album's own files. *)
LEMMA InspectedTyped ==
  ASSUME NEW A, Typed(A), NEW album \in A
  PROVE  Inspected(album) \in Drafts(A) /\ Inspected(album).root = 0
<1>1. disk.packages \in [A \cap Packages -> [version : Nat, waveform : Statuses]]
  BY DEF Typed, Disks
<1>2. album \in Packages =>
        disk.packages[album].version \in Nat /\ disk.packages[album].waveform \in Statuses
  BY <1>1
<1>3. PICK version \in Nat, waveform \in Statuses :
        Inspected(album) = [album |-> album, root |-> 0, version |-> version, waveform |-> waveform]
  <2>1. CASE album \in Packages
    BY <1>2, <2>1 DEF Inspected
  <2>2. CASE album \notin Packages
    BY <2>2 DEF Inspected, Statuses
  <2> QED
    BY <2>1, <2>2
<1> QED
  BY <1>3 DEF Drafts

(* Publishing a package leaves the autosaved draft alone. *)
LEMMA PublishTyped ==
  ASSUME NEW A, Typed(A), NEW d \in Drafts(A), publish(d)
  PROVE  disk' \in Disks(A) /\ disk'.saved = disk.saved
<1>1. CASE d.album \in Packages
  <2>1. d.album \in A \cap Packages /\ d.version \in Nat
    BY <1>1 DEF Drafts
  <2>2. [version |-> d.version, waveform |-> "ready"] \in [version : Nat, waveform : Statuses]
    BY <2>1 DEF Statuses
  <2> QED
    BY <1>1, <2>1, <2>2 DEF publish, Disks, Typed
<1>2. CASE d.album \notin Packages
  BY <1>2 DEF publish, Typed
<1> QED
  BY <1>1, <1>2

\* A command that may not come during what is under way.
(* A command that may not come during a phase does not. *)
LEMMA NotDuring ==
  ASSUME NEW pairs, Allowed \cap pairs = {}, NEW command, May(command), NEW phase,
         <<command, phase>> \in pairs
  PROVE  phase \notin Phases
  BY DEF May

(* A phase that is not on is a call that is not under way. *)
LEMMA NotUnderWay ==
  ASSUME NEW A, calls \in Calls(A)
  PROVE
  /\ "open" \notin Phases => calls.open = None
  /\ "identify" \notin Phases => calls.identify = None
  /\ "encode" \notin Phases => calls.encode = None
  /\ "waveform" \notin Phases => calls.waveform = None
  /\ "build" \notin Phases => calls.build = None
  /\ "staged" \notin Phases => encodeStaging = 0
  /\ "spent" \notin Phases => (draft # None /\ draft.root # 0 => encodeStaging # 0)
<1>1. \A kind \in {"open", "identify", "encode", "waveform", "build"} :
        kind \in DOMAIN calls
  BY DEF Calls
<1> QED
  BY <1>1 DEF Phases

(* What is not under way when a command comes, without the racing ones. *)
LEMMA NoRaces ==
  ASSUME NEW A, calls \in Calls(A), Allowed \cap Racing = {}
  PROVE  /\ May("open") \/ May("reset") => calls.encode = None
         /\ May("edit") => (draft # None /\ draft.root # 0 => encodeStaging # 0)
         /\ May("identify") => /\ calls.encode = None
                               /\ draft # None /\ draft.root # 0 => encodeStaging # 0
         /\ May("generate") => /\ calls.encode = None /\ encodeStaging = 0
                               /\ draft # None => draft.root = 0
         /\ May("encode") => /\ calls.open = None /\ calls.identify = None
                             /\ calls.waveform = None /\ calls.build = None
<1>1. ASSUME NEW command, NEW phase, May(command), <<command, phase>> \in Racing
      PROVE  phase \notin Phases
  BY <1>1, NotDuring
<1>2. /\ \A command \in {"open", "reset", "identify", "generate"} :
           <<command, "encode">> \in Racing
      /\ \A phase \in {"open", "identify", "waveform", "build"} : <<"encode", phase>> \in Racing
      /\ <<"generate", "staged">> \in Racing
      /\ \A command \in {"edit", "identify", "generate"} : <<command, "spent">> \in Racing
  BY DEF Racing
<1> QED
  BY <1>1, <1>2, NotUnderWay

(* Opening an album drops the staging area; no encode writes into one. *)
LEMMA openAlbumSound ==
  ASSUME NEW A, NEW album \in A, Sound(A), Allowed \cap Racing = {}, ~AutoDue, openAlbum(album)
  PROVE  Sound(A)'
<1>0. /\ Typed(A) /\ Staged /\ EncodeAlone /\ Rooted /\ Reopened /\ calls \in Calls(A)
      /\ None \notin A /\ None \notin Drafts(A) /\ None \notin Checks
      /\ None \notin Tasks(A) /\ None \notin Builds(A)
  BY NothingApart DEF Sound, Typed
<1>1. Typed(A)'
  <2>1. calls' \in Calls(A)
    BY <1>0, CallEdits DEF openAlbum, Typed
  <2>2. host' \in Hosts /\ encodeStaging' = 0
    BY <1>0, HostEdits DEF openAlbum, dropStaging
  <2> QED
    BY <1>0, <2>1, <2>2 DEF openAlbum, Typed
<1>2. Staged'
  BY <1>0 DEF Staged, Settled, openAlbum, dropStaging
<1>3. EncodeAlone'
  BY <1>0, NoRaces DEF EncodeAlone, openAlbum
<1>4. Rooted'
  BY <1>0 DEF Rooted, openAlbum
<1>5. Reopened'
  BY <1>0 DEF Reopened, openAlbum, dropStaging
<1> QED
  BY <1>1, <1>2, <1>3, <1>4, <1>5 DEF Sound

(* An opened album comes with its own files, where nothing is staged. *)
LEMMA OpenReturnsSound ==
  ASSUME NEW A, Sound(A), Allowed \cap Racing = {}, ~AutoDue, OpenReturns
  PROVE  Sound(A)'
<1>0. /\ Typed(A) /\ Staged /\ EncodeAlone /\ Rooted /\ Reopened /\ calls \in Calls(A)
      /\ None \notin A /\ None \notin Drafts(A) /\ None \notin Checks
      /\ None \notin Tasks(A) /\ None \notin Builds(A)
  BY NothingApart DEF Sound, Typed
<1>1. Typed(A)'
  <2>1. calls.open \in A
    BY <1>0 DEF OpenReturns, Typed, Calls
  <2>2. Inspected(calls.open) \in Drafts(A) /\ Answered("open") \in Calls(A)
    BY <1>0, <2>1, InspectedTyped, CallsAnswered DEF Typed, Silent
  <2>3. /\ draft' \in Drafts(A) /\ timers' \in Timers(A) /\ calls' \in Calls(A)
        /\ encodeStaging' \in Nat /\ offer' \in Drafts(A) \cup {None}
    BY <1>0, <2>2, setDraftTyped DEF OpenReturns, Typed
  <2>4. ui' \in Panes
    BY <1>0, PanelsTyped DEF OpenReturns
  <2> QED
    BY <1>0, <2>1, <2>2, <2>3, <2>4 DEF OpenReturns, Typed
<1>2. Staged'
  BY <1>0 DEF Staged, EncodeAlone, OpenReturns, setDraft, Changes, Inspected
<1>3. EncodeAlone'
  BY <1>0 DEF Calls, EncodeAlone, OpenReturns, setDraft, Changes, Unmounting, Orphan, Answered
<1>4. Rooted'
  BY <1>0 DEF Calls, Rooted, OpenReturns, setDraft, Changes, Unmounting, Inspected, Answered
<1>5. Reopened'
  BY <1>0 DEF Calls, Reopened, OpenReturns, setDraft, Changes, Unmounting, Answered
<1> QED
  BY <1>1, <1>2, <1>3, <1>4, <1>5 DEF Sound

(* An open that fails offers the autosaved draft again. *)
LEMMA OpenFailsSound ==
  ASSUME NEW A, Sound(A), Allowed \cap Racing = {}, ~AutoDue, OpenFails
  PROVE  Sound(A)'
<1>0. /\ Typed(A) /\ Staged /\ EncodeAlone /\ Rooted /\ Reopened /\ calls \in Calls(A)
      /\ None \notin A /\ None \notin Drafts(A) /\ None \notin Checks
      /\ None \notin Tasks(A) /\ None \notin Builds(A)
  BY NothingApart DEF Sound, Typed
<1>1. Typed(A)'
  <2>1. calls' \in Calls(A)
    BY <1>0, CallsAnswered DEF OpenFails, Typed, Silent
  <2>2. disk.saved \in Drafts(A) \cup {None}
    BY <1>0 DEF Typed, Disks
  <2> QED
    BY <1>0, <2>1, <2>2 DEF OpenFails, Typed
<1>2. Staged'
  BY <1>0 DEF Staged, Settled, OpenFails, Answered
<1>3. EncodeAlone'
  BY <1>0 DEF EncodeAlone, OpenFails, Answered
<1>4. Rooted'
  BY <1>0 DEF Rooted, OpenFails, Answered
<1>5. Reopened'
  BY <1>0 DEF Reopened, OpenFails, Answered
<1> QED
  BY <1>1, <1>2, <1>3, <1>4, <1>5 DEF Sound

(* Leaving the album drops the staging area, and no encode is under way. *)
LEMMA ResetSound ==
  ASSUME NEW A, Sound(A), Allowed \cap Racing = {}, ~AutoDue, Reset
  PROVE  Sound(A)'
<1>0. /\ Typed(A) /\ Staged /\ EncodeAlone /\ Rooted /\ Reopened /\ calls \in Calls(A)
      /\ None \notin A /\ None \notin Drafts(A) /\ None \notin Checks
      /\ None \notin Tasks(A) /\ None \notin Builds(A)
  BY NothingApart DEF Sound, Typed
<1>1. Typed(A)'
  <2>1. calls' \in Calls(A)
    BY <1>0, CallsOrphaned DEF Reset, Typed
  <2>2. host' \in Hosts /\ encodeStaging' = 0
    BY <1>0, HostEdits DEF Reset, dropStaging
  <2>3. timers' \in Timers(A) /\ ~timers'.validate /\ ui' \in Panes
    BY <1>0 DEF Reset, Stopped, Closed, Timers, Panes
  <2>4. offer' \in Drafts(A) \cup {None}
    BY <1>0 DEF Reset, Typed, Disks
  <2> QED
    BY <1>0, <2>1, <2>2, <2>3, <2>4 DEF Reset, Typed
<1>2. Staged'
  BY <1>0, NoRaces DEF Staged, Reset, dropStaging
<1>3. EncodeAlone'
  BY <1>0, NoRaces DEF EncodeAlone, Reset, Orphan
<1>4. Rooted'
  BY <1>0 DEF Rooted, Reset, Orphan, Stopped
<1>5. Reopened'
  BY <1>0 DEF Reopened, Reset, dropStaging
<1> QED
  BY <1>1, <1>2, <1>3, <1>4, <1>5 DEF Sound

(* The draft resumed was saved, so it has its own files. *)
LEMMA ResumeSound ==
  ASSUME NEW A, Sound(A), Allowed \cap Racing = {}, ~AutoDue, Resume
  PROVE  Sound(A)'
<1>0. /\ Typed(A) /\ Staged /\ EncodeAlone /\ Rooted /\ Reopened /\ calls \in Calls(A)
      /\ None \notin A /\ None \notin Drafts(A) /\ None \notin Checks
      /\ None \notin Tasks(A) /\ None \notin Builds(A)
  BY NothingApart DEF Sound, Typed
<1>1. Typed(A)'
  <2>1. /\ draft' \in Drafts(A) /\ timers' \in Timers(A) /\ calls' \in Calls(A)
        /\ encodeStaging' \in Nat /\ offer' \in Drafts(A) \cup {None}
    BY <1>0, setDraftTyped DEF Resume, Typed
  <2>2. ui' \in Panes
    BY <1>0, PanelsTyped DEF Resume
  <2> QED
    BY <1>0, <2>1, <2>2 DEF Resume, Typed
<1>2. Staged'
  BY <1>0 DEF Staged, EncodeAlone, Rooted, Resume, setDraft, Changes
<1>3. EncodeAlone'
  BY <1>0 DEF EncodeAlone, Resume, setDraft, Changes, Unmounting, Orphan
<1>4. Rooted'
  BY <1>0 DEF Rooted, Resume, setDraft, Changes, Unmounting
<1>5. Reopened'
  BY <1>0 DEF Reopened, Resume, setDraft, Changes, Unmounting
<1> QED
  BY <1>1, <1>2, <1>3, <1>4, <1>5 DEF Sound

(* Discarding the offer touches no staged file. *)
LEMMA DiscardSound ==
  ASSUME NEW A, Sound(A), Allowed \cap Racing = {}, ~AutoDue, Discard
  PROVE  Sound(A)'
<1>0. /\ Typed(A) /\ Staged /\ EncodeAlone /\ Rooted /\ Reopened /\ calls \in Calls(A)
      /\ None \notin A /\ None \notin Drafts(A) /\ None \notin Checks
      /\ None \notin Tasks(A) /\ None \notin Builds(A)
  BY NothingApart DEF Sound, Typed
<1>1. Typed(A)'
  <2>1. disk' \in Disks(A)
    BY <1>0, DiskEdits DEF Discard
  <2> QED
    BY <1>0, <2>1 DEF Discard, Typed
<1>2. Staged'
  BY <1>0 DEF Staged, Discard
<1>3. EncodeAlone'
  BY <1>0 DEF EncodeAlone, Discard
<1>4. Rooted'
  BY <1>0 DEF Rooted, Discard
<1>5. Reopened'
  BY <1>0 DEF Reopened, Discard
<1> QED
  BY <1>1, <1>2, <1>3, <1>4, <1>5 DEF Sound

(* No staging directory and no call survives a restart. *)
LEMMA QuitSound ==
  ASSUME NEW A, Sound(A), Allowed \cap Racing = {}, ~AutoDue, Quit
  PROVE  Sound(A)'
<1>0. /\ Typed(A) /\ Staged /\ EncodeAlone /\ Rooted /\ Reopened /\ calls \in Calls(A)
      /\ None \notin A /\ None \notin Drafts(A) /\ None \notin Checks
      /\ None \notin Tasks(A) /\ None \notin Builds(A)
  BY NothingApart DEF Sound, Typed
<1>1. Typed(A)'
  <2>1. host' \in Hosts
    BY <1>0, HostEdits DEF Quit
  <2>2. timers' \in Timers(A) /\ ~timers'.validate /\ ui' \in Panes /\ calls' \in Calls(A)
    BY <1>0 DEF Quit, Stopped, Closed, Silent, Timers, Panes, Calls
  <2>3. offer' \in Drafts(A) \cup {None}
    BY <1>0 DEF Quit, Typed, Disks
  <2> QED
    BY <1>0, <2>1, <2>2, <2>3 DEF Quit, Typed
<1>2. Staged'
  BY <1>0 DEF Staged, Quit
<1>3. EncodeAlone'
  BY <1>0 DEF EncodeAlone, Quit, Silent
<1>4. Rooted'
  BY <1>0 DEF Rooted, Quit, Silent, Stopped
<1>5. Reopened'
  BY <1>0 DEF Reopened, Quit
<1> QED
  BY <1>1, <1>2, <1>3, <1>4, <1>5 DEF Sound

(* Edits come only where nothing is staged. *)
LEMMA EditSound ==
  ASSUME NEW A, Sound(A), Allowed \cap Racing = {}, ~AutoDue, Edit
  PROVE  Sound(A)'
<1>0. /\ Typed(A) /\ Staged /\ EncodeAlone /\ Rooted /\ Reopened /\ calls \in Calls(A)
      /\ None \notin A /\ None \notin Drafts(A) /\ None \notin Checks
      /\ None \notin Tasks(A) /\ None \notin Builds(A)
  BY NothingApart DEF Sound, Typed
<1>1. Typed(A)'
  <2>1. [draft EXCEPT !.version = @ + 1] \in Drafts(A)
    BY <1>0, DraftEdits DEF Edit, Viewing, Typed
  <2>2. draft' \in Drafts(A) /\ timers' \in Timers(A) /\ calls' \in Calls(A)
    BY <1>0, <2>1, ChangesTyped DEF Edit, Typed
  <2> QED
    BY <1>0, <2>1, <2>2 DEF Edit, Typed
<1>2. Staged'
  BY <1>0, NoRaces DEF Staged, Viewing, Edit, Changes
<1>3. EncodeAlone'
  BY <1>0 DEF Typed, Drafts, EncodeAlone, Settled, Edit, Changes
<1>4. Rooted'
  BY <1>0, NoRaces DEF Typed, Drafts, Rooted, Viewing, Edit, Changes
<1>5. Reopened'
  BY <1>0 DEF Reopened, Edit
<1> QED
  BY <1>1, <1>2, <1>3, <1>4, <1>5 DEF Sound

(* The lookup is made with a draft that has its own files. *)
LEMMA IdentifySound ==
  ASSUME NEW A, Sound(A), Allowed \cap Racing = {}, ~AutoDue, Identify
  PROVE  Sound(A)'
<1>0. /\ Typed(A) /\ Staged /\ EncodeAlone /\ Rooted /\ Reopened /\ calls \in Calls(A)
      /\ None \notin A /\ None \notin Drafts(A) /\ None \notin Checks
      /\ None \notin Tasks(A) /\ None \notin Builds(A)
  BY NothingApart DEF Sound, Typed
<1>1. Typed(A)'
  <2>1. calls' \in Calls(A)
    BY <1>0, CallEdits DEF Identify, Viewing, Typed
  <2> QED
    BY <1>0, <2>1 DEF Identify, Typed
<1>2. Staged'
  BY <1>0, NoRaces DEF Staged, Identify
<1>3. EncodeAlone'
  BY <1>0, NoRaces DEF EncodeAlone, Identify
<1>4. Rooted'
  BY <1>0, NoRaces DEF Rooted, Identify
<1>5. Reopened'
  BY <1>0 DEF Reopened, Identify
<1> QED
  BY <1>1, <1>2, <1>3, <1>4, <1>5 DEF Sound

(* The looked-up draft still has its own files, and nothing was staged
   meanwhile. *)
LEMMA IdentifyAppliesSound ==
  ASSUME NEW A, Sound(A), Allowed \cap Racing = {}, ~AutoDue, IdentifyApplies
  PROVE  Sound(A)'
<1>0. /\ Typed(A) /\ Staged /\ EncodeAlone /\ Rooted /\ Reopened /\ calls \in Calls(A)
      /\ None \notin A /\ None \notin Drafts(A) /\ None \notin Checks
      /\ None \notin Tasks(A) /\ None \notin Builds(A)
  BY NothingApart DEF Sound, Typed
<1>1. Typed(A)'
  <2>1. /\ [calls.identify EXCEPT !.version = @ + 1] \in Drafts(A)
        /\ Answered("identify") \in Calls(A)
    BY <1>0, DraftEdits, CallsAnswered DEF IdentifyApplies, Typed, Calls, Silent
  <2>2. /\ draft' \in Drafts(A) /\ timers' \in Timers(A) /\ calls' \in Calls(A)
        /\ encodeStaging' \in Nat /\ offer' \in Drafts(A) \cup {None}
    BY <1>0, <2>1, setDraftTyped DEF IdentifyApplies, Typed
  <2>3. ui' \in Panes
    BY <1>0, PanelsTyped DEF IdentifyApplies
  <2> QED
    BY <1>0, <2>1, <2>2, <2>3 DEF IdentifyApplies, Typed
<1>2. Staged'
  BY <1>0 DEF Calls, Drafts, Staged, EncodeAlone, Rooted, IdentifyApplies, setDraft, Changes
<1>3. EncodeAlone'
  BY <1>0 DEF Calls, EncodeAlone, IdentifyApplies, setDraft, Changes, Unmounting, Orphan, Answered
<1>4. Rooted'
  BY <1>0 DEF Calls, Drafts, Rooted, IdentifyApplies, setDraft, Changes, Unmounting, Answered
<1>5. Reopened'
  BY <1>0 DEF Calls, Reopened, IdentifyApplies, setDraft, Changes, Unmounting, Answered
<1> QED
  BY <1>1, <1>2, <1>3, <1>4, <1>5 DEF Sound

(* Candidates change no file. *)
LEMMA IdentifyOffersSound ==
  ASSUME NEW A, Sound(A), Allowed \cap Racing = {}, ~AutoDue, IdentifyOffers
  PROVE  Sound(A)'
<1>0. /\ Typed(A) /\ Staged /\ EncodeAlone /\ Rooted /\ Reopened /\ calls \in Calls(A)
      /\ None \notin A /\ None \notin Drafts(A) /\ None \notin Checks
      /\ None \notin Tasks(A) /\ None \notin Builds(A)
  BY NothingApart DEF Sound, Typed
<1>1. Typed(A)'
  <2>1. calls' \in Calls(A)
    BY <1>0, CallsAnswered DEF IdentifyOffers, Typed, Silent
  <2> QED
    BY <1>0, <2>1 DEF IdentifyOffers, Typed
<1>2. Staged'
  BY <1>0 DEF Staged, Settled, IdentifyOffers, Answered
<1>3. EncodeAlone'
  BY <1>0 DEF EncodeAlone, IdentifyOffers, Answered
<1>4. Rooted'
  BY <1>0 DEF Rooted, IdentifyOffers, Answered
<1>5. Reopened'
  BY <1>0 DEF Reopened, IdentifyOffers, Answered
<1> QED
  BY <1>1, <1>2, <1>3, <1>4, <1>5 DEF Sound

(* The encode begins when nothing else does. *)
LEMMA EncodeSound ==
  ASSUME NEW A, Sound(A), Allowed \cap Racing = {}, ~AutoDue, Encode
  PROVE  Sound(A)'
<1>0. /\ Typed(A) /\ Staged /\ EncodeAlone /\ Rooted /\ Reopened /\ calls \in Calls(A)
      /\ None \notin A /\ None \notin Drafts(A) /\ None \notin Checks
      /\ None \notin Tasks(A) /\ None \notin Builds(A)
  BY NothingApart DEF Sound, Typed
<1>1. Typed(A)'
  <2>1. draft \in Drafts(A)
    BY <1>0 DEF Encode, Viewing, Typed
  <2>2. Task(draft) \in Tasks(A)
    BY <1>0, <2>1 DEF Task, Tasks
  <2>3. calls' \in Calls(A)
    BY <1>0, <2>2, CallEdits DEF Encode, Typed
  <2> QED
    BY <1>0, <2>1, <2>2, <2>3 DEF Encode, Typed
<1>2. Staged'
  BY <1>0 DEF Staged, Encode, needsEncoding
<1>3. EncodeAlone'
  BY <1>0, NoRaces
     DEF Typed, Hosts, Staged, EncodeAlone, Settled, Viewing, Encode, Task, needsEncoding,
         AutoDue
<1>4. Rooted'
  BY <1>0 DEF Rooted, Encode
<1>5. Reopened'
  BY <1>0 DEF Reopened, Encode
<1> QED
  BY <1>1, <1>2, <1>3, <1>4, <1>5 DEF Sound

(* The host makes the one directory there is. *)
LEMMA EncodeStartsSound ==
  ASSUME NEW A, Sound(A), Allowed \cap Racing = {}, ~AutoDue, EncodeStarts
  PROVE  Sound(A)'
<1>0. /\ Typed(A) /\ Staged /\ EncodeAlone /\ Rooted /\ Reopened /\ calls \in Calls(A)
      /\ None \notin A /\ None \notin Drafts(A) /\ None \notin Checks
      /\ None \notin Tasks(A) /\ None \notin Builds(A)
  BY NothingApart DEF Sound, Typed
<1>1. Typed(A)'
  <2>1. calls' \in Calls(A)
    BY <1>0, StageEdits DEF EncodeStarts, At, Typed
  <2>2. host' \in Hosts
    BY <1>0, HostEdits DEF EncodeStarts
  <2> QED
    BY <1>0, <2>1, <2>2 DEF EncodeStarts, Typed
<1>2. Staged'
  BY <1>0 DEF Typed, Calls, Hosts, Tasks, Staged, Settled, EncodeStarts, At
<1>3. EncodeAlone'
  BY <1>0 DEF Calls, Tasks, EncodeAlone, Settled, EncodeStarts, At
<1>4. Rooted'
  BY <1>0 DEF Rooted, EncodeStarts
<1>5. Reopened'
  BY <1>0 DEF Reopened, EncodeStarts
<1> QED
  BY <1>1, <1>2, <1>3, <1>4, <1>5 DEF Sound

(* A failed or cancelled encode leaves no directory behind. *)
LEMMA EncodeEndsSound ==
  ASSUME NEW A, Sound(A), Allowed \cap Racing = {}, ~AutoDue, EncodeEnds
  PROVE  Sound(A)'
<1>0. /\ Typed(A) /\ Staged /\ EncodeAlone /\ Rooted /\ Reopened /\ calls \in Calls(A)
      /\ None \notin A /\ None \notin Drafts(A) /\ None \notin Checks
      /\ None \notin Tasks(A) /\ None \notin Builds(A)
  BY NothingApart DEF Sound, Typed
<1>1. Typed(A)'
  <2>1. calls' \in Calls(A)
    <3>1. PICK end \in {"done", "failed"} : calls' = [calls EXCEPT !.encode.at = end]
      BY DEF EncodeEnds
    <3>2. calls.encode # None
      BY DEF EncodeEnds, At
    <3>3. [calls EXCEPT !.encode.at = end] \in Calls(A)
      BY <1>0, <3>2, StageEdits
    <3> QED
      BY <3>1, <3>3
  <2>2. host' \in Hosts
    BY <1>0, HostEdits DEF EncodeEnds, Typed
  <2> QED
    BY <1>0, <2>1, <2>2 DEF EncodeEnds, Typed
<1>2. Staged'
  BY <1>0 DEF Calls, Tasks, Staged, Settled, EncodeEnds, At
<1>3. EncodeAlone'
  <2>1. calls.encode \in Tasks(A) /\ calls.encode.at = "working" /\ host.dirs = {host.made}
    BY <1>0 DEF EncodeEnds, At, EncodeAlone, Calls
  <2>2. PICK end \in {"done", "failed"} :
          /\ calls' = [calls EXCEPT !.encode.at = end]
          /\ host' = IF end = "done" THEN host ELSE [host EXCEPT !.dirs = @ \ {host.made}]
    BY DEF EncodeEnds
  <2>3. /\ calls'.encode.at = end /\ calls'.encode.draft = calls.encode.draft
        /\ calls'.open = calls.open /\ calls'.identify = calls.identify
        /\ calls'.waveform = calls.waveform /\ calls'.build = calls.build
    BY <1>0, <2>1, <2>2 DEF Calls, Tasks
  <2>4. host'.dirs = (IF end = "done" THEN {host.made} ELSE {}) /\ host'.made = host.made
    BY <1>0, <2>1, <2>2 DEF Typed, Hosts
  <2> QED
    BY <1>0, <2>1, <2>3, <2>4 DEF EncodeEnds, EncodeAlone, Settled
<1>4. Rooted'
  BY <1>0 DEF Rooted, EncodeEnds
<1>5. Reopened'
  BY <1>0 DEF Reopened, EncodeEnds
<1> QED
  BY <1>1, <1>2, <1>3, <1>4, <1>5 DEF Sound

(* The directory of a finished encode becomes the staging area of the draft
   it is for. *)
LEMMA EncodeReturnsSound ==
  ASSUME NEW A, Sound(A), Allowed \cap Racing = {}, ~AutoDue, EncodeReturns
  PROVE  Sound(A)'
<1>0. /\ Typed(A) /\ Staged /\ EncodeAlone /\ Rooted /\ Reopened /\ calls \in Calls(A)
      /\ None \notin A /\ None \notin Drafts(A) /\ None \notin Checks
      /\ None \notin Tasks(A) /\ None \notin Builds(A)
  BY NothingApart DEF Sound, Typed
<1>1. Typed(A)'
  <2>1. calls.encode.draft \in Drafts(A) /\ host.made \in Nat
    BY <1>0 DEF EncodeReturns, At, Typed, Calls, Tasks, Hosts
  <2>2. /\ [calls.encode.draft EXCEPT !.root = host.made] \in Drafts(A)
        /\ Answered("encode") \in Calls(A)
    BY <1>0, <2>1, DraftEdits, CallsAnswered DEF Typed, Silent
  <2>3. /\ draft' \in Drafts(A) /\ timers' \in Timers(A) /\ calls' \in Calls(A)
        /\ encodeStaging' \in Nat /\ offer' \in Drafts(A) \cup {None}
    BY <1>0, <2>1, <2>2, setDraftTyped DEF EncodeReturns
  <2>4. ui' \in Panes
    BY <1>0, PanelsTyped DEF EncodeReturns, At, Typed, Calls, Tasks
  <2> QED
    BY <1>0, <2>1, <2>2, <2>3, <2>4 DEF EncodeReturns, Typed
<1>2. Staged'
  <2>1. /\ calls.encode \in Tasks(A) /\ host.dirs = {host.made} /\ host.made \in host.dirs
        /\ calls.open = None /\ calls.identify = None /\ calls.waveform = None
        /\ Settled(calls.encode.draft)
    BY <1>0 DEF EncodeReturns, At, EncodeAlone, Calls
  <2>2. /\ draft' = [calls.encode.draft EXCEPT !.root = host.made] /\ encodeStaging' = host.made
        /\ host' = host /\ ui'.autoStarted = ui.autoStarted
    BY <1>0 DEF EncodeReturns, setDraft, Changes, Typed, Panes
  <2>3. /\ draft' \in Drafts(A)
        /\ draft'.root = host.made /\ draft'.waveform = calls.encode.draft.waveform
    BY <1>0, <1>1, <2>1, <2>2 DEF Typed, Tasks, Drafts
  <2>4. /\ calls'.open = None /\ calls'.identify = None /\ calls'.encode = None
        /\ calls'.waveform = None
    BY <1>0, <2>1 DEF EncodeReturns, setDraft, Changes, Unmounting, Orphan, Answered, Calls
  <2> QED
    BY <1>0, <2>1, <2>2, <2>3, <2>4 DEF Staged, Settled
<1>3. EncodeAlone'
  BY <1>0 DEF Calls, EncodeAlone, EncodeReturns, setDraft, Changes, Unmounting, Orphan, Answered
<1>4. Rooted'
  BY <1>0
     DEF Calls, Staged, EncodeAlone, Rooted, EncodeReturns, setDraft, Changes, Unmounting,
         Answered, At
<1>5. Reopened'
  BY <1>0
     DEF Calls, EncodeAlone, Reopened, EncodeReturns, setDraft, Changes, Unmounting, Answered,
         At
<1> QED
  BY <1>1, <1>2, <1>3, <1>4, <1>5 DEF Sound

(* After a failed encode nothing is staged. *)
LEMMA EncodeFailsSound ==
  ASSUME NEW A, Sound(A), Allowed \cap Racing = {}, ~AutoDue, EncodeFails
  PROVE  Sound(A)'
<1>0. /\ Typed(A) /\ Staged /\ EncodeAlone /\ Rooted /\ Reopened /\ calls \in Calls(A)
      /\ None \notin A /\ None \notin Drafts(A) /\ None \notin Checks
      /\ None \notin Tasks(A) /\ None \notin Builds(A)
  BY NothingApart DEF Sound, Typed
<1>1. Typed(A)'
  <2>1. calls' \in Calls(A)
    BY <1>0, CallsAnswered DEF EncodeFails, Typed, Silent
  <2> QED
    BY <1>0, <2>1 DEF EncodeFails, Typed
<1>2. Staged'
  BY <1>0 DEF Staged, EncodeAlone, EncodeFails, At
<1>3. EncodeAlone'
  BY <1>0 DEF Calls, EncodeAlone, EncodeFails, Answered
<1>4. Rooted'
  BY <1>0 DEF Rooted, EncodeFails, Answered
<1>5. Reopened'
  BY <1>0 DEF Reopened, EncodeFails
<1> QED
  BY <1>1, <1>2, <1>3, <1>4, <1>5 DEF Sound

(* A cancel only sets the flag the host looks at. *)
LEMMA CancelEncodeSound ==
  ASSUME NEW A, Sound(A), Allowed \cap Racing = {}, ~AutoDue, CancelEncode
  PROVE  Sound(A)'
<1>0. /\ Typed(A) /\ Staged /\ EncodeAlone /\ Rooted /\ Reopened /\ calls \in Calls(A)
      /\ None \notin A /\ None \notin Drafts(A) /\ None \notin Checks
      /\ None \notin Tasks(A) /\ None \notin Builds(A)
  BY NothingApart DEF Sound, Typed
<1>1. Typed(A)'
  <2>1. host' \in Hosts
    BY <1>0, HostEdits DEF CancelEncode
  <2> QED
    BY <1>0, <2>1 DEF CancelEncode, Typed
<1>2. Staged'
  BY <1>0 DEF Staged, Settled, CancelEncode
<1>3. EncodeAlone'
  BY <1>0 DEF EncodeAlone, Settled, CancelEncode
<1>4. Rooted'
  BY <1>0 DEF Rooted, CancelEncode
<1>5. Reopened'
  BY <1>0 DEF Reopened, CancelEncode
<1> QED
  BY <1>1, <1>2, <1>3, <1>4, <1>5 DEF Sound

(* The panel starts by itself only on a draft that was never staged. *)
LEMMA AutoGenerateSound ==
  ASSUME NEW A, Sound(A), Allowed \cap Racing = {}, AutoDue, AutoGenerate
  PROVE  Sound(A)'
<1>0. /\ Typed(A) /\ Staged /\ EncodeAlone /\ Rooted /\ Reopened /\ calls \in Calls(A)
      /\ None \notin A /\ None \notin Drafts(A) /\ None \notin Checks
      /\ None \notin Tasks(A) /\ None \notin Builds(A)
  BY NothingApart DEF Sound, Typed
<1>1. Typed(A)'
  <2>1. draft \in Drafts(A) /\ "pending" \in Statuses
    BY <1>0 DEF AutoDue, Typed, Statuses
  <2>2. [draft EXCEPT !.waveform = "pending"] \in Drafts(A)
    BY <1>0, <2>1, DraftEdits
  <2>3. Task([draft EXCEPT !.waveform = "pending"]) \in Tasks(A)
    BY <1>0, <2>2 DEF Task, Tasks
  <2>4. [calls EXCEPT !.waveform = Task([draft EXCEPT !.waveform = "pending"])] \in Calls(A)
    BY <1>0, <2>3, CallEdits DEF Typed
  <2>5. generate => draft' \in Drafts(A) /\ timers' \in Timers(A) /\ calls' \in Calls(A)
    BY <1>0, <2>2, <2>4, ChangesTyped DEF generate, updateWaveformAnalysis
  <2>6. ui' \in Panes
    BY <1>0, PanelsTyped DEF AutoGenerate
  <2> QED
    BY <1>0, <2>1, <2>2, <2>3, <2>4, <2>5, <2>6
       DEF AutoGenerate, generate, updateWaveformAnalysis, Typed
<1>2. Staged'
  BY <1>0
     DEF Staged, EncodeAlone, Settled, AutoGenerate, generate, updateWaveformAnalysis, AutoDue
<1>3. EncodeAlone'
  <2>1. calls.encode = None
    BY <1>0 DEF AutoDue, EncodeAlone, Settled
  <2>2. calls'.encode = calls.encode
    BY <1>0 DEF Calls, AutoGenerate, generate, updateWaveformAnalysis, Changes
  <2> QED
    BY <2>1, <2>2 DEF EncodeAlone
<1>4. Rooted'
  <2>1. draft \in Drafts(A) /\ draft.root = 0
    BY <1>0 DEF AutoDue, Typed, Staged, Settled
  <2>2. CASE calls.waveform = None
    <3> DEFINE pending == [draft EXCEPT !.waveform = "pending"]
    <3>1. pending \in Drafts(A) /\ pending.root = 0
      BY <2>1 DEF Drafts, Statuses
    <3>2. /\ draft' = pending /\ disk' = disk /\ offer' = offer
          /\ timers'.save = pending \/ timers'.save = timers.save
          /\ calls'.identify = calls.identify /\ calls'.waveform = Task(pending)
      <4> HIDE DEF pending
      <4>1. Changes(pending, encodeStaging, [calls EXCEPT !.waveform = Task(pending)])
            /\ disk' = disk /\ offer' = offer
        BY <2>2 DEF AutoGenerate, generate, updateWaveformAnalysis, pending
      <4> QED
        BY <1>0, <4>1 DEF Changes, Calls
    <3> HIDE DEF pending
    <3> QED
      BY <1>0, <3>1, <3>2 DEF Rooted, Task
  <2>3. CASE calls.waveform # None
    BY <1>0, <2>3 DEF AutoGenerate, Rooted
  <2> QED
    BY <2>2, <2>3
<1>5. Reopened'
  BY <1>0 DEF Calls, Reopened, AutoGenerate, generate, updateWaveformAnalysis, Changes, AutoDue
<1> QED
  BY <1>1, <1>2, <1>3, <1>4, <1>5 DEF Sound

(* A regeneration comes only where nothing is staged or being encoded. *)
LEMMA GenerateSound ==
  ASSUME NEW A, Sound(A), Allowed \cap Racing = {}, ~AutoDue, Generate
  PROVE  Sound(A)'
<1>0. /\ Typed(A) /\ Staged /\ EncodeAlone /\ Rooted /\ Reopened /\ calls \in Calls(A)
      /\ None \notin A /\ None \notin Drafts(A) /\ None \notin Checks
      /\ None \notin Tasks(A) /\ None \notin Builds(A)
  BY NothingApart DEF Sound, Typed
<1>1. Typed(A)'
  <2>1. draft \in Drafts(A) /\ "pending" \in Statuses
    BY <1>0 DEF Generate, Viewing, Typed, Statuses
  <2>2. [draft EXCEPT !.waveform = "pending"] \in Drafts(A)
    BY <1>0, <2>1, DraftEdits
  <2>3. Task([draft EXCEPT !.waveform = "pending"]) \in Tasks(A)
    BY <1>0, <2>2 DEF Task, Tasks
  <2>4. [calls EXCEPT !.waveform = Task([draft EXCEPT !.waveform = "pending"])] \in Calls(A)
    BY <1>0, <2>3, CallEdits DEF Typed
  <2>5. draft' \in Drafts(A) /\ timers' \in Timers(A) /\ calls' \in Calls(A)
    BY <1>0, <2>2, <2>4, ChangesTyped DEF Generate, generate, updateWaveformAnalysis
  <2> QED
    BY <1>0, <2>1, <2>2, <2>3, <2>4, <2>5 DEF Generate, generate, updateWaveformAnalysis, Typed
<1>2. Staged'
  BY <1>0, NoRaces DEF Staged, Settled, Generate, generate, updateWaveformAnalysis, Changes
<1>3. EncodeAlone'
  BY <1>0, NoRaces DEF EncodeAlone, Generate, generate, updateWaveformAnalysis, Changes
<1>4. Rooted'
  BY <1>0, NoRaces
     DEF Typed, Drafts, Rooted, Viewing, Generate, generate, Task, updateWaveformAnalysis,
         Changes
<1>5. Reopened'
  BY <1>0 DEF Reopened, Generate, generate, updateWaveformAnalysis, Changes
<1> QED
  BY <1>1, <1>2, <1>3, <1>4, <1>5 DEF Sound

(* The start of an analysis clears the cancel flag. *)
LEMMA WaveformStartsSound ==
  ASSUME NEW A, Sound(A), Allowed \cap Racing = {}, ~AutoDue, WaveformStarts
  PROVE  Sound(A)'
<1>0. /\ Typed(A) /\ Staged /\ EncodeAlone /\ Rooted /\ Reopened /\ calls \in Calls(A)
      /\ None \notin A /\ None \notin Drafts(A) /\ None \notin Checks
      /\ None \notin Tasks(A) /\ None \notin Builds(A)
  BY NothingApart DEF Sound, Typed
<1>1. Typed(A)'
  <2>1. calls' \in Calls(A)
    BY <1>0, StageEdits DEF WaveformStarts, At, Typed
  <2>2. host' \in Hosts
    BY <1>0, HostEdits DEF WaveformStarts
  <2> QED
    BY <1>0, <2>1, <2>2 DEF WaveformStarts, Typed
<1>2. Staged'
  BY <1>0 DEF Staged, Settled, WaveformStarts, At
<1>3. EncodeAlone'
  BY <1>0 DEF EncodeAlone, WaveformStarts, At
<1>4. Rooted'
  BY <1>0 DEF Calls, Tasks, Rooted, WaveformStarts, At
<1>5. Reopened'
  BY <1>0 DEF Reopened, WaveformStarts
<1> QED
  BY <1>1, <1>2, <1>3, <1>4, <1>5 DEF Sound

(* Progress changes the draft on show, not its files. *)
LEMMA WaveformTrackSound ==
  ASSUME NEW A, Sound(A), Allowed \cap Racing = {}, ~AutoDue, WaveformTrack
  PROVE  Sound(A)'
<1>0. /\ Typed(A) /\ Staged /\ EncodeAlone /\ Rooted /\ Reopened /\ calls \in Calls(A)
      /\ None \notin A /\ None \notin Drafts(A) /\ None \notin Checks
      /\ None \notin Tasks(A) /\ None \notin Builds(A)
  BY NothingApart DEF Sound, Typed
<1>1. Typed(A)'
  <2>1. draft \in Drafts(A) /\ draft.waveform \in Statuses
    BY <1>0 DEF WaveformTrack, Typed, Drafts
  <2>2. [draft EXCEPT !.waveform = draft.waveform] \in Drafts(A)
    BY <1>0, <2>1, DraftEdits
  <2>3. draft' \in Drafts(A) /\ timers' \in Timers(A) /\ calls' \in Calls(A)
    BY <1>0, <2>2, ChangesTyped DEF WaveformTrack, updateWaveformAnalysis, Typed
  <2> QED
    BY <1>0, <2>1, <2>2, <2>3 DEF WaveformTrack, updateWaveformAnalysis, Typed
<1>2. Staged'
  BY <1>0 DEF Staged, Settled, WaveformTrack, At, updateWaveformAnalysis, Changes
<1>3. EncodeAlone'
  BY <1>0 DEF EncodeAlone, WaveformTrack, At, updateWaveformAnalysis, Changes
<1>4. Rooted'
  BY <1>0 DEF Rooted, WaveformTrack, At, updateWaveformAnalysis, Changes
<1>5. Reopened'
  BY <1>0 DEF Reopened, WaveformTrack, updateWaveformAnalysis, Changes
<1> QED
  BY <1>1, <1>2, <1>3, <1>4, <1>5 DEF Sound

(* The end of an analysis changes the call only. *)
LEMMA WaveformEndsSound ==
  ASSUME NEW A, Sound(A), Allowed \cap Racing = {}, ~AutoDue, WaveformEnds
  PROVE  Sound(A)'
<1>0. /\ Typed(A) /\ Staged /\ EncodeAlone /\ Rooted /\ Reopened /\ calls \in Calls(A)
      /\ None \notin A /\ None \notin Drafts(A) /\ None \notin Checks
      /\ None \notin Tasks(A) /\ None \notin Builds(A)
  BY NothingApart DEF Sound, Typed
<1>1. Typed(A)'
  <2>1. calls' \in Calls(A)
    BY <1>0, StageEdits DEF WaveformEnds, At, Typed
  <2> QED
    BY <1>0, <2>1 DEF WaveformEnds, Typed
<1>2. Staged'
  BY <1>0 DEF Staged, Settled, WaveformEnds, At
<1>3. EncodeAlone'
  BY <1>0 DEF EncodeAlone, WaveformEnds, At
<1>4. Rooted'
  BY <1>0 DEF Calls, Tasks, Rooted, WaveformEnds, At
<1>5. Reopened'
  BY <1>0 DEF Reopened, WaveformEnds
<1> QED
  BY <1>1, <1>2, <1>3, <1>4, <1>5 DEF Sound

(* The analysed draft has its own files, as the one on show has. *)
LEMMA WaveformReturnsSound ==
  ASSUME NEW A, Sound(A), Allowed \cap Racing = {}, ~AutoDue, WaveformReturns
  PROVE  Sound(A)'
<1>0. /\ Typed(A) /\ Staged /\ EncodeAlone /\ Rooted /\ Reopened /\ calls \in Calls(A)
      /\ None \notin A /\ None \notin Drafts(A) /\ None \notin Checks
      /\ None \notin Tasks(A) /\ None \notin Builds(A)
  BY NothingApart DEF Sound, Typed
<1>1. Typed(A)'
  <2>1. calls.waveform.draft \in Drafts(A) /\ "ready" \in Statuses
    BY <1>0 DEF WaveformReturns, At, Typed, Calls, Tasks, Statuses
  <2>2. /\ [calls.waveform.draft EXCEPT !.waveform = "ready"] \in Drafts(A)
        /\ Answered("waveform") \in Calls(A)
    BY <1>0, <2>1, DraftEdits, CallsAnswered DEF Typed, Silent
  <2>3. /\ draft' \in Drafts(A) /\ timers' \in Timers(A) /\ calls' \in Calls(A)
        /\ encodeStaging' \in Nat /\ offer' \in Drafts(A) \cup {None}
    BY <1>0, <2>2, setDraftTyped DEF WaveformReturns, Typed
  <2>4. ui' \in Panes
    BY <1>0, PanelsTyped DEF WaveformReturns
  <2> QED
    BY <1>0, <2>1, <2>2, <2>3, <2>4 DEF WaveformReturns, Typed
<1>2. Staged'
  BY <1>0
     DEF Calls, Drafts, Tasks, Staged, EncodeAlone, Settled, WaveformReturns, setDraft, Changes,
         At
<1>3. EncodeAlone'
  BY <1>0
     DEF Calls, EncodeAlone, WaveformReturns, setDraft, Changes, Unmounting, Orphan, Answered,
         At
<1>4. Rooted'
  BY <1>0
     DEF Calls, Drafts, Tasks, Rooted, WaveformReturns, setDraft, Changes, Unmounting, Answered,
         At
<1>5. Reopened'
  BY <1>0 DEF Calls, Reopened, WaveformReturns, setDraft, Changes, Unmounting, Answered
<1> QED
  BY <1>1, <1>2, <1>3, <1>4, <1>5 DEF Sound

(* A failed analysis changes a status, not the files. *)
LEMMA WaveformFailsSound ==
  ASSUME NEW A, Sound(A), Allowed \cap Racing = {}, ~AutoDue, WaveformFails
  PROVE  Sound(A)'
<1>0. /\ Typed(A) /\ Staged /\ EncodeAlone /\ Rooted /\ Reopened /\ calls \in Calls(A)
      /\ None \notin A /\ None \notin Drafts(A) /\ None \notin Checks
      /\ None \notin Tasks(A) /\ None \notin Builds(A)
  BY NothingApart DEF Sound, Typed
<1>1. Typed(A)'
  <2>1. Answered("waveform") \in Calls(A)
    BY <1>0, CallsAnswered DEF Typed, Silent
  <2>2. ASSUME NEW status \in Statuses, draft # None,
               updateWaveformAnalysis(status, Answered("waveform"))
        PROVE  draft' \in Drafts(A) /\ timers' \in Timers(A) /\ calls' \in Calls(A)
    BY <1>0, <2>1, <2>2, DraftEdits, ChangesTyped DEF updateWaveformAnalysis, Typed
  <2>3. "not_generated" \in Statuses /\ "error" \in Statuses
    BY <1>0 DEF Statuses
  <2> QED
    BY <1>0, <2>1, <2>2, <2>3 DEF WaveformFails, updateWaveformAnalysis, Typed
<1>2. Staged'
  BY <1>0
     DEF Typed, Calls, Drafts, Staged, Rooted, WaveformFails, Answered, At,
         updateWaveformAnalysis, Changes
<1>3. EncodeAlone'
  <2>1. calls.encode = None
    BY <1>0 DEF WaveformFails, At, EncodeAlone
  <2>2. calls'.encode = calls.encode
    BY <1>0 DEF Calls, WaveformFails, Answered, updateWaveformAnalysis, Changes
  <2> QED
    BY <2>1, <2>2 DEF EncodeAlone
<1>4. Rooted'
  <2>1. calls.waveform # None /\ (draft # None => draft.root = 0)
    BY <1>0 DEF WaveformFails, At, Rooted
  <2>2. CASE draft = None
    BY <1>0, <2>2 DEF WaveformFails, Answered, Calls, Rooted
  <2>3. ASSUME draft # None PROVE Rooted'
    <3>1. PICK status \in Statuses : updateWaveformAnalysis(status, Answered("waveform"))
      BY <2>3 DEF WaveformFails, Statuses
    <3>2. /\ draft' = [draft EXCEPT !.waveform = status] /\ disk' = disk /\ offer' = offer
          /\ timers'.save = draft' \/ timers'.save = timers.save
          /\ calls'.identify = calls.identify /\ calls'.waveform = None
      BY <1>0, <3>1 DEF updateWaveformAnalysis, Changes, Answered, Calls
    <3>3. draft'.root = 0
      BY <1>0, <2>1, <2>3, <3>2 DEF Typed, Drafts
    <3> QED
      BY <1>0, <3>2, <3>3 DEF Rooted
  <2> QED
    BY <2>2, <2>3
<1>5. Reopened'
  BY <1>0 DEF Calls, Reopened, WaveformFails, Answered, updateWaveformAnalysis, Changes
<1> QED
  BY <1>1, <1>2, <1>3, <1>4, <1>5 DEF Sound

(* A cancel only sets the flag the host looks at. *)
LEMMA CancelWaveformSound ==
  ASSUME NEW A, Sound(A), Allowed \cap Racing = {}, ~AutoDue, CancelWaveform
  PROVE  Sound(A)'
<1>0. /\ Typed(A) /\ Staged /\ EncodeAlone /\ Rooted /\ Reopened /\ calls \in Calls(A)
      /\ None \notin A /\ None \notin Drafts(A) /\ None \notin Checks
      /\ None \notin Tasks(A) /\ None \notin Builds(A)
  BY NothingApart DEF Sound, Typed
<1>1. Typed(A)'
  <2>1. host' \in Hosts
    BY <1>0, HostEdits DEF CancelWaveform
  <2> QED
    BY <1>0, <2>1 DEF CancelWaveform, Typed
<1>2. Staged'
  BY <1>0 DEF Staged, Settled, CancelWaveform
<1>3. EncodeAlone'
  BY <1>0 DEF EncodeAlone, CancelWaveform
<1>4. Rooted'
  BY <1>0 DEF Rooted, CancelWaveform
<1>5. Reopened'
  BY <1>0 DEF Reopened, CancelWaveform
<1> QED
  BY <1>1, <1>2, <1>3, <1>4, <1>5 DEF Sound

(* What the timer writes has its own files. *)
LEMMA SaveFiresSound ==
  ASSUME NEW A, Sound(A), Allowed \cap Racing = {}, ~AutoDue, SaveFires
  PROVE  Sound(A)'
<1>0. /\ Typed(A) /\ Staged /\ EncodeAlone /\ Rooted /\ Reopened /\ calls \in Calls(A)
      /\ None \notin A /\ None \notin Drafts(A) /\ None \notin Checks
      /\ None \notin Tasks(A) /\ None \notin Builds(A)
  BY NothingApart DEF Sound, Typed
<1>1. Typed(A)'
  <2>1. timers.save \in Drafts(A) /\ timers' \in Timers(A)
    BY <1>0 DEF SaveFires, Typed, Timers
  <2>2. disk' \in Disks(A)
    BY <1>0, <2>1, DiskEdits DEF SaveFires
  <2> QED
    BY <1>0, <2>1, <2>2 DEF SaveFires, Typed
<1>2. Staged'
  BY <1>0 DEF Staged, Settled, SaveFires
<1>3. EncodeAlone'
  BY <1>0 DEF EncodeAlone, Settled, SaveFires
<1>4. Rooted'
  BY <1>0 DEF Rooted, SaveFires
<1>5. Reopened'
  BY <1>0 DEF Reopened, SaveFires
<1> QED
  BY <1>1, <1>2, <1>3, <1>4, <1>5 DEF Sound

(* A validation changes no file. *)
LEMMA ValidateFiresSound ==
  ASSUME NEW A, Sound(A), Allowed \cap Racing = {}, ~AutoDue, ValidateFires
  PROVE  Sound(A)'
<1>0. /\ Typed(A) /\ Staged /\ EncodeAlone /\ Rooted /\ Reopened /\ calls \in Calls(A)
      /\ None \notin A /\ None \notin Drafts(A) /\ None \notin Checks
      /\ None \notin Tasks(A) /\ None \notin Builds(A)
  BY NothingApart DEF Sound, Typed
<1>1. Typed(A)'
  <2>1. timers' \in Timers(A)
    BY <1>0 DEF ValidateFires, Typed, Timers
  <2>2. draft # None => [root |-> draft.root, current |-> TRUE] \in Checks
    BY <1>0 DEF Typed, Drafts, Checks
  <2>3. calls' \in Calls(A)
    BY <1>0, <2>2, CallEdits DEF ValidateFires, Validating, Typed
  <2> QED
    BY <1>0, <2>1, <2>2, <2>3 DEF ValidateFires, Typed
<1>2. Staged'
  BY <1>0 DEF Staged, Settled, ValidateFires, Validating
<1>3. EncodeAlone'
  BY <1>0 DEF EncodeAlone, Settled, ValidateFires, Validating
<1>4. Rooted'
  BY <1>0 DEF Rooted, ValidateFires, Validating
<1>5. Reopened'
  BY <1>0 DEF Reopened, ValidateFires, Validating
<1> QED
  BY <1>1, <1>2, <1>3, <1>4, <1>5 DEF Sound

(* A verdict changes no file. *)
LEMMA ValidateReturnsSound ==
  ASSUME NEW A, Sound(A), Allowed \cap Racing = {}, ~AutoDue, ValidateReturns
  PROVE  Sound(A)'
<1>0. /\ Typed(A) /\ Staged /\ EncodeAlone /\ Rooted /\ Reopened /\ calls \in Calls(A)
      /\ None \notin A /\ None \notin Drafts(A) /\ None \notin Checks
      /\ None \notin Tasks(A) /\ None \notin Builds(A)
  BY NothingApart DEF Sound, Typed
<1>1. Typed(A)'
  <2>1. calls' \in Calls(A)
    BY <1>0, CallsAnswered DEF ValidateReturns, Typed, Silent
  <2> QED
    BY <1>0, <2>1 DEF ValidateReturns, Typed
<1>2. Staged'
  BY <1>0 DEF Staged, Settled, ValidateReturns, Answered
<1>3. EncodeAlone'
  BY <1>0 DEF EncodeAlone, Settled, ValidateReturns, Answered
<1>4. Rooted'
  BY <1>0 DEF Rooted, ValidateReturns, Answered
<1>5. Reopened'
  BY <1>0 DEF Reopened, ValidateReturns, Answered
<1> QED
  BY <1>1, <1>2, <1>3, <1>4, <1>5 DEF Sound

(* The dialog changes no file, *)
LEMMA openCreateSound ==
  ASSUME NEW A, Sound(A), Allowed \cap Racing = {}, ~AutoDue, openCreate
  PROVE  Sound(A)'
<1>0. /\ Typed(A) /\ Staged /\ EncodeAlone /\ Rooted /\ Reopened /\ calls \in Calls(A)
      /\ None \notin A /\ None \notin Drafts(A) /\ None \notin Checks
      /\ None \notin Tasks(A) /\ None \notin Builds(A)
  BY NothingApart DEF Sound, Typed
<1>1. Typed(A)'
  <2>1. ui' \in Panes
    BY <1>0, PanelsTyped DEF openCreate
  <2> QED
    BY <1>0, <2>1 DEF openCreate, Typed
<1>2. Staged'
  BY <1>0 DEF Staged, Settled, openCreate
<1>3. EncodeAlone'
  BY <1>0 DEF Typed, Panes, EncodeAlone, Settled, openCreate
<1>4. Rooted'
  BY <1>0 DEF Rooted, openCreate
<1>5. Reopened'
  BY <1>0 DEF Reopened, openCreate
<1> QED
  BY <1>1, <1>2, <1>3, <1>4, <1>5 DEF Sound

(* ... open or closed. *)
LEMMA CloseSound ==
  ASSUME NEW A, Sound(A), Allowed \cap Racing = {}, ~AutoDue, Close
  PROVE  Sound(A)'
<1>0. /\ Typed(A) /\ Staged /\ EncodeAlone /\ Rooted /\ Reopened /\ calls \in Calls(A)
      /\ None \notin A /\ None \notin Drafts(A) /\ None \notin Checks
      /\ None \notin Tasks(A) /\ None \notin Builds(A)
  BY NothingApart DEF Sound, Typed
<1>1. Typed(A)'
  <2>1. ui' \in Panes
    BY <1>0, PanelsTyped DEF Close
  <2> QED
    BY <1>0, <2>1 DEF Close, Typed
<1>2. Staged'
  BY <1>0 DEF Staged, Settled, Close
<1>3. EncodeAlone'
  BY <1>0 DEF EncodeAlone, Settled, Close
<1>4. Rooted'
  BY <1>0 DEF Rooted, Close
<1>5. Reopened'
  BY <1>0 DEF Reopened, Close
<1> QED
  BY <1>1, <1>2, <1>3, <1>4, <1>5 DEF Sound

(* A build begins when no encode is under way. *)
LEMMA CreateSound ==
  ASSUME NEW A, Sound(A), Allowed \cap Racing = {}, ~AutoDue, Create
  PROVE  Sound(A)'
<1>0. /\ Typed(A) /\ Staged /\ EncodeAlone /\ Rooted /\ Reopened /\ calls \in Calls(A)
      /\ None \notin A /\ None \notin Drafts(A) /\ None \notin Checks
      /\ None \notin Tasks(A) /\ None \notin Builds(A)
  BY NothingApart DEF Sound, Typed
<1>1. Typed(A)'
  <2>1. [draft |-> draft, at |-> "working"] \in Builds(A)
    BY <1>0 DEF Create, Typed, Builds
  <2>2. calls' \in Calls(A)
    BY <1>0, <2>1, CallEdits DEF Create, Typed
  <2> QED
    BY <1>0, <2>1, <2>2 DEF Create, Typed
<1>2. Staged'
  BY <1>0 DEF Staged, Settled, Create
<1>3. EncodeAlone'
  <2>1. /\ calls'.open = calls.open /\ calls'.identify = calls.identify
        /\ calls'.encode = calls.encode /\ calls'.waveform = calls.waveform
        /\ calls'.build = [draft |-> draft, at |-> "working"]
    BY <1>0 DEF Calls, Create
  <2> QED
    BY <2>1, <1>0 DEF EncodeAlone, Settled, Create
<1>4. Rooted'
  BY <1>0 DEF Rooted, Create
<1>5. Reopened'
  BY <1>0 DEF Reopened, Create
<1> QED
  BY <1>1, <1>2, <1>3, <1>4, <1>5 DEF Sound

(* A build publishes, and leaves the staging area alone. *)
LEMMA BuildEndsSound ==
  ASSUME NEW A, Sound(A), Allowed \cap Racing = {}, ~AutoDue, BuildEnds
  PROVE  Sound(A)'
<1>0. /\ Typed(A) /\ Staged /\ EncodeAlone /\ Rooted /\ Reopened /\ calls \in Calls(A)
      /\ None \notin A /\ None \notin Drafts(A) /\ None \notin Checks
      /\ None \notin Tasks(A) /\ None \notin Builds(A)
  BY NothingApart DEF Sound, Typed
<1>1. Typed(A)'
  <2>1. calls' \in Calls(A)
    BY <1>0, StageEdits DEF BuildEnds, At, Typed
  <2>2. calls.build.draft \in Drafts(A)
    BY <1>0 DEF BuildEnds, At, Typed, Calls, Builds
  <2>3. disk' \in Disks(A)
    BY <1>0, <2>2, PublishTyped DEF BuildEnds, Typed
  <2> QED
    BY <1>0, <2>1, <2>2, <2>3 DEF BuildEnds, Typed
<1>2. Staged'
  BY <1>0 DEF Calls, Staged, Settled, BuildEnds
<1>3. EncodeAlone'
  <2>1. calls.build # None /\ calls.build \in Builds(A)
    BY <1>0 DEF BuildEnds, At, Calls
  <2>2. PICK at \in {"built", "failed"} : calls' = [calls EXCEPT !.build.at = at]
    BY DEF BuildEnds
  <2>3. /\ calls'.open = calls.open /\ calls'.identify = calls.identify
        /\ calls'.encode = calls.encode /\ calls'.waveform = calls.waveform
        /\ calls'.build.draft = calls.build.draft /\ calls'.build.at = at
    BY <1>0, <2>1, <2>2 DEF Calls, Builds
  <2> QED
    BY <2>1, <2>3, <1>0 DEF EncodeAlone, Settled, BuildEnds
<1>4. Rooted'
  BY <1>0 DEF Typed, Calls, Disks, Rooted, BuildEnds, publish
<1>5. Reopened'
  BY <1>0 DEF Calls, Builds, Reopened, BuildEnds, At
<1> QED
  BY <1>1, <1>2, <1>3, <1>4, <1>5 DEF Sound

(* A finished build drops the staging area, of which an encode under way
   has none yet. *)
LEMMA BuildReturnsSound ==
  ASSUME NEW A, Sound(A), Allowed \cap Racing = {}, ~AutoDue, BuildReturns
  PROVE  Sound(A)'
<1>0. /\ Typed(A) /\ Staged /\ EncodeAlone /\ Rooted /\ Reopened /\ calls \in Calls(A)
      /\ None \notin A /\ None \notin Drafts(A) /\ None \notin Checks
      /\ None \notin Tasks(A) /\ None \notin Builds(A)
  BY NothingApart DEF Sound, Typed
<1>1. Typed(A)'
  <2>1. calls' \in Calls(A)
    BY <1>0, StageEdits, CallsAnswered DEF BuildReturns, At, Typed, Silent
  <2>2. host' \in Hosts /\ encodeStaging' = 0
    BY <1>0, HostEdits DEF BuildReturns, dropStaging
  <2>3. disk' \in Disks(A)
    BY <1>0, DiskEdits DEF BuildReturns
  <2>4. ui' \in Panes
    BY <1>0, PanelsTyped DEF BuildReturns, Typed
  <2> QED
    BY <1>0, <2>1, <2>2, <2>3, <2>4 DEF BuildReturns, Typed
<1>2. Staged'
  BY <1>0 DEF Typed, Panes, Calls, Staged, Settled, BuildReturns, Answered, dropStaging
<1>3. EncodeAlone'
  <2> SUFFICES ASSUME calls.encode # None PROVE EncodeAlone'
    BY <1>0 DEF Calls, EncodeAlone, BuildReturns, Answered
  <2>1. calls.build.draft.album \in Sources /\ calls' = Answered("build") /\ ui'.autoStarted = ui.autoStarted
    BY <1>0, AlbumsAssumption DEF Typed, Panes, EncodeAlone, BuildReturns, At
  <2>2. host'.dirs = host.dirs /\ host'.made = host.made
    BY <1>0 DEF Typed, Hosts, Staged, EncodeAlone, BuildReturns, dropStaging
  <2>3. /\ calls'.open = calls.open /\ calls'.identify = calls.identify
        /\ calls'.encode = calls.encode /\ calls'.waveform = calls.waveform /\ calls'.build = None
    BY <1>0, <2>1 DEF Calls, Answered
  <2> QED
    BY <1>0, <2>2, <2>3, <2>1 DEF EncodeAlone, Settled, BuildReturns
<1>4. Rooted'
  BY <1>0 DEF Calls, Rooted, BuildReturns, Answered
<1>5. Reopened'
  BY <1>0 DEF Reopened, BuildReturns, dropStaging
<1> QED
  BY <1>1, <1>2, <1>3, <1>4, <1>5 DEF Sound

(* A failed build leaves the draft and its files. *)
LEMMA BuildFailsSound ==
  ASSUME NEW A, Sound(A), Allowed \cap Racing = {}, ~AutoDue, BuildFails
  PROVE  Sound(A)'
<1>0. /\ Typed(A) /\ Staged /\ EncodeAlone /\ Rooted /\ Reopened /\ calls \in Calls(A)
      /\ None \notin A /\ None \notin Drafts(A) /\ None \notin Checks
      /\ None \notin Tasks(A) /\ None \notin Builds(A)
  BY NothingApart DEF Sound, Typed
<1>1. Typed(A)'
  <2>1. calls' \in Calls(A)
    BY <1>0, CallsAnswered DEF BuildFails, Typed, Silent
  <2>2. ui' \in Panes
    BY <1>0, PanelsTyped DEF BuildFails
  <2> QED
    BY <1>0, <2>1, <2>2 DEF BuildFails, Typed
<1>2. Staged'
  BY <1>0 DEF Staged, Settled, BuildFails, Answered
<1>3. EncodeAlone'
  BY <1>0 DEF Typed, Panes, Calls, EncodeAlone, Settled, BuildFails, Answered
<1>4. Rooted'
  BY <1>0 DEF Rooted, BuildFails, Answered
<1>5. Reopened'
  BY <1>0 DEF Reopened, BuildFails, Answered
<1> QED
  BY <1>1, <1>2, <1>3, <1>4, <1>5 DEF Sound

(* The package opened afresh has its own files, and nothing is staged. *)
LEMMA ReopensSound ==
  ASSUME NEW A, Sound(A), Allowed \cap Racing = {}, ~AutoDue, Reopens
  PROVE  Sound(A)'
<1>0. /\ Typed(A) /\ Staged /\ EncodeAlone /\ Rooted /\ Reopened /\ calls \in Calls(A)
      /\ None \notin A /\ None \notin Drafts(A) /\ None \notin Checks
      /\ None \notin Tasks(A) /\ None \notin Builds(A)
  BY NothingApart DEF Sound, Typed
<1>1. Typed(A)'
  <2>1. calls.build.draft.album \in A
    BY <1>0 DEF Reopens, At, Typed, Calls, Builds, Drafts
  <2>2. Inspected(calls.build.draft.album) \in Drafts(A) /\ Answered("build") \in Calls(A)
    BY <1>0, <2>1, InspectedTyped, CallsAnswered DEF Typed, Silent
  <2>3. /\ draft' \in Drafts(A) /\ timers' \in Timers(A) /\ calls' \in Calls(A)
        /\ encodeStaging' \in Nat /\ offer' \in Drafts(A) \cup {None}
    BY <1>0, <2>2, setDraftTyped DEF Reopens, Typed
  <2>4. ui' \in Panes
    BY <1>0, PanelsTyped DEF Reopens
  <2> QED
    BY <1>0, <2>1, <2>2, <2>3, <2>4 DEF Reopens, Typed
<1>2. Staged'
  BY <1>0 DEF Staged, EncodeAlone, Reopened, Reopens, setDraft, Changes, Inspected, At
<1>3. EncodeAlone'
  BY <1>0 DEF Calls, EncodeAlone, Reopens, setDraft, Changes, Unmounting, Orphan, Answered, At
<1>4. Rooted'
  BY <1>0 DEF Calls, Rooted, Reopens, setDraft, Changes, Unmounting, Inspected, Answered
<1>5. Reopened'
  BY <1>0 DEF Reopened, Reopens, setDraft, At
<1> QED
  BY <1>1, <1>2, <1>3, <1>4, <1>5 DEF Sound

-----------------------------------------------------------------------------
(***************************************************************************)
(* The draft on show is saved, or about to be, or built.                   *)
(***************************************************************************)
BuildHolds ==
  calls.build # None =>
    /\ calls.open = None /\ calls.identify = None /\ calls.encode = None /\ calls.waveform = None
    /\ draft # None => Settled(draft) /\ calls.build.draft = draft
    /\ calls.build.at \in {"built", "reopening"} /\ draft # None => built

Follows ==
  draft # None /\ encodeStaging = 0 =>
    built \/ timers.save = draft \/ (timers.save = None /\ disk.saved = draft)

(* What is not under way when a command comes, without the outrunning ones. *)
LEMMA NoOutrunning ==
  ASSUME NEW A, calls \in Calls(A), Allowed \cap Outrunning = {}
  PROVE  /\ May("open") => calls.build = None /\ encodeStaging = 0
         /\ May("edit") \/ May("identify") \/ May("generate") \/ May("resume") => calls.build = None
         /\ May("create") => /\ calls.open = None /\ calls.identify = None
                             /\ calls.encode = None /\ calls.waveform = None
<1>1. ASSUME NEW command, NEW phase, May(command), <<command, phase>> \in Outrunning
      PROVE  phase \notin Phases
  BY <1>1, NotDuring
<1>2. /\ \A command \in {"open", "edit", "identify", "generate", "resume"} :
           <<command, "build">> \in Outrunning
      /\ \A phase \in {"open", "identify", "encode", "waveform"} : <<"create", phase>> \in Outrunning
      /\ <<"open", "staged">> \in Outrunning
  BY DEF Outrunning
<1> QED
  BY <1>1, <1>2, NotUnderWay

(* Opening leaves a draft on show that is saved: none is staged, no build
   runs. *)
LEMMA openAlbumSaves ==
  ASSUME NEW A, NEW album \in A, Sound(A), BuildHolds, Follows,
         Allowed \cap Racing = {}, Allowed \cap Outrunning = {}, ~AutoDue, openAlbum(album)
  PROVE  BuildHolds' /\ Follows'
<1>0. /\ Typed(A) /\ Staged /\ EncodeAlone /\ Reopened /\ calls \in Calls(A)
      /\ None \notin Drafts(A) /\ None \notin Tasks(A) /\ None \notin Builds(A)
  BY NothingApart DEF Sound, Typed
<1>1. BuildHolds'
  BY <1>0, NoOutrunning DEF BuildHolds, openAlbum
<1>2. Follows'
  BY <1>0, NoOutrunning DEF Follows, openAlbum
<1> QED
  BY <1>1, <1>2

(* A draft just opened is due to be saved. *)
LEMMA OpenReturnsSaves ==
  ASSUME NEW A, Sound(A), BuildHolds, Follows,
         Allowed \cap Racing = {}, Allowed \cap Outrunning = {}, ~AutoDue, OpenReturns
  PROVE  BuildHolds' /\ Follows'
<1>0. /\ Typed(A) /\ Staged /\ EncodeAlone /\ Reopened /\ calls \in Calls(A)
      /\ None \notin Drafts(A) /\ None \notin Tasks(A) /\ None \notin Builds(A)
  BY NothingApart DEF Sound, Typed
<1>1. BuildHolds'
  BY <1>0 DEF Calls, BuildHolds, OpenReturns, setDraft, Changes, Unmounting, Answered
<1>2. Follows'
  BY <1>0 DEF Follows, OpenReturns, setDraft, Changes
<1> QED
  BY <1>1, <1>2

(* The draft on show is the one that was. *)
LEMMA OpenFailsSaves ==
  ASSUME NEW A, Sound(A), BuildHolds, Follows,
         Allowed \cap Racing = {}, Allowed \cap Outrunning = {}, ~AutoDue, OpenFails
  PROVE  BuildHolds' /\ Follows'
<1>0. /\ Typed(A) /\ Staged /\ EncodeAlone /\ Reopened /\ calls \in Calls(A)
      /\ None \notin Drafts(A) /\ None \notin Tasks(A) /\ None \notin Builds(A)
  BY NothingApart DEF Sound, Typed
<1>1. BuildHolds'
  BY <1>0 DEF BuildHolds, OpenFails, Answered
<1>2. Follows'
  BY <1>0 DEF Follows, OpenFails
<1> QED
  BY <1>1, <1>2

(* No draft is left on show. *)
LEMMA ResetSaves ==
  ASSUME NEW A, Sound(A), BuildHolds, Follows,
         Allowed \cap Racing = {}, Allowed \cap Outrunning = {}, ~AutoDue, Reset
  PROVE  BuildHolds' /\ Follows'
<1>0. /\ Typed(A) /\ Staged /\ EncodeAlone /\ Reopened /\ calls \in Calls(A)
      /\ None \notin Drafts(A) /\ None \notin Tasks(A) /\ None \notin Builds(A)
  BY NothingApart DEF Sound, Typed
<1>1. BuildHolds'
  BY <1>0 DEF BuildHolds, Reset, Orphan
<1>2. Follows'
  BY <1>0 DEF Follows, Reset
<1> QED
  BY <1>1, <1>2

(* The resumed draft is due to be saved again. *)
LEMMA ResumeSaves ==
  ASSUME NEW A, Sound(A), BuildHolds, Follows,
         Allowed \cap Racing = {}, Allowed \cap Outrunning = {}, ~AutoDue, Resume
  PROVE  BuildHolds' /\ Follows'
<1>0. /\ Typed(A) /\ Staged /\ EncodeAlone /\ Reopened /\ calls \in Calls(A)
      /\ None \notin Drafts(A) /\ None \notin Tasks(A) /\ None \notin Builds(A)
  BY NothingApart DEF Sound, Typed
<1>1. BuildHolds'
  BY <1>0, NoOutrunning DEF BuildHolds, Resume, setDraft, Changes, Unmounting
<1>2. Follows'
  BY <1>0 DEF Follows, Resume, setDraft, Changes
<1> QED
  BY <1>1, <1>2

(* No draft is on show. *)
LEMMA DiscardSaves ==
  ASSUME NEW A, Sound(A), BuildHolds, Follows,
         Allowed \cap Racing = {}, Allowed \cap Outrunning = {}, ~AutoDue, Discard
  PROVE  BuildHolds' /\ Follows'
<1>0. /\ Typed(A) /\ Staged /\ EncodeAlone /\ Reopened /\ calls \in Calls(A)
      /\ None \notin Drafts(A) /\ None \notin Tasks(A) /\ None \notin Builds(A)
  BY NothingApart DEF Sound, Typed
<1>1. BuildHolds'
  BY <1>0 DEF BuildHolds, Discard
<1>2. Follows'
  BY <1>0 DEF Follows, Discard
<1> QED
  BY <1>1, <1>2

(* No draft is left on show. *)
LEMMA QuitSaves ==
  ASSUME NEW A, Sound(A), BuildHolds, Follows,
         Allowed \cap Racing = {}, Allowed \cap Outrunning = {}, ~AutoDue, Quit
  PROVE  BuildHolds' /\ Follows'
<1>0. /\ Typed(A) /\ Staged /\ EncodeAlone /\ Reopened /\ calls \in Calls(A)
      /\ None \notin Drafts(A) /\ None \notin Tasks(A) /\ None \notin Builds(A)
  BY NothingApart DEF Sound, Typed
<1>1. BuildHolds'
  BY <1>0 DEF BuildHolds, Quit, Silent
<1>2. Follows'
  BY <1>0 DEF Follows, Quit
<1> QED
  BY <1>1, <1>2

(* An edited draft is due to be saved, and no build runs that would end its
   session. *)
LEMMA EditSaves ==
  ASSUME NEW A, Sound(A), BuildHolds, Follows,
         Allowed \cap Racing = {}, Allowed \cap Outrunning = {}, ~AutoDue, Edit
  PROVE  BuildHolds' /\ Follows'
<1>0. /\ Typed(A) /\ Staged /\ EncodeAlone /\ Reopened /\ calls \in Calls(A)
      /\ None \notin Drafts(A) /\ None \notin Tasks(A) /\ None \notin Builds(A)
  BY NothingApart DEF Sound, Typed
<1>1. BuildHolds'
  BY <1>0, NoOutrunning DEF BuildHolds, Edit, Changes
<1>2. Follows'
  BY <1>0 DEF Follows, Edit, Changes
<1> QED
  BY <1>1, <1>2

(* A lookup changes no draft, and no build runs. *)
LEMMA IdentifySaves ==
  ASSUME NEW A, Sound(A), BuildHolds, Follows,
         Allowed \cap Racing = {}, Allowed \cap Outrunning = {}, ~AutoDue, Identify
  PROVE  BuildHolds' /\ Follows'
<1>0. /\ Typed(A) /\ Staged /\ EncodeAlone /\ Reopened /\ calls \in Calls(A)
      /\ None \notin Drafts(A) /\ None \notin Tasks(A) /\ None \notin Builds(A)
  BY NothingApart DEF Sound, Typed
<1>1. BuildHolds'
  BY <1>0, NoOutrunning DEF BuildHolds, Identify
<1>2. Follows'
  BY <1>0 DEF Follows, Identify
<1> QED
  BY <1>1, <1>2

(* The looked-up draft is due to be saved. *)
LEMMA IdentifyAppliesSaves ==
  ASSUME NEW A, Sound(A), BuildHolds, Follows,
         Allowed \cap Racing = {}, Allowed \cap Outrunning = {}, ~AutoDue, IdentifyApplies
  PROVE  BuildHolds' /\ Follows'
<1>0. /\ Typed(A) /\ Staged /\ EncodeAlone /\ Reopened /\ calls \in Calls(A)
      /\ None \notin Drafts(A) /\ None \notin Tasks(A) /\ None \notin Builds(A)
  BY NothingApart DEF Sound, Typed
<1>1. BuildHolds'
  BY <1>0 DEF Calls, BuildHolds, IdentifyApplies, setDraft, Changes, Unmounting, Answered
<1>2. Follows'
  BY <1>0 DEF Follows, IdentifyApplies, setDraft, Changes
<1> QED
  BY <1>1, <1>2

(* Candidates change no draft. *)
LEMMA IdentifyOffersSaves ==
  ASSUME NEW A, Sound(A), BuildHolds, Follows,
         Allowed \cap Racing = {}, Allowed \cap Outrunning = {}, ~AutoDue, IdentifyOffers
  PROVE  BuildHolds' /\ Follows'
<1>0. /\ Typed(A) /\ Staged /\ EncodeAlone /\ Reopened /\ calls \in Calls(A)
      /\ None \notin Drafts(A) /\ None \notin Tasks(A) /\ None \notin Builds(A)
  BY NothingApart DEF Sound, Typed
<1>1. BuildHolds'
  BY <1>0 DEF BuildHolds, IdentifyOffers, Answered
<1>2. Follows'
  BY <1>0 DEF Follows, IdentifyOffers
<1> QED
  BY <1>1, <1>2

(* The start of an encode changes no draft, *)
LEMMA EncodeSaves ==
  ASSUME NEW A, Sound(A), BuildHolds, Follows,
         Allowed \cap Racing = {}, Allowed \cap Outrunning = {}, ~AutoDue, Encode
  PROVE  BuildHolds' /\ Follows'
<1>0. /\ Typed(A) /\ Staged /\ EncodeAlone /\ Reopened /\ calls \in Calls(A)
      /\ None \notin Drafts(A) /\ None \notin Tasks(A) /\ None \notin Builds(A)
  BY NothingApart DEF Sound, Typed
<1>1. BuildHolds'
  BY <1>0, NoRaces DEF BuildHolds, Encode
<1>2. Follows'
  BY <1>0 DEF Follows, Encode
<1> QED
  BY <1>1, <1>2

(* ... nor does its progress, *)
LEMMA EncodeStartsSaves ==
  ASSUME NEW A, Sound(A), BuildHolds, Follows,
         Allowed \cap Racing = {}, Allowed \cap Outrunning = {}, ~AutoDue, EncodeStarts
  PROVE  BuildHolds' /\ Follows'
<1>0. /\ Typed(A) /\ Staged /\ EncodeAlone /\ Reopened /\ calls \in Calls(A)
      /\ None \notin Drafts(A) /\ None \notin Tasks(A) /\ None \notin Builds(A)
  BY NothingApart DEF Sound, Typed
<1>1. BuildHolds'
  BY <1>0 DEF Calls, BuildHolds, EncodeStarts, At
<1>2. Follows'
  BY <1>0 DEF Follows, EncodeStarts
<1> QED
  BY <1>1, <1>2

(* ... or its end. *)
LEMMA EncodeEndsSaves ==
  ASSUME NEW A, Sound(A), BuildHolds, Follows,
         Allowed \cap Racing = {}, Allowed \cap Outrunning = {}, ~AutoDue, EncodeEnds
  PROVE  BuildHolds' /\ Follows'
<1>0. /\ Typed(A) /\ Staged /\ EncodeAlone /\ Reopened /\ calls \in Calls(A)
      /\ None \notin Drafts(A) /\ None \notin Tasks(A) /\ None \notin Builds(A)
  BY NothingApart DEF Sound, Typed
<1>1. BuildHolds'
  BY <1>0 DEF Calls, BuildHolds, EncodeEnds, At
<1>2. Follows'
  BY <1>0 DEF Follows, EncodeEnds
<1> QED
  BY <1>1, <1>2

(* The files of the draft on show are staged. *)
LEMMA EncodeReturnsSaves ==
  ASSUME NEW A, Sound(A), BuildHolds, Follows,
         Allowed \cap Racing = {}, Allowed \cap Outrunning = {}, ~AutoDue, EncodeReturns
  PROVE  BuildHolds' /\ Follows'
<1>0. /\ Typed(A) /\ Staged /\ EncodeAlone /\ Reopened /\ calls \in Calls(A)
      /\ None \notin Drafts(A) /\ None \notin Tasks(A) /\ None \notin Builds(A)
  BY NothingApart DEF Sound, Typed
<1>1. BuildHolds'
  BY <1>0
     DEF Calls, EncodeAlone, BuildHolds, EncodeReturns, setDraft, Changes, Unmounting, Answered,
         At
<1>2. Follows'
  BY <1>0 DEF Follows, EncodeReturns, setDraft, Changes
<1> QED
  BY <1>1, <1>2

(* After a failed encode the draft on show is the one that was. *)
LEMMA EncodeFailsSaves ==
  ASSUME NEW A, Sound(A), BuildHolds, Follows,
         Allowed \cap Racing = {}, Allowed \cap Outrunning = {}, ~AutoDue, EncodeFails
  PROVE  BuildHolds' /\ Follows'
<1>0. /\ Typed(A) /\ Staged /\ EncodeAlone /\ Reopened /\ calls \in Calls(A)
      /\ None \notin Drafts(A) /\ None \notin Tasks(A) /\ None \notin Builds(A)
  BY NothingApart DEF Sound, Typed
<1>1. BuildHolds'
  BY <1>0 DEF BuildHolds, Settled, EncodeFails, Answered
<1>2. Follows'
  BY <1>0 DEF Staged, Follows, EncodeFails, At
<1> QED
  BY <1>1, <1>2

(* A cancel changes no draft. *)
LEMMA CancelEncodeSaves ==
  ASSUME NEW A, Sound(A), BuildHolds, Follows,
         Allowed \cap Racing = {}, Allowed \cap Outrunning = {}, ~AutoDue, CancelEncode
  PROVE  BuildHolds' /\ Follows'
<1>0. /\ Typed(A) /\ Staged /\ EncodeAlone /\ Reopened /\ calls \in Calls(A)
      /\ None \notin Drafts(A) /\ None \notin Tasks(A) /\ None \notin Builds(A)
  BY NothingApart DEF Sound, Typed
<1>1. BuildHolds'
  BY <1>0 DEF BuildHolds, Settled, CancelEncode
<1>2. Follows'
  BY <1>0 DEF Follows, CancelEncode
<1> QED
  BY <1>1, <1>2

(* The draft is due to be saved with its new status. *)
LEMMA AutoGenerateSaves ==
  ASSUME NEW A, Sound(A), BuildHolds, Follows,
         Allowed \cap Racing = {}, Allowed \cap Outrunning = {}, AutoDue, AutoGenerate
  PROVE  BuildHolds' /\ Follows'
<1>0. /\ Typed(A) /\ Staged /\ EncodeAlone /\ Reopened /\ calls \in Calls(A)
      /\ None \notin Drafts(A) /\ None \notin Tasks(A) /\ None \notin Builds(A)
  BY NothingApart DEF Sound, Typed
<1>1. BuildHolds'
  <2>1. calls.build = None
    BY DEF AutoDue, BuildHolds, Settled
  <2>2. calls'.build = calls.build
    BY <1>0 DEF Calls, AutoGenerate, generate, updateWaveformAnalysis, Changes
  <2> QED
    BY <2>1, <2>2 DEF BuildHolds
<1>2. Follows'
  BY <1>0 DEF Follows, AutoGenerate, generate, updateWaveformAnalysis, Changes
<1> QED
  BY <1>1, <1>2

(* The draft is due to be saved with its new status. *)
LEMMA GenerateSaves ==
  ASSUME NEW A, Sound(A), BuildHolds, Follows,
         Allowed \cap Racing = {}, Allowed \cap Outrunning = {}, ~AutoDue, Generate
  PROVE  BuildHolds' /\ Follows'
<1>0. /\ Typed(A) /\ Staged /\ EncodeAlone /\ Reopened /\ calls \in Calls(A)
      /\ None \notin Drafts(A) /\ None \notin Tasks(A) /\ None \notin Builds(A)
  BY NothingApart DEF Sound, Typed
<1>1. BuildHolds'
  BY <1>0, NoOutrunning DEF BuildHolds, Generate, generate, updateWaveformAnalysis, Changes
<1>2. Follows'
  BY <1>0 DEF Follows, Generate, generate, updateWaveformAnalysis, Changes
<1> QED
  BY <1>1, <1>2

(* The start of an analysis changes no draft. *)
LEMMA WaveformStartsSaves ==
  ASSUME NEW A, Sound(A), BuildHolds, Follows,
         Allowed \cap Racing = {}, Allowed \cap Outrunning = {}, ~AutoDue, WaveformStarts
  PROVE  BuildHolds' /\ Follows'
<1>0. /\ Typed(A) /\ Staged /\ EncodeAlone /\ Reopened /\ calls \in Calls(A)
      /\ None \notin Drafts(A) /\ None \notin Tasks(A) /\ None \notin Builds(A)
  BY NothingApart DEF Sound, Typed
<1>1. BuildHolds'
  BY <1>0 DEF BuildHolds, WaveformStarts, At
<1>2. Follows'
  BY <1>0 DEF Follows, WaveformStarts
<1> QED
  BY <1>1, <1>2

(* Progress makes the draft due to be saved, unless it is staged. *)
LEMMA WaveformTrackSaves ==
  ASSUME NEW A, Sound(A), BuildHolds, Follows,
         Allowed \cap Racing = {}, Allowed \cap Outrunning = {}, ~AutoDue, WaveformTrack
  PROVE  BuildHolds' /\ Follows'
<1>0. /\ Typed(A) /\ Staged /\ EncodeAlone /\ Reopened /\ calls \in Calls(A)
      /\ None \notin Drafts(A) /\ None \notin Tasks(A) /\ None \notin Builds(A)
  BY NothingApart DEF Sound, Typed
<1>1. BuildHolds'
  BY <1>0 DEF BuildHolds, WaveformTrack, At, updateWaveformAnalysis, Changes
<1>2. Follows'
  BY <1>0 DEF Follows, WaveformTrack, updateWaveformAnalysis, Changes
<1> QED
  BY <1>1, <1>2

(* The end of an analysis changes no draft. *)
LEMMA WaveformEndsSaves ==
  ASSUME NEW A, Sound(A), BuildHolds, Follows,
         Allowed \cap Racing = {}, Allowed \cap Outrunning = {}, ~AutoDue, WaveformEnds
  PROVE  BuildHolds' /\ Follows'
<1>0. /\ Typed(A) /\ Staged /\ EncodeAlone /\ Reopened /\ calls \in Calls(A)
      /\ None \notin Drafts(A) /\ None \notin Tasks(A) /\ None \notin Builds(A)
  BY NothingApart DEF Sound, Typed
<1>1. BuildHolds'
  BY <1>0 DEF BuildHolds, WaveformEnds, At
<1>2. Follows'
  BY <1>0 DEF Follows, WaveformEnds
<1> QED
  BY <1>1, <1>2

(* The analysed draft is due to be saved. *)
LEMMA WaveformReturnsSaves ==
  ASSUME NEW A, Sound(A), BuildHolds, Follows,
         Allowed \cap Racing = {}, Allowed \cap Outrunning = {}, ~AutoDue, WaveformReturns
  PROVE  BuildHolds' /\ Follows'
<1>0. /\ Typed(A) /\ Staged /\ EncodeAlone /\ Reopened /\ calls \in Calls(A)
      /\ None \notin Drafts(A) /\ None \notin Tasks(A) /\ None \notin Builds(A)
  BY NothingApart DEF Sound, Typed
<1>1. BuildHolds'
  BY <1>0 DEF Calls, BuildHolds, WaveformReturns, setDraft, Changes, Unmounting, Answered, At
<1>2. Follows'
  BY <1>0 DEF Follows, WaveformReturns, setDraft, Changes
<1> QED
  BY <1>1, <1>2

(* The draft is due to be saved with its new status. *)
LEMMA WaveformFailsSaves ==
  ASSUME NEW A, Sound(A), BuildHolds, Follows,
         Allowed \cap Racing = {}, Allowed \cap Outrunning = {}, ~AutoDue, WaveformFails
  PROVE  BuildHolds' /\ Follows'
<1>0. /\ Typed(A) /\ Staged /\ EncodeAlone /\ Reopened /\ calls \in Calls(A)
      /\ None \notin Drafts(A) /\ None \notin Tasks(A) /\ None \notin Builds(A)
  BY NothingApart DEF Sound, Typed
<1>1. BuildHolds'
  BY <1>0 DEF Calls, BuildHolds, WaveformFails, Answered, At, updateWaveformAnalysis, Changes
<1>2. Follows'
  <2>1. CASE draft = None
    BY <1>0, <2>1 DEF WaveformFails, Follows
  <2>2. ASSUME draft # None PROVE Follows'
    <3>1. PICK status \in Statuses : updateWaveformAnalysis(status, Answered("waveform"))
      BY <2>2 DEF WaveformFails, Statuses
    <3>2. encodeStaging' = encodeStaging /\ (encodeStaging = 0 => timers'.save = draft')
      BY <3>1 DEF updateWaveformAnalysis, Changes
    <3> QED
      BY <3>2 DEF Follows
  <2> QED
    BY <2>1, <2>2
<1> QED
  BY <1>1, <1>2

(* A cancel changes no draft. *)
LEMMA CancelWaveformSaves ==
  ASSUME NEW A, Sound(A), BuildHolds, Follows,
         Allowed \cap Racing = {}, Allowed \cap Outrunning = {}, ~AutoDue, CancelWaveform
  PROVE  BuildHolds' /\ Follows'
<1>0. /\ Typed(A) /\ Staged /\ EncodeAlone /\ Reopened /\ calls \in Calls(A)
      /\ None \notin Drafts(A) /\ None \notin Tasks(A) /\ None \notin Builds(A)
  BY NothingApart DEF Sound, Typed
<1>1. BuildHolds'
  BY <1>0 DEF BuildHolds, CancelWaveform
<1>2. Follows'
  BY <1>0 DEF Follows, CancelWaveform
<1> QED
  BY <1>1, <1>2

(* What was due is saved. *)
LEMMA SaveFiresSaves ==
  ASSUME NEW A, Sound(A), BuildHolds, Follows,
         Allowed \cap Racing = {}, Allowed \cap Outrunning = {}, ~AutoDue, SaveFires
  PROVE  BuildHolds' /\ Follows'
<1>0. /\ Typed(A) /\ Staged /\ EncodeAlone /\ Reopened /\ calls \in Calls(A)
      /\ None \notin Drafts(A) /\ None \notin Tasks(A) /\ None \notin Builds(A)
  BY NothingApart DEF Sound, Typed
<1>1. BuildHolds'
  BY <1>0 DEF BuildHolds, Settled, SaveFires
<1>2. Follows'
  BY <1>0 DEF Follows, SaveFires
<1> QED
  BY <1>1, <1>2

(* A validation leaves the autosave timer alone. *)
LEMMA ValidateFiresSaves ==
  ASSUME NEW A, Sound(A), BuildHolds, Follows,
         Allowed \cap Racing = {}, Allowed \cap Outrunning = {}, ~AutoDue, ValidateFires
  PROVE  BuildHolds' /\ Follows'
<1>0. /\ Typed(A) /\ Staged /\ EncodeAlone /\ Reopened /\ calls \in Calls(A)
      /\ None \notin Drafts(A) /\ None \notin Tasks(A) /\ None \notin Builds(A)
  BY NothingApart DEF Sound, Typed
<1>1. BuildHolds'
  BY <1>0 DEF BuildHolds, Settled, ValidateFires, Validating
<1>2. Follows'
  BY <1>0 DEF Follows, ValidateFires
<1> QED
  BY <1>1, <1>2

(* A verdict leaves the autosave timer alone. *)
LEMMA ValidateReturnsSaves ==
  ASSUME NEW A, Sound(A), BuildHolds, Follows,
         Allowed \cap Racing = {}, Allowed \cap Outrunning = {}, ~AutoDue, ValidateReturns
  PROVE  BuildHolds' /\ Follows'
<1>0. /\ Typed(A) /\ Staged /\ EncodeAlone /\ Reopened /\ calls \in Calls(A)
      /\ None \notin Drafts(A) /\ None \notin Tasks(A) /\ None \notin Builds(A)
  BY NothingApart DEF Sound, Typed
<1>1. BuildHolds'
  BY <1>0 DEF BuildHolds, Settled, ValidateReturns, Answered
<1>2. Follows'
  BY <1>0 DEF Follows, ValidateReturns
<1> QED
  BY <1>1, <1>2

(* The dialog changes no draft, *)
LEMMA openCreateSaves ==
  ASSUME NEW A, Sound(A), BuildHolds, Follows,
         Allowed \cap Racing = {}, Allowed \cap Outrunning = {}, ~AutoDue, openCreate
  PROVE  BuildHolds' /\ Follows'
<1>0. /\ Typed(A) /\ Staged /\ EncodeAlone /\ Reopened /\ calls \in Calls(A)
      /\ None \notin Drafts(A) /\ None \notin Tasks(A) /\ None \notin Builds(A)
  BY NothingApart DEF Sound, Typed
<1>1. BuildHolds'
  BY <1>0 DEF BuildHolds, Settled, openCreate
<1>2. Follows'
  BY <1>0 DEF Follows, openCreate
<1> QED
  BY <1>1, <1>2

(* ... open or closed. *)
LEMMA CloseSaves ==
  ASSUME NEW A, Sound(A), BuildHolds, Follows,
         Allowed \cap Racing = {}, Allowed \cap Outrunning = {}, ~AutoDue, Close
  PROVE  BuildHolds' /\ Follows'
<1>0. /\ Typed(A) /\ Staged /\ EncodeAlone /\ Reopened /\ calls \in Calls(A)
      /\ None \notin Drafts(A) /\ None \notin Tasks(A) /\ None \notin Builds(A)
  BY NothingApart DEF Sound, Typed
<1>1. BuildHolds'
  BY <1>0 DEF BuildHolds, Settled, Close
<1>2. Follows'
  BY <1>0 DEF Follows, Close
<1> QED
  BY <1>1, <1>2

(* The build is of the draft on show, and nothing under way can replace it. *)
LEMMA CreateSaves ==
  ASSUME NEW A, Sound(A), BuildHolds, Follows,
         Allowed \cap Racing = {}, Allowed \cap Outrunning = {}, ~AutoDue, Create
  PROVE  BuildHolds' /\ Follows'
<1>0. /\ Typed(A) /\ Staged /\ EncodeAlone /\ Reopened /\ calls \in Calls(A)
      /\ None \notin Drafts(A) /\ None \notin Tasks(A) /\ None \notin Builds(A)
  BY NothingApart DEF Sound, Typed
<1>1. BuildHolds'
  BY <1>0, NoOutrunning DEF BuildHolds, Settled, Create, AutoDue
<1>2. Follows'
  BY <1>0 DEF Follows, Create
<1> QED
  BY <1>1, <1>2

(* What was built is the draft on show. *)
LEMMA BuildEndsSaves ==
  ASSUME NEW A, Sound(A), BuildHolds, Follows,
         Allowed \cap Racing = {}, Allowed \cap Outrunning = {}, ~AutoDue, BuildEnds
  PROVE  BuildHolds' /\ Follows'
<1>0. /\ Typed(A) /\ Staged /\ EncodeAlone /\ Reopened /\ calls \in Calls(A)
      /\ None \notin Drafts(A) /\ None \notin Tasks(A) /\ None \notin Builds(A)
  BY NothingApart DEF Sound, Typed
<1>1. BuildHolds'
  <2>1. calls.build # None /\ calls.build \in Builds(A)
    BY <1>0 DEF BuildEnds, At, Calls
  <2>2. PICK at \in {"built", "failed"} :
          /\ calls' = [calls EXCEPT !.build.at = at]
          /\ at = "built" => built' = (draft = calls.build.draft)
          /\ at = "failed" => built' = built
    BY DEF BuildEnds
  <2>3. /\ calls'.open = calls.open /\ calls'.identify = calls.identify
        /\ calls'.encode = calls.encode /\ calls'.waveform = calls.waveform
        /\ calls'.build.at = at /\ calls'.build.draft = calls.build.draft
    BY <1>0, <2>1, <2>2 DEF Calls, Builds
  <2> QED
    BY <2>1, <2>2, <2>3 DEF BuildEnds, BuildHolds, Settled
<1>2. Follows'
  <2>1. calls.build # None /\ calls.build \in Builds(A)
    BY <1>0 DEF BuildEnds, At, Calls
  <2>2. PICK at \in {"built", "failed"} :
          /\ calls' = [calls EXCEPT !.build.at = at]
          /\ at = "built" => built' = (draft = calls.build.draft)
          /\ at = "failed" => built' = built
    BY DEF BuildEnds
  <2>3. draft # None => built' = built \/ built'
    BY <2>1, <2>2 DEF BuildHolds
  <2>4. /\ draft' = draft /\ encodeStaging' = encodeStaging /\ timers' = timers
        /\ disk'.saved = disk.saved
    <3>1. calls.build.draft \in Drafts(A)
      BY <2>1 DEF Builds
    <3> QED
      BY <1>0, <3>1, PublishTyped DEF BuildEnds
  <2> QED
    BY <2>3, <2>4 DEF Follows
<1> QED
  BY <1>1, <1>2

(* The autosaved draft goes, when the draft on show is the one built. *)
LEMMA BuildReturnsSaves ==
  ASSUME NEW A, Sound(A), BuildHolds, Follows,
         Allowed \cap Racing = {}, Allowed \cap Outrunning = {}, ~AutoDue, BuildReturns
  PROVE  BuildHolds' /\ Follows'
<1>0. /\ Typed(A) /\ Staged /\ EncodeAlone /\ Reopened /\ calls \in Calls(A)
      /\ None \notin Drafts(A) /\ None \notin Tasks(A) /\ None \notin Builds(A)
  BY NothingApart DEF Sound, Typed
<1>1. BuildHolds'
  BY <1>0 DEF Calls, Builds, BuildHolds, Settled, BuildReturns, Answered, At
<1>2. Follows'
  BY <1>0 DEF BuildHolds, Follows, BuildReturns, At
<1> QED
  BY <1>1, <1>2

(* A failed build keeps the autosaved draft. *)
LEMMA BuildFailsSaves ==
  ASSUME NEW A, Sound(A), BuildHolds, Follows,
         Allowed \cap Racing = {}, Allowed \cap Outrunning = {}, ~AutoDue, BuildFails
  PROVE  BuildHolds' /\ Follows'
<1>0. /\ Typed(A) /\ Staged /\ EncodeAlone /\ Reopened /\ calls \in Calls(A)
      /\ None \notin Drafts(A) /\ None \notin Tasks(A) /\ None \notin Builds(A)
  BY NothingApart DEF Sound, Typed
<1>1. BuildHolds'
  BY <1>0 DEF Calls, BuildHolds, BuildFails, Answered
<1>2. Follows'
  BY <1>0 DEF Follows, BuildFails
<1> QED
  BY <1>1, <1>2

(* The package opened afresh is due to be saved. *)
LEMMA ReopensSaves ==
  ASSUME NEW A, Sound(A), BuildHolds, Follows,
         Allowed \cap Racing = {}, Allowed \cap Outrunning = {}, ~AutoDue, Reopens
  PROVE  BuildHolds' /\ Follows'
<1>0. /\ Typed(A) /\ Staged /\ EncodeAlone /\ Reopened /\ calls \in Calls(A)
      /\ None \notin Drafts(A) /\ None \notin Tasks(A) /\ None \notin Builds(A)
  BY NothingApart DEF Sound, Typed
<1>1. BuildHolds'
  BY <1>0 DEF Calls, BuildHolds, Reopens, setDraft, Changes, Unmounting, Answered
<1>2. Follows'
  BY <1>0 DEF Follows, Reopens, setDraft, Changes
<1> QED
  BY <1>1, <1>2

-----------------------------------------------------------------------------
(* Only albums of the library are opened. *)
LEMMA OpensInLibrary ==
  ASSUME NEW A, Typed(A), NEW album \in disk.sources \cup DOMAIN disk.packages
  PROVE  album \in A
<1>1. disk.sources = A \ Packages /\ DOMAIN disk.packages = A \cap Packages
  BY DEF Typed, Disks
<1> QED
  BY <1>1

(* Every step keeps the staged files and the saved draft sound. *)
LEMMA SoundStep ==
  ASSUME NEW A, Sound(A), Allowed \cap Racing = {}, [Next]_vars
  PROVE  Sound(A)'
<1>1. CASE AutoDue /\ AutoGenerate
  BY <1>1, AutoGenerateSound
<1>2. CASE ~AutoDue /\ Command
  <2>1. ASSUME NEW album \in disk.sources \cup DOMAIN disk.packages, openAlbum(album)
        PROVE  Sound(A)'
    BY <1>2, <2>1, OpensInLibrary, openAlbumSound DEF Sound
  <2> QED
    BY <1>2, <2>1, ResetSound, ResumeSound, DiscardSound, QuitSound, EditSound, IdentifySound,
       EncodeSound, CancelEncodeSound, GenerateSound, CancelWaveformSound, openCreateSound,
       CloseSound, CreateSound
       DEF Command
<1>3. CASE ~AutoDue /\ (Opening \/ Identifying \/ Encoding \/ Analysing \/ Building)
  BY <1>3, OpenReturnsSound, OpenFailsSound, IdentifyAppliesSound, IdentifyOffersSound,
     EncodeStartsSound, EncodeEndsSound, EncodeReturnsSound, EncodeFailsSound,
     WaveformStartsSound, WaveformEndsSound, WaveformReturnsSound, WaveformFailsSound,
     BuildEndsSound, BuildReturnsSound, BuildFailsSound, ReopensSound
     DEF Opening, Identifying, Encoding, Analysing, Building
<1>4. CASE ~AutoDue /\ (ValidateReturns \/ WaveformTrack \/ SaveFires \/ ValidateFires)
  BY <1>4, ValidateReturnsSound, WaveformTrackSound, SaveFiresSound, ValidateFiresSound
<1>5. CASE UNCHANGED vars
  BY <1>5 DEF vars, Sound, Typed, Staged, EncodeAlone, Rooted, Reopened, Settled
<1> QED
  BY <1>1, <1>2, <1>3, <1>4, <1>5 DEF Next

(* Every step keeps the draft on show saved, or about to be. *)
LEMMA SavesStep ==
  ASSUME NEW A, Sound(A), BuildHolds, Follows,
         Allowed \cap Racing = {}, Allowed \cap Outrunning = {}, [Next]_vars
  PROVE  BuildHolds' /\ Follows'
<1>1. CASE AutoDue /\ AutoGenerate
  BY <1>1, AutoGenerateSaves
<1>2. CASE ~AutoDue /\ Command
  <2>1. ASSUME NEW album \in disk.sources \cup DOMAIN disk.packages, openAlbum(album)
        PROVE  BuildHolds' /\ Follows'
    BY <1>2, <2>1, OpensInLibrary, openAlbumSaves DEF Sound
  <2> QED
    BY <1>2, <2>1, ResetSaves, ResumeSaves, DiscardSaves, QuitSaves, EditSaves, IdentifySaves,
       EncodeSaves, CancelEncodeSaves, GenerateSaves, CancelWaveformSaves, openCreateSaves,
       CloseSaves, CreateSaves
       DEF Command
<1>3. CASE ~AutoDue /\ (Opening \/ Identifying \/ Encoding \/ Analysing \/ Building)
  BY <1>3, OpenReturnsSaves, OpenFailsSaves, IdentifyAppliesSaves, IdentifyOffersSaves,
     EncodeStartsSaves, EncodeEndsSaves, EncodeReturnsSaves, EncodeFailsSaves,
     WaveformStartsSaves, WaveformEndsSaves, WaveformReturnsSaves, WaveformFailsSaves,
     BuildEndsSaves, BuildReturnsSaves, BuildFailsSaves, ReopensSaves
     DEF Opening, Identifying, Encoding, Analysing, Building
<1>4. CASE ~AutoDue /\ (ValidateReturns \/ WaveformTrack \/ SaveFires \/ ValidateFires)
  BY <1>4, ValidateReturnsSaves, WaveformTrackSaves, SaveFiresSaves, ValidateFiresSaves
<1>5. CASE UNCHANGED vars
  BY <1>5 DEF vars, BuildHolds, Follows, Settled
<1> QED
  BY <1>1, <1>2, <1>3, <1>4, <1>5 DEF Next

(* An application just started, over any library. *)
LEMMA InitSound ==
  ASSUME Init
  PROVE  (\E A : Sound(A)) /\ BuildHolds /\ Follows
<1>1. PICK library \in SUBSET (Sources \cup Packages) :
        disk \in [saved : {None}, sources : {library \cap Sources},
                  packages : [library \cap Packages ->
                                [version : {0}, waveform : {"not_generated", "ready"}]]]
  BY DEF Init
<1>2. library \cap Sources = library \ Packages
  BY AlbumsAssumption
<1>3. disk \in Disks(library)
  <2>1. disk.packages \in [library \cap Packages -> [version : Nat, waveform : Statuses]]
    <3>1. [version : {0}, waveform : {"not_generated", "ready"}]
            \subseteq [version : Nat, waveform : Statuses]
      BY DEF Statuses
    <3> QED
      BY <1>1, <3>1
  <2> QED
    BY <1>1, <1>2, <2>1 DEF Disks
<1>4. /\ draft = None /\ encodeStaging = 0 /\ timers = Stopped /\ ui = Closed /\ calls = Silent
      /\ host = [made |-> 0, dirs |-> {}, stage_cancel |-> FALSE] /\ offer = None
  BY DEF Init
<1>5. Typed(library)
  BY <1>3, <1>4 DEF Typed, Stopped, Closed, Silent, Timers, Panes, Calls, Hosts
<1>6. Sound(library)
  BY <1>1, <1>4, <1>5 DEF Sound, Staged, EncodeAlone, Rooted, Reopened, Stopped, Silent
<1> QED
  BY <1>4, <1>6 DEF BuildHolds, Follows, Silent

(* The invariant holds in every state, for the library the behaviour began
   with. *)
LEMMA SoundAlways ==
  ASSUME Allowed \cap Racing = {}
  PROVE  Spec => [](\E A : Sound(A))
<1>1. Init => \E A : Sound(A)
  BY InitSound
<1>2. (\E A : Sound(A)) /\ [Next]_vars => (\E A : Sound(A))'
  <2> SUFFICES ASSUME NEW A, Sound(A), [Next]_vars PROVE (\E B : Sound(B))'
    OBVIOUS
  <2>1. Sound(A)'
    BY SoundStep
  <2> QED
    BY <2>1
<1> QED
  BY <1>1, <1>2, PTL DEF Spec

(* Staged files are held as long as the draft needs them and no longer,     *)
(* whatever else may come during what: no draft outlives its files, and no  *)
(* directory is left that nothing owns (AlbumAuthoring's encodeStaging,     *)
(* author_service's staging directories).                                   *)
THEOREM StagedAreHeld ==
  ASSUME Allowed \cap Racing = {}
  PROVE  Spec => []StagingHeld
<1>1. ASSUME NEW A, Sound(A) PROVE StagingHeld
  <2>1. Staged /\ EncodeAlone
    BY <1>1 DEF Sound
  <2> QED
    BY <2>1 DEF Staged, EncodeAlone, StagingHeld, Present
<1>2. (\E A : Sound(A)) => StagingHeld
  BY <1>1
<1> QED
  BY <1>2, SoundAlways, PTL

(* What the timer is about to save, and what is saved, has the album's own *)
(* files: a restart never offers a draft whose staging directory is gone.  *)
THEOREM SavedAlwaysOpens ==
  ASSUME Allowed \cap Racing = {}
  PROVE  Spec => []SavedOpens
<1>1. ASSUME NEW A, Sound(A) PROVE SavedOpens
  BY <1>1 DEF Sound, Rooted, SavedOpens
<1>2. (\E A : Sound(A)) => SavedOpens
  BY <1>1
<1> QED
  BY <1>2, SoundAlways, PTL

(* An accidental quit loses no more than what the autosave was about to     *)
(* write: the draft on show is saved, or about to be, or has its files      *)
(* staged, or is what was last built.                                       *)
THEOREM SaveAlwaysFollows ==
  ASSUME Allowed \cap (Racing \cup Outrunning) = {}
  PROVE  Spec => []SaveFollows
<1>1. Allowed \cap Racing = {} /\ Allowed \cap Outrunning = {}
  OBVIOUS
<1>2. Init => BuildHolds /\ Follows
  BY InitSound
<1>3. (\E A : Sound(A)) /\ BuildHolds /\ Follows /\ [Next]_vars => (BuildHolds /\ Follows)'
  BY <1>1, SavesStep
<1>4. Follows => SaveFollows
  BY DEF Follows, SaveFollows
<1>5. Spec => [](\E A : Sound(A))
  BY <1>1, SoundAlways
<1> QED
  BY <1>2, <1>3, <1>4, <1>5, PTL DEF Spec

=============================================================================
