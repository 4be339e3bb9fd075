----------------------------- MODULE Authoring -----------------------------
(***************************************************************************)
(* A session of the desktop authoring application: one window that edits a *)
(* draft, and a host that encodes it, generates its waveforms, identifies  *)
(* and validates it, builds the package, and keeps the autosaved draft.    *)
(* The window's calls are asynchronous; each goes on, when its answer      *)
(* comes, with the draft it was made with.  A handler runs from one await  *)
(* to the next in one step.                                                *)
(*                                                                         *)
(* The metadata of a draft is a version number; its files are the album's  *)
(* own (root 0) or those of a numbered staging directory.                  *)
(***************************************************************************)
EXTENDS Integers, FiniteSets

CONSTANTS Sources,         \* albums of lossless files
          Packages,        \* packages opened to be edited in place
          Allowed,         \* commands that may come during what: <<command, phase>>
          SlowValidation,  \* whether a verdict may take longer than the next timer
          MaxVersions,     \* bound on the versions of an album's metadata
          MaxStagings,     \* bound on the staging directories of a behaviour
          MaxAlbums,       \* bound on the albums opened in a behaviour
          None

ASSUME AlbumsAssumption == Sources \cap Packages = {} /\ None \notin Sources \cup Packages
ASSUME BoundsAssumption == MaxVersions \in Nat /\ MaxStagings \in Nat /\ SlowValidation \in BOOLEAN

Statuses == {"not_generated", "pending", "error", "ready"}
Drafts(albums) == [album : albums, root : Nat, version : Nat, waveform : Statuses]
Checks == [root : Nat, current : BOOLEAN]
Tasks(albums) ==
  [draft : Drafts(albums), at : {"asked", "working", "done", "cancelled", "failed"},
   mounted : BOOLEAN]
Builds(albums) ==
  [draft : Drafts(albums), at : {"working", "built", "failed", "reopening"}]

\* Absence is no draft and no call.
ASSUME NothingAssumption ==
  LET albums == Sources \cup Packages IN
  None \notin Drafts(albums) \cup Checks \cup Tasks(albums) \cup Builds(albums)

VARIABLES
  draft,          \* the draft on show, or None on the welcome screen
  encodeStaging,  \* the draft's staging directory, or 0
  verdict,        \* the last verdict: whether ok, and whether on the draft on show; or None
  timers,         \* what the autosave timer will write, whether a validation is due
  ui,             \* flags of the panels and of the create dialog
  calls,          \* the unanswered call of each kind, or None
  host,           \* staging directories made and present, the cancel flag
  disk,           \* the packages, and the autosaved draft or None
  offer,          \* the draft the welcome screen offers to resume, or None
  built           \* history: whether the draft on show is what was last built

vars == <<draft, encodeStaging, verdict, timers, ui, calls, host, disk, offer, built>>

Closed == [encoded |-> FALSE, autoStarted |-> FALSE, createOpen |-> FALSE, createResult |-> FALSE]
Stopped == [save |-> None, validate |-> FALSE]
Silent == [open |-> None, identify |-> None, validate |-> None,
           encode |-> None, waveform |-> None, build |-> None]

-----------------------------------------------------------------------------
(***************************************************************************)
(* The draft and what follows its changes.                                 *)
(***************************************************************************)
Present(d) == d.root = 0 \/ d.root \in host.dirs

needsEncoding(d) == d.album \in Sources /\ d.root = 0

\* What inspecting an album yields.
Inspected(album) ==
  [album |-> album, root |-> 0,
   version  |-> IF album \in Packages THEN disk.packages[album].version ELSE 0,
   waveform |-> IF album \in Packages THEN disk.packages[album].waveform ELSE "not_generated"]

\* Mutant: the draft is autosaved while its files are staged, too.
Changes_SavesStaged(d, staging, c) ==
  /\ draft' = d
  /\ verdict' = None
  /\ timers' = [save |-> d, validate |-> TRUE]
  /\ calls' = [c EXCEPT !.validate = IF @ = None THEN None ELSE [@ EXCEPT !.current = FALSE]]
  /\ built' = FALSE

\* A new value of the draft: the verdict falls, the timers start over, and
\* while files are staged the autosave that was due stays due.
Changes(d, staging, c) ==
  /\ draft' = d
  /\ verdict' = None
  /\ timers' = [save |-> IF staging = 0 THEN d ELSE timers.save, validate |-> TRUE]
  /\ calls' = [c EXCEPT !.validate = IF @ = None THEN None ELSE [@ EXCEPT !.current = FALSE]]
  /\ built' = FALSE

\* Panels lose their state when they are unmounted; a package has no encode panel.
Panels(d) == [ui EXCEPT !.createResult = FALSE, !.encoded = @ /\ d.album \in Sources]

Orphan(call) == IF call = None THEN None ELSE [call EXCEPT !.mounted = FALSE]

Unmounting(c, d) == IF d.album \in Packages THEN [c EXCEPT !.encode = Orphan(@)] ELSE c

\* The view shows d, in place of the draft on show or of the welcome screen.
setDraft(d, staging, c) ==
  /\ Changes(d, staging, Unmounting(c, d))
  /\ encodeStaging' = staging
  /\ offer' = None

\* openAlbum and reset drop the staging area.
dropStaging == encodeStaging' = 0 /\ host' = [host EXCEPT !.dirs = @ \ {encodeStaging}]

Answered(kind) == [calls EXCEPT ![kind] = None]

\* How far a call of the given kind has come.
At(kind, stages) == calls[kind] # None /\ calls[kind].at \in stages

\* The backend's mutex, held by a build while it works.
BackendFree == ~At("build", {"working"})

-----------------------------------------------------------------------------
(***************************************************************************)
(* What is under way, and whether the user may give a command during it.   *)
(***************************************************************************)
Phases ==
  {kind \in DOMAIN calls : calls[kind] # None}
  \cup {p \in {"staged"} : encodeStaging # 0}
  \cup {p \in {"spent"} : draft # None /\ draft.root # 0 /\ encodeStaging = 0}
  \cup {p \in {"stuck"} : draft = None /\ offer # None /\ offer.waveform = "pending"}

May(command) == \A p \in Phases : <<command, p>> \in Allowed

\* Commands the application takes during what they get in the way of: a second
\* task finds other files in place than those it began with, and the draft it
\* answers with takes the place of a staged one.
Racing ==
  ({"open", "reset", "identify", "generate"} \X {"encode"})
  \cup ({"encode"} \X {"open", "identify", "waveform", "build"})
  \cup ({"generate"} \X {"staged"})
  \cup ({"edit", "identify", "generate"} \X {"spent"})

\* Those after which a build ends the session of another draft than its own, or
\* a staged draft stays on show without its files.
Outrunning ==
  ({"open", "edit", "identify", "generate", "resume"} \X {"build"})
  \cup ({"create"} \X {"open", "identify", "encode", "waveform"})
  \cup ({"open"} \X {"staged"})

\* The album's view, not covered by the dialog.
Viewing == draft # None /\ ~ui.createOpen

-----------------------------------------------------------------------------
(***************************************************************************)
(* Opening and leaving an album.                                           *)
(***************************************************************************)
openAlbum(album) ==
  /\ May("open") /\ calls.open = None
  /\ dropStaging
  /\ calls' = [calls EXCEPT !.open = album]
  /\ UNCHANGED <<draft, verdict, timers, ui, disk, offer, built>>

OpenReturns ==
  /\ calls.open # None /\ BackendFree
  /\ LET d == Inspected(calls.open) IN
       setDraft(d, encodeStaging, Answered("open")) /\ ui' = Panels(d)
  /\ UNCHANGED <<host, disk>>

OpenFails ==
  /\ calls.open # None /\ BackendFree
  /\ calls' = Answered("open")
  /\ offer' = IF draft = None THEN disk.saved ELSE offer
  /\ UNCHANGED <<draft, encodeStaging, verdict, timers, ui, host, disk, built>>

Reset ==
  /\ May("reset") /\ Viewing
  /\ dropStaging
  /\ draft' = None /\ verdict' = None /\ timers' = Stopped /\ ui' = Closed
  /\ calls' = [calls EXCEPT !.encode = Orphan(@), !.waveform = Orphan(@)]
  /\ offer' = disk.saved /\ built' = FALSE
  /\ UNCHANGED disk

Resume ==
  /\ May("resume") /\ draft = None /\ calls.open = None /\ offer # None
  /\ setDraft(offer, encodeStaging, calls) /\ ui' = Panels(offer)
  /\ UNCHANGED <<host, disk>>

Discard ==
  /\ May("discard") /\ draft = None /\ calls.open = None /\ offer # None
  /\ offer' = None /\ disk' = [disk EXCEPT !.saved = None]
  /\ UNCHANGED <<draft, encodeStaging, verdict, timers, ui, calls, host, built>>

\* The application quits or crashes and is started again.  Staging directories
\* carry the process id: nobody returns to them.
Quit ==
  /\ May("quit") /\ draft # None
  /\ draft' = None /\ encodeStaging' = 0 /\ verdict' = None /\ timers' = Stopped /\ ui' = Closed
  /\ calls' = Silent
  /\ host' = [host EXCEPT !.dirs = {}, !.stage_cancel = FALSE]
  /\ offer' = disk.saved /\ built' = FALSE
  /\ UNCHANGED disk

-----------------------------------------------------------------------------
(***************************************************************************)
(* Editing and identifying.  Once files are staged, edits are refused.     *)
(***************************************************************************)
Edit ==
  /\ May("edit") /\ Viewing /\ encodeStaging = 0 /\ draft.version < MaxVersions
  /\ Changes([draft EXCEPT !.version = @ + 1], encodeStaging, calls)
  /\ UNCHANGED <<encodeStaging, ui, host, disk, offer>>

Identify ==
  /\ May("identify") /\ Viewing /\ encodeStaging = 0 /\ draft.version < MaxVersions
  /\ calls.identify = None
  /\ calls' = [calls EXCEPT !.identify = draft]
  /\ UNCHANGED <<draft, encodeStaging, verdict, timers, ui, host, disk, offer, built>>

IdentifyApplies ==
  /\ calls.identify # None /\ BackendFree
  /\ LET d == [calls.identify EXCEPT !.version = @ + 1] IN
       setDraft(d, encodeStaging, Answered("identify")) /\ ui' = Panels(d)
  /\ UNCHANGED <<host, disk>>

\* Candidates to choose from, or an error.
IdentifyOffers ==
  /\ calls.identify # None /\ BackendFree
  /\ calls' = Answered("identify")
  /\ UNCHANGED <<draft, encodeStaging, verdict, timers, ui, host, disk, offer, built>>

-----------------------------------------------------------------------------
(***************************************************************************)
(* Encoding.  A call is "asked" until the host starts on it.               *)
(***************************************************************************)
Task(d) == [draft |-> d, at |-> "asked", mounted |-> TRUE]

Encode ==
  /\ May("encode") /\ Viewing /\ needsEncoding(draft) /\ ~ui.encoded
  /\ calls.encode = None /\ host.made < MaxStagings
  /\ calls' = [calls EXCEPT !.encode = Task(draft)]
  /\ UNCHANGED <<draft, encodeStaging, verdict, timers, ui, host, disk, offer, built>>

EncodeStarts ==
  /\ At("encode", {"asked"})
  /\ host' = [made |-> host.made + 1, dirs |-> host.dirs \cup {host.made + 1},
              stage_cancel |-> FALSE]
  /\ calls' = [calls EXCEPT !.encode.at = "working"]
  /\ UNCHANGED <<draft, encodeStaging, verdict, timers, ui, disk, offer, built>>

\* Mutant: a cancelled or failed encode leaves its directory.
EncodeEnds_LeavesFiles ==
  /\ At("encode", {"working"})
  /\ \E end \in {"done", "failed"} : calls' = [calls EXCEPT !.encode.at = end]
  /\ UNCHANGED <<draft, encodeStaging, verdict, timers, ui, host, disk, offer, built>>

\* The host has finished, or has failed or noticed a cancel: it looks after each
\* track, so a cancel may come too late.
EncodeEnds ==
  /\ At("encode", {"working"})
  /\ \E end \in {"done", "failed"} :
       /\ host' = IF end = "done" THEN host ELSE [host EXCEPT !.dirs = @ \ {host.made}]
       /\ calls' = [calls EXCEPT !.encode.at = end]
  /\ UNCHANGED <<draft, encodeStaging, verdict, timers, ui, disk, offer, built>>

EncodeReturns ==
  /\ At("encode", {"done"})
  /\ setDraft([calls.encode.draft EXCEPT !.root = host.made], host.made, Answered("encode"))
  /\ ui' = [ui EXCEPT !.createResult = FALSE, !.encoded = calls.encode.mounted]
  /\ UNCHANGED <<host, disk>>

EncodeFails ==
  /\ At("encode", {"failed"})
  /\ encodeStaging' = 0
  /\ calls' = Answered("encode")
  /\ UNCHANGED <<draft, verdict, timers, ui, host, disk, offer, built>>

CancelEncode ==
  /\ May("cancel") /\ Viewing /\ calls.encode # None /\ calls.encode.mounted
  /\ host' = [host EXCEPT !.stage_cancel = TRUE]
  /\ UNCHANGED <<draft, encodeStaging, verdict, timers, ui, calls, disk, offer, built>>

-----------------------------------------------------------------------------
(***************************************************************************)
(* Waveforms.  They start by themselves, once, when the panel is mounted.  *)
(***************************************************************************)
updateWaveformAnalysis(status, c) ==
  /\ Changes([draft EXCEPT !.waveform = status], encodeStaging, c)
  /\ UNCHANGED <<encodeStaging, host, disk, offer>>

generate ==
  updateWaveformAnalysis("pending",
    [calls EXCEPT !.waveform = Task([draft EXCEPT !.waveform = "pending"])])

\* The panel's effect, which runs before any other event is handled.  While the
\* panel still generates for another draft, its one chance passes unused.
AutoDue ==
  /\ draft # None /\ draft.waveform = "not_generated" /\ ~ui.autoStarted
  /\ calls.waveform # None => calls.waveform.mounted

AutoGenerate ==
  /\ ui' = [ui EXCEPT !.autoStarted = TRUE]
  /\ IF calls.waveform = None THEN generate
       ELSE UNCHANGED <<draft, encodeStaging, verdict, timers, calls, host, disk, offer, built>>

Generate ==
  /\ May("generate") /\ Viewing /\ calls.waveform = None
  /\ draft.waveform \in {"not_generated", "error", "ready"}
  /\ generate
  /\ UNCHANGED ui

WaveformStarts ==
  /\ At("waveform", {"asked"})
  /\ host' = [host EXCEPT !.stage_cancel = FALSE]
  /\ calls' = [calls EXCEPT !.waveform.at = "working"]
  /\ UNCHANGED <<draft, encodeStaging, verdict, timers, ui, disk, offer, built>>

\* Progress: a track's points are added to whatever draft is on show.
WaveformTrack ==
  /\ At("waveform", {"working"}) /\ draft # None
  /\ updateWaveformAnalysis(draft.waveform, calls)
  /\ UNCHANGED ui

WaveformEnds ==
  /\ At("waveform", {"working"})
  /\ \E end \in {"done", "cancelled", "failed"} :
       /\ end = "done" => Present(calls.waveform.draft)
       /\ end = "cancelled" => host.stage_cancel
       /\ calls' = [calls EXCEPT !.waveform.at = end]
  /\ UNCHANGED <<draft, encodeStaging, verdict, timers, ui, host, disk, offer, built>>

WaveformReturns ==
  /\ At("waveform", {"done"})
  /\ LET d == [calls.waveform.draft EXCEPT !.waveform = "ready"] IN
       setDraft(d, encodeStaging, Answered("waveform")) /\ ui' = Panels(d)
  /\ UNCHANGED <<host, disk>>

\* Mutant: only an error ends the panel's pending state.
WaveformFails_StaysPending ==
  /\ At("waveform", {"cancelled", "failed"})
  /\ \/ /\ draft # None /\ calls.waveform.at = "failed"
        /\ updateWaveformAnalysis("error", Answered("waveform"))
     \/ /\ draft = None \/ calls.waveform.at = "cancelled"
        /\ calls' = Answered("waveform")
        /\ UNCHANGED <<draft, encodeStaging, verdict, timers, host, disk, offer, built>>
  /\ UNCHANGED ui

WaveformFails ==
  /\ At("waveform", {"cancelled", "failed"})
  /\ LET status == IF calls.waveform.at = "cancelled" THEN "not_generated" ELSE "error" IN
     \/ draft # None /\ updateWaveformAnalysis(status, Answered("waveform"))
     \/ /\ draft = None /\ calls' = Answered("waveform")
        /\ UNCHANGED <<draft, encodeStaging, verdict, timers, host, disk, offer, built>>
  /\ UNCHANGED ui

CancelWaveform ==
  /\ May("cancel") /\ Viewing /\ draft.waveform = "pending"
  /\ calls.waveform # None /\ calls.waveform.mounted
  /\ host' = [host EXCEPT !.stage_cancel = TRUE]
  /\ UNCHANGED <<draft, encodeStaging, verdict, timers, ui, calls, disk, offer, built>>

-----------------------------------------------------------------------------
(***************************************************************************)
(* The timers, and validation.  A validation that is due while another is  *)
(* under way is skipped.  The Validate buttons do what the timer does.     *)
(***************************************************************************)
Validating == [calls EXCEPT !.validate = [root |-> draft.root, current |-> TRUE]]

SaveFires ==
  /\ timers.save # None
  /\ disk' = [disk EXCEPT !.saved = timers.save]
  /\ timers' = [timers EXCEPT !.save = None]
  /\ UNCHANGED <<draft, encodeStaging, verdict, ui, calls, host, offer, built>>

ValidateFires ==
  /\ timers.validate /\ (calls.validate = None \/ SlowValidation)
  /\ timers' = [timers EXCEPT !.validate = FALSE]
  /\ calls' = IF calls.validate = None THEN Validating ELSE calls
  /\ UNCHANGED <<draft, encodeStaging, verdict, ui, host, disk, offer, built>>

ValidateReturns ==
  /\ calls.validate # None /\ BackendFree
  /\ verdict' = [ok |-> Present(calls.validate), current |-> calls.validate.current]
  /\ calls' = Answered("validate")
  /\ UNCHANGED <<draft, encodeStaging, timers, ui, host, disk, offer, built>>

-----------------------------------------------------------------------------
(***************************************************************************)
(* Building the package.                                                   *)
(***************************************************************************)
openCreate ==
  /\ May("create") /\ Viewing /\ verdict # None /\ verdict.ok
  /\ ui' = [ui EXCEPT !.createOpen = TRUE]
  /\ UNCHANGED <<draft, encodeStaging, verdict, timers, calls, host, disk, offer, built>>

Close ==
  /\ May("close") /\ draft # None /\ ui.createOpen
  /\ ui' = [ui EXCEPT !.createOpen = FALSE, !.createResult = FALSE]
  /\ UNCHANGED <<draft, encodeStaging, verdict, timers, calls, host, disk, offer, built>>

Create ==
  /\ May("create") /\ draft # None /\ ui.createOpen /\ ~ui.createResult
  /\ calls.build = None
  /\ calls' = [calls EXCEPT !.build = [draft |-> draft, at |-> "working"]]
  /\ UNCHANGED <<draft, encodeStaging, verdict, timers, ui, host, disk, offer, built>>

\* A package opened in place is replaced; a new one goes where nothing was.
publish(d) ==
  disk' = IF d.album \in Packages
            THEN [disk EXCEPT !.packages[d.album] = [version |-> d.version, waveform |-> "ready"]]
            ELSE disk

\* The pipeline: the package is published whole or not at all.
BuildEnds ==
  /\ At("build", {"working"})
  /\ LET d == calls.build.draft IN
     \/ /\ Present(d)
        /\ calls' = [calls EXCEPT !.build.at = "built"]
        /\ publish(d)
        /\ built' = (draft = d)
     \/ /\ calls' = [calls EXCEPT !.build.at = "failed"]
        /\ UNCHANGED <<disk, built>>
  /\ UNCHANGED <<draft, encodeStaging, verdict, timers, ui, host, offer>>

\* The session is complete: the autosaved draft and the staging area go.
BuildReturns ==
  /\ At("build", {"built"})
  /\ disk' = [disk EXCEPT !.saved = None]
  /\ dropStaging
  /\ \/ /\ calls.build.draft.album \in Packages
        /\ calls' = [calls EXCEPT !.build.at = "reopening"]
        /\ UNCHANGED ui
     \/ /\ calls.build.draft.album \in Sources
        /\ calls' = Answered("build")
        /\ ui' = [ui EXCEPT !.createResult = TRUE]
  /\ UNCHANGED <<draft, verdict, timers, offer, built>>

\* Mutant: the autosaved draft goes whether or not the package was built.
BuildFails_Clears ==
  /\ At("build", {"failed", "reopening"})
  /\ calls' = Answered("build")
  /\ disk' = [disk EXCEPT !.saved = None]
  /\ ui' = [ui EXCEPT !.createResult = TRUE]
  /\ UNCHANGED <<draft, encodeStaging, verdict, timers, host, offer, built>>

\* The build failed, or the saved package could not be opened again.
BuildFails ==
  /\ At("build", {"failed", "reopening"})
  /\ calls' = Answered("build")
  /\ ui' = [ui EXCEPT !.createResult = TRUE]
  /\ UNCHANGED <<draft, encodeStaging, verdict, timers, host, disk, offer, built>>

\* The package saved in place is opened afresh.
Reopens ==
  /\ At("build", {"reopening"})
  /\ LET d == Inspected(calls.build.draft.album) IN
       /\ setDraft(d, encodeStaging, Answered("build"))
       /\ ui' = [Panels(d) EXCEPT !.createResult = TRUE]
  /\ UNCHANGED <<host, disk>>

-----------------------------------------------------------------------------
Init ==
  /\ draft = None /\ encodeStaging = 0 /\ verdict = None /\ timers = Stopped /\ ui = Closed
  /\ calls = Silent
  /\ host = [made |-> 0, dirs |-> {}, stage_cancel |-> FALSE]
  /\ \E library \in SUBSET (Sources \cup Packages) :
       /\ Cardinality(library) = MaxAlbums
       /\ disk \in [saved : {None}, sources : {library \cap Sources},
                    packages : [library \cap Packages ->
                                  [version : {0}, waveform : {"not_generated", "ready"}]]]
  /\ offer = None /\ built = FALSE

Command ==
  \/ \E album \in disk.sources \cup DOMAIN disk.packages : openAlbum(album)
  \/ Reset \/ Resume \/ Discard \/ Quit \/ Edit \/ Identify
  \/ Encode \/ CancelEncode \/ Generate \/ CancelWaveform
  \/ openCreate \/ Close \/ Create

\* What the host does for a call, and the window when it returns.
Opening == OpenReturns \/ OpenFails
Identifying == IdentifyApplies \/ IdentifyOffers
Encoding == EncodeStarts \/ EncodeEnds \/ EncodeReturns \/ EncodeFails
Analysing == WaveformStarts \/ WaveformEnds \/ WaveformReturns \/ WaveformFails
Building == BuildEnds \/ BuildReturns \/ BuildFails \/ Reopens

Next ==
  \/ AutoDue /\ AutoGenerate
  \/ /\ ~AutoDue
     /\ \/ Command
        \/ Opening \/ Identifying \/ Encoding \/ Analysing \/ Building \/ ValidateReturns
        \/ WaveformTrack \/ SaveFires \/ ValidateFires

Spec == Init /\ [][Next]_vars

\* The host answers every call, and the timers fire; users may stop.
Fairness ==
  /\ WF_vars(AutoDue /\ AutoGenerate)
  /\ WF_vars(~AutoDue /\ Opening) /\ WF_vars(~AutoDue /\ Identifying)
  /\ WF_vars(~AutoDue /\ Encoding) /\ WF_vars(~AutoDue /\ Analysing)
  /\ WF_vars(~AutoDue /\ Building) /\ WF_vars(~AutoDue /\ ValidateReturns)
  /\ WF_vars(~AutoDue /\ SaveFires) /\ WF_vars(~AutoDue /\ ValidateFires)

FairSpec == Spec /\ Fairness

-----------------------------------------------------------------------------
(***************************************************************************)
(* Staged files are held as long as the draft needs them and no longer:    *)
(* encodeStaging is the directory the draft's files are in and is there,   *)
(* and no directory is left behind that neither the draft nor an encode    *)
(* under way owns.                                                         *)
(***************************************************************************)
StagingHeld ==
  /\ encodeStaging # 0 => draft # None /\ draft.root = encodeStaging /\ Present(draft)
  /\ host.dirs \subseteq {encodeStaging} \cup {d \in {host.made} : calls.encode # None}

(***************************************************************************)
(* What a restart would offer can be opened: neither the saved draft nor   *)
(* the one the timer is about to save has its files in a staging           *)
(* directory, "which won't survive a restart" (AlbumAuthoring.svelte).     *)
(***************************************************************************)
SavedOpens == \A d \in {disk.saved, timers.save} \ {None} : d.root = 0

(***************************************************************************)
(* "An accidental quit no longer discards the draft" (AlbumAuthoring):     *)
(* the draft on show is saved or about to be, unless its files are staged  *)
(* or it is in the last package built.                                     *)
(***************************************************************************)
SaveFollows ==
  draft # None /\ encodeStaging = 0 => built \/ draft \in {disk.saved, timers.save}

(***************************************************************************)
(* Once the user lets the application be, every call has returned, no      *)
(* panel shows work that nothing does, and the verdict is about the draft  *)
(* on show.                                                                *)
(***************************************************************************)
Settles ==
  <>[][~Command]_vars =>
    <>[](/\ calls = Silent
         /\ draft # None => draft.waveform # "pending" /\ verdict # None /\ verdict.current)

(***************************************************************************)
(* A result changes the draft on show by what its task made and nothing    *)
(* else; waveforms "survive encode staging" (draft-store.ts).              *)
(***************************************************************************)
Returns(kind) ==
  At(kind, {"done"}) /\ calls'[kind] = None /\ draft' # None

ResultsKeepWork ==
  [][/\ Returns("encode") => draft # None /\ draft' = [draft EXCEPT !.root = host.made]
     /\ Returns("waveform") => draft # None /\ draft' = [draft EXCEPT !.waveform = "ready"]]_vars
=============================================================================
