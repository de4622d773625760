--------------------------- MODULE DesignPipeline ---------------------------
(***************************************************************************)
(* One Issue from RECEIVED to an approved design: its design_jobs row, its *)
(* artwork objects and candidates, the background handler that interprets  *)
(* and generates, and the owner who approves, reworks, retries, selects    *)
(* and uploads, while a refund or the factory handoff may move the Issue.  *)
(*                                                                         *)
(* The rows of two Issues never meet, so one Issue is enough.  Every SQL   *)
(* statement is one step of the request that issues it; the model calls    *)
(* sit between statements.  An accepted background job may be run at any   *)
(* time and again, also beside a slow run of itself; JobQueue promises its *)
(* handlers no more (that it stops after a completed run is left out).     *)
(***************************************************************************)
EXTENDS Naturals, IssueStatus

CONSTANTS
  Requests,    \* slots for concurrent handlers and owner requests
  Uploads,     \* generation keys of owner uploads, which name their artwork
  Keys,        \* generation keys of reworks and retries
  Printable,   \* the artworks that pass ArtworkQualityGate
  MaxDeaths,   \* bound on requests that die between two statements
  MaxFailures  \* bound on failed model calls

(* The one locator of generated artwork: artwork://<issue>/<design job>. *)
Generated == "generated"
Artworks  == {Generated} \cup Uploads
Absent    == "none"
Initial   == "initial"
Snapshot  == "snapshot"

ASSUME DesignAssumption ==
  /\ Printable \subseteq Artworks
  /\ MaxDeaths \in Nat /\ MaxFailures \in Nat
  /\ {Generated, Absent, Initial, Snapshot} \cap (Uploads \cup Keys) = {}
  /\ Uploads \cap Keys = {}

VARIABLES
  status,     \* issues.status
  design,     \* the design_jobs row, state "NONE" before it exists
  mfg,        \* manufacturing_jobs.state, "NONE" before the row exists
  objects,    \* locators in artwork_objects
  candidates, \* ops_design_candidates
  selected,   \* the candidate whose selected is true
  enqueued,   \* design jobs handed to the background queue
  step,       \* the next statement of each request
  req,        \* what each request works on
  deaths,     \* requests that died so far
  failures    \* model calls that failed so far

candidateVars == <<candidates, selected>>
requestVars   == <<enqueued, step, req>>
faultVars     == <<deaths, failures>>
rowVars       == <<status, design, mfg, objects, candidateVars>>
vars == <<rowVars, requestVars, faultVars>>

NoDesign    == [state |-> "NONE", artwork |-> Absent]
NoCandidate == [key |-> Absent, artwork |-> Absent]
Unread      == "UNREAD"
Rest == [task |-> "none", mode |-> "none", key |-> Absent, job |-> NoDesign,
         seen |-> Unread, pick |-> NoCandidate]

Modes        == {"reinterpret", "regenerate"}
Jobs         == [mode : Modes, key : {Initial} \cup Keys]
DesignStates == {"QUEUED", "INTERPRETING", "REVIEW", "APPROVED", "FAILED"}
Generating   == {"generate", "put", "save"}
Steps        == Generating \cup
                {"idle", "both", "find", "load", "begin", "claim", "refetch",
                 "fail", "capture", "clear", "choose", "policy", "approve",
                 "enqueue", "putUpload", "saveUpload"}
DesignPhase  == {"RECEIVED", "BEING_INTERPRETED", "DESIGN_REVIEW", "DESIGN_APPROVED"}
Reviewable   == {"DESIGN_REVIEW", "DESIGN_APPROVED"}
-----------------------------------------------------------------------------
Init ==
  /\ status = "RECEIVED" /\ mfg = "NONE"
  /\ design = NoDesign /\ objects = {}
  /\ candidates = {} /\ selected = NoCandidate
  /\ enqueued = {}
  /\ step = [r \in Requests |-> "idle"]
  /\ req = [r \in Requests |-> Rest]
  /\ deaths = 0 /\ failures = 0

(* How a request goes on: to another statement, or to its end. *)
Moves(r, s, w) ==
  /\ step' = [step EXCEPT ![r] = s] /\ req' = [req EXCEPT ![r] = w]
  /\ UNCHANGED enqueued
Goto(r, s) == Moves(r, s, req[r])
Ends(r)    == Moves(r, "idle", Rest)
(* After its decision a handler needs the key of its job only. *)
Follow(r, s) ==
  IF s = "idle" THEN Ends(r) ELSE Moves(r, s, [Rest EXCEPT !.key = req[r].key])
Begins(r, s, w) == step[r] = "idle" /\ Moves(r, s, w)

(* The factory has no order for this Issue yet. *)
Replaceable == mfg \notin Started
(* A brief is on a row exactly together with artwork the models made. *)
HasBrief(job) == job.artwork = Generated
(* Archiving the current artwork: INSERT ... ON CONFLICT DO NOTHING, with a
   key that holds a hash of the locator. *)
Archived == IF design.artwork = Absent THEN {}
            ELSE {[key |-> Snapshot, artwork |-> design.artwork]}
FreshKey(k) == /\ \A j \in enqueued : j.key # k
               /\ \A r \in Requests : req[r].key # k
FreshUpload(u) == u \notin objects /\ \A r \in Requests : req[r].key # u
-----------------------------------------------------------------------------
(* Dispatch of a paid Issue. *)
DispatchAuto ==
  /\ enqueued' = enqueued \cup {[mode |-> "reinterpret", key |-> Initial]}
  /\ UNCHANGED <<rowVars, step, req, faultVars>>

Reserved == [state |-> "QUEUED", artwork |-> Absent]
DispatchManual ==
  /\ design = NoDesign /\ status = "RECEIVED"
  /\ design' = Reserved /\ status' = "BEING_INTERPRETED"
  /\ UNCHANGED <<mfg, objects, candidateVars, requestVars, faultVars>>

StartHandler(r, j) ==
  /\ j \in enqueued
  /\ Begins(r, IF j.mode = "reinterpret" THEN "find" ELSE "both",
            [Rest EXCEPT !.task = j.mode, !.mode = j.mode, !.key = j.key])
  /\ UNCHANGED <<rowVars, faultVars>>

StartApprove(r) ==
  /\ Begins(r, "both", [Rest EXCEPT !.task = "approve"])
  /\ UNCHANGED <<rowVars, faultVars>>

(* What each entry point decides once it has read the row and the Issue; a
   handler that throws and one that returns both end here. *)
(* Mutant: a failed design is not picked up again. *)
ClaimableQueued(w) == w.job.state = "QUEUED" /\ w.seen = "BEING_INTERPRETED"
Claimable(w) == w.job.state \in {"QUEUED", "FAILED"} /\ w.seen = "BEING_INTERPRETED"
CreateForIssue(w) ==
  IF w.job = NoDesign THEN (IF w.seen = "RECEIVED" THEN "begin" ELSE "idle")
  ELSE IF w.job.state = "REVIEW" THEN "capture"
  ELSE IF Claimable(w) THEN "claim" ELSE "idle"
RegenerateArtwork(w) ==
  IF w.job.state = "REVIEW" THEN "capture"
  ELSE IF HasBrief(w.job) /\ Claimable(w) THEN "claim" ELSE "idle"
(* ArtworkQualityGate judges the artwork and the state it was handed. *)
PassesGate(job) ==
  job.state = "REVIEW" /\ job.artwork \in Printable \cap objects
ApproveForManufacturing(w) ==
  IF w.seen = "DESIGN_REVIEW" /\ PassesGate(w.job) THEN "approve" ELSE "idle"
Decides(w) == IF w.task = "reinterpret" THEN CreateForIssue(w)
              ELSE IF w.task = "regenerate" THEN RegenerateArtwork(w)
              ELSE ApproveForManufacturing(w)

(* The two reads come in order, or in either order from Promise.all. *)
FindJob(r) ==
  LET w == [req[r] EXCEPT !.job = design] IN
  /\ step[r] \in {"find", "both"}
  /\ IF w.seen = Unread THEN Moves(r, "load", w) ELSE Follow(r, Decides(w))
  /\ UNCHANGED <<rowVars, faultVars>>
LoadInput(r) ==
  LET w == [req[r] EXCEPT !.seen = status] IN
  /\ step[r] \in {"load", "both"}
  /\ IF step[r] = "both" THEN Moves(r, "find", w) ELSE Follow(r, Decides(w))
  /\ UNCHANGED <<rowVars, faultVars>>

LoadAgain(r, job) ==
  Moves(r, "load", [req[r] EXCEPT !.task = "reinterpret", !.job = job])
BeginDesign(r) ==
  /\ step[r] = "begin"
  /\ \/ /\ design = NoDesign /\ status = "RECEIVED"
        /\ design' = Reserved /\ status' = "BEING_INTERPRETED"
        /\ LoadAgain(r, Reserved)
     \/ /\ design # NoDesign
        /\ LoadAgain(r, design)
        /\ UNCHANGED <<design, status>>
     \/ /\ design = NoDesign /\ status # "RECEIVED"
        /\ Ends(r) /\ UNCHANGED <<design, status>>
  /\ UNCHANGED <<mfg, objects, candidateVars, faultVars>>

(* Mutant: claiming asks the Issue only. *)
CanClaimIssueOnly == status = "BEING_INTERPRETED"
CanClaim == design.state \in {"QUEUED", "FAILED"} /\ status = "BEING_INTERPRETED"
Claim(r) ==
  /\ step[r] = "claim"
  /\ \/ /\ CanClaim
        /\ design' = [design EXCEPT !.state = "INTERPRETING"]
        /\ Goto(r, "generate")
     \/ ~CanClaim /\ Goto(r, "refetch") /\ UNCHANGED design
  /\ UNCHANGED <<status, mfg, objects, candidateVars, faultVars>>
Refetch(r) ==
  /\ step[r] = "refetch"
  /\ Follow(r, IF design.state = "REVIEW" THEN "capture" ELSE "idle")
  /\ UNCHANGED <<rowVars, faultVars>>

(* interpret, generateArtwork, and the reload of the Issue after them. *)
Generate(r) ==
  /\ step[r] = "generate"
  /\ Goto(r, IF status = "BEING_INTERPRETED" THEN "put" ELSE "fail")
  /\ UNCHANGED <<rowVars, faultVars>>
ModelFails(r) ==
  /\ step[r] = "generate" /\ failures < MaxFailures
  /\ failures' = failures + 1 /\ Goto(r, "fail")
  /\ UNCHANGED <<rowVars, deaths>>
(* Mutant: the row is saved first, the bytes are to follow. *)
PutGeneratedLater(r) ==
  /\ step[r] = "put"
  /\ Goto(r, IF Generated \in objects THEN "fail" ELSE "save")
  /\ UNCHANGED <<rowVars, faultVars>>
(* The locator is the primary key: a second generation cannot be stored. *)
PutGenerated(r) ==
  /\ step[r] = "put"
  /\ objects' = objects \cup {Generated}
  /\ Goto(r, IF Generated \in objects THEN "fail" ELSE "save")
  /\ UNCHANGED <<status, design, mfg, candidateVars, faultVars>>

(* Mutant: completing a design asks the job only. *)
CanSaveJobOnly == design.state = "INTERPRETING"
CanSave == design.state = "INTERPRETING" /\ status = "BEING_INTERPRETED"
SaveGenerated(r) ==
  /\ step[r] = "save"
  /\ \/ /\ CanSave
        /\ design' = [state |-> "REVIEW", artwork |-> Generated]
        /\ status' = "DESIGN_REVIEW"
        /\ Goto(r, "capture")
     \/ ~CanSave /\ Goto(r, "fail") /\ UNCHANGED <<design, status>>
  /\ UNCHANGED <<mfg, objects, candidateVars, faultVars>>
(* Mutant: a late failure overwrites an approved design. *)
MarkFailedAlways(r) ==
  /\ step[r] = "fail"
  /\ design' = [design EXCEPT !.state = "FAILED"]
  /\ Ends(r)
  /\ UNCHANGED <<status, mfg, objects, candidateVars, faultVars>>
MarkFailed(r) ==
  /\ step[r] = "fail"
  /\ design' = IF design.state = "APPROVED" THEN design
               ELSE [design EXCEPT !.state = "FAILED"]
  /\ Ends(r)
  /\ UNCHANGED <<status, mfg, objects, candidateVars, faultVars>>
-----------------------------------------------------------------------------
(* captureCurrentCandidate and what follows a reviewed design. *)
Capture(r) ==
  LET c == [key |-> req[r].key, artwork |-> design.artwork]
      new == /\ design.state = "REVIEW" /\ design.artwork # Absent
             /\ \A d \in candidates : d.key # c.key
  IN
  /\ step[r] = "capture"
  /\ \/ /\ new /\ candidates' = candidates \cup {c}
        /\ Moves(r, "clear", [Rest EXCEPT !.pick = c])
     \/ ~new /\ Moves(r, "policy", Rest) /\ UNCHANGED candidates
  /\ UNCHANGED <<status, design, mfg, objects, selected, faultVars>>
ClearSelected(r) ==
  /\ step[r] = "clear"
  /\ selected' = NoCandidate /\ Goto(r, "choose")
  /\ UNCHANGED <<status, design, mfg, objects, candidates, faultVars>>
SetSelected(r) ==
  /\ step[r] = "choose"
  /\ IF selected \in {NoCandidate, req[r].pick}
       THEN selected' = req[r].pick /\ Moves(r, "policy", Rest)
       ELSE Ends(r) /\ UNCHANGED selected
  /\ UNCHANGED <<status, design, mfg, objects, candidates, faultVars>>

(* approvalRequired, or manualUploadApproval after an upload: any policy. *)
Policy(r) ==
  /\ step[r] = "policy"
  /\ \/ Ends(r)
     \/ Moves(r, "both", [Rest EXCEPT !.task = "approve"])
  /\ UNCHANGED <<rowVars, faultVars>>

(* The job is approved even when the Issue has left its review meanwhile. *)
Approve(r) ==
  /\ step[r] = "approve"
  /\ \/ /\ design.state = "REVIEW"
        /\ design' = [design EXCEPT !.state = "APPROVED"]
        /\ status' = IF status = "DESIGN_REVIEW" THEN "DESIGN_APPROVED" ELSE status
        /\ Ends(r)
     \/ design.state # "REVIEW" /\ Ends(r) /\ UNCHANGED <<design, status>>
  /\ UNCHANGED <<mfg, objects, candidateVars, faultVars>>
-----------------------------------------------------------------------------
(* The owner's designer operations. *)
PrepareRetry(r, k) ==
  /\ FreshKey(k) /\ status = "BEING_INTERPRETED" /\ design.state = "FAILED"
  /\ design' = [design EXCEPT !.state = "QUEUED"]
  /\ Begins(r, "enqueue", [Rest EXCEPT !.mode = "reinterpret", !.key = k])
  /\ UNCHANGED <<status, mfg, objects, candidateVars, faultVars>>

CanRework == /\ status \in Reviewable /\ Replaceable
             /\ design.state \in {"REVIEW", "APPROVED"}
PrepareRework(r, k, mode) ==
  /\ FreshKey(k) /\ CanRework
  /\ candidates' = candidates \cup Archived
  /\ selected' = NoCandidate
  /\ design' = [design EXCEPT !.state = "QUEUED"]
  /\ status' = "BEING_INTERPRETED"
  /\ Begins(r, "enqueue", [Rest EXCEPT !.mode = mode, !.key = k])
  /\ UNCHANGED <<mfg, objects, faultVars>>
Enqueue(r) ==
  /\ step[r] = "enqueue"
  /\ enqueued' = enqueued \cup {[mode |-> req[r].mode, key |-> req[r].key]}
  /\ step' = [step EXCEPT ![r] = "idle"] /\ req' = [req EXCEPT ![r] = Rest]
  /\ UNCHANGED <<rowVars, faultVars>>

(* A refused rework or selection still clears the flag of every candidate:
   that part of the statement asks nothing of the Issue. *)
CanSelect == status \in Reviewable /\ Replaceable
RefusedUnselects ==
  /\ ~CanRework
  /\ selected' = NoCandidate
  /\ UNCHANGED <<status, design, mfg, objects, candidates, requestVars, faultVars>>

(* PostgreSQL may run the part that sets the flag before the part that clears
   the others; then the unique index aborts the statement and nothing changes. *)
SelectCandidate(c) ==
  /\ c \in candidates /\ CanSelect
  /\ selected' = c
  /\ design' = [state |-> "REVIEW", artwork |-> c.artwork]
  /\ status' = "DESIGN_REVIEW"
  /\ UNCHANGED <<mfg, objects, candidates, requestVars, faultVars>>

(* prepareManualUpload; the file is validated after it and may be refused. *)
PrepareUpload(r, u) ==
  /\ FreshUpload(u) /\ status \in DesignPhase /\ Replaceable
  /\ \/ design # NoDesign /\ UNCHANGED design
     \/ /\ design = NoDesign /\ status \in {"RECEIVED", "BEING_INTERPRETED"}
        /\ design' = Reserved
  /\ status' = IF status = "RECEIVED" THEN "BEING_INTERPRETED" ELSE status
  /\ Begins(r, "putUpload", [Rest EXCEPT !.task = "upload", !.key = u])
  /\ UNCHANGED <<mfg, objects, candidateVars, faultVars>>
RefuseUpload(r) ==
  step[r] = "putUpload" /\ Ends(r) /\ UNCHANGED <<rowVars, faultVars>>
PutUpload(r) ==
  /\ step[r] = "putUpload"
  /\ objects' = objects \cup {req[r].key} /\ Goto(r, "saveUpload")
  /\ UNCHANGED <<status, design, mfg, candidateVars, faultVars>>

CanSaveUpload == status \in DesignPhase \ {"RECEIVED"} /\ Replaceable
SaveUpload(r) ==
  LET c == [key |-> req[r].key, artwork |-> req[r].key] IN
  /\ step[r] = "saveUpload"
  /\ \/ /\ CanSaveUpload
        /\ candidates' = candidates \cup Archived \cup {c}
        /\ selected' = c
        /\ design' = [state |-> "REVIEW", artwork |-> c.artwork]
        /\ status' = "DESIGN_REVIEW"
        /\ Moves(r, "policy", Rest)
     \/ ~CanSaveUpload /\ Ends(r) /\ UNCHANGED <<status, design, candidateVars>>
  /\ UNCHANGED <<mfg, objects, faultVars>>
-----------------------------------------------------------------------------
(* What happens to the Issue from outside. *)

(* A refund, a payment exception or the owner's quarantine. *)
Stop ==
  /\ status \in PreProduction /\ status' = "EXCEPTION"
  /\ UNCHANGED <<design, mfg, objects, candidateVars, requestVars, faultVars>>
ReserveDraft ==
  /\ mfg = "NONE" /\ status = "DESIGN_APPROVED" /\ design.state = "APPROVED"
  /\ mfg' = "RESERVED"
  /\ UNCHANGED <<status, design, objects, candidateVars, requestVars, faultVars>>
AttachDraft ==
  /\ mfg = "RESERVED" /\ mfg' = "DRAFT"
  /\ status' = IF status = "DESIGN_APPROVED" THEN "MANUFACTURING_DRAFT" ELSE status
  /\ UNCHANGED <<design, objects, candidateVars, requestVars, faultVars>>

(* A server that dies between two statements. *)
Die(r) ==
  /\ step[r] # "idle" /\ deaths < MaxDeaths
  /\ deaths' = deaths + 1 /\ Ends(r)
  /\ UNCHANGED <<rowVars, failures>>

Work(r) ==
  \/ FindJob(r) \/ LoadInput(r) \/ BeginDesign(r) \/ Claim(r) \/ Refetch(r)
  \/ Generate(r) \/ PutGenerated(r) \/ SaveGenerated(r) \/ MarkFailed(r)
  \/ Capture(r) \/ ClearSelected(r) \/ SetSelected(r) \/ Policy(r) \/ Approve(r)
  \/ Enqueue(r) \/ PutUpload(r) \/ SaveUpload(r)

Owner(r) ==
  \/ StartApprove(r)
  \/ \E k \in Keys : PrepareRetry(r, k) \/ \E m \in Modes : PrepareRework(r, k, m)
  \/ \E u \in Uploads : PrepareUpload(r, u)
  \/ RefuseUpload(r)

Next ==
  \/ DispatchAuto \/ DispatchManual
  \/ RefusedUnselects \/ \E c \in candidates : SelectCandidate(c)
  \/ Stop \/ ReserveDraft \/ AttachDraft
  \/ \E r \in Requests :
       \/ \E j \in Jobs : StartHandler(r, j)
       \/ Owner(r) \/ Work(r) \/ ModelFails(r) \/ Die(r)

Spec == Init /\ [][Next]_vars

(* A running request goes on; the drain comes back for the accepted first job. *)
FirstJob == \E r \in Requests, j \in Jobs : j.key = Initial /\ StartHandler(r, j)
Fairness ==
  /\ \A r \in Requests : WF_vars(Work(r))
  /\ SF_vars(FirstJob)
FairSpec == Spec /\ Fairness
-----------------------------------------------------------------------------
CandidateRows == [key : {Initial, Snapshot} \cup Keys \cup Uploads, artwork : Artworks]
DesignRows    == [state : DesignStates, artwork : Artworks \cup {Absent}]

(* Every variable keeps its type: rows of design_jobs, ops_design_candidates,
   issues and manufacturing_jobs, and the requests between two statements. *)
TypeOK ==
  /\ status \in IssueStatuses /\ mfg \in {"NONE", "RESERVED"} \cup Started
  /\ design \in DesignRows \cup {NoDesign}
  /\ objects \subseteq Artworks
  /\ candidates \subseteq CandidateRows
  /\ selected \in candidates \cup {NoCandidate}
  /\ enqueued \subseteq Jobs
  /\ step \in [Requests -> Steps]
  /\ req \in [Requests ->
       [task : Modes \cup {"none", "approve", "upload"}, mode : Modes \cup {"none"},
        key : {Absent, Initial} \cup Keys \cup Uploads,
        job : DesignRows \cup {NoDesign}, seen : IssueStatuses \cup {Unread},
        pick : CandidateRows \cup {NoCandidate}]]
  /\ deaths \in 0..MaxDeaths /\ failures \in 0..MaxFailures

(* An Issue that is design-approved or holds a factory draft has an approved
   design, whatever late workers, uploads and reworks do in between
   (approve, markFailed, prepareRework, selectCandidate, saveManualCandidate). *)
ApprovedTogether ==
  status \in {"DESIGN_APPROVED", "MANUFACTURING_DRAFT"} => design.state = "APPROVED"

(* No row points at artwork that is not durably stored: what is reviewed,
   archived or selected can be read again (storage.put before every save). *)
StoredBeforeReview ==
  /\ design.artwork \in objects \cup {Absent}
  /\ \A c \in candidates : c.artwork \in objects

(* As long as the owner has not uploaded a design, at most one handler pays
   for a model run, although handlers overlap and jobs are retried (claim). *)
ExclusiveGeneration ==
  (\A c \in candidates : c.artwork = Generated)
    => \A r, q \in Requests :
         step[r] \in Generating /\ step[q] \in Generating => r = q

(* An Issue that was stopped or handed to the factory keeps its artwork: no
   late worker, upload or selection replaces it (saveGenerated,
   saveManualCandidate, selectCandidate). *)
StoppedDesignIsFrozen ==
  [][status \notin DesignPhase => design'.artwork = design.artwork]_vars

(* The Issue trigger accepts every status change of the design statements, so
   none of them is aborted half way through what its request is doing. *)
MovesAreLegal ==
  [][Legal(status, status', mfg \in Started)]_vars

(* A paid Issue whose design job was accepted gets its first artwork, unless it
   is stopped or a server dies under it, although model calls fail and are
   retried and the owner does what he likes (createForIssue, markFailed). *)
FirstAccepted  == \E j \in enqueued : j.key = Initial
ArrivedOrStopped == design.artwork # Absent \/ status \notin DesignPhase \/ deaths > 0
FirstDesignArrives == FirstAccepted ~> ArrivedOrStopped
-----------------------------------------------------------------------------
(* Statements of the documents the code does not live up to. *)

(* A rework leads to a new candidate, or the owner or a refund intervenes:
   the generation handler stores what it made (PostgresArtworkStorage.put). *)
ReworkMakesCandidate ==
  \A k \in Keys :
    (\E j \in enqueued : j.key = k)
      ~> ((\E c \in candidates : c.key = k) \/ status # "BEING_INTERPRETED")

(* A design that no request works on any more is taken up again, by the queue
   or by an owner who retries all he can retry (claim, prepareRetry). *)
Abandoned == /\ design.state = "INTERPRETING" /\ status = "BEING_INTERPRETED"
             /\ \A r \in Requests : step[r] \notin Generating \cup {"fail"}
StuckDesignRecovers == Abandoned ~> ~Abandoned
OwnerRetries  == SF_vars(\E r \in Requests, k \in Keys : PrepareRetry(r, k))
QueueReturns  == \A j \in Jobs : SF_vars(\E r \in Requests : StartHandler(r, j))
OwnerFairSpec == FairSpec /\ QueueReturns /\ OwnerRetries
=============================================================================
