------------------------ MODULE DesignPipelineProofs ------------------------
(***************************************************************************)
(* Theorems about DesignPipeline, for any number of concurrent requests,   *)
(* reworks, retries, uploads, deaths and failed model calls.               *)
(***************************************************************************)
EXTENDS DesignPipeline, TLAPS

JobKeys == {Initial} \cup Keys
Request == [task : Modes \cup {"none", "approve", "upload"}, mode : Modes \cup {"none"},
            key : {Absent, Initial} \cup Keys \cup Uploads,
            job : DesignRows \cup {NoDesign}, seen : IssueStatuses \cup {Unread},
            pick : CandidateRows \cup {NoCandidate}]

(* What a request carries fits the statement it comes to.                    *)
Fits(s, w, rows) ==
  /\ s \in {"both", "find", "load"} =>
       /\ w.task \in Modes \cup {"approve"}
       /\ w.task \in Modes => w.key \in JobKeys
  /\ s \in {"begin", "claim", "refetch", "generate", "put", "save", "capture"} =>
       w.key \in JobKeys
  /\ s \in {"putUpload", "saveUpload"} => w.key \in Uploads
  /\ s = "enqueue" => w.mode \in Modes /\ w.key \in JobKeys
  /\ s \in {"clear", "choose"} => w.pick \in rows

RequestsOK ==
  /\ enqueued \subseteq Jobs
  /\ step \in [Requests -> Steps]
  /\ req \in [Requests -> Request]
  /\ \A r \in Requests : Fits(step[r], req[r], candidates)

RowsOK ==
  /\ status \in IssueStatuses /\ mfg \in {"NONE", "RESERVED"} \cup Started
  /\ design \in DesignRows \cup {NoDesign}
  /\ objects \subseteq Artworks
  /\ candidates \subseteq CandidateRows
  /\ selected \in candidates \cup {NoCandidate}

FaultsOK == deaths \in 0..MaxDeaths /\ failures \in 0..MaxFailures

TypeInv == RowsOK /\ RequestsOK /\ FaultsOK

(* Whoever is to write a failure has claimed a row.                          *)
Working == Generating \cup {"fail"}
WorkInv == \A r \in Requests : step[r] \in Working => design.state # "NONE"

(* The parts are the type invariant of the model, and a little more.         *)
LEMMA TypeInvIsTypeOK == TypeInv => TypeOK
BY DEF TypeInv, RowsOK, RequestsOK, FaultsOK, TypeOK, Request

(* The initial state is well typed.                                          *)
LEMMA InitTypeInv == Init => TypeInv
BY DesignAssumption DEF Init, TypeInv, RowsOK, RequestsOK, FaultsOK, Fits, Rest,
   IssueStatuses, PreProduction, Steps, Request, Unread, NoDesign, NoCandidate

(* A request that goes on with fitting data stays fitting, as the candidates *)
(* never become fewer.                                                       *)
LEMMA MoveType ==
  ASSUME RequestsOK, NEW r \in Requests, NEW s \in Steps, NEW w \in Request,
         Moves(r, s, w), candidates \subseteq candidates', Fits(s, w, candidates')
  PROVE  RequestsOK'
<1>1. \A q \in Requests : Fits(step'[q], req'[q], candidates')
  <2> TAKE q \in Requests
  <2>1. CASE q = r
    BY <2>1 DEF RequestsOK, Moves
  <2>2. CASE q # r
    BY <2>2 DEF RequestsOK, Moves, Fits
  <2> QED BY <2>1, <2>2
<1> QED BY <1>1 DEF RequestsOK, Moves

(* A slot at rest carries nothing that must fit.                             *)
LEMMA RestFits == Rest \in Request /\ "idle" \in Steps /\ \A c : Fits("idle", Rest, c)
BY DEF Rest, Request, Steps, Fits, NoDesign, NoCandidate, Unread, Modes

(* A request that ends leaves a slot at rest.                                *)
LEMMA EndType ==
  ASSUME RequestsOK, NEW r \in Requests, Ends(r), candidates \subseteq candidates'
  PROVE  RequestsOK'
BY RestFits, MoveType DEF Ends

(* A request that goes on with what it has.                                  *)
LEMMA GotoType ==
  ASSUME RequestsOK, NEW r \in Requests, NEW s \in Steps, Goto(r, s),
         candidates \subseteq candidates', Fits(s, req[r], candidates')
  PROVE  RequestsOK'
<1>1. req[r] \in Request
  BY DEF RequestsOK
<1> QED BY <1>1, MoveType DEF Goto

(* Whatever a handler decides, it goes on with the key of its job.           *)
LEMMA FollowType ==
  ASSUME RequestsOK, NEW r \in Requests,
         NEW s \in {"idle", "begin", "claim", "capture", "approve"}, Follow(r, s),
         s # "approve" => (s = "idle" \/ req[r].key \in JobKeys),
         candidates \subseteq candidates'
  PROVE  RequestsOK'
<1>1. CASE s = "idle"
  BY <1>1, EndType DEF Follow
<1>2. CASE s # "idle"
  <2> DEFINE w == [Rest EXCEPT !.key = req[r].key]
  <2>1. w \in Request
    BY RestFits DEF RequestsOK, Request
  <2>2. w.key = req[r].key
    BY RestFits DEF Request
  <2>3. Fits(s, w, candidates') /\ s \in Steps
    BY <1>2, <2>2 DEF Fits, Steps
  <2>4. Moves(r, s, w)
    BY <1>2 DEF Follow
  <2> HIDE DEF w
  <2> QED BY <2>1, <2>3, <2>4, MoveType
<1> QED BY <1>1, <1>2

(* Deciding takes one of the entry points' ways.                             *)
LEMMA DecidesType ==
  ASSUME NEW w \in Request, w.task \in Modes \cup {"approve"},
         w.task \in Modes => w.key \in JobKeys
  PROVE  /\ Decides(w) \in {"idle", "begin", "claim", "capture", "approve"}
         /\ Decides(w) \notin {"idle", "approve"} => w.key \in JobKeys
BY DEF Decides, CreateForIssue, RegenerateArtwork, ApproveForManufacturing, Modes

(* The two reads of an entry point.                                          *)
LEMMA ReadType ==
  ASSUME TypeInv, NEW r \in Requests, FindJob(r) \/ LoadInput(r)
  PROVE  TypeInv'
<1>0. /\ RowsOK' /\ FaultsOK' /\ candidates' = candidates
      /\ req[r] \in Request /\ Fits(step[r], req[r], candidates)
  BY DEF TypeInv, RowsOK, RequestsOK, FaultsOK, FindJob, LoadInput, rowVars, candidateVars, faultVars
<1>1. CASE FindJob(r)
  <2> DEFINE w == [req[r] EXCEPT !.job = design]
  <2>1. /\ w \in Request /\ w.task = req[r].task /\ w.key = req[r].key
        /\ w.task \in Modes \cup {"approve"} /\ (w.task \in Modes => w.key \in JobKeys)
    BY <1>0, <1>1 DEF TypeInv, RowsOK, Request, FindJob, Fits
  <2>2. \/ w.seen = Unread /\ Moves(r, "load", w)
        \/ Follow(r, Decides(w))
    BY <1>1 DEF FindJob
  <2> HIDE DEF w
  <2>3. CASE Moves(r, "load", w)
    <3>1. Fits("load", w, candidates') /\ "load" \in Steps
      BY <2>1 DEF Fits, Steps
    <3> QED BY <3>1, <2>1, <2>3, <1>0, MoveType DEF TypeInv
  <2>4. CASE Follow(r, Decides(w))
    BY <2>1, <2>4, <1>0, DecidesType, FollowType DEF TypeInv
  <2> QED BY <2>2, <2>3, <2>4
<1>2. CASE LoadInput(r)
  <2> DEFINE w == [req[r] EXCEPT !.seen = status]
  <2>1. /\ w \in Request /\ w.task = req[r].task /\ w.key = req[r].key
        /\ w.task \in Modes \cup {"approve"} /\ (w.task \in Modes => w.key \in JobKeys)
    BY <1>0, <1>2 DEF TypeInv, RowsOK, Request, LoadInput, Fits
  <2>2. Moves(r, "find", w) \/ Follow(r, Decides(w))
    BY <1>2 DEF LoadInput
  <2> HIDE DEF w
  <2>3. CASE Moves(r, "find", w)
    <3>1. Fits("find", w, candidates') /\ "find" \in Steps
      BY <2>1 DEF Fits, Steps
    <3> QED BY <3>1, <2>1, <2>3, <1>0, MoveType DEF TypeInv
  <2>4. CASE Follow(r, Decides(w))
    BY <2>1, <2>4, <1>0, DecidesType, FollowType DEF TypeInv
  <2> QED BY <2>2, <2>3, <2>4
<1> QED BY <1>1, <1>2

(* The entry points start with fitting data.                                 *)
LEMMA BeginsType ==
  ASSUME RequestsOK, NEW r \in Requests, candidates \subseteq candidates',
         NEW s \in Steps, NEW w \in Request, Begins(r, s, w), Fits(s, w, candidates')
  PROVE  RequestsOK'
BY MoveType DEF Begins

(* A handler and an approval start well typed.                               *)
LEMMA StartType ==
  ASSUME TypeInv, NEW r \in Requests,
         StartApprove(r) \/ \E j \in Jobs : StartHandler(r, j)
  PROVE  TypeInv'
<1>0. RowsOK' /\ FaultsOK' /\ candidates' = candidates
  BY DEF TypeInv, RowsOK, FaultsOK, StartApprove, StartHandler, rowVars, candidateVars, faultVars
<1>1. CASE StartApprove(r)
  <2> DEFINE w == [Rest EXCEPT !.task = "approve"]
  <2>1. w \in Request /\ Fits("both", w, candidates') /\ "both" \in Steps
    BY RestFits DEF Request, Fits, Steps, Rest, Modes
  <2>2. Begins(r, "both", w)
    BY <1>1 DEF StartApprove
  <2> HIDE DEF w
  <2> QED BY <2>1, <2>2, <1>0, BeginsType DEF TypeInv
<1>2. ASSUME NEW j \in Jobs, StartHandler(r, j) PROVE TypeInv'
  <2> DEFINE w == [Rest EXCEPT !.task = j.mode, !.mode = j.mode, !.key = j.key]
             s == IF j.mode = "reinterpret" THEN "find" ELSE "both"
  <2>1. w \in Request /\ w.task \in Modes /\ w.key \in JobKeys /\ s \in {"find", "both"}
    BY RestFits DEF Request, Jobs, JobKeys, Rest
  <2>2. Begins(r, s, w)
    BY <1>2 DEF StartHandler
  <2> HIDE DEF w, s
  <2>3. Fits(s, w, candidates') /\ s \in Steps
    BY <2>1 DEF Fits, Steps
  <2> QED BY <2>1, <2>2, <2>3, <1>0, BeginsType DEF TypeInv
<1> QED BY <1>1, <1>2

(* The statements of a generation handler.                                   *)
LEMMA HandlerType ==
  ASSUME TypeInv, WorkInv, NEW r \in Requests,
         \/ BeginDesign(r) \/ Claim(r) \/ Refetch(r) \/ Generate(r) \/ ModelFails(r)
         \/ PutGenerated(r) \/ SaveGenerated(r) \/ MarkFailed(r)
  PROVE  TypeInv'
<1>0. req[r] \in Request /\ Fits(step[r], req[r], candidates) /\ Reserved \in DesignRows
  BY DEF TypeInv, RequestsOK, Reserved, DesignRows, DesignStates
<1>1. CASE BeginDesign(r)
  <2>1. /\ RowsOK' /\ FaultsOK' /\ candidates' = candidates
    BY <1>0, <1>1 DEF TypeInv, RowsOK, FaultsOK, BeginDesign, candidateVars, faultVars,
       IssueStatuses, PreProduction
  <2>2. ASSUME NEW d \in DesignRows, LoadAgain(r, d) PROVE RequestsOK'
    <3> DEFINE w == [req[r] EXCEPT !.task = "reinterpret", !.job = d]
    <3>1. w \in Request /\ w.task \in Modes /\ w.key = req[r].key
      BY <1>0 DEF Request, Modes
    <3>2. Moves(r, "load", w)
      BY <2>2 DEF LoadAgain
    <3> HIDE DEF w
    <3>3. Fits("load", w, candidates') /\ "load" \in Steps
      BY <1>0, <1>1, <3>1 DEF Fits, Steps, BeginDesign
    <3> QED BY <2>1, <3>1, <3>2, <3>3, MoveType DEF TypeInv
  <2>3. \/ Ends(r) \/ \E d \in DesignRows : LoadAgain(r, d)
    BY <1>0, <1>1 DEF BeginDesign, TypeInv, RowsOK
  <2> QED BY <2>1, <2>2, <2>3, EndType DEF TypeInv
<1>2. CASE Claim(r)
  <2>1. /\ RowsOK' /\ FaultsOK' /\ candidates' = candidates
    BY <1>2 DEF TypeInv, RowsOK, FaultsOK, Claim, CanClaim, candidateVars, faultVars,
       DesignRows, DesignStates, NoDesign
  <2>2. ASSUME NEW s \in {"generate", "refetch"}
        PROVE  Fits(s, req[r], candidates') /\ s \in Steps
    BY <1>0, <1>2, <2>1 DEF Fits, Steps, Generating, Claim
  <2> QED BY <1>2, <2>1, <2>2, GotoType DEF Claim, TypeInv
<1>3. CASE Refetch(r)
  <2>1. /\ RowsOK' /\ FaultsOK' /\ candidates' = candidates
    BY <1>3 DEF TypeInv, RowsOK, FaultsOK, Refetch, rowVars, candidateVars, faultVars
  <2>2. req[r].key \in JobKeys
    BY <1>0, <1>3 DEF Refetch, Fits
  <2> QED BY <1>3, <2>1, <2>2, FollowType DEF Refetch, TypeInv
<1>4. CASE Generate(r)
  <2>1. /\ RowsOK' /\ FaultsOK' /\ candidates' = candidates
    BY <1>4 DEF TypeInv, RowsOK, FaultsOK, Generate, rowVars, candidateVars, faultVars
  <2>2. ASSUME NEW s \in {"put", "fail"}
        PROVE  Fits(s, req[r], candidates') /\ s \in Steps
    BY <1>0, <1>4, <2>1 DEF Fits, Steps, Generating, Generate
  <2> QED BY <1>4, <2>1, <2>2, GotoType DEF Generate, TypeInv
<1>5. CASE ModelFails(r)
  <2>1. /\ RowsOK' /\ FaultsOK' /\ candidates' = candidates
    BY <1>5, DesignAssumption
    DEF TypeInv, RowsOK, FaultsOK, ModelFails, rowVars, candidateVars
  <2>2. Fits("fail", req[r], candidates') /\ "fail" \in Steps
    BY DEF Fits, Steps
  <2> QED BY <1>5, <2>1, <2>2, GotoType DEF ModelFails, TypeInv
<1>6. CASE PutGenerated(r)
  <2>1. /\ RowsOK' /\ FaultsOK' /\ candidates' = candidates
    BY <1>6 DEF TypeInv, RowsOK, FaultsOK, PutGenerated, candidateVars, faultVars, Artworks
  <2>2. ASSUME NEW s \in {"save", "fail"}
        PROVE  Fits(s, req[r], candidates') /\ s \in Steps
    BY <1>0, <1>6, <2>1 DEF Fits, Steps, Generating, PutGenerated
  <2> QED BY <1>6, <2>1, <2>2, GotoType DEF PutGenerated, TypeInv
<1>7. CASE SaveGenerated(r)
  <2>1. /\ RowsOK' /\ FaultsOK' /\ candidates' = candidates
    BY <1>7 DEF TypeInv, RowsOK, FaultsOK, SaveGenerated, candidateVars, faultVars,
       DesignRows, DesignStates, Artworks, IssueStatuses, PreProduction
  <2>2. ASSUME NEW s \in {"capture", "fail"}
        PROVE  Fits(s, req[r], candidates') /\ s \in Steps
    BY <1>0, <1>7, <2>1 DEF Fits, Steps, SaveGenerated
  <2> QED BY <1>7, <2>1, <2>2, GotoType DEF SaveGenerated, TypeInv
<1>8. CASE MarkFailed(r)
  <2>1. design # NoDesign
    BY <1>8 DEF MarkFailed, WorkInv, Working, NoDesign
  <2>2. RowsOK'
    BY <1>8, <2>1 DEF TypeInv, RowsOK, MarkFailed, candidateVars, DesignRows, DesignStates
  <2> QED BY <1>8, <2>2, EndType DEF MarkFailed, TypeInv, FaultsOK, faultVars, candidateVars
<1> QED BY <1>1, <1>2, <1>3, <1>4, <1>5, <1>6, <1>7, <1>8

(* What follows a reviewed design, and the approval.                         *)
LEMMA ReviewType ==
  ASSUME TypeInv, NEW r \in Requests,
         Capture(r) \/ ClearSelected(r) \/ SetSelected(r) \/ Policy(r) \/ Approve(r)
  PROVE  TypeInv'
<1>0. req[r] \in Request /\ Fits(step[r], req[r], candidates)
  BY DEF TypeInv, RequestsOK
<1>1. CASE Capture(r)
  <2> DEFINE c == [key |-> req[r].key, artwork |-> design.artwork]
             w == [Rest EXCEPT !.pick = c]
  <2>1. CASE candidates' = candidates \cup {c} /\ Moves(r, "clear", w)
               /\ design.artwork # Absent
    <3>1. c \in CandidateRows
      BY <1>0, <1>1, <2>1 DEF TypeInv, RowsOK, Capture, Fits, CandidateRows, JobKeys,
         DesignRows, NoDesign
    <3>2. w \in Request /\ w.pick = c
      BY <3>1, RestFits DEF Request
    <3>3. RowsOK' /\ FaultsOK'
      BY <1>1, <2>1, <3>1 DEF TypeInv, RowsOK, FaultsOK, Capture, faultVars
    <3> HIDE DEF w, c
    <3>4. Fits("clear", w, candidates') /\ "clear" \in Steps
      BY <2>1, <3>2 DEF Fits, Steps
    <3> QED BY <2>1, <3>2, <3>3, <3>4, MoveType DEF TypeInv
  <2>2. CASE Moves(r, "policy", Rest) /\ UNCHANGED candidates
    <3>1. RowsOK' /\ FaultsOK'
      BY <1>1, <2>2 DEF TypeInv, RowsOK, FaultsOK, Capture, faultVars
    <3>2. Fits("policy", Rest, candidates') /\ "policy" \in Steps
      BY DEF Fits, Steps
    <3> QED BY <2>2, <3>1, <3>2, RestFits, MoveType DEF TypeInv
  <2> QED BY <1>1, <2>1, <2>2 DEF Capture
<1>2. CASE ClearSelected(r)
  <2>1. RowsOK' /\ FaultsOK' /\ candidates' = candidates
    BY <1>2 DEF TypeInv, RowsOK, FaultsOK, ClearSelected, faultVars
  <2>2. Fits("choose", req[r], candidates') /\ "choose" \in Steps
    BY <1>0, <1>2, <2>1 DEF Fits, Steps, ClearSelected
  <2> QED BY <1>2, <2>1, <2>2, GotoType DEF ClearSelected, TypeInv
<1>3. CASE SetSelected(r)
  <2>1. RowsOK' /\ FaultsOK' /\ candidates' = candidates
    BY <1>0, <1>3 DEF TypeInv, RowsOK, FaultsOK, SetSelected, faultVars, Fits
  <2>2. Fits("policy", Rest, candidates') /\ "policy" \in Steps
    BY DEF Fits, Steps
  <2>3. Moves(r, "policy", Rest) \/ Ends(r)
    BY <1>3 DEF SetSelected
  <2> QED BY <2>1, <2>2, <2>3, RestFits, MoveType, EndType DEF TypeInv
<1>4. CASE Policy(r)
  <2>1. RowsOK' /\ FaultsOK' /\ candidates' = candidates
    BY <1>4 DEF TypeInv, RowsOK, FaultsOK, Policy, rowVars, candidateVars, faultVars
  <2> DEFINE w == [Rest EXCEPT !.task = "approve"]
  <2>2. w \in Request /\ Fits("both", w, candidates') /\ "both" \in Steps
    BY RestFits DEF Request, Fits, Steps, Rest, Modes
  <2>3. Ends(r) \/ Moves(r, "both", w)
    BY <1>4 DEF Policy
  <2> HIDE DEF w
  <2> QED BY <2>1, <2>2, <2>3, MoveType, EndType DEF TypeInv
<1>5. CASE Approve(r)
  <2>1. RowsOK' /\ FaultsOK' /\ candidates' = candidates
    BY <1>5 DEF TypeInv, RowsOK, FaultsOK, Approve, candidateVars, faultVars,
       DesignRows, DesignStates, NoDesign, IssueStatuses, PreProduction
  <2> QED BY <1>5, <2>1, EndType DEF Approve, TypeInv
<1> QED BY <1>1, <1>2, <1>3, <1>4, <1>5

(* The archived artwork is a candidate row of its own.                       *)
LEMMA ArchivedType == RowsOK => Archived \subseteq CandidateRows
BY DEF RowsOK, Archived, CandidateRows, DesignRows, NoDesign

(* The owner's operations.                                                   *)
LEMMA OwnerType ==
  ASSUME TypeInv, NEW r \in Requests,
         \/ \E k \in Keys : PrepareRetry(r, k) \/ \E m \in Modes : PrepareRework(r, k, m)
         \/ \E u \in Uploads : PrepareUpload(r, u)
         \/ RefuseUpload(r) \/ Enqueue(r) \/ PutUpload(r) \/ SaveUpload(r)
  PROVE  TypeInv'
<1>0. req[r] \in Request /\ Fits(step[r], req[r], candidates) /\ Reserved \in DesignRows
  BY DEF TypeInv, RequestsOK, Reserved, DesignRows, DesignStates
<1>1. ASSUME NEW k \in Keys, NEW m \in Modes,
             Begins(r, "enqueue", [Rest EXCEPT !.mode = m, !.key = k]),
             candidates \subseteq candidates'
      PROVE  RequestsOK'
  <2> DEFINE w == [Rest EXCEPT !.mode = m, !.key = k]
  <2>1. w \in Request /\ Fits("enqueue", w, candidates') /\ "enqueue" \in Steps
    BY RestFits DEF Request, Fits, Steps, Rest, JobKeys
  <2>2. Begins(r, "enqueue", w)
    BY <1>1
  <2> HIDE DEF w
  <2> QED BY <1>1, <2>1, <2>2, BeginsType DEF TypeInv
<1>2. ASSUME design.state # "NONE", design' = [design EXCEPT !.state = "QUEUED"]
      PROVE  design' \in DesignRows
  BY <1>2 DEF TypeInv, RowsOK, DesignRows, DesignStates, NoDesign
<1>3. ASSUME NEW k \in Keys, PrepareRetry(r, k) PROVE TypeInv'
  <2>1. RowsOK' /\ FaultsOK' /\ candidates' = candidates
    BY <1>3, <1>2 DEF TypeInv, RowsOK, FaultsOK, PrepareRetry, candidateVars, faultVars
  <2>2. "reinterpret" \in Modes
    BY DEF Modes
  <2> QED BY <1>1, <1>3, <2>1, <2>2 DEF PrepareRetry, TypeInv
<1>4. ASSUME NEW k \in Keys, NEW m \in Modes, PrepareRework(r, k, m) PROVE TypeInv'
  <2>1. RowsOK' /\ FaultsOK' /\ candidates \subseteq candidates'
    <3>1. design' \in DesignRows /\ Archived \subseteq CandidateRows
      BY <1>4, <1>2, ArchivedType DEF PrepareRework, CanRework, TypeInv
    <3> QED BY <1>4, <3>1 DEF TypeInv, RowsOK, FaultsOK, PrepareRework, faultVars,
            IssueStatuses, PreProduction
  <2> QED BY <1>1, <1>4, <2>1 DEF PrepareRework, TypeInv
<1>5. ASSUME NEW u \in Uploads, PrepareUpload(r, u) PROVE TypeInv'
  <2>1. RowsOK' /\ FaultsOK' /\ candidates' = candidates
    BY <1>0, <1>5 DEF TypeInv, RowsOK, FaultsOK, PrepareUpload, candidateVars, faultVars,
       IssueStatuses, PreProduction
  <2> DEFINE w == [Rest EXCEPT !.task = "upload", !.key = u]
  <2>2. w \in Request /\ Fits("putUpload", w, candidates') /\ "putUpload" \in Steps
    BY RestFits DEF Request, Fits, Steps, Rest
  <2>3. Begins(r, "putUpload", w)
    BY <1>5 DEF PrepareUpload
  <2> HIDE DEF w
  <2> QED BY <2>1, <2>2, <2>3, BeginsType DEF TypeInv
<1>6. CASE RefuseUpload(r)
  <2>1. RowsOK' /\ FaultsOK' /\ candidates' = candidates
    BY <1>6 DEF TypeInv, RowsOK, FaultsOK, RefuseUpload, rowVars, candidateVars, faultVars
  <2> QED BY <1>6, <2>1, EndType DEF RefuseUpload, TypeInv
<1>7. CASE Enqueue(r)
  <2>1. RowsOK' /\ FaultsOK' /\ candidates' = candidates
    BY <1>7 DEF TypeInv, RowsOK, FaultsOK, Enqueue, rowVars, candidateVars, faultVars
  <2>2. [mode |-> req[r].mode, key |-> req[r].key] \in Jobs
    BY <1>0, <1>7 DEF Enqueue, Fits, Jobs, JobKeys, Modes
  <2>3. Rest \in Request /\ "idle" \in Steps /\ Fits("idle", Rest, candidates)
    BY RestFits
  <2>4. RequestsOK'
    BY <1>7, <2>1, <2>2, <2>3 DEF Enqueue, TypeInv, RequestsOK
  <2> QED BY <2>1, <2>4 DEF TypeInv
<1>8. CASE PutUpload(r)
  <2>1. RowsOK' /\ FaultsOK' /\ candidates' = candidates
    BY <1>0, <1>8 DEF TypeInv, RowsOK, FaultsOK, PutUpload, candidateVars, faultVars,
       Artworks, Fits
  <2>2. Fits("saveUpload", req[r], candidates') /\ "saveUpload" \in Steps
    BY <1>0, <1>8 DEF Fits, Steps, PutUpload
  <2> QED BY <1>8, <2>1, <2>2, GotoType DEF PutUpload, TypeInv
<1>9. CASE SaveUpload(r)
  <2> DEFINE c == [key |-> req[r].key, artwork |-> req[r].key]
  <2>1. /\ c \in CandidateRows /\ c.artwork \in Artworks
        /\ [state |-> "REVIEW", artwork |-> c.artwork] \in DesignRows
    BY <1>0, <1>9 DEF SaveUpload, Fits, CandidateRows, Artworks, DesignRows, DesignStates
  <2>2. \/ /\ candidates' = candidates \cup Archived \cup {c} /\ selected' = c
           /\ design' = [state |-> "REVIEW", artwork |-> c.artwork]
           /\ status' = "DESIGN_REVIEW" /\ Moves(r, "policy", Rest)
        \/ Ends(r) /\ UNCHANGED <<status, design, candidateVars>>
    BY <1>9 DEF SaveUpload
  <2>3. UNCHANGED <<mfg, objects, faultVars>>
    BY <1>9 DEF SaveUpload
  <2> HIDE DEF c
  <2>4. RowsOK' /\ FaultsOK' /\ candidates \subseteq candidates'
    BY <2>1, <2>2, <2>3, ArchivedType DEF TypeInv, RowsOK, FaultsOK, candidateVars, faultVars,
       IssueStatuses, PreProduction
  <2>5. Fits("policy", Rest, candidates') /\ "policy" \in Steps
    BY DEF Fits, Steps
  <2> QED BY <2>2, <2>4, <2>5, RestFits, MoveType, EndType DEF TypeInv
<1> QED BY <1>3, <1>4, <1>5, <1>6, <1>7, <1>8, <1>9

(* What happens to the Issue without a request of the design side.           *)
LEMMA OutsideType ==
  ASSUME TypeInv,
         \/ DispatchAuto \/ DispatchManual \/ RefusedUnselects
         \/ \E c \in candidates : SelectCandidate(c)
         \/ Stop \/ ReserveDraft \/ AttachDraft
  PROVE  TypeInv'
<1>1. CASE DispatchAuto
  <2>1. [mode |-> "reinterpret", key |-> Initial] \in Jobs
    BY DEF Jobs, Modes
  <2> QED BY <1>1, <2>1 DEF DispatchAuto, TypeInv, RowsOK, RequestsOK, FaultsOK,
          rowVars, candidateVars, faultVars
<1>2. CASE ~DispatchAuto
  <2>1. RequestsOK' /\ FaultsOK'
    BY <1>2 DEF TypeInv, RequestsOK, FaultsOK, DispatchManual, RefusedUnselects,
       SelectCandidate, Stop, ReserveDraft, AttachDraft, candidateVars, requestVars, faultVars
  <2>2. CASE DispatchManual \/ Stop \/ ReserveDraft \/ AttachDraft \/ RefusedUnselects
    BY <2>2, <2>1 DEF TypeInv, RowsOK, DispatchManual, RefusedUnselects, Stop, ReserveDraft,
       AttachDraft, candidateVars, IssueStatuses, PreProduction, Started, Reserved,
       DesignRows, DesignStates
  <2>3. ASSUME NEW c \in candidates, SelectCandidate(c) PROVE TypeInv'
    <3>1. [state |-> "REVIEW", artwork |-> c.artwork] \in DesignRows
      BY DEF TypeInv, RowsOK, CandidateRows, DesignRows, DesignStates
    <3> QED BY <2>1, <2>3, <3>1 DEF TypeInv, RowsOK, SelectCandidate, IssueStatuses,
            PreProduction
  <2> QED BY <1>2, <2>2, <2>3
<1> QED BY <1>1, <1>2

(* No statement and no death writes anything ill typed.                      *)
LEMMA NextTypeInv == TypeInv /\ WorkInv /\ [Next]_vars => TypeInv'
<1> SUFFICES ASSUME TypeInv, WorkInv, [Next]_vars PROVE TypeInv'
  OBVIOUS
<1>1. ASSUME NEW r \in Requests, Die(r) PROVE TypeInv'
  BY <1>1, EndType, DesignAssumption DEF Die, TypeInv, RowsOK, FaultsOK, rowVars, candidateVars
<1>2. CASE UNCHANGED vars
  BY <1>2 DEF vars, rowVars, candidateVars, requestVars, faultVars, TypeInv, RowsOK,
     RequestsOK, FaultsOK
<1> QED BY <1>1, <1>2, ReadType, StartType, HandlerType, ReviewType, OwnerType, OutsideType
        DEF Next, Owner, Work

(* Statements outside the generating ones, by whether they can start work.   *)
Elsewhere(r) ==
  \/ FindJob(r) \/ LoadInput(r) \/ BeginDesign(r) \/ Refetch(r) \/ Capture(r)
  \/ ClearSelected(r) \/ SetSelected(r) \/ Policy(r) \/ Approve(r) \/ Enqueue(r)
  \/ PutUpload(r) \/ SaveUpload(r) \/ Owner(r) \/ Die(r)
  \/ \E j \in Jobs : StartHandler(r, j)

StaysOut(r) ==
  \E s \in Steps \ Working :
    /\ step' = [step EXCEPT ![r] = s]
    /\ \A q \in Requests \ {r} : req'[q] = req[q]
    /\ s = "saveUpload" => PutUpload(r)

(* No request starts to generate but by claiming the design.                 *)
LEMMA ElsewhereMoves ==
  ASSUME TypeInv, NEW r \in Requests, Elsewhere(r)
  PROVE  StaysOut(r)
<1>0. req[r] \in Request /\ Fits(step[r], req[r], candidates)
  BY DEF TypeInv, RequestsOK
<1> DEFINE Out == Steps \ (Working \cup {"saveUpload"})
<1>1. ASSUME NEW s \in Steps \ Working, \E w : Moves(r, s, w),
             s = "saveUpload" => PutUpload(r)
      PROVE  StaysOut(r)
  <2>1. req \in [Requests -> Request]
    BY DEF TypeInv, RequestsOK
  <2> QED BY <1>1, <2>1 DEF Moves, StaysOut
<1>2. ASSUME Ends(r) PROVE StaysOut(r)
  <2>1. "idle" \in Out
    BY DEF Steps, Working, Generating
  <2> QED BY <1>1, <1>2, <2>1 DEF Ends
<1>3. ASSUME NEW s \in Out, Follow(r, s) PROVE StaysOut(r)
  BY <1>1, <1>2, <1>3 DEF Follow
<1>4. CASE FindJob(r)
  <2> DEFINE w == [req[r] EXCEPT !.job = design]
  <2>1. w.task \in Modes \cup {"approve"} /\ w.task = req[r].task
    BY <1>0, <1>4 DEF FindJob, Fits, Request
  <2>2. Moves(r, "load", w) \/ Follow(r, Decides(w))
    BY <1>4 DEF FindJob
  <2> HIDE DEF w
  <2>3. Decides(w) \in Out /\ "load" \in Out
    BY DEF Decides, CreateForIssue, RegenerateArtwork, ApproveForManufacturing, Steps,
       Working, Generating
  <2> QED BY <2>2, <2>3, <1>1, <1>3
<1>5. CASE LoadInput(r)
  <2> DEFINE w == [req[r] EXCEPT !.seen = status]
  <2>2. Moves(r, "find", w) \/ Follow(r, Decides(w))
    BY <1>5 DEF LoadInput
  <2> HIDE DEF w
  <2>3. Decides(w) \in Out /\ "find" \in Out
    BY DEF Decides, CreateForIssue, RegenerateArtwork, ApproveForManufacturing, Steps,
       Working, Generating
  <2> QED BY <2>2, <2>3, <1>1, <1>3
<1>6. CASE BeginDesign(r) \/ Refetch(r) \/ Capture(r) \/ ClearSelected(r)
           \/ SetSelected(r) \/ Policy(r) \/ Approve(r) \/ Die(r)
  <2>1. {"load", "idle", "capture", "clear", "policy", "choose", "both"} \subseteq Out
    BY DEF Steps, Working, Generating
  <2> QED BY <1>6, <2>1, <1>1, <1>2, <1>3 DEF BeginDesign, LoadAgain, Refetch, Capture,
          ClearSelected, SetSelected, Policy, Approve, Die, Goto
<1>7. CASE Enqueue(r) \/ PutUpload(r) \/ SaveUpload(r) \/ Owner(r)
           \/ \E j \in Jobs : StartHandler(r, j)
  <2>1. /\ {"idle", "policy", "putUpload", "enqueue", "both", "find"} \subseteq Out
        /\ "saveUpload" \in Steps \ Working
    BY DEF Steps, Working, Generating
  <2>2. CASE Enqueue(r)
    BY <2>1, <2>2 DEF Enqueue, StaysOut, TypeInv, RequestsOK
  <2>3. CASE PutUpload(r)
    BY <2>1, <2>3, <1>1 DEF PutUpload, Goto
  <2> QED BY <1>7, <2>1, <2>2, <2>3, <1>1, <1>2 DEF SaveUpload, Owner, StartApprove,
          PrepareRetry, PrepareRework, PrepareUpload, RefuseUpload, StartHandler, Begins, Goto
<1> QED BY <1>4, <1>5, <1>6, <1>7 DEF Elsewhere

(* What a generating request does to the row, and where it goes.             *)
LEMMA GeneratingMoves ==
  ASSUME TypeInv, NEW r \in Requests, step[r] \in Working,
         \/ Generate(r) \/ ModelFails(r) \/ PutGenerated(r) \/ SaveGenerated(r)
         \/ MarkFailed(r)
  PROVE  \E s \in Steps :
           /\ step' = [step EXCEPT ![r] = s]
           /\ candidates' = candidates
           /\ s \in Working => UNCHANGED <<design, status>>
           /\ design.state # "NONE" => design'.state # "NONE"
<1>1. CASE Generate(r) \/ ModelFails(r) \/ PutGenerated(r)
  BY <1>1 DEF Generate, ModelFails, PutGenerated, Goto, Moves, Steps, Generating, Working,
     rowVars, candidateVars
<1>2. CASE SaveGenerated(r)
  BY <1>2 DEF SaveGenerated, Goto, Moves, Steps, Generating, Working, candidateVars
<1>3. CASE MarkFailed(r)
  BY <1>3 DEF MarkFailed, Ends, Moves, Steps, Generating, Working, candidateVars,
     TypeInv, RowsOK, DesignRows, NoDesign
<1> QED BY <1>1, <1>2, <1>3

(* A design job never goes away.                                             *)
LEMMA DesignStays ==
  ASSUME TypeInv, [Next]_vars, design.state # "NONE"
  PROVE  design'.state # "NONE"
<1>1. design \in DesignRows
  BY DEF TypeInv, RowsOK, NoDesign
<1>2. CASE DispatchManual \/ (\E c \in candidates : SelectCandidate(c))
  BY <1>2 DEF DispatchManual, Reserved, SelectCandidate
<1>3. ASSUME NEW r \in Requests,
             \/ BeginDesign(r) \/ Claim(r) \/ Approve(r) \/ SaveUpload(r) \/ SaveGenerated(r)
             \/ MarkFailed(r) \/ \E k \in Keys : PrepareRetry(r, k)
             \/ \E k \in Keys, m \in Modes : PrepareRework(r, k, m)
             \/ \E u \in Uploads : PrepareUpload(r, u)
      PROVE  design'.state # "NONE"
  <2>1. ASSUME NEW q \in {"INTERPRETING", "FAILED", "QUEUED", "APPROVED"},
               design' = [design EXCEPT !.state = q]
        PROVE  design'.state # "NONE"
    BY <1>1, <2>1 DEF DesignRows
  <2>2. CASE BeginDesign(r) \/ SaveGenerated(r)
    BY <2>2 DEF BeginDesign, SaveGenerated, Reserved
  <2>3. CASE \E u \in Uploads : PrepareUpload(r, u)
    BY <2>3 DEF PrepareUpload, Reserved
  <2>4. CASE SaveUpload(r)
    BY <2>4 DEF SaveUpload
  <2> QED BY <1>3, <2>1, <2>2, <2>3, <2>4 DEF Claim, Approve, MarkFailed, PrepareRetry, PrepareRework
<1>4. CASE UNCHANGED design
  BY <1>4
<1> QED BY <1>2, <1>3, <1>4 DEF Next, Owner, Work, DispatchAuto, RefusedUnselects, Stop,
        ReserveDraft, AttachDraft, StartHandler, StartApprove, RefuseUpload, FindJob, LoadInput,
        Refetch, Generate, PutGenerated, Capture, ClearSelected, SetSelected, Policy, Enqueue,
        PutUpload, ModelFails, Die, vars, rowVars

(* Whoever comes to write a failure has claimed a row.                       *)
LEMMA NextWorkInv == TypeInv /\ WorkInv /\ [Next]_vars => WorkInv'
<1> SUFFICES ASSUME TypeInv, WorkInv, [Next]_vars PROVE WorkInv'
  OBVIOUS
<1>1. step \in [Requests -> Steps] /\ (design.state # "NONE" => design'.state # "NONE")
  BY DesignStays DEF TypeInv, RequestsOK
<1>2. ASSUME NEW r \in Requests, Elsewhere(r) PROVE WorkInv'
  BY <1>1, <1>2, ElsewhereMoves DEF StaysOut, WorkInv
<1>3. ASSUME NEW r \in Requests, Claim(r) PROVE WorkInv'
  <2>1. CASE CanClaim
    BY <1>1, <1>3, <2>1 DEF CanClaim, WorkInv, Claim, Goto, Moves
  <2>2. CASE ~CanClaim
    BY <1>1, <1>3, <2>2 DEF WorkInv, Claim, Goto, Moves, Working, Generating
  <2> QED BY <2>1, <2>2
<1>4. ASSUME NEW r \in Requests, step[r] \in Working,
             \/ Generate(r) \/ ModelFails(r) \/ PutGenerated(r) \/ SaveGenerated(r)
             \/ MarkFailed(r)
      PROVE  WorkInv'
  BY <1>1, <1>4, GeneratingMoves DEF WorkInv
<1>5. CASE UNCHANGED step
  BY <1>1, <1>5 DEF WorkInv
<1>6. ASSUME NEW r \in Requests,
             \/ Generate(r) \/ ModelFails(r) \/ PutGenerated(r) \/ SaveGenerated(r)
             \/ MarkFailed(r)
      PROVE  step[r] \in Working
  BY <1>6 DEF Generate, ModelFails, PutGenerated, SaveGenerated, MarkFailed, Working, Generating
<1> QED BY <1>2, <1>3, <1>4, <1>5, <1>6 DEF Next, Work, Elsewhere, DispatchAuto, DispatchManual,
        RefusedUnselects, SelectCandidate, Stop, ReserveDraft, AttachDraft, vars, requestVars

(* At every reachable state each row of design_jobs, ops_design_candidates,  *)
(* issues and manufacturing_jobs, and every request, is well typed.          *)
THEOREM TypeCorrect == Spec => []TypeOK
<1>1. Init => WorkInv
  BY DEF Init, WorkInv, Working, Generating
<1>2. TypeInv => TypeOK
  BY TypeInvIsTypeOK
<1> QED BY <1>1, <1>2, InitTypeInv, NextTypeInv, NextWorkInv, PTL DEF Spec

(* The same with what the further proofs start from.                         *)
LEMMA TypeInvAlways == Spec => [](TypeInv /\ WorkInv)
<1>1. Init => WorkInv
  BY DEF Init, WorkInv, Working, Generating
<1> QED BY <1>1, InitTypeInv, NextTypeInv, NextWorkInv, PTL DEF Spec

(* A statement that leaves the rows of the Issue and the design alone.       *)
RowsKept == UNCHANGED <<status, design, mfg, objects, candidates>>

(* The statements that write those rows.                                     *)
Writes(r) ==
  \/ BeginDesign(r) \/ Claim(r) \/ PutGenerated(r) \/ SaveGenerated(r) \/ MarkFailed(r)
  \/ Capture(r) \/ Approve(r) \/ PutUpload(r) \/ SaveUpload(r)
  \/ \E k \in Keys : PrepareRetry(r, k) \/ \E m \in Modes : PrepareRework(r, k, m)
  \/ \E u \in Uploads : PrepareUpload(r, u)

(* Every step writes the rows by one of few statements.                      *)
LEMMA NextByRows ==
  ASSUME [Next]_vars
  PROVE  \/ RowsKept \/ DispatchManual \/ (\E c \in candidates : SelectCandidate(c))
         \/ Stop \/ ReserveDraft \/ AttachDraft \/ \E r \in Requests : Writes(r)
BY DEF Next, Work, Owner, RowsKept, Writes, DispatchAuto, RefusedUnselects, StartHandler,
   StartApprove, FindJob, LoadInput, Refetch, Generate, ModelFails, ClearSelected, SetSelected,
   Policy, Enqueue, RefuseUpload, Die, vars, rowVars, candidateVars

(* An approved Issue or one with a draft keeps its approved design.          *)
LEMMA NextApproved == TypeInv /\ ApprovedTogether /\ [Next]_vars => ApprovedTogether'
<1> SUFFICES ASSUME TypeInv, ApprovedTogether, [Next]_vars PROVE ApprovedTogether'
  OBVIOUS
<1>1. design \in DesignRows \cup {NoDesign}
  BY DEF TypeInv, RowsOK
<1>2. CASE RowsKept \/ Stop \/ ReserveDraft \/ AttachDraft \/ DispatchManual
  BY <1>2 DEF ApprovedTogether, RowsKept, Stop, ReserveDraft, AttachDraft, DispatchManual
<1>3. CASE \E c \in candidates : SelectCandidate(c)
  BY <1>3 DEF ApprovedTogether, SelectCandidate
<1>4. ASSUME NEW r \in Requests, Writes(r) PROVE ApprovedTogether'
  <2>1. CASE BeginDesign(r) \/ Claim(r) \/ PutGenerated(r) \/ SaveGenerated(r)
    BY <2>1 DEF ApprovedTogether, BeginDesign, Claim, CanClaim, PutGenerated, SaveGenerated
  <2>2. CASE MarkFailed(r) \/ Capture(r)
    BY <2>2 DEF ApprovedTogether, MarkFailed, Capture
  <2>3. CASE Approve(r)
    BY <1>1, <2>3 DEF ApprovedTogether, Approve, DesignRows, NoDesign
  <2>4. CASE PutUpload(r)
    BY <2>4 DEF ApprovedTogether, PutUpload
  <2>5. CASE SaveUpload(r)
    BY <2>5 DEF ApprovedTogether, SaveUpload
  <2>6. CASE \E k \in Keys : PrepareRetry(r, k) \/ \E m \in Modes : PrepareRework(r, k, m)
    BY <2>6 DEF ApprovedTogether, PrepareRetry, PrepareRework
  <2>7. CASE \E u \in Uploads : PrepareUpload(r, u)
    BY <2>7 DEF ApprovedTogether, PrepareUpload, NoDesign
  <2> QED BY <1>4, <2>1, <2>2, <2>3, <2>4, <2>5, <2>6, <2>7 DEF Writes
<1> QED BY <1>2, <1>3, <1>4, NextByRows

(* A design-approved Issue, or one with a factory draft, has an approved     *)
(* design: late workers, uploads, reworks and selections included.           *)
THEOREM ApprovalHolds == Spec => []ApprovedTogether
<1>1. Init => ApprovedTogether
  BY DEF Init, ApprovedTogether
<1> QED BY <1>1, TypeInvAlways, NextApproved, PTL DEF Spec

(* Whoever is about to save artwork has stored it.                           *)
SavesStored ==
  \A r \in Requests :
    /\ step[r] = "save" => Generated \in objects
    /\ step[r] = "saveUpload" => req[r].key \in objects
StoredInv == StoredBeforeReview /\ SavesStored

(* A statement after which its request is not about to save.                 *)
LEMMA OthersSave ==
  ASSUME TypeInv, SavesStored, NEW r \in Requests, NEW s \in Steps, NEW w,
         Moves(r, s, w), objects \subseteq objects',
         s = "save" => Generated \in objects', s = "saveUpload" => w.key \in objects'
  PROVE  SavesStored'
<1>1. step \in [Requests -> Steps] /\ req \in [Requests -> Request]
  BY DEF TypeInv, RequestsOK
<1> QED BY <1>1 DEF SavesStored, Moves

(* Artwork is put before it is saved, and never deleted.                     *)
LEMMA NextSaves == TypeInv /\ SavesStored /\ [Next]_vars => SavesStored'
<1> SUFFICES ASSUME TypeInv, SavesStored, [Next]_vars PROVE SavesStored'
  OBVIOUS
<1>1. /\ step \in [Requests -> Steps] /\ req \in [Requests -> Request]
      /\ "save" \in Working /\ "saveUpload" \in Steps
  BY DEF TypeInv, RequestsOK, Working, Generating, Steps
<1>2. objects \subseteq objects'
  BY DEF Next, Work, Owner, DispatchAuto, DispatchManual, RefusedUnselects, SelectCandidate,
     Stop, ReserveDraft, AttachDraft, StartHandler, StartApprove, PrepareRetry, PrepareRework,
     PrepareUpload, RefuseUpload, FindJob, LoadInput, BeginDesign, Claim, Refetch, Generate,
     PutGenerated, SaveGenerated, MarkFailed, Capture, ClearSelected, SetSelected, Policy,
     Approve, Enqueue, PutUpload, SaveUpload, ModelFails, Die, vars, rowVars
<1>3. ASSUME NEW r \in Requests, PutUpload(r) PROVE SavesStored'
  <2>1. req[r].key \in objects' /\ Moves(r, "saveUpload", req[r])
    BY <1>3 DEF PutUpload, Goto
  <2> QED BY <1>1, <1>2, <2>1, OthersSave
<1>4. ASSUME NEW r \in Requests, PutGenerated(r) PROVE SavesStored'
  <2>1. /\ Generated \in objects' /\ {"save", "fail"} \subseteq Steps
        /\ Moves(r, "save", req[r]) \/ Moves(r, "fail", req[r])
    BY <1>4 DEF PutGenerated, Goto, Steps, Generating
  <2> QED BY <1>2, <2>1, OthersSave
<1>5. ASSUME NEW r \in Requests, Claim(r) \/ Generate(r) \/ ModelFails(r)
                                 \/ SaveGenerated(r) \/ MarkFailed(r)
      PROVE  SavesStored'
  <2>1. {"generate", "refetch", "put", "fail", "capture", "idle"} \subseteq Steps
    BY DEF Steps, Generating
  <2>2. \E s \in {"generate", "refetch", "put", "fail", "capture", "idle"} : \E w : Moves(r, s, w)
    BY <1>5 DEF Claim, Generate, ModelFails, SaveGenerated, MarkFailed, Goto, Ends
  <2> QED BY <1>2, <2>1, <2>2, OthersSave
<1>6. ASSUME NEW r \in Requests, Elsewhere(r), ~PutUpload(r) PROVE SavesStored'
  BY <1>1, <1>2, <1>6, ElsewhereMoves DEF SavesStored, StaysOut
<1>7. CASE UNCHANGED <<step, req>>
  BY <1>1, <1>2, <1>7 DEF SavesStored
<1> QED BY <1>3, <1>4, <1>5, <1>6, <1>7 DEF Next, Work, Elsewhere, DispatchAuto, DispatchManual,
        RefusedUnselects, SelectCandidate, Stop, ReserveDraft, AttachDraft, vars, requestVars

(* Archiving, selecting and capturing copy locators that are stored.         *)
LEMMA NextStored == TypeInv /\ StoredInv /\ [Next]_vars => StoredInv'
<1> SUFFICES ASSUME TypeInv, StoredBeforeReview, SavesStored, [Next]_vars
             PROVE  StoredBeforeReview'
  BY NextSaves DEF StoredInv
<1>1. /\ design \in DesignRows \cup {NoDesign}
      /\ \A c \in Archived : c.artwork \in objects
  BY DEF TypeInv, RowsOK, Archived, StoredBeforeReview
<1>2. CASE RowsKept \/ Stop \/ ReserveDraft \/ AttachDraft \/ DispatchManual
  BY <1>1, <1>2 DEF StoredBeforeReview, RowsKept, Stop, ReserveDraft, AttachDraft,
     DispatchManual, Reserved, candidateVars
<1>3. CASE \E c \in candidates : SelectCandidate(c)
  BY <1>1, <1>3 DEF StoredBeforeReview, SelectCandidate
<1>4. ASSUME NEW r \in Requests, Writes(r) PROVE StoredBeforeReview'
  <2>1. CASE BeginDesign(r) \/ PutGenerated(r) \/ PutUpload(r)
    BY <1>1, <2>1 DEF StoredBeforeReview, BeginDesign, PutGenerated, PutUpload, Reserved,
       candidateVars
  <2>2. CASE SaveGenerated(r)
    <3>1. step[r] = "save" /\ objects' = objects /\ candidates' = candidates
      BY <2>2 DEF SaveGenerated, candidateVars
    <3>2. Generated \in objects
      BY <1>1, <3>1 DEF SavesStored
    <3>3. design' = [state |-> "REVIEW", artwork |-> Generated] \/ design' = design
      BY <2>2 DEF SaveGenerated
    <3>4. design'.artwork = Generated \/ design' = design
      BY <3>3
    <3> QED BY <1>1, <3>1, <3>2, <3>4 DEF StoredBeforeReview
  <2>3. CASE Capture(r)
    <3>1. \/ UNCHANGED candidates
          \/ /\ design.artwork # Absent
             /\ candidates' = candidates \cup {[key |-> req[r].key, artwork |-> design.artwork]}
      BY <2>3 DEF Capture
    <3> QED BY <1>1, <2>3, <3>1 DEF StoredBeforeReview, Capture
  <2>4. ASSUME NEW q \in DesignStates, design' = [design EXCEPT !.state = q],
               candidates' \subseteq candidates \cup Archived, UNCHANGED objects
        PROVE  StoredBeforeReview'
    <3>1. design'.artwork = design.artwork
      BY <1>1, <2>4 DEF DesignRows, NoDesign
    <3> QED BY <1>1, <2>4, <3>1 DEF StoredBeforeReview
  <2>5. CASE UNCHANGED <<design, objects, candidates>>
    BY <1>1, <2>5 DEF StoredBeforeReview
  <2>6. CASE SaveUpload(r)
    <3>1. CASE CanSaveUpload
      BY <1>1, <2>6, <3>1 DEF StoredBeforeReview, SavesStored, SaveUpload
    <3> QED BY <2>5, <2>6, <3>1 DEF SaveUpload, candidateVars
  <2>7. CASE \E u \in Uploads : PrepareUpload(r, u)
    BY <1>1, <2>7 DEF StoredBeforeReview, PrepareUpload, Reserved, candidateVars
  <2>8. CASE Claim(r) \/ MarkFailed(r) \/ Approve(r)
             \/ \E k \in Keys : PrepareRetry(r, k) \/ \E m \in Modes : PrepareRework(r, k, m)
    <3>1. {"INTERPRETING", "FAILED", "APPROVED", "QUEUED"} \subseteq DesignStates
      BY DEF DesignStates
    <3> QED BY <2>8, <2>4, <2>5, <3>1 DEF Claim, MarkFailed, Approve, PrepareRetry,
            PrepareRework, candidateVars
  <2> QED BY <1>4, <2>1, <2>2, <2>6, <2>7, <2>8, <2>3 DEF Writes
<1> QED BY <1>2, <1>3, <1>4, NextByRows

(* No row ever points at artwork that is not durably stored.                 *)
THEOREM ArtworkStored == Spec => []StoredBeforeReview
<1>1. Init => StoredInv
  BY DEF Init, StoredInv, StoredBeforeReview, SavesStored, NoDesign
<1>2. StoredInv => StoredBeforeReview
  BY DEF StoredInv
<1> QED BY <1>1, <1>2, TypeInvAlways, NextStored, PTL DEF Spec

NoUpload == \A c \in candidates : c.artwork = Generated

(* While the owner has not uploaded, the request that works on the design is *)
(* alone, the design is INTERPRETING, and the Issue waits for it or stopped. *)
SoleInv ==
  NoUpload => \A r \in Requests : step[r] \in Working =>
    /\ design.state = "INTERPRETING" /\ status \in {"BEING_INTERPRETED", "EXCEPTION"}
    /\ \A q \in Requests : step[q] \in Working => q = r

(* What a step that starts no work leaves to those who work.                 *)
KeepsWork ==
  (design.state = "INTERPRETING" /\ status \in {"BEING_INTERPRETED", "EXCEPTION"})
    => design'.state = "INTERPRETING" /\ status' \in {"BEING_INTERPRETED", "EXCEPTION"}

(* A step that starts no work leaves the one at work alone.                  *)
LEMMA SoleStep ==
  ASSUME TypeInv, SoleInv, NoUpload' => KeepsWork, candidates \subseteq candidates',
         UNCHANGED step \/ \E r \in Requests, s \in Steps \ Working : step' = [step EXCEPT ![r] = s]
  PROVE  SoleInv'
<1>1. step \in [Requests -> Steps]
  BY DEF TypeInv, RequestsOK
<1>2. NoUpload' => NoUpload
  BY DEF NoUpload
<1> QED BY <1>1, <1>2 DEF SoleInv, KeepsWork

(* Claiming needs a design nobody works on, and ends with the work.          *)
LEMMA NextSole == TypeInv /\ SoleInv /\ [Next]_vars => SoleInv'
<1> SUFFICES ASSUME TypeInv, SoleInv, [Next]_vars PROVE SoleInv'
  OBVIOUS
<1>1. step \in [Requests -> Steps] /\ design \in DesignRows \cup {NoDesign}
  BY DEF TypeInv, RequestsOK, RowsOK
<1>2. candidates \subseteq candidates'
  BY DEF Next, Work, Owner, DispatchAuto, DispatchManual, RefusedUnselects, SelectCandidate,
     Stop, ReserveDraft, AttachDraft, StartHandler, StartApprove, PrepareRetry, PrepareRework,
     PrepareUpload, RefuseUpload, FindJob, LoadInput, BeginDesign, Claim, Refetch, Generate,
     PutGenerated, SaveGenerated, MarkFailed, Capture, ClearSelected, SetSelected, Policy,
     Approve, Enqueue, PutUpload, SaveUpload, ModelFails, Die, vars, rowVars, candidateVars
<1>3. CASE DispatchAuto \/ DispatchManual \/ RefusedUnselects \/ Stop \/ ReserveDraft
           \/ AttachDraft \/ UNCHANGED vars \/ \E c \in candidates : SelectCandidate(c)
  <2>1. KeepsWork /\ UNCHANGED step
    BY <1>3 DEF KeepsWork, DispatchAuto, DispatchManual, RefusedUnselects, Stop, ReserveDraft,
       AttachDraft, SelectCandidate, CanSelect, Reviewable, NoDesign, requestVars, rowVars, vars
  <2> QED BY <1>2, <2>1, SoleStep
<1>4. ASSUME NEW r \in Requests, Elsewhere(r) PROVE SoleInv'
  <2> SUFFICES NoUpload' => KeepsWork
    BY <1>2, <1>4, ElsewhereMoves, SoleStep DEF StaysOut
  <2>1. CASE \E u \in Uploads : PrepareUpload(r, u)
    BY <2>1 DEF KeepsWork, PrepareUpload, NoDesign
  <2>2. CASE SaveUpload(r)
    <3>1. CASE CanSaveUpload
      <4>1. req[r].key \in Uploads /\ Generated \notin Uploads
        BY <2>2, DesignAssumption DEF TypeInv, RequestsOK, Fits, SaveUpload
      <4>2. [key |-> req[r].key, artwork |-> req[r].key] \in candidates'
        BY <2>2, <3>1 DEF SaveUpload
      <4> QED BY <4>1, <4>2 DEF NoUpload
    <3>2. CASE ~CanSaveUpload
      BY <2>2, <3>2 DEF SaveUpload, KeepsWork
    <3> QED BY <3>1, <3>2
  <2>3. CASE BeginDesign(r)
    BY <2>3 DEF BeginDesign, KeepsWork, NoDesign
  <2>4. CASE Approve(r)
    BY <2>4 DEF Approve, KeepsWork
  <2>5. CASE \E k \in Keys : PrepareRetry(r, k) \/ \E m \in Modes : PrepareRework(r, k, m)
    BY <2>5 DEF KeepsWork, PrepareRetry, PrepareRework, CanRework
  <2>6. CASE UNCHANGED <<design, status>>
    BY <2>6 DEF KeepsWork
  <2> QED BY <1>4, <2>1, <2>2, <2>3, <2>4, <2>5, <2>6 DEF Elsewhere, Owner, StartHandler,
          StartApprove, RefuseUpload, FindJob, LoadInput, Refetch, Capture, ClearSelected,
          SetSelected, Policy, Enqueue, PutUpload, Die, rowVars
<1>5. ASSUME NEW r \in Requests, Claim(r) PROVE SoleInv'
  <2>1. CASE CanClaim
    <3>1. /\ step' = [step EXCEPT ![r] = "generate"] /\ "generate" \in Working
          /\ design' = [design EXCEPT !.state = "INTERPRETING"]
          /\ status' = "BEING_INTERPRETED" /\ UNCHANGED candidates
          /\ design.state # "INTERPRETING"
      BY <1>5, <2>1 DEF Claim, CanClaim, Goto, Moves, Working, Generating, candidateVars
    <3>2. design'.state = "INTERPRETING"
      BY <1>1, <3>1 DEF DesignRows, NoDesign
    <3>3. NoUpload' <=> NoUpload
      BY <3>1 DEF NoUpload
    <3> QED BY <1>1, <3>1, <3>2, <3>3 DEF SoleInv
  <2>2. CASE ~CanClaim
    <3>1. KeepsWork /\ "refetch" \in Steps \ Working /\ step' = [step EXCEPT ![r] = "refetch"]
      BY <1>5, <2>2 DEF Claim, KeepsWork, Goto, Moves, Steps, Working, Generating
    <3> QED BY <1>2, <3>1, SoleStep
  <2> QED BY <2>1, <2>2
<1>6. ASSUME NEW r \in Requests,
             \/ Generate(r) \/ ModelFails(r) \/ PutGenerated(r) \/ SaveGenerated(r)
             \/ MarkFailed(r)
      PROVE  SoleInv'
  <2>1. step[r] \in Working
    BY <1>6 DEF Generate, ModelFails, PutGenerated, SaveGenerated, MarkFailed, Working, Generating
  <2>2. PICK s \in Steps : /\ step' = [step EXCEPT ![r] = s] /\ candidates' = candidates
                           /\ s \in Working => UNCHANGED <<design, status>>
    BY <1>6, <2>1, GeneratingMoves
  <2>3. NoUpload' <=> NoUpload
    BY <2>2 DEF NoUpload
  <2> QED BY <1>1, <2>1, <2>2, <2>3 DEF SoleInv
<1> QED BY <1>3, <1>4, <1>5, <1>6 DEF Next, Work, Elsewhere

(* As long as the owner has uploaded nothing, at most one handler pays for a *)
(* model run, however many run at once.                                      *)
THEOREM GenerationExclusive == Spec => []ExclusiveGeneration
<1>1. Init => SoleInv
  BY DEF Init, SoleInv, Working, Generating
<1>2. SoleInv => ExclusiveGeneration
  BY DEF SoleInv, ExclusiveGeneration, NoUpload, Working
<1> QED BY <1>1, <1>2, TypeInvAlways, NextSole, PTL DEF Spec

(* A stopped Issue and one with the factory keeps its artwork.               *)
LEMMA FrozenStep ==
  ASSUME TypeInv, [Next]_vars, status \notin DesignPhase
  PROVE  design'.artwork = design.artwork
<1>1. design \in DesignRows \cup {NoDesign}
  BY DEF TypeInv, RowsOK
<1>2. ASSUME NEW q, design' = [design EXCEPT !.state = q]
      PROVE  design'.artwork = design.artwork
  BY <1>1, <1>2 DEF DesignRows, NoDesign
<1>3. CASE RowsKept \/ Stop \/ ReserveDraft \/ AttachDraft \/ DispatchManual
  BY <1>3 DEF RowsKept, Stop, ReserveDraft, AttachDraft, DispatchManual, NoDesign, Reserved
<1>4. CASE \E c \in candidates : SelectCandidate(c)
  BY <1>4 DEF SelectCandidate, CanSelect, Reviewable, DesignPhase
<1>5. ASSUME NEW r \in Requests, Writes(r) PROVE design'.artwork = design.artwork
  <2>1. CASE BeginDesign(r)
    BY <2>1 DEF BeginDesign, NoDesign, Reserved
  <2>2. CASE SaveGenerated(r)
    BY <2>2 DEF SaveGenerated, CanSave, DesignPhase
  <2>3. CASE SaveUpload(r)
    BY <2>3 DEF SaveUpload, CanSaveUpload
  <2>4. CASE PutGenerated(r) \/ PutUpload(r) \/ Capture(r)
    BY <2>4 DEF PutGenerated, PutUpload, Capture
  <2>5. CASE \E u \in Uploads : PrepareUpload(r, u)
    BY <2>5 DEF PrepareUpload
  <2>6. CASE Claim(r) \/ MarkFailed(r) \/ Approve(r)
    BY <1>2, <2>6 DEF Claim, MarkFailed, Approve
  <2>7. CASE \E k \in Keys : PrepareRetry(r, k) \/ \E m \in Modes : PrepareRework(r, k, m)
    BY <1>2, <2>7 DEF PrepareRetry, PrepareRework
  <2> QED BY <1>5, <2>1, <2>2, <2>3, <2>4, <2>5, <2>6, <2>7 DEF Writes
<1> QED BY <1>3, <1>4, <1>5, NextByRows

(* No late worker, upload or selection replaces the artwork of an Issue that *)
(* a refund, a quarantine or the factory has taken out of design.            *)
THEOREM StoppedFrozen == Spec => StoppedDesignIsFrozen
<1>1. TypeInv /\ [Next]_vars => [status \notin DesignPhase => design'.artwork = design.artwork]_vars
  BY FrozenStep
<1> QED BY <1>1, TypeInvAlways, PTL DEF Spec, StoppedDesignIsFrozen

(* Every write of issues.status is one its trigger accepts.                  *)
LEMMA LegalStep ==
  ASSUME TypeInv, [Next]_vars
  PROVE  Legal(status, status', mfg \in Started)
<1>1. CASE UNCHANGED status
  BY <1>1 DEF Legal
<1>2. CASE Stop
  BY <1>2 DEF Stop, Legal, Leaves
<1>3. CASE AttachDraft \/ DispatchManual \/ \E r \in Requests :
             BeginDesign(r) \/ SaveGenerated(r) \/ Approve(r)
  BY <1>3 DEF AttachDraft, DispatchManual, BeginDesign, SaveGenerated, CanSave, Approve,
     Legal, NextStage
<1>4. CASE \E c \in candidates : SelectCandidate(c)
  BY <1>4 DEF SelectCandidate, CanSelect, Reviewable, Replaceable, Legal, Reworks
<1>5. ASSUME NEW r \in Requests, SaveUpload(r) PROVE Legal(status, status', mfg \in Started)
  BY <1>1, <1>5 DEF SaveUpload, CanSaveUpload, DesignPhase, Replaceable, Legal, Reworks, NextStage
<1>6. ASSUME NEW r \in Requests, NEW u \in Uploads, PrepareUpload(r, u)
      PROVE  Legal(status, status', mfg \in Started)
  BY <1>6 DEF PrepareUpload, Legal, NextStage
<1>7. ASSUME NEW r \in Requests, NEW k \in Keys,
             PrepareRetry(r, k) \/ \E m \in Modes : PrepareRework(r, k, m)
      PROVE  Legal(status, status', mfg \in Started)
  BY <1>1, <1>7 DEF PrepareRetry, PrepareRework, CanRework, Reviewable, Replaceable, Legal, Reworks
<1>8. CASE RowsKept \/ ReserveDraft \/ \E r \in Requests :
             Claim(r) \/ PutGenerated(r) \/ MarkFailed(r) \/ Capture(r) \/ PutUpload(r)
  BY <1>1, <1>8 DEF RowsKept, ReserveDraft, Claim, PutGenerated, MarkFailed, Capture, PutUpload
<1> QED BY <1>2, <1>3, <1>4, <1>5, <1>6, <1>7, <1>8, NextByRows DEF Writes

(* None of the design statements is ever aborted by the Issue trigger.       *)
THEOREM TransitionsLegal == Spec => MovesAreLegal
<1>1. TypeInv /\ [Next]_vars => [Legal(status, status', mfg \in Started)]_vars
  BY LegalStep
<1> QED BY <1>1, TypeInvAlways, PTL DEF Spec, MovesAreLegal
=============================================================================
