---------------------------- MODULE DesignerPanel ---------------------------
(***************************************************************************)
(* The owner's design studio in the browser: one Issue is selected, its    *)
(* candidates, its policy and - once revealed - its customer's answers are *)
(* on the screen, and answers of the server arrive in any order while the  *)
(* owner moves on to another Issue.  What is shown is named by the Issue   *)
(* it belongs to.  The list of Issues polls on its own; it is left out.    *)
(***************************************************************************)
EXTENDS NoValue, Naturals

CONSTANTS
  StudioIssues,
  MaxStudioChoices  \* bound on selections

VARIABLES
  selected,   \* the Issue on the screen
  selection,  \* selectionRequest: counts selections
  shown,      \* what belongs to which Issue: candidates, policy, answers, file
  details,    \* detail requests on their way, of which selection and Issue
  action      \* the one action the buttons allow at a time

studioVars == <<selected, selection, shown, details, action>>

Parts == {"candidates", "policy", "answers", "file"}
NoAction == [kind |-> "none", selection |-> 0, issue |-> None, of |-> None, stage |-> "idle"]

StudioInit ==
  /\ selected = None
  /\ selection = 0
  /\ shown = [p \in Parts |-> None]
  /\ details = {}
  /\ action = NoAction

Working == action # NoAction

(* The answer is for the selection it was asked in.                          *)
Current(s) == s = selection

Cleared == [p \in Parts |-> None]
ClearOnChoose == Cleared

ChooseIssue(i) ==
  /\ selection < MaxStudioChoices
  /\ selection' = selection + 1
  /\ selected' = i
  /\ shown' = ClearOnChoose
  /\ details' = details \cup {[selection |-> selection + 1, issue |-> i]}
  /\ UNCHANGED action

(* Candidates and policy arrive together, or neither does.                   *)
DetailArrives(d) ==
  /\ details' = details \ {d}
  /\ shown' = IF Current(d.selection)
              THEN [shown EXCEPT !["candidates"] = d.issue, !["policy"] = d.issue]
              ELSE shown
  /\ UNCHANGED <<selected, selection, action>>

DetailFails(d) ==
  /\ details' = details \ {d}
  /\ UNCHANGED <<selected, selection, shown, action>>

(* An action of the selected Issue, or of the studio when none is selected.  *)
(* of is the Issue whose data the request carries: the override it extends,  *)
(* the candidate it selects, the file it uploads.                            *)
BeginAction(kind, of) ==
  /\ ~Working
  /\ action' = [kind |-> kind, selection |-> selection, issue |-> selected, of |-> of, stage |-> "send"]
  /\ UNCHANGED <<selected, selection, shown, details>>

Act == BeginAction("act", None)
SelectCandidate == shown["candidates"] # None /\ BeginAction("act", shown["candidates"])
SaveOverride == selected # None /\ shown["policy"] # None /\ BeginAction("override", shown["policy"])
Upload == selected # None /\ shown["file"] # None /\ BeginAction("upload", shown["file"])
Reveal == selected # None /\ BeginAction("reveal", None)

PickFile ==
  /\ selected # None /\ ~Working
  /\ shown' = [shown EXCEPT !["file"] = selected]
  /\ UNCHANGED <<selected, selection, details, action>>

HideAnswers ==
  /\ shown["answers"] # None
  /\ shown' = [shown EXCEPT !["answers"] = None]
  /\ UNCHANGED <<selected, selection, details, action>>

(* The server's answer to the action.  An upload clears the file whichever   *)
(* Issue it is of by then.                                                   *)
StudioAnswered ==
  /\ action.stage = "send"
  /\ shown' = CASE action.kind = "override" /\ Current(action.selection) ->
                     [shown EXCEPT !["policy"] = action.issue]
                [] action.kind = "reveal" /\ Current(action.selection) ->
                     [shown EXCEPT !["answers"] = action.issue]
                [] action.kind = "upload" -> [shown EXCEPT !["file"] = None]
                [] OTHER -> shown
  /\ action' = IF action.kind = "reveal" THEN NoAction ELSE [action EXCEPT !.stage = "refresh"]
  /\ UNCHANGED <<selected, selection, details>>

(* run: the list is read again, then the candidates of the Issue, if it is   *)
(* still the selected one when the list has come.                            *)
StudioRefreshed ==
  /\ action.stage = "refresh"
  /\ action' = IF action.selection = selection /\ action.issue # None
               THEN [action EXCEPT !.stage = "candidates"] ELSE NoAction
  /\ UNCHANGED <<selected, selection, shown, details>>

CandidatesArrive ==
  /\ action.stage = "candidates"
  /\ shown' = [shown EXCEPT !["candidates"] = action.issue]
  /\ action' = NoAction
  /\ UNCHANGED <<selected, selection, details>>

ActionFails ==
  /\ Working
  /\ action.stage # "refresh"
  /\ action' = NoAction
  /\ UNCHANGED <<selected, selection, shown, details>>

StudioNext ==
  \/ \E i \in StudioIssues : ChooseIssue(i)
  \/ \E d \in details : DetailArrives(d) \/ DetailFails(d)
  \/ Act \/ SelectCandidate \/ SaveOverride \/ Upload \/ Reveal \/ PickFile \/ HideAnswers
  \/ StudioAnswered \/ StudioRefreshed \/ CandidatesArrive \/ ActionFails

StudioSpec == StudioInit /\ [][StudioNext]_studioVars

-----------------------------------------------------------------------------
(* Properties.                                                               *)

(* The answers, the policy and the file on the screen are the selected       *)
(* Issue's, whatever arrives late: private answers are never shown under     *)
(* another Issue, and an override is never built from another one's.         *)
StudioShowsSelected ==
  /\ \A p \in {"policy", "answers", "file"} : shown[p] \in {None, selected}
  /\ action.kind \in {"override", "upload"} => action.of = action.issue

(* tests/e2e/designer-controls.spec.ts:177: "Reviewer action completion      *)
(* cannot repopulate a newly selected Issue with old candidates".            *)
CandidatesAreSelected == shown["candidates"] \in {None, selected}
=============================================================================
