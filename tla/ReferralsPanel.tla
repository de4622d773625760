--------------------------- MODULE ReferralsPanel ---------------------------
(***************************************************************************)
(* The owner's referral panel in the browser.  A payout's destination is   *)
(* revealed on request and shown beside the payout that is selected; the   *)
(* snapshot of creators and payouts is read again after every change, and  *)
(* once more after a creator is created, when the buttons work already.    *)
(* The server's side is ReferralLedger; here it is what a snapshot holds.  *)
(***************************************************************************)
EXTENDS NoValue, Integers

CONSTANTS
  Known,            \* creators who may earn payouts
  New,              \* a creator the owner may add, who has earned nothing yet
  MaxPanelPayouts,  \* bound on the payouts of a creator
  MaxPanelChoices   \* bound on changes of the selection

(* What the values of the constants must satisfy. *)
PanelAssumption == New \notin Known

AllCreators == Known \cup {New}

VARIABLES
  server,     \* the creators there are, and how many payouts each has
  snapshot,   \* the panel's copy
  selectedCreatorId,
  payoutId,   \* the payout chosen in the list, None for the newest
  revealed,   \* the payout whose destination is shown
  selectionGeneration,
  privateViewGeneration,
  working,
  panelCall,  \* the change or reveal on its way
  trailing    \* whether the second refresh of a creation is on its way

owner == <<selectedCreatorId, payoutId, revealed, selectionGeneration, privateViewGeneration>>
panelVars == <<server, snapshot, owner, working, panelCall, trailing>>

NoPanelCall == [kind |-> "none", selection |-> 0, view |-> 0, of |-> None, stage |-> "idle"]

PanelInit ==
  /\ server = [creators |-> Known, payouts |-> [c \in AllCreators |-> IF c \in Known THEN 1 ELSE 0]]
  /\ snapshot = server
  /\ selectedCreatorId \in Known
  /\ payoutId = None /\ revealed = None
  /\ selectionGeneration = 0 /\ privateViewGeneration = 0
  /\ working = FALSE
  /\ panelCall = NoPanelCall /\ trailing = FALSE

PanelPayout == [creator : AllCreators, number : 1..MaxPanelPayouts]
PayoutsOf(c) ==
  IF c = None THEN {} ELSE {[creator |-> c, number |-> n] : n \in 1..snapshot.payouts[c]}

(* effectivePayoutId: the chosen payout if the list has it, or the newest.   *)
SelectedPayout ==
  CASE payoutId \in PayoutsOf(selectedCreatorId) -> payoutId
    [] PayoutsOf(selectedCreatorId) = {} -> None
    [] OTHER -> [creator |-> selectedCreatorId, number |-> snapshot.payouts[selectedCreatorId]]

Bump == privateViewGeneration' = privateViewGeneration + 1
OutdateView == Bump

ClearPrivatePayoutView == OutdateView /\ revealed' = None

ChooseCreator(c) ==
  /\ c \in snapshot.creators
  /\ selectionGeneration < MaxPanelChoices
  /\ selectionGeneration' = selectionGeneration + 1
  /\ selectedCreatorId' = c /\ payoutId' = None
  /\ ClearPrivatePayoutView
  /\ UNCHANGED <<server, snapshot, working, panelCall, trailing>>

ChoosePayout(p) ==
  /\ p \in PayoutsOf(selectedCreatorId) /\ p # SelectedPayout
  /\ privateViewGeneration < 2 * MaxPanelChoices
  /\ payoutId' = p
  /\ ClearPrivatePayoutView
  /\ UNCHANGED <<server, snapshot, selectedCreatorId, selectionGeneration, working, panelCall, trailing>>

(* A button: the call carries what the panel held when it was pressed.       *)
Press(kind, of) ==
  /\ ~working
  /\ privateViewGeneration < 2 * MaxPanelChoices
  /\ working' = TRUE
  /\ panelCall' = [kind |-> kind, selection |-> selectionGeneration, view |-> privateViewGeneration,
              of |-> of, stage |-> "send"]
  /\ UNCHANGED <<server, snapshot, owner, trailing>>

PressCreate == Press("create", selectedCreatorId)
PressChange == Press("change", selectedCreatorId)  \* new rules, pause or resume
PressRequest == selectedCreatorId \in Known /\ Press("request", selectedCreatorId)
PressReveal == SelectedPayout # None /\ Press("reveal", SelectedPayout)
PressMarkPaid == SelectedPayout # None /\ Press("settle", selectedCreatorId)

(* The change at the server, made by this panel or in another tab.           *)
Applied(kind, of) ==
  CASE kind = "create" -> [server EXCEPT !.creators = @ \cup {New}]
    [] kind = "request" /\ server.payouts[of] < MaxPanelPayouts -> [server EXCEPT !.payouts[of] = @ + 1]
    [] OTHER -> server

Elsewhere ==
  /\ \E c \in Known : server' = Applied("request", c) /\ server' # server
  /\ UNCHANGED <<snapshot, owner, working, panelCall, trailing>>

(* mutation: the view is cleared if the selection is still the same.         *)
ChangeAnswered ==
  /\ panelCall.stage = "send" /\ panelCall.kind # "reveal"
  /\ server' = Applied(panelCall.kind, panelCall.of)
  /\ IF panelCall.selection = selectionGeneration
     THEN ClearPrivatePayoutView ELSE UNCHANGED <<revealed, privateViewGeneration>>
  /\ panelCall' = [panelCall EXCEPT !.stage = "refresh"]
  /\ UNCHANGED <<snapshot, selectedCreatorId, payoutId, selectionGeneration, working, trailing>>

SameView == panelCall.view = privateViewGeneration

Revealed ==
  /\ panelCall.stage = "send" /\ panelCall.kind = "reveal"
  /\ revealed' = IF SameView THEN panelCall.of ELSE revealed
  /\ working' = FALSE /\ panelCall' = NoPanelCall
  /\ UNCHANGED <<server, snapshot, selectedCreatorId, payoutId, selectionGeneration,
                 privateViewGeneration, trailing>>

(* saveEditor: a creation, once answered, is followed by another refresh.    *)
Trail == trailing' = (trailing \/ panelCall.kind = "create")

(* refresh: the selection is kept unless the owner has moved on.             *)
SnapshotRefreshed ==
  /\ panelCall.stage = "refresh"
  /\ snapshot' = server
  /\ selectedCreatorId' = IF panelCall.selection = selectionGeneration THEN panelCall.of ELSE selectedCreatorId
  /\ working' = FALSE /\ panelCall' = NoPanelCall
  /\ Trail
  /\ UNCHANGED <<server, payoutId, revealed, selectionGeneration, privateViewGeneration>>

CallFails ==
  /\ working
  /\ working' = FALSE /\ panelCall' = NoPanelCall
  /\ IF panelCall.stage = "refresh" THEN Trail /\ UNCHANGED server
     ELSE server' \in {server, Applied(panelCall.kind, panelCall.of)} /\ UNCHANGED trailing
  /\ UNCHANGED <<snapshot, owner>>

(* Its answer selects the new creator, whatever the owner chose since.       *)
TrailingRefresh ==
  /\ trailing
  /\ snapshot' = server
  /\ selectedCreatorId' = New
  /\ trailing' = FALSE
  /\ UNCHANGED <<server, payoutId, revealed, selectionGeneration, privateViewGeneration, working, panelCall>>

TrailingFails ==
  /\ trailing /\ trailing' = FALSE
  /\ UNCHANGED <<server, snapshot, owner, working, panelCall>>

PanelNext ==
  \/ \E c \in AllCreators : ChooseCreator(c)
  \/ \E p \in PanelPayout : ChoosePayout(p)
  \/ PressCreate \/ PressChange \/ PressRequest \/ PressReveal \/ PressMarkPaid
  \/ Elsewhere \/ ChangeAnswered \/ Revealed \/ SnapshotRefreshed \/ CallFails
  \/ TrailingRefresh \/ TrailingFails

PanelSpec == PanelInit /\ [][PanelNext]_panelVars

-----------------------------------------------------------------------------
(* A destination is shown beside its own payout only, although it arrives    *)
(* after the owner moved on or a refresh brought a newer payout.             *)
RevealedIsSelected == revealed # None /\ SelectedPayout # None => revealed = SelectedPayout
=============================================================================
