---------------------------- MODULE OwnerConsole ----------------------------
(***************************************************************************)
(* The panels of the owner's console, each in a tab of its own: the design *)
(* studio, the paged lists, the creators' referrals and the support desk.  *)
(* They read and write nothing of one another, so a behaviour of the       *)
(* console is one of each.  What they have in common is how they go wrong: *)
(* an answer comes when the owner has chosen something else.               *)
(***************************************************************************)
EXTENDS DesignerPanel, OwnerLedger, ReferralsPanel, SupportDesk

ConsoleAssumption == ListAssumption /\ PanelAssumption /\ SupportAssumption

ConsoleSpec == StudioSpec /\ ListSpec /\ PanelSpec /\ SupportSpec

-----------------------------------------------------------------------------
(* The studio, the Issue and customer lists, the creators and the support    *)
(* desk show what the owner chose last, whichever answers arrive late.       *)
ConsoleShowsChosen ==
  /\ StudioShowsSelected
  /\ ListIsOfQuery
  /\ RevealedIsSelected
  /\ RevealedIsChosen
=============================================================================
