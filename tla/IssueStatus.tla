---------------------------- MODULE IssueStatus ----------------------------
(***************************************************************************)
(* The life of issues.status and the trigger every UPDATE of it passes     *)
(* through.  The trigger either lets the row have its new status, silently *)
(* keeps the old one, or raises, which aborts the whole statement.         *)
(***************************************************************************)

PreProduction == {"RECEIVED", "BEING_INTERPRETED", "DESIGN_REVIEW",
                  "DESIGN_APPROVED", "MANUFACTURING_DRAFT"}
Physical      == {"IN_PRODUCTION", "IN_TRANSIT"}
IssueStatuses == PreProduction \cup Physical
                   \cup {"DELIVERED", "EXCEPTION", "CANCELED"}

(* Manufacturing states after which a design may no longer be replaced. *)
Started == {"DRAFT", "IN_PRODUCTION", "SHIPPED", "DELIVERED"}

NextStage == {<<"RECEIVED", "BEING_INTERPRETED">>,
              <<"BEING_INTERPRETED", "DESIGN_REVIEW">>,
              <<"DESIGN_REVIEW", "DESIGN_APPROVED">>,
              <<"DESIGN_APPROVED", "MANUFACTURING_DRAFT">>,
              <<"MANUFACTURING_DRAFT", "IN_PRODUCTION">>,
              <<"IN_PRODUCTION", "IN_TRANSIT">>,
              <<"IN_TRANSIT", "DELIVERED">>}

Leaves(from, to) ==
  \/ from \in PreProduction /\ to \in {"EXCEPTION", "CANCELED"}
  \/ from \in Physical \cup {"EXCEPTION"} /\ to = "CANCELED"

(* Back to design, as long as no factory order exists. *)
Reworks(from, to, started) ==
  /\ from \in {"DESIGN_REVIEW", "DESIGN_APPROVED"}
  /\ to \in {"BEING_INTERPRETED", "DESIGN_REVIEW"}
  /\ ~started

(* After the factory charge a financial exception is only an overlay. *)
KeptAsOverlay(from, to, flagged) ==
  from \in Physical /\ to = "EXCEPTION" /\ flagged

Legal(from, to, started) ==
  \/ from = to
  \/ <<from, to>> \in NextStage
  \/ Leaves(from, to)
  \/ Reworks(from, to, started)

(* enforce_issue_status_transition raises: the statement has no effect. *)
Raises(from, to, started, flagged) ==
  ~Legal(from, to, started) /\ ~KeptAsOverlay(from, to, flagged)

(* The status the row has after an update that does not raise. *)
After(from, to, flagged) ==
  IF KeptAsOverlay(from, to, flagged) THEN from ELSE to
=============================================================================
