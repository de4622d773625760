--------------------------- MODULE MCContactCodes ---------------------------
(* A small instance of ContactCodes: two tabs, one order, one email.        *)
EXTENDS ContactCodes, TLC

CONSTANTS t1, t2, order, mine

MCTabs == {t1, t2}
MCOrders == {order}
MCEmails == {mine}
MCLimits == [k \in {"email", "experience"} |-> 2]
MCNone == {}
=============================================================================
