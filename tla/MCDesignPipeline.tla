-------------------------- MODULE MCDesignPipeline --------------------------
(***************************************************************************)
(* Small instances, side by side, of the design of an Issue.  DesignInit   *)
(* chooses one part:                                                       *)
(*   "together"  two requests of every kind at once, none of which dies;   *)
(*   "reworks"   two requests at once without uploads, one may die;        *)
(*   "uploads"   two requests at once without reworks, one may die;        *)
(*   "sequence"  requests of every kind, one at a time, one may die.       *)
(***************************************************************************)
EXTENDS DesignPipeline, FiniteSets, TLC

CONSTANTS r1, r2, u1, k1

VARIABLE part

MCRequests  == {r1, r2}
MCUploads   == {u1}
MCKeys      == {k1}
MCPrintable == {Generated, u1}
Symmetry    == Permutations(MCRequests)

Together  == INSTANCE DesignPipeline WITH MaxDeaths <- 0
Reworking == INSTANCE DesignPipeline WITH Uploads <- {}, Printable <- {Generated}
Uploading == INSTANCE DesignPipeline WITH Keys <- {}

DesignInit == part \in {"together", "reworks", "uploads", "sequence"} /\ Init

Alone == Cardinality({r \in Requests : step'[r] # "idle"}) <= 1

DesignNext ==
  /\ UNCHANGED part
  /\ \/ part = "together" /\ Together!Next
     \/ part = "reworks" /\ Reworking!Next
     \/ part = "uploads" /\ Uploading!Next
     \/ part = "sequence" /\ Next /\ Alone

everything == <<part, vars>>
DesignSpec == DesignInit /\ [][DesignNext]_everything
=============================================================================
