---------------------------- MODULE MCInterview ----------------------------
(***************************************************************************)
(* Small instances of Interview, side by side: two tabs of one browser and *)
(* two questions.  InterviewInit chooses one part:                         *)
(*   "losing"    a response is lost or a server dies;                      *)
(*   "aging"     thirty days pass for the first session;                   *)
(*   "retiring"  the owner retires a prompt, of one session;               *)
(*   "sequence"  thirty days and a retired prompt, with two sessions and   *)
(*               one request at a time.                                    *)
(***************************************************************************)
EXTENDS Interview, TLC

CONSTANTS t1, t2, p1, p2

VARIABLE part

MCTabs    == {t1, t2}
MCPrompts == {p1, p2}
Symmetry  == Permutations(MCTabs) \cup Permutations(MCPrompts)

Losing   == INSTANCE Interview WITH MaxRetired <- 0, Expirable <- {}
Aging    == INSTANCE Interview WITH MaxRetired <- 0, MaxLosses <- 0
Retiring == INSTANCE Interview WITH MaxExperiences <- 1, Expirable <- {}, MaxLosses <- 0

Lossless == INSTANCE Interview WITH MaxLosses <- 0

Alone == Cardinality({t \in Tabs : step'[t] # "idle"}) <= 1

InterviewInit == part \in {"losing", "aging", "retiring", "sequence"} /\ Init

InterviewNext ==
  /\ UNCHANGED part
  /\ \/ part = "losing" /\ Losing!Next
     \/ part = "aging" /\ Aging!Next
     \/ part = "retiring" /\ Retiring!Next
     \/ part = "sequence" /\ Lossless!Next /\ Alone

everything == <<part, vars>>
InterviewSpec == InterviewInit /\ [][InterviewNext]_everything

ASSUME InterviewsAssumption == InterviewAssumption
=============================================================================
