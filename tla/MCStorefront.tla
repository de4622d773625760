---------------------------- MODULE MCStorefront ----------------------------
(***************************************************************************)
(* Small instances, side by side, of what runs between a profile and the   *)
(* payment page: two tabs check out, two tabs prove a contact with two     *)
(* codes or guess at one, and one rate window counts codes.                *)
(* StorefrontInit chooses one part.  Checkout, ContactCodes and RateWindow *)
(* have their own variables, which stay as they begin in the other parts.  *)
(***************************************************************************)
EXTENDS Checkout, ContactCodes, RateWindow, TLC

CONSTANTS
  t1, t2, object, size, red, blue, percent, fixed, mine, theirs, home, work

VARIABLE part

Seven == [v \in Variants |-> 7]
CodeTerms ==
  (percent :> [mode |-> "PERCENT", value |-> 5000, owner |-> theirs])
  @@ (fixed :> [mode |-> "FIXED", value |-> 8, owner |-> mine])
Tight == [k \in {"email", "experience"} |-> 1]
Symmetry == Permutations({t1, t2}) \cup Permutations({red, blue}) \cup Permutations({home, work})

(* What goes wrong on the way, and what the catalogue and time take away.   *)
Faults == INSTANCE Checkout WITH Withdrawable <- {}, MayExpire <- FALSE
Changes == INSTANCE Checkout WITH MaxLosses <- 0, MaxExpired <- 0

(* Two codes without faults, and one code that is guessed at, with them.     *)
Contact == INSTANCE ContactCodes WITH MaxMisses <- 2, MaxCodeLosses <- 0
Guesses == INSTANCE ContactCodes WITH MaxChallenges <- 1

StorefrontInit ==
  /\ part \in {"faults", "changes", "contact", "guesses", "rate"}
  /\ Init /\ ContactInit /\ RateInit

StorefrontNext ==
  /\ UNCHANGED part
  /\ \/ part = "faults" /\ Faults!Next /\ UNCHANGED <<contactVars, rateVars>>
     \/ part = "changes" /\ Changes!Next /\ UNCHANGED <<contactVars, rateVars>>
     \/ part = "contact" /\ Contact!ContactNext /\ UNCHANGED <<vars, rateVars>>
     \/ part = "guesses" /\ Guesses!ContactNext /\ UNCHANGED <<vars, rateVars>>
     \/ part = "rate" /\ RateNext /\ UNCHANGED <<vars, contactVars>>

everything == <<part, vars, contactVars, rateVars>>
StorefrontSpec == StorefrontInit /\ [][StorefrontNext]_everything

ASSUME StorefrontAssumption ==
  CheckoutAssumption /\ ContactAssumption /\ RateAssumption

-----------------------------------------------------------------------------
(* The properties are the components' own: ChargedAsOrdered and              *)
(* OrderKeepsAddressAndEmail Checkout's, CodeUsedOnce and GuessesBounded     *)
(* ContactCodes', WindowsHold RateWindow's.                                  *)
=============================================================================
