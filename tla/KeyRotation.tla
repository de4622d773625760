----------------------------- MODULE KeyRotation -----------------------------
(***************************************************************************)
(* Sealed answers and the change of their key.  Every answer is stored     *)
(* sealed under the key its row names; deployments of before the change    *)
(* seal under v1, those of after it under v2 only.  Batches, several of    *)
(* which may run at once, open rows sealed under v1, seal them again and   *)
(* report how many are left, and the owner gives the old key up on a       *)
(* report of none.                                                         *)
(***************************************************************************)
EXTENDS NoValue, Integers, FiniteSets, FiniteSetsExt

CONSTANTS
  Answers,
  Batches,           \* rotation requests that may run at once
  Limit,             \* rows a batch may take
  MaxRotationFaults  \* bound on statements and requests that fail

(* What the values of the constants must satisfy. *)
RotationAssumption == IsFiniteSet(Answers)

VARIABLES
  sealed,    \* the key each stored answer is sealed under
  text,      \* what is sealed: the customer's own answer, or another's
  deployed,  \* whether the deployment that writes v2 has replaced the old
  keys,      \* keys the runtime is configured with
  batch,     \* each request: its rows, and its next step
  reported,  \* the least count of remaining rows a batch has answered
  rotationFaults

rotationVars == <<sealed, text, deployed, keys, batch, reported, rotationFaults>>

NoBatch == [step |-> "idle", rows |-> {}, row |-> None, opened |-> None]

RotationInit ==
  /\ sealed = [a \in Answers |-> "none"]
  /\ text = [a \in Answers |-> None]
  /\ deployed = FALSE
  /\ keys = {"v1"}
  /\ batch = [b \in Batches |-> NoBatch]
  /\ reported = Cardinality(Answers)
  /\ rotationFaults = 0

RotationFails == rotationFaults < MaxRotationFaults /\ rotationFaults' = rotationFaults + 1

V1 == {a \in Answers : sealed[a] = "v1"}
Readable(a) == sealed[a] \in keys /\ text[a] = a

(* saveAnswerAndAdvance inserts an answer once, sealed by whoever serves it. *)
SaveAnswer(a) ==
  /\ sealed[a] = "none"
  /\ \E k \in (IF deployed THEN {"v2"} ELSE {"v1", "v2"}) \cap keys :
       sealed' = [sealed EXCEPT ![a] = k]
  /\ text' = [text EXCEPT ![a] = a]
  /\ UNCHANGED <<deployed, keys, batch, reported, rotationFaults>>

(* The owner adds the new key, then replaces the old deployment everywhere.  *)
Configure ==
  /\ keys' = keys \cup {"v2"}
  /\ "v2" \notin keys /\ ~deployed
  /\ UNCHANGED <<sealed, text, deployed, batch, reported, rotationFaults>>

Deploy ==
  /\ "v2" \in keys /\ ~deployed
  /\ deployed' = TRUE
  /\ reported' = Cardinality(Answers)
  /\ UNCHANGED <<sealed, text, keys, batch, rotationFaults>>

-----------------------------------------------------------------------------
(* A batch.  The endpoint is part of the new deployment.                     *)

List(b) ==
  /\ batch[b].step = "idle"
  /\ deployed /\ "v1" \in keys
  /\ \E rows \in SUBSET V1 :
       /\ Cardinality(rows) = (IF Cardinality(V1) < Limit THEN Cardinality(V1) ELSE Limit)
       /\ batch' = [batch EXCEPT ![b] =
            [NoBatch EXCEPT !.step = IF rows = {} THEN "count" ELSE "open", !.rows = rows]]
  /\ UNCHANGED <<sealed, text, deployed, keys, reported, rotationFaults>>

(* decryptPrivatePayload of the row as it was listed.                        *)
Open(b) ==
  /\ batch[b].step = "open"
  /\ \E a \in batch[b].rows :
       batch' = IF {"v1", "v2"} \subseteq keys
                THEN [batch EXCEPT ![b].step = "replace", ![b].row = a, ![b].opened = text[a]]
                ELSE [batch EXCEPT ![b] = [NoBatch EXCEPT !.step = "count"]]
  /\ UNCHANGED <<sealed, text, deployed, keys, reported, rotationFaults>>

Rest(b) == batch[b].rows \ {batch[b].row}

(* The row is replaced only if it is still sealed under v1.                  *)
Replace(b) ==
  LET a == batch[b].row IN
  /\ batch[b].step = "replace"
  /\ \/ /\ IF sealed[a] = "v1"
           THEN /\ sealed' = [sealed EXCEPT ![a] = "v2"]
                /\ text' = [text EXCEPT ![a] = batch[b].opened]
           ELSE UNCHANGED <<sealed, text>>
        /\ batch' = [batch EXCEPT
             ![b] = [step |-> IF Rest(b) = {} THEN "count" ELSE "open", rows |-> Rest(b),
                     row |-> None, opened |-> None]]
        /\ UNCHANGED rotationFaults
     \/ /\ RotationFails
        /\ batch' = [batch EXCEPT ![b] = [NoBatch EXCEPT !.step = "count"]]
        /\ UNCHANGED <<sealed, text>>
  /\ UNCHANGED <<deployed, keys, reported>>

(* What the batch answers as remaining; a variant trusts its own list.       *)
RemainingListed(b) == Cardinality(batch[b].rows)
Remaining(b) == Cardinality(V1)

Count(b) ==
  /\ batch[b].step = "count"
  /\ \/ reported' = Min({reported, Remaining(b)}) /\ UNCHANGED rotationFaults
     \/ RotationFails /\ UNCHANGED reported
  /\ batch' = [batch EXCEPT ![b] = NoBatch]
  /\ UNCHANGED <<sealed, text, deployed, keys>>

(* The owner gives the old key up on a report of none.                       *)
RetireKey ==
  /\ deployed /\ reported = 0
  /\ keys' = {"v2"}
  /\ "v1" \in keys
  /\ UNCHANGED <<sealed, text, deployed, batch, reported, rotationFaults>>

BatchStep(b) == Open(b) \/ Replace(b) \/ Count(b)

RotationNext ==
  \/ \E a \in Answers : SaveAnswer(a)
  \/ Configure \/ Deploy \/ RetireKey
  \/ \E b \in Batches : List(b) \/ BatchStep(b)

RotationSpec == RotationInit /\ [][RotationNext]_rotationVars

-----------------------------------------------------------------------------
(* No answer is ever lost to the change of keys: what is stored can be read, *)
(* and is the customer's own, before, during and after it.                   *)
AnswersStayReadable == \A a \in Answers : sealed[a] # "none" => Readable(a)

=============================================================================
