--------------------------- MODULE DraftLifecycle ---------------------------
(***************************************************************************)
(* What the shipment draft table promises (module comment of draft.py and  *)
(* docs/features/shipment.md), free of rows, ids and transactions: each    *)
(* student of a round has one slot, which an export locks into a batch and *)
(* a carrier's tracking code or a cancellation frees.                      *)
(***************************************************************************)
EXTENDS Naturals

CONSTANTS Students, Rounds, RoundOf

VARIABLES
  slot,    \* slot[s]: "none", "draft" or "exported"
  batch,   \* batch[s]: the batch of an exported slot, otherwise 0
  sent,    \* the students with a shipment closed by a tracking code
  used     \* the batches that were ever given to a draft

vars == <<slot, batch, sent, used>>

With(f, S, v) == [s \in Students |-> IF s \in S THEN v ELSE f[s]]
InSlot(v) == {s \in Students : slot[s] = v}

Init ==
  /\ slot = [s \in Students |-> "none"]
  /\ batch = [s \in Students |-> 0]
  /\ sent = {}
  /\ used = {}

Add(S) ==
  /\ S \subseteq InSlot("none")
  /\ slot' = With(slot, S, "draft")
  /\ UNCHANGED <<batch, sent, used>>

Cancel(S) ==
  /\ S \subseteq InSlot("draft") \cup InSlot("exported")
  /\ slot' = With(slot, S, "none")
  /\ batch' = With(batch, S, 0)
  /\ UNCHANGED <<sent, used>>

\* Every draft of the round, under a batch no draft had before.
Export(r, b) ==
  LET S == {s \in InSlot("draft") : RoundOf[s] = r}
  IN /\ S # {}
     /\ b \notin used
     /\ slot' = With(slot, S, "exported")
     /\ batch' = With(batch, S, b)
     /\ used' = used \cup {b}
     /\ UNCHANGED sent

Promote(S) ==
  /\ S \subseteq InSlot("exported")
  /\ slot' = With(slot, S, "none")
  /\ batch' = With(batch, S, 0)
  /\ sent' = sent \cup S
  /\ UNCHANGED used

Next ==
  \/ \E S \in SUBSET Students : Add(S) \/ Cancel(S) \/ Promote(S)
  \/ \E r \in Rounds : \E b \in (used' \ used) : Export(r, b)

Spec == Init /\ [][Next]_vars
=============================================================================
