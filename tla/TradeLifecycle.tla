---------------------------- MODULE TradeLifecycle ----------------------------
(***************************************************************************)
(* What a trade can count on once it is matched: it waits until it is      *)
(* settled on chain, with the batch it is in, and is settled once; or the  *)
(* exchange gives it up, and then it never settles. Both are for good.     *)
(***************************************************************************)
CONSTANT Ids

VARIABLES waiting, settled, lost

vars == <<waiting, settled, lost>>

Init == waiting = {} /\ settled = {} /\ lost = {}

Match(id) ==
  /\ id \notin waiting \cup settled \cup lost
  /\ waiting' = waiting \cup {id}
  /\ UNCHANGED <<settled, lost>>

Settle(batch) ==
  /\ settled' = settled \cup batch
  /\ waiting' = waiting \ batch
  /\ UNCHANGED lost

GiveUp(batch) ==
  /\ lost' = lost \cup batch
  /\ waiting' = waiting \ batch
  /\ UNCHANGED settled

Next ==
  \/ \E id \in Ids : Match(id)
  \/ \E batch \in SUBSET waiting : Settle(batch)
  \/ \E batch \in SUBSET waiting : GiveUp(batch)

Spec == Init /\ [][Next]_vars
=============================================================================
