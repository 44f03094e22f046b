------------------------------ MODULE Mailbox -------------------------------
(***************************************************************************)
(* What the engine promises to whoever hands it a message: the message is  *)
(* put in the box once, and from there it is either attached to the        *)
(* conversation or taken back by the user, once, and never both.  Unless   *)
(* the engine is shut it does not stay in the box.                         *)
(***************************************************************************)
CONSTANTS Item, UserItem
VARIABLES status, shut

boxVars == <<status, shut>>

BoxTypeOK ==
  /\ status \in [Item -> {"absent", "queued", "attached", "takenBack"}]
  /\ shut \in BOOLEAN

BoxInit == status = [i \in Item |-> "absent"] /\ shut = FALSE

In(state) == {i \in Item : status[i] = state}

Put(i) ==
  /\ status[i] = "absent"
  /\ status' = [status EXCEPT ![i] = "queued"]
  /\ UNCHANGED shut

\* A drain attaches a set of queued items; a query attaches its own message.
Attach(S) ==
  /\ S # {} /\ (S \subseteq In("queued") \/ \E i \in In("absent") : S = {i})
  /\ status' = [i \in Item |-> IF i \in S THEN "attached" ELSE status[i]]
  /\ UNCHANGED shut

TakeBack(i) ==
  /\ i \in UserItem /\ status[i] = "queued"
  /\ status' = [status EXCEPT ![i] = "takenBack"]
  /\ UNCHANGED shut

Shut == ~shut /\ shut' = TRUE /\ UNCHANGED status

BoxNext ==
  \/ \E i \in Item : Put(i) \/ TakeBack(i)
  \/ \E S \in SUBSET Item : Attach(S)
  \/ Shut

\* Every queued item is attached or taken back in the end.
Delivery == \A i \in Item : status[i] = "queued" ~> (status[i] # "queued" \/ shut)

BoxSafety == BoxInit /\ [][BoxNext]_boxVars
BoxSpec == BoxSafety /\ Delivery
=============================================================================
