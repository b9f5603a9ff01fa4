---------------------------- MODULE EntryLedger ----------------------------
(***************************************************************************)
(* What the agent's log pipeline promises for one log entry, whatever      *)
(* process, network or disk do in between: an entry is read once, and then *)
(* held until the server has stored it or it is lost for good.  A stored   *)
(* entry stays stored, a lost one does not come back, and nothing is       *)
(* stored that was not read.                                               *)
(***************************************************************************)
CONSTANT Entries

VARIABLE status

Statuses == {"unread", "held", "stored", "lost"}

Init == status = [e \in Entries |-> "unread"]

\* An entry is read into the pipeline, or refused by a full buffer.
Read(e)  == status[e] = "unread" /\ status'[e] \in {"held", "lost"}
Store(e) == status[e] = "held" /\ status'[e] = "stored"
Lose(e)  == status[e] = "held" /\ status'[e] = "lost"
Rest(e)  == status'[e] = status[e]

\* One step of the pipeline moves whole batches.
Next ==
  /\ status' \in [Entries -> Statuses]
  /\ \A e \in Entries : Read(e) \/ Store(e) \/ Lose(e) \/ Rest(e)

Spec == Init /\ [][Next]_status
=============================================================================
