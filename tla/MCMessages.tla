----------------------------- MODULE MCMessages -----------------------------
(***************************************************************************)
(* The instance of PrivateStream, ListSync and PaymentResolution that TLC  *)
(* checks: receiving private messages, and sending and using the Private   *)
(* Payment Lists among them.  The three are checked side by side: `part`   *)
(* chooses the one that moves, the others stay as they began.              *)
(***************************************************************************)
EXTENDS PrivateStream, ListSync, PaymentResolution, FiniteSets, TLC

CONSTANT StreamLeases  \* bound: leases when two workers receive at a time

VARIABLE part  \* the component that moves, and how far the stream's workers go

vars == <<part, receiveVars, listVars, resolutionVars>>

Event(kind, body, valid, here) == [kind |-> kind, event |-> "e1", body |-> body, valid |-> valid, here |-> here]
NoEventId(kind, body, valid) == [kind |-> kind, event |-> NoEvent, body |-> body, valid |-> valid, here |-> TRUE]

\* Two accesses and a malformed request that use the same Event ID, an access
\* for another folder, and a list.
SomeMessages ==
  { Event("access", 1, TRUE, TRUE), Event("access", 2, TRUE, TRUE), Event("access", 3, TRUE, FALSE),
    Event("request", 4, FALSE, TRUE), NoEventId("list", 5, TRUE) }

Init ==
  /\ part \in {"stream", "longStream", "lists", "resolution"}
  /\ ReceiveInit /\ ListInit /\ ResolutionInit

\* "stream": two workers at a time.  "longStream": one at a time, and more of them.
Wide == leaseSeq' <= StreamLeases
Long == Cardinality({w \in Worker : pc'[w] # "idle"}) <= 1

StreamNext ==
  /\ part \in {"stream", "longStream"}
  /\ ReceiveNext
  /\ IF part = "stream" THEN Wide ELSE Long
  /\ UNCHANGED <<part, listVars, resolutionVars>>

Next ==
  \/ StreamNext
  \/ part = "lists" /\ ListNext /\ UNCHANGED <<part, receiveVars, resolutionVars>>
  \/ part = "resolution" /\ ResolutionNext /\ UNCHANGED <<part, receiveVars, listVars>>

Spec == Init /\ [][Next]_vars

\* Worker and ListPeer are the same two model values.
Symmetry == Permutations(Worker)

=============================================================================
