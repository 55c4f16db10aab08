----------------------------- MODULE MCRuntime -----------------------------
(***************************************************************************)
(* The instance of the components of the runtime that keep records of      *)
(* something outside of it: contact markers, public endpoints, receipts,   *)
(* and recovery markers.  They are checked side by side: `part` chooses    *)
(* the one that moves, the others stay as they began.  Receipts move in    *)
(* two parts: overlapping calls that issue with single retrievals, and     *)
(* single calls that issue with overlapping retrievals.                    *)
(***************************************************************************)
EXTENDS Contacts, PublicEndpoints, Receipts, RecoveryMarkers, TLC

CONSTANT Reference  \* Payment References

VARIABLE part  \* the component that moves

vars == <<part, contactVars, endpointVars, receiptVars, recoveryVars>>

\* For every reference a draft with a Billing Period of a Payment Request, and one that
\* names no request for its period.
DraftsOfReference == {[reference |-> r, request |-> q, period |-> TRUE] : r \in Reference, q \in BOOLEAN}

Issuing == {w \in Issuer : ~IssueAt(w, "idle")}
Retrieving == {w \in Retriever : ~RetrieveAt(w, "idle")}

Init ==
  /\ part \in {"contacts", "endpoints", "issuing", "retrieving", "recovery"}
  /\ ContactsInit /\ EndpointsInit /\ ReceiptsInit /\ RecoveryInit
  /\ part # "contacts" => sharing
  /\ part # "endpoints" => scope = "ManagedOnly" /\ \A i \in Identifier : remote[i] = NoPayload

Next ==
  \/ /\ part = "contacts" /\ ContactsNext
     /\ UNCHANGED <<part, endpointVars, receiptVars, recoveryVars>>
  \/ /\ part = "endpoints" /\ EndpointsNext
     /\ UNCHANGED <<part, contactVars, receiptVars, recoveryVars>>
  \/ /\ part \in {"issuing", "retrieving"} /\ ReceiptsNext
     /\ Cardinality(IF part = "issuing" THEN Retrieving' ELSE Issuing') <= 1
     /\ UNCHANGED <<part, contactVars, endpointVars, recoveryVars>>
  \/ /\ part = "recovery" /\ RecoveryNext
     /\ UNCHANGED <<part, contactVars, endpointVars, receiptVars>>

Spec == Init /\ [][Next]_vars

Symmetry == Permutations(Issuer) \cup Permutations(Retriever) \cup Permutations(Reference)

=============================================================================
