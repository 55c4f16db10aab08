------------------------- MODULE MCPaymentRequests -------------------------
(***************************************************************************)
(* The instances of PaymentRequests that TLC checks.                       *)
(***************************************************************************)
EXTENDS PaymentRequests

CallerSymmetry == Permutations(Caller)

CONSTANTS A, B, r1, r2

\* A is the payee of both requests.
BothByA == [x \in Request |-> A]

\* Request r1 may be accepted before time 1 only.
FirstExpires == [x \in Request |-> IF x = r1 THEN 1 ELSE Never]
NoneExpires == [x \in Request |-> Never]

Message(id, kind, req, valid) == [id |-> id, kind |-> kind, req |-> req, valid |-> valid]

\* An acceptance by the payee, a malformed event that reuses the Event ID of the
\* proposal, and an event that echoes an Event ID of B.
SomeStrays ==
  { [from |-> A, msg |-> Message(<<A, 9>>, "acceptance", r1, TRUE)],
    [from |-> A, msg |-> Message(<<A, 1>>, "request", NoRequest, FALSE)],
    [from |-> A, msg |-> Message(<<B, 1>>, "acceptance", r1, TRUE)] }

=============================================================================
