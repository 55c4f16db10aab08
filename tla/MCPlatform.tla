----------------------------- MODULE MCPlatform -----------------------------
(***************************************************************************)
(* The instance of what the runtime stands on: the sign-in over the relay  *)
(* and the storage of the platform.  They are checked side by side: `part` *)
(* chooses the one that moves, the other stays as it began.                *)
(***************************************************************************)
EXTENDS AuthFlow, BlobStore

CONSTANT MaxRevision  \* bound: writes to the platform's blob

VARIABLE part  \* the component that moves

vars == <<part, authVars, blobVars>>

\* What apps ask for: one capability, and another one beside it.
RequestLists == {{"paykit"}, {"paykit", "profile"}}

\* Two threads of one handle, one of a second handle, and one of a handle of a
\* build that writes another version.
RuntimeOfThread == [t \in {"t1", "t2", "t3", "t4"} |->
                      CASE t = "t3" -> "extension" [] t = "t4" -> "newer" [] OTHER -> "app"]
VersionOfRuntime == [h \in {"app", "extension", "newer"} |-> IF h = "newer" THEN 2 ELSE 1]

\* A counter that is increased unless it is full, and reset.
Increase == [s \in 0..2 |-> IF s = 2 THEN CallbackError ELSE s + 1]
Reset == [s \in 0..2 |-> 0]
Callbacks == {Increase, Reset}

Init ==
  /\ part \in {"auth", "blob"}
  /\ AuthInit /\ BlobInit
  /\ writer = "app"

Next ==
  \/ /\ part = "auth" /\ AuthNext
     /\ UNCHANGED <<part, blobVars>>
  \/ /\ part = "blob" /\ BlobNext /\ revision' <= MaxRevision
     /\ UNCHANGED <<part, authVars>>

Spec == Init /\ [][Next]_vars /\ AuthFairness

=============================================================================
