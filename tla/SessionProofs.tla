--------------------------- MODULE SessionProofs ---------------------------
(***************************************************************************)
(* What the identity of a runtime keeps while calls overlap with sign-out, *)
(* with changes of the session and with restores, for any users, keys and  *)
(* calls; and what the recovery markers that two parties leave each other  *)
(* do to their link.                                                       *)
(***************************************************************************)
EXTENDS Identity, RecoveryMarkers, SequenceTheorems, TLAPS

\* Whoever a session, an identity or a record may name.
Bearer == [user : User \cup {None}, noise : NoiseKey \cup {None}]
IdentityState ==
  [user : User \cup {None}, noise : NoiseKey \cup {None}, generation : Nat, stored : BOOLEAN]
Records == [private : SUBSET Bearer, public : SUBSET (User \cup {None})]
BackupState == [identity : IdentityState, records : Records, taken : BOOLEAN]
Kinds == {"none", "initialize", "publish", "handshake", "contact", "signOut", "restore"}
Steps == {"idle", "load", "refresh", "claim", "save", "release", "write", "clear", "trust"}
RequestState == [kind : Kinds, pc : Steps, session : Bearer, lease : Nat, void : BOOLEAN]

IdentityTypes ==
  /\ provider \in Bearer
  /\ identity \in IdentityState
  /\ holdings \in Records
  /\ opLease \in Nat /\ nextLease \in Nat
  /\ request \in [Worker -> RequestState]
  /\ backup \in BackupState

\* The lease ids in use were given out before, and a call about to save has one.
LeasesGivenOut ==
  /\ opLease < nextLease
  /\ \A w \in Worker : request[w].lease < nextLease
  /\ \A w \in Worker : request[w].pc = "save" => request[w].lease # 0

\* While a call holds the peer's lease the state under it is the one it claimed, and the
\* identity it goes on to save for is the stored one.
HolderIsCurrent ==
  \A w \in Worker : request[w].lease # 0 /\ request[w].lease = opLease =>
    /\ ~request[w].void
    /\ request[w].pc = "save" => Owner(request[w].session) = Owner(identity)

\* What was exported belonged to the identity it was exported with.
BackupBelongs == backup.records.private \subseteq {Owner(backup.identity)}

IdentityInv ==
  /\ IdentityTypes /\ LeasesGivenOut /\ HolderIsCurrent /\ BackupBelongs
  /\ PrivateRecordsBelong /\ LeaseDiesWithState

LEMMA RequestDefaults ==
  /\ NoSession \in Bearer /\ Session \subseteq Bearer
  /\ NoRecords \in Records /\ NoRecords.private = {}
  /\ NotInitialized \in IdentityState /\ NoBackup \in BackupState
  /\ NoBackup.records.private = {}
  /\ NoRequest \in RequestState /\ NoRequest.pc = "idle" /\ NoRequest.lease = 0
BY DEF Bearer, Session, NoSession, Records, NoRecords, IdentityState, NotInitialized,
   BackupState, NoBackup, RequestState, NoRequest, Kinds, Steps

LEMMA OwnerIsBearer == \A s \in Bearer \cup IdentityState : Owner(s) \in Bearer
BY DEF Owner, Bearer, IdentityState

\* A call moves and leaves the stored state alone: it keeps its lease or has none, and
\* does not come to its save.
LEMMA CallMoves ==
  ASSUME IdentityInv, UNCHANGED <<identity, holdings, opLease, nextLease, backup, lateWrite>>,
         provider' \in Bearer, request' \in [Worker -> RequestState],
         \A w \in Worker :
           \/ request'[w] = request[w]
           \/ /\ request'[w].pc # "save"
              /\ request'[w].lease = request[w].lease /\ request'[w].void = request[w].void
           \/ request'[w].pc # "save" /\ request'[w].lease = 0
  PROVE  IdentityInv'
<1>1. IdentityTypes'
  BY DEF IdentityInv, IdentityTypes
<1>2. LeasesGivenOut'
  BY DEF IdentityInv, IdentityTypes, LeasesGivenOut, RequestState
<1>3. HolderIsCurrent'
  BY Zenon DEF IdentityInv, HolderIsCurrent, Owner
<1>4. BackupBelongs' /\ PrivateRecordsBelong' /\ LeaseDiesWithState'
  BY DEF IdentityInv, BackupBelongs, PrivateRecordsBelong, LeaseDiesWithState, Owner
<1> QED  BY <1>1, <1>2, <1>3, <1>4 DEF IdentityInv

\* The state is cleared or replaced: no lease survives it, whoever believes to hold one.
LEMMA StateReplaced ==
  ASSUME IdentityInv, UNCHANGED <<provider, nextLease, backup, lateWrite>>, opLease' = 0,
         identity' \in IdentityState, holdings' \in Records,
         request' \in [Worker -> RequestState],
         holdings'.private \subseteq {Owner(identity')},
         \A w \in Worker :
           /\ request'[w].lease = request[w].lease \/ request'[w].lease = 0
           /\ request'[w].pc = "save" => request'[w].lease # 0
  PROVE  IdentityInv'
<1>1. IdentityTypes'
  BY DEF IdentityInv, IdentityTypes
<1>2. LeasesGivenOut'
  BY DEF IdentityInv, IdentityTypes, LeasesGivenOut, RequestState
<1>3. HolderIsCurrent'
  BY DEF HolderIsCurrent
<1>4. BackupBelongs' /\ PrivateRecordsBelong' /\ LeaseDiesWithState'
  BY DEF IdentityInv, BackupBelongs, PrivateRecordsBelong, LeaseDiesWithState, Owner
<1> QED  BY <1>1, <1>2, <1>3, <1>4 DEF IdentityInv

\* VoidLeases marks the calls, and changes nothing else of them.
LEMMA VoidKeepsCalls ==
  ASSUME NEW reqs \in [Worker -> RequestState]
  PROVE  /\ VoidLeases(reqs) \in [Worker -> RequestState]
         /\ \A w \in Worker : /\ VoidLeases(reqs)[w].lease = reqs[w].lease
                              /\ VoidLeases(reqs)[w].pc = reqs[w].pc
BY Zenon DEF VoidLeases, RequestState

\* The app hands out another session, or none.
LEMMA ProviderKeeps ==
  ASSUME IdentityInv, NEW s \in Session \cup {NoSession}, ProviderChanges(s)
  PROVE  IdentityInv'
BY CallMoves, RequestDefaults DEF ProviderChanges, IdentityInv, IdentityTypes

\* A call starts and goes to load the session.
LEMMA BeginKeeps ==
  ASSUME IdentityInv, NEW w \in Worker, NEW kind \in {"initialize", "publish", "handshake"},
         BeginCall(w, kind)
  PROVE  IdentityInv'
<1> DEFINE new == [NoRequest EXCEPT !.kind = kind, !.pc = "load"]
<1>1. new \in RequestState /\ new.pc = "load" /\ new.lease = 0
  BY RequestDefaults, Zenon DEF RequestState, Kinds, Steps
<1> HIDE DEF new
<1>2. request' = [request EXCEPT ![w] = new]
  BY DEF BeginCall, new
<1>3. provider' \in Bearer /\ request \in [Worker -> RequestState]
  BY DEF BeginCall, IdentityInv, IdentityTypes
<1> QED  BY <1>1, <1>2, <1>3, CallMoves, Zenon DEF BeginCall

\* The session is read, and the transaction that uses it comes later.
LEMMA LoadKeeps ==
  ASSUME IdentityInv, NEW w \in Worker, LoadSession(w)
  PROVE  IdentityInv'
<1>1. provider' \in Bearer /\ provider \in Bearer /\ request \in [Worker -> RequestState]
  BY DEF LoadSession, IdentityInv, IdentityTypes
<1>2. request' \in [Worker -> RequestState]
  BY <1>1, Zenon DEF LoadSession, RequestState, Steps
<1>3. \A v \in Worker : request'[v] = request[v]
        \/ /\ request'[v].pc = "refresh"
           /\ request'[v].lease = request[v].lease /\ request'[v].void = request[v].void
  BY <1>1 DEF LoadSession, RequestState
<1> QED  BY <1>1, <1>2, <1>3, CallMoves DEF LoadSession

\* Where a call goes after its refresh: to its save only with a lease, and with the
\* session that it refreshed with.
LEMMA AfterRefreshKeeps ==
  ASSUME IdentityInv, NEW w \in Worker
  PROVE  /\ AfterRefresh(w) \in [Worker -> RequestState]
         /\ \A v \in Worker :
              \/ AfterRefresh(w)[v] = request[v]
              \/ /\ v = w
                 /\ AfterRefresh(w)[v].lease = request[v].lease
                 /\ AfterRefresh(w)[v].void = request[v].void
                 /\ AfterRefresh(w)[v].session = request[v].session
                 /\ AfterRefresh(w)[v].pc = "save" =>
                      request[v].lease # 0 /\ request[v].session # NoSession
              \/ AfterRefresh(w)[v] = NoRequest
<1>1. request \in [Worker -> RequestState]
  BY DEF IdentityInv, IdentityTypes
<1>2. CASE request[w].kind = "handshake" /\ request[w].session # NoSession
  BY <1>1, <1>2 DEF AfterRefresh, RequestState, Steps
<1>3. CASE ~(request[w].kind = "handshake" /\ request[w].session # NoSession)
  BY <1>1, <1>3, RequestDefaults DEF AfterRefresh, RequestState, Steps
<1> QED  BY <1>2, <1>3

\* A refresh that finds another identity clears the state of the earlier one; a refresh
\* that finds the same one lets a call go on to its save.
LEMMA RefreshKeeps ==
  ASSUME IdentityInv, NEW w \in Worker, RefreshIdentity(w)
  PROVE  IdentityInv'
<1> DEFINE reqs == AfterRefresh(w)
           active == request[w].session
           transition == identity_transition(identity, active)
<1>1. /\ reqs \in [Worker -> RequestState]
      /\ request \in [Worker -> RequestState]
      /\ identity \in IdentityState /\ holdings \in Records /\ active \in Bearer
      /\ provider' \in Bearer
  BY AfterRefreshKeeps DEF IdentityInv, IdentityTypes, RefreshIdentity, RequestState
<1>2. \A v \in Worker :
        /\ reqs[v].lease = request[v].lease \/ reqs[v].lease = 0
        /\ reqs[v].pc = "save" => reqs[v].lease # 0
  BY <1>1, AfterRefreshKeeps, RequestDefaults DEF IdentityInv, LeasesGivenOut
<1>3. CASE active = NoSession
  <2>1. /\ request' = reqs /\ UNCHANGED <<provider, holdings, opLease, nextLease, backup, lateWrite>>
        /\ identity' = [identity EXCEPT !.stored = TRUE]
    BY <1>3 DEF RefreshIdentity, SaveIdentity
  <2>2. identity' \in IdentityState /\ Owner(identity') = Owner(identity)
    BY <1>1, <2>1, Zenon DEF IdentityState, Owner
  <2>3. \A v \in Worker :
          \/ request'[v] = request[v]
          \/ /\ request'[v].pc # "save"
             /\ request'[v].lease = request[v].lease /\ request'[v].void = request[v].void
          \/ request'[v].pc # "save" /\ request'[v].lease = 0
    BY <1>3, <2>1, AfterRefreshKeeps, RequestDefaults
  <2>4. IdentityTypes'
    BY <1>1, <2>1, <2>2 DEF IdentityInv, IdentityTypes
  <2>5. LeasesGivenOut'
    BY <1>1, <2>1, <2>3, <2>4 DEF IdentityInv, IdentityTypes, LeasesGivenOut, RequestState
  <2>6. HolderIsCurrent'
    BY <2>1, <2>2, <2>3 DEF IdentityInv, HolderIsCurrent
  <2>7. BackupBelongs' /\ PrivateRecordsBelong' /\ LeaseDiesWithState'
    BY <2>1, <2>2 DEF IdentityInv, BackupBelongs, PrivateRecordsBelong,
       LeaseDiesWithState, Owner
  <2> QED  BY <2>4, <2>5, <2>6, <2>7 DEF IdentityInv
<1>4. CASE active # NoSession
  <2>1. /\ clear_scoped(transition, reqs)
        /\ identity' = [user |-> active.user, noise |-> active.noise, stored |-> TRUE,
                        generation |-> identity.generation
                                         + IF transition = "PubkyIdentityChanged" THEN 1 ELSE 0]
        /\ UNCHANGED <<provider, nextLease, backup, lateWrite>>
    BY <1>4 DEF RefreshIdentity, refresh_active_identity, SaveIdentity
  <2>2. identity' \in IdentityState /\ Owner(identity') = Owner(active)
    BY <1>1, <2>1 DEF IdentityState, Bearer, Owner
  <2>3. CASE transition = "Unchanged"
    <3>1. Owner(active) = Owner(identity)
      BY <2>3 DEF identity_transition, Owner
    <3>2. request' = reqs /\ UNCHANGED <<holdings, opLease>>
      BY <2>1, <2>3 DEF clear_scoped
    <3>3. IdentityTypes'
      BY <1>1, <2>1, <2>2, <3>2 DEF IdentityInv, IdentityTypes
    <3>4. LeasesGivenOut'
      <4>1. \A v \in Worker : request'[v].lease < nextLease
        BY <1>1, <1>2, <3>2 DEF IdentityInv, IdentityTypes, LeasesGivenOut
      <4> QED  BY <1>2, <2>1, <3>2, <4>1 DEF IdentityInv, LeasesGivenOut
    <3>5. HolderIsCurrent'
      BY <1>1, <2>1, <2>2, <3>1, <3>2, AfterRefreshKeeps, RequestDefaults
         DEF IdentityInv, HolderIsCurrent
    <3>6. BackupBelongs' /\ PrivateRecordsBelong' /\ LeaseDiesWithState'
      BY <2>1, <2>2, <3>1, <3>2 DEF IdentityInv, BackupBelongs, PrivateRecordsBelong,
         LeaseDiesWithState, Owner
    <3> QED  BY <3>3, <3>4, <3>5, <3>6 DEF IdentityInv
  <2>4. CASE transition # "Unchanged"
    <3>1. opLease' = 0 /\ request' = VoidLeases(reqs)
      BY <2>1, <2>4 DEF clear_scoped
    <3>2. transition \in {"Initial", "PubkyIdentityChanged", "ReceiverNoiseKeyChanged"}
      BY <2>4 DEF identity_transition
    <3>3. holdings' \in Records /\ holdings'.private = {}
      BY <1>1, <2>1, <3>2, RequestDefaults DEF clear_scoped, Records
    <3> QED  BY <1>1, <1>2, <2>1, <2>2, <3>1, <3>3, VoidKeepsCalls, StateReplaced
  <2> QED  BY <2>3, <2>4
<1> QED  BY <1>3, <1>4

\* A lease id is given out once; the call that gets it loads the session again.
LEMMA ClaimKeeps ==
  ASSUME IdentityInv, NEW w \in Worker, ClaimLease(w)
  PROVE  IdentityInv'
<1>1. request \in [Worker -> RequestState] /\ nextLease \in Nat
  BY DEF IdentityInv, IdentityTypes
<1>2. /\ request' \in [Worker -> RequestState]
      /\ request'[w].pc = "load" /\ request'[w].lease = nextLease /\ request'[w].void = FALSE
      /\ \A v \in Worker : v # w => request'[v] = request[v]
  BY <1>1, Zenon DEF ClaimLease, RequestState, Steps
<1>3. opLease' = nextLease /\ nextLease' = nextLease + 1
  BY DEF ClaimLease
<1>4. IdentityTypes'
  BY <1>1, <1>2, <1>3 DEF ClaimLease, IdentityInv, IdentityTypes
<1>5. LeasesGivenOut'
  <2>1. \A v \in Worker : request'[v].lease < nextLease'
    BY <1>1, <1>2, <1>3 DEF IdentityInv, LeasesGivenOut, RequestState
  <2> QED  BY <1>1, <1>2, <1>3, <2>1 DEF IdentityInv, LeasesGivenOut
<1>6. HolderIsCurrent'
  <2>1. \A v \in Worker : v # w => request'[v].lease # opLease'
    BY <1>1, <1>2, <1>3 DEF IdentityInv, LeasesGivenOut, RequestState
  <2> QED  BY <1>2, <2>1 DEF HolderIsCurrent
<1>7. BackupBelongs' /\ PrivateRecordsBelong' /\ LeaseDiesWithState'
  BY DEF ClaimLease, IdentityInv, BackupBelongs, PrivateRecordsBelong, LeaseDiesWithState,
     Owner
<1> QED  BY <1>4, <1>5, <1>6, <1>7 DEF IdentityInv

\* The save goes through with the peer's lease only, hence for the stored identity.
LEMMA SaveKeeps ==
  ASSUME IdentityInv, NEW w \in Worker, SaveUnderLease(w)
  PROVE  IdentityInv'
<1>1. /\ request \in [Worker -> RequestState] /\ holdings \in Records
      /\ request[w].session \in Bearer
  BY DEF IdentityInv, IdentityTypes, RequestState
<1>2. /\ request' \in [Worker -> RequestState]
      /\ request'[w].pc = "release" /\ request'[w].lease = request[w].lease
      /\ request'[w].void = request[w].void
      /\ \A v \in Worker : v # w => request'[v] = request[v]
  BY <1>1 DEF SaveUnderLease, MoveOn, RequestState, Steps
<1>3. /\ holdings' \in Records
      /\ holdings'.private = holdings.private
           \/ /\ opLease = request[w].lease
              /\ holdings'.private = holdings.private \cup {Owner(request[w].session)}
  BY <1>1, OwnerIsBearer DEF SaveUnderLease, Records
<1>4. opLease = request[w].lease =>
        ~request[w].void /\ Owner(request[w].session) = Owner(identity)
  BY DEF SaveUnderLease, InStep, IdentityInv, LeasesGivenOut, HolderIsCurrent
<1>5. IdentityTypes'
  BY <1>2, <1>3 DEF SaveUnderLease, IdentityInv, IdentityTypes
<1>6. LeasesGivenOut'
  <2>1. \A v \in Worker : request'[v].lease < nextLease
    BY <1>2 DEF IdentityInv, LeasesGivenOut
  <2> QED  BY <1>2, <2>1 DEF SaveUnderLease, IdentityInv, LeasesGivenOut
<1>7. HolderIsCurrent'
  BY <1>2, Zenon DEF SaveUnderLease, IdentityInv, HolderIsCurrent, Owner
<1>8. PrivateRecordsBelong'
  <2>1. Owner(identity') = Owner(identity)
    BY DEF SaveUnderLease
  <2> QED  BY <1>3, <1>4, <2>1 DEF IdentityInv, PrivateRecordsBelong
<1>9. LeaseDiesWithState' /\ BackupBelongs'
  BY <1>4, Zenon DEF SaveUnderLease, IdentityInv, LeaseDiesWithState, BackupBelongs, Owner
<1> QED  BY <1>5, <1>6, <1>7, <1>8, <1>9 DEF IdentityInv

\* The lease is given back, unless another call has it by now.
LEMMA ReleaseKeeps ==
  ASSUME IdentityInv, NEW w \in Worker, ReleaseLease(w)
  PROVE  IdentityInv'
<1>1. /\ request \in [Worker -> RequestState]
      /\ request' = [request EXCEPT ![w] = NoRequest]
      /\ opLease' = opLease \/ opLease' = 0
      /\ UNCHANGED <<provider, identity, holdings, nextLease, backup, lateWrite>>
  BY DEF ReleaseLease, EndCall, IdentityInv, IdentityTypes
<1>2. IdentityTypes'
  BY <1>1, RequestDefaults DEF IdentityInv, IdentityTypes
<1>3. LeasesGivenOut'
  BY <1>1, RequestDefaults DEF IdentityInv, IdentityTypes, LeasesGivenOut
<1>4. HolderIsCurrent'
  <2>1. Owner(identity') = Owner(identity)
    BY <1>1
  <2> QED  BY <1>1, <2>1, RequestDefaults DEF IdentityInv, HolderIsCurrent
<1>5. BackupBelongs' /\ PrivateRecordsBelong' /\ LeaseDiesWithState'
  BY <1>1 DEF IdentityInv, BackupBelongs, PrivateRecordsBelong, LeaseDiesWithState, Owner
<1> QED  BY <1>2, <1>3, <1>4, <1>5 DEF IdentityInv

\* save_contact reads the identity first.
LEMMA RequireKeeps ==
  ASSUME IdentityInv, NEW w \in Worker, require_initialized_identity(w)
  PROVE  IdentityInv'
<1> DEFINE new == [NoRequest EXCEPT !.kind = "contact", !.pc = "write",
                                    !.session = Owner(identity)]
<1>1. new \in RequestState /\ new.pc = "write" /\ new.lease = 0
  BY RequestDefaults, OwnerIsBearer, Zenon DEF RequestState, Kinds, Steps, IdentityInv, IdentityTypes
<1> HIDE DEF new
<1>2. request' = [request EXCEPT ![w] = new]
  BY DEF require_initialized_identity, new
<1>3. provider' \in Bearer /\ request \in [Worker -> RequestState]
  BY DEF require_initialized_identity, IdentityInv, IdentityTypes
<1> QED  BY <1>1, <1>2, <1>3, CallMoves, Zenon DEF require_initialized_identity

\* The contact is a public record, and no lease protects it.
LEMMA ContactKeeps ==
  ASSUME IdentityInv, NEW w \in Worker, SaveContactRecord(w)
  PROVE  IdentityInv'
<1>1. /\ request \in [Worker -> RequestState] /\ holdings \in Records
      /\ request[w].session.user \in User \cup {None}
      /\ request' = [request EXCEPT ![w] = NoRequest]
      /\ UNCHANGED <<provider, identity, opLease, nextLease, backup, lateWrite>>
  BY DEF SaveContactRecord, EndCall, IdentityInv, IdentityTypes, RequestState, Bearer
<1>2. holdings' \in Records /\ holdings'.private = holdings.private
  BY <1>1 DEF SaveContactRecord, Records
<1>3. IdentityTypes'
  BY <1>1, <1>2, RequestDefaults DEF IdentityInv, IdentityTypes
<1>4. LeasesGivenOut'
  BY <1>1, RequestDefaults DEF IdentityInv, IdentityTypes, LeasesGivenOut
<1>5. Owner(identity') = Owner(identity)
  BY <1>1
<1>6. HolderIsCurrent'
  BY <1>1, <1>5, RequestDefaults DEF IdentityInv, HolderIsCurrent
<1>7. BackupBelongs' /\ PrivateRecordsBelong' /\ LeaseDiesWithState'
  BY <1>1, <1>2 DEF IdentityInv, BackupBelongs, PrivateRecordsBelong, LeaseDiesWithState,
     Owner
<1> QED  BY <1>3, <1>4, <1>6, <1>7 DEF IdentityInv

\* sign_out first takes the session from the app.
LEMMA ClearSessionKeeps ==
  ASSUME IdentityInv, NEW w \in Worker, ClearSessionAccess(w)
  PROVE  IdentityInv'
<1> DEFINE new == [NoRequest EXCEPT !.kind = "signOut", !.pc = "clear"]
<1>1. new \in RequestState /\ new.pc = "clear" /\ new.lease = 0
  BY RequestDefaults, Zenon DEF RequestState, Kinds, Steps
<1> HIDE DEF new
<1>2. request' = [request EXCEPT ![w] = new]
  BY DEF ClearSessionAccess, new
<1>3. provider' \in Bearer /\ request \in [Worker -> RequestState]
  BY RequestDefaults DEF ClearSessionAccess, IdentityInv, IdentityTypes
<1> QED  BY <1>1, <1>2, <1>3, CallMoves, Zenon DEF ClearSessionAccess

\* What both the sign-out and the restore do to the calls.
LEMMA EndedAndVoided ==
  ASSUME IdentityInv, NEW w \in Worker
  PROVE  LET reqs == VoidLeases([request EXCEPT ![w] = NoRequest]) IN
         /\ reqs \in [Worker -> RequestState]
         /\ \A v \in Worker :
              /\ reqs[v].lease = request[v].lease \/ reqs[v].lease = 0
              /\ reqs[v].pc = "save" => reqs[v].lease # 0
<1> DEFINE ended == [request EXCEPT ![w] = NoRequest]
<1>1. /\ ended \in [Worker -> RequestState]
      /\ \A v \in Worker : /\ ended[v].lease = request[v].lease \/ ended[v].lease = 0
                           /\ ended[v].pc = "save" => ended[v].lease # 0
  BY RequestDefaults DEF IdentityInv, IdentityTypes, LeasesGivenOut
<1> HIDE DEF ended
<1>2. /\ VoidLeases(ended) \in [Worker -> RequestState]
      /\ \A v \in Worker :
           /\ VoidLeases(ended)[v].lease = request[v].lease \/ VoidLeases(ended)[v].lease = 0
           /\ VoidLeases(ended)[v].pc = "save" => VoidLeases(ended)[v].lease # 0
  BY <1>1, VoidKeepsCalls
<1> QED  BY <1>2, Zenon DEF ended

\* The sign-out clears the state, and with it the lease.
LEMMA SignOutKeeps ==
  ASSUME IdentityInv, NEW w \in Worker, SignOut(w)
  PROVE  IdentityInv'
<1>1. holdings' \in Records /\ holdings'.private = {} /\ opLease' = 0
  BY RequestDefaults DEF SignOut
<1>2. identity' \in IdentityState
  BY DEF SignOut, SaveIdentity, IdentityInv, IdentityTypes, IdentityState
<1>3. request' = VoidLeases([request EXCEPT ![w] = NoRequest])
  BY DEF SignOut
<1> QED  BY <1>1, <1>2, <1>3, EndedAndVoided, StateReplaced, Zenon DEF SignOut

\* The records of a backup are those of the identity in it.
LEMMA ExportKeeps ==
  ASSUME IdentityInv, export_backup_state
  PROVE  IdentityInv'
<1>1. /\ backup' = [identity |-> identity, records |-> holdings, taken |-> TRUE]
      /\ UNCHANGED <<provider, identity, holdings, opLease, nextLease, request, lateWrite>>
  BY DEF export_backup_state
<1>2. IdentityTypes'
  BY <1>1 DEF IdentityInv, IdentityTypes, BackupState
<1>3. LeasesGivenOut' /\ HolderIsCurrent'
  BY <1>1 DEF IdentityInv, LeasesGivenOut, HolderIsCurrent, Owner
<1>4. BackupBelongs' /\ PrivateRecordsBelong' /\ LeaseDiesWithState'
  BY <1>1 DEF IdentityInv, BackupBelongs, PrivateRecordsBelong, LeaseDiesWithState, Owner
<1> QED  BY <1>2, <1>3, <1>4 DEF IdentityInv

\* A restore starts with a check of the session.
LEMMA ValidateKeeps ==
  ASSUME IdentityInv, NEW w \in Worker, validate_backup_restore_session(w)
  PROVE  IdentityInv'
<1> DEFINE new == [NoRequest EXCEPT !.kind = "restore", !.pc = "trust", !.session = provider]
<1>1. new \in RequestState /\ new.pc = "trust" /\ new.lease = 0
  BY RequestDefaults, Zenon DEF RequestState, Kinds, Steps, IdentityInv, IdentityTypes
<1> HIDE DEF new
<1>2. request' = [request EXCEPT ![w] = new]
  BY DEF validate_backup_restore_session, new
<1>3. provider' \in Bearer /\ request \in [Worker -> RequestState]
  BY DEF validate_backup_restore_session, IdentityInv, IdentityTypes
<1> QED  BY <1>1, <1>2, <1>3, CallMoves, Zenon DEF validate_backup_restore_session

\* The restore replaces the state: the leases go, and their ids are not given out again.
LEMMA RestoreKeeps ==
  ASSUME IdentityInv, NEW w \in Worker, RestoreBackup(w)
  PROVE  IdentityInv'
<1> DEFINE trusted == restore_validation_identity(request[w].session)
           saved_identity == backup.identity
<1>1. /\ identity \in IdentityState /\ backup \in BackupState
      /\ request[w].session \in Bearer
  BY DEF IdentityInv, IdentityTypes, RequestState
<1>2. trusted \in IdentityState /\ saved_identity \in IdentityState
  BY <1>1 DEF restore_validation_identity, IdentityState, BackupState, Bearer
<1> HIDE DEF trusted, saved_identity
<1>3. identity' = preserve_current_sign_out_generation(saved_identity, trusted)
  BY DEF RestoreBackup, restore_backup_state_with_identity, SaveIdentity, trusted,
     saved_identity
<1>4. identity' \in IdentityState /\ Owner(identity') = Owner(saved_identity)
  BY <1>2, <1>3 DEF preserve_current_sign_out_generation, IdentityState, Owner
<1>5. holdings' \in Records /\ holdings'.private \subseteq {Owner(saved_identity)}
  BY <1>1 DEF RestoreBackup, restore_backup_state_with_identity, IdentityInv, BackupBelongs,
     BackupState, saved_identity
<1>6. /\ opLease' = 0 /\ UNCHANGED <<provider, nextLease, backup, lateWrite>>
      /\ request' = VoidLeases([request EXCEPT ![w] = NoRequest])
  BY DEF RestoreBackup, restore_backup_state_with_identity, NextLeaseAfterRestore
<1> QED  BY <1>4, <1>5, <1>6, EndedAndVoided, StateReplaced, Zenon

LEMMA IdentityInitial == IdentityInit => IdentityInv
BY RequestDefaults DEF IdentityInit, IdentityInv, IdentityTypes, LeasesGivenOut, HolderIsCurrent,
   BackupBelongs, PrivateRecordsBelong, LeaseDiesWithState

LEMMA IdentityStutter == ASSUME IdentityInv, UNCHANGED identityVars PROVE IdentityInv'
BY DEF identityVars, IdentityInv, IdentityTypes, LeasesGivenOut, HolderIsCurrent,
   BackupBelongs, PrivateRecordsBelong, LeaseDiesWithState, Owner

LEMMA IdentityStep == ASSUME IdentityInv, IdentityNext PROVE IdentityInv'
BY ProviderKeeps, BeginKeeps, LoadKeeps, RefreshKeeps, ClaimKeeps, SaveKeeps, ReleaseKeeps,
   RequireKeeps, ContactKeeps, ClearSessionKeeps, SignOutKeeps, ExportKeeps, ValidateKeeps,
   RestoreKeeps DEF IdentityNext

LEMMA IdentityInvariant == IdentitySpec => []IdentityInv
<1>1. IdentityInv /\ [IdentityNext]_identityVars => IdentityInv'
  BY IdentityStutter, IdentityStep
<1> QED  BY IdentityInitial, <1>1, PTL DEF IdentitySpec

\* Private records belong to the stored identity, whatever handshakes, refreshes, sign-outs
\* and restores overlap: require_peer_link_operation_lease and the clearing of
\* refresh_active_identity are enough, for any
\* number of calls, users and keys.
THEOREM PrivateRecordsTheorem == IdentitySpec => []PrivateRecordsBelong
<1>1. IdentityInv => PrivateRecordsBelong
  BY DEF IdentityInv
<1> QED  BY IdentityInvariant, <1>1, PTL

\* No write under a lease reaches a state that was cleared or replaced after the lease was
\* claimed: clearing drops the lease and restore_backup_state_with_identity keeps the
\* counter of the ids.
THEOREM LeaseTheorem == IdentitySpec => []LeaseDiesWithState
<1>1. IdentityInv => LeaseDiesWithState
  BY DEF IdentityInv
<1> QED  BY IdentityInvariant, <1>1, PTL

-----------------------------------------------------------------------------
(* Recovery markers                                                        *)

MarkerState == [attempt : Nat, created : Nat]
PeerState ==
  [state : {"Linked", "Linking", "RecoveryRequired"}, sync : Nat, received : Nat,
   attempt : Nat, created : Nat, remote : Nat]
EncryptedLinkState ==
  [link : SUBSET Nat, handshake : Nat, checkpointed : Nat, since : Nat]
RecoveryJob ==
  [pc : {"idle", "publish", "put", "delete", "clear"}, fresh : BOOLEAN, marker : MarkerState]

RecoveryTypes ==
  /\ tick \in Nat /\ ahead \in [Party -> Nat]
  /\ record \in [Party -> PeerState]
  /\ linkState \in [Party -> EncryptedLinkState]
  /\ marker \in [Party -> MarkerState] /\ fetched \in [Party -> MarkerState]
  /\ job \in [Party -> RecoveryJob]
  /\ attempts \in Nat /\ handshakes \in 0 .. MaxHandshake

\* A party that must recover has neither link nor handshake, and one with a handshake has no
\* link; a link is made of handshakes that were started; no record is ahead of the clock.
LinkFits(p) ==
  /\ record[p].state = "RecoveryRequired" =>
       linkState[p].link = NoLink /\ linkState[p].handshake = 0
  /\ linkState[p].handshake # 0 => linkState[p].link = NoLink
  /\ linkState[p].handshake <= handshakes
  /\ \A h \in linkState[p].link : (0 < h /\ h <= handshakes) \/ h = MaxHandshake + 1
  /\ linkState[p].checkpointed <= Clock(p)
  /\ record[p].created <= Clock(p)

\* The link of p is one that the other party still has, or is completing.
Shared(p) == linkState[p].link # NoLink /\ ~GivenUp(Other(p), linkState[p].link)

\* A marker of the other party, where it is now, is no younger than its clock, and on a
\* shared link no younger than the checkpoint: it was created in RecoveryRequired, before
\* the handshake of its author that is part of the link.
Dated(p, c) ==
  /\ c.created <= Second(Clock(Other(p)))
  /\ Shared(p) => c.created <= Second(linkState[p].checkpointed)
MarkersDated(p) ==
  Dated(p, marker[Other(p)]) /\ Dated(p, fetched[p]) /\ Dated(p, job[Other(p)].marker)

SameClocks == \A p, q \in Party : ahead[p] = ahead[q]

RecoveryInv ==
  /\ RecoveryTypes
  /\ \A p \in Party : LinkFits(p)
  /\ SameClocks => ~tornDown /\ \A p \in Party : MarkersDated(p)

LEMMA OtherParty ==
  ASSUME NEW p \in Party
  PROVE  /\ Other(p) \in Party /\ Other(p) # p /\ Other(Other(p)) = p
         /\ \A q \in Party : q = p \/ q = Other(p)
<1>1. PICK a \in Party, b \in Party : a # b /\ Party = {a, b}
  BY RecoveryConstants
<1>2. \A r \in Party : Other(r) \in Party /\ Other(r) # r
  BY <1>1 DEF Other
<1> QED  BY <1>1, <1>2

\* Truncating to the second keeps the order of two times.
LEMMA SecondMonotone ==
  ASSUME NEW s \in Nat, NEW t \in Nat, s <= t
  PROVE  Second(s) \in Nat /\ Second(t) \in Nat /\ Second(s) <= Second(t)
<1> DEFINE k == TicksPerSecond
           a == s \div k
           b == t \div k
<1>1. k \in Nat /\ k > 0
  BY RecoveryConstants
<1>2. a \in Nat /\ b \in Nat /\ k * a <= s /\ t < k * (b + 1)
  BY <1>1
<1>3. ASSUME b + 1 <= a PROVE FALSE
  <2>1. PICK d \in Nat : a = (b + 1) + d
    <3> HIDE DEF a, b
    <3>1. a - (b + 1) \in Nat /\ a = (b + 1) + (a - (b + 1))
      BY <1>2, <1>3
    <3> QED  BY <3>1
  <2> HIDE DEF a, b, k
  <2>2. k * a = k * (b + 1) + k * d /\ k * d >= 0 /\ k * (b + 1) \in Nat /\ k * d \in Nat
    BY <1>1, <1>2, <2>1
  <2> QED  BY <1>2, <2>2
<1> QED  BY <1>2, <1>3 DEF Second

LEMMA RecoveryDefaults ==
  /\ NoMarker \in MarkerState /\ NoMarker.created = 0
  /\ NoJob \in RecoveryJob /\ NoJob.marker = NoMarker /\ NoJob.pc = "idle"
BY DEF NoMarker, MarkerState, NoJob, RecoveryJob

\* A shared link was shared before and has a later checkpoint, or has one of just now.
Later(p) ==
  Shared(p)' =>
    \/ Shared(p) /\ linkState[p].checkpointed <= linkState'[p].checkpointed
    \/ linkState'[p].checkpointed = Clock(p)'

Markers(p) == {marker[Other(p)], fetched[p], job[Other(p)].marker}

\* The markers that are under way stay dated when a link is made or checkpointed.
LEMMA StaysDated ==
  ASSUME RecoveryTypes, RecoveryTypes', SameClocks, ahead' = ahead, tick <= tick',
         NEW p \in Party, Later(p), NEW c \in MarkerState, Dated(p, c) \/ c = NoMarker
  PROVE  /\ c.created <= Second(Clock(Other(p))')
         /\ Shared(p)' => c.created <= Second(linkState'[p].checkpointed)
<1>1. /\ Other(p) \in Party /\ Clock(p) \in Nat /\ Clock(p)' \in Nat
      /\ Clock(Other(p)) = Clock(p) /\ Clock(Other(p))' = Clock(p)' /\ Clock(p) <= Clock(p)'
      /\ linkState[p].checkpointed \in Nat /\ linkState'[p].checkpointed \in Nat
      /\ c.created \in Nat
  BY OtherParty DEF RecoveryTypes, EncryptedLinkState, SameClocks, Clock, MarkerState
<1>2. /\ Second(Clock(p)) <= Second(Clock(p)') /\ Second(Clock(p)) \in Nat
      /\ Second(Clock(p)') \in Nat
  BY <1>1, SecondMonotone
<1>3. Second(linkState[p].checkpointed) \in Nat /\ Second(linkState'[p].checkpointed) \in Nat
  BY <1>1, SecondMonotone
<1>4. CASE c = NoMarker
  BY <1>1, <1>2, <1>3, <1>4, RecoveryDefaults
<1>5. CASE Dated(p, c)
  <2>1. c.created <= Second(Clock(p)) /\ (Shared(p) => c.created <= Second(linkState[p].checkpointed))
    BY <1>1, <1>5 DEF Dated
  <2>2. c.created <= Second(Clock(p)')
    BY <1>1, <1>2, <2>1
  <2>3. CASE Shared(p) /\ linkState[p].checkpointed <= linkState'[p].checkpointed
    <3>1. Second(linkState[p].checkpointed) <= Second(linkState'[p].checkpointed)
      BY <1>1, <2>3, SecondMonotone
    <3> QED  BY <1>1, <1>3, <2>1, <2>2, <2>3, <3>1
  <2>4. CASE linkState'[p].checkpointed = Clock(p)'
    BY <1>1, <2>2, <2>4
  <2> QED  BY <1>1, <2>2, <2>3, <2>4 DEF Later
<1> QED  BY <1>4, <1>5

\* A step that creates no marker.
LEMMA RecoveryKept ==
  ASSUME RecoveryInv, RecoveryTypes', \A p \in Party : LinkFits(p)', ahead' = ahead,
         tick <= tick', SameClocks => ~tornDown', \A p \in Party : Later(p),
         \A p \in Party : Markers(p)' \subseteq Markers(p) \cup {NoMarker}
  PROVE  RecoveryInv'
<1>1. SameClocks' = SameClocks
  BY DEF SameClocks
<1>2. ASSUME SameClocks, NEW p \in Party PROVE MarkersDated(p)'
  <2>1. Other(p) \in Party /\ RecoveryTypes
    BY OtherParty DEF RecoveryInv
  <2>2. ASSUME NEW c \in Markers(p)'
        PROVE  /\ c.created <= Second(Clock(Other(p))')
               /\ Shared(p)' => c.created <= Second(linkState'[p].checkpointed)
    <3>1. c \in MarkerState
      BY <2>1, <2>2 DEF Markers, RecoveryTypes, RecoveryJob
    <3>2. c = NoMarker \/ c \in Markers(p)
      BY <2>2
    <3>3. c \in Markers(p) => Dated(p, c)
      BY <1>2, Zenon DEF Markers, RecoveryInv, MarkersDated
    <3>4. Later(p)
      OBVIOUS
    <3> QED  BY <1>2, <2>1, <3>1, <3>2, <3>3, <3>4, StaysDated
  <2>3. /\ marker'[Other(p)] \in Markers(p)' /\ fetched'[p] \in Markers(p)'
        /\ job'[Other(p)].marker \in Markers(p)'
    BY DEF Markers
  <2> QED  BY <2>2, <2>3 DEF MarkersDated, Dated
<1> QED  BY <1>1, <1>2 DEF RecoveryInv

\* The links stay as they are, and with them what dates the markers.
LEMMA LinksStay ==
  ASSUME RecoveryInv, RecoveryTypes', UNCHANGED <<tick, ahead, linkState, handshakes, tornDown>>,
         \A p \in Party : /\ record'[p].state = record[p].state
                          /\ record'[p].created \in {record[p].created, 0},
         \A p \in Party : Markers(p)' \subseteq Markers(p) \cup {NoMarker}
  PROVE  RecoveryInv'
<1>1. \A p \in Party : LinkFits(p)'
  BY DEF RecoveryInv, RecoveryTypes, PeerState, LinkFits, Clock
<1>2. \A p \in Party : Later(p)
  BY OtherParty DEF RecoveryInv, RecoveryTypes, EncryptedLinkState, Later, Shared, GivenUp
<1> QED  BY <1>1, <1>2, RecoveryKept DEF RecoveryInv, RecoveryTypes

\* One party's link changes: what the links of both have to do with the checkpoints.
LEMMA LinkMoves ==
  ASSUME RecoveryInv, NEW p \in Party, NEW new \in EncryptedLinkState,
         linkState' = [linkState EXCEPT ![p] = new]
  PROVE  /\ linkState'[p] = new /\ linkState'[Other(p)] = linkState[Other(p)]
         /\ linkState' \in [Party -> EncryptedLinkState]
BY OtherParty DEF RecoveryInv, RecoveryTypes

\* One party's record changes.
LEMMA RecordMoves ==
  ASSUME RecoveryTypes, NEW p \in Party, NEW new \in PeerState,
         record' = [record EXCEPT ![p] = new]
  PROVE  /\ record' \in [Party -> PeerState] /\ record'[p] = new
         /\ \A q \in Party : q # p => record'[q] = record[q]
BY DEF RecoveryTypes

LEMMA MarkedRecord ==
  ASSUME RecoveryTypes, NEW p \in Party
  PROVE  /\ Marked(p) \in PeerState /\ Marked(p).state = "RecoveryRequired"
         /\ Marked(p).created = record[p].created
<1>1. record[p] \in PeerState /\ Clock(p) \in Nat
  BY DEF RecoveryTypes, Clock
<1>2. PICK at \in Nat : Marked(p) = [record[p] EXCEPT !.state = "RecoveryRequired", !.sync = at]
  <2>1. CASE NewEpisode(p)
    BY <1>1, <2>1, Zenon DEF Marked
  <2>2. CASE ~NewEpisode(p)
    <3>1. Marked(p) = [record[p] EXCEPT !.state = "RecoveryRequired", !.sync = record[p].sync]
      BY <2>2 DEF Marked
    <3>2. record[p].sync \in Nat
      BY <1>1 DEF PeerState
    <3> QED  BY <3>1, <3>2, Zenon
  <2> QED  BY <2>1, <2>2, Zenon
<1> QED  BY <1>1, <1>2, Zenon DEF PeerState

LEMMA DroppedLink ==
  ASSUME RecoveryTypes, NEW p \in Party
  PROVE  /\ Dropped(p) \in [Party -> EncryptedLinkState]
         /\ Dropped(p)[p].link = NoLink /\ Dropped(p)[p].handshake = 0
         /\ Dropped(p)[p].checkpointed = Clock(p)
         /\ \A q \in Party : q # p => Dropped(p)[q] = linkState[q]
<1> DEFINE new == [linkState[p] EXCEPT !.link = NoLink, !.handshake = 0,
                                       !.checkpointed = Clock(p)]
<1>1. linkState[p] \in EncryptedLinkState /\ Clock(p) \in Nat
  BY DEF RecoveryTypes, Clock
<1>2. /\ new \in EncryptedLinkState /\ new.link = NoLink /\ new.handshake = 0
      /\ new.checkpointed = Clock(p)
  BY <1>1, Zenon DEF EncryptedLinkState, NoLink
<1>3. Dropped(p) = [linkState EXCEPT ![p] = new]
  BY DEF Dropped, RecoveryTypes
<1> HIDE DEF new
<1> QED  BY <1>2, <1>3 DEF RecoveryTypes

\* The link of p is dropped: p shares none, and has given up the one of the other party.
LEMMA DropKeeps ==
  ASSUME RecoveryInv, RecoveryTypes', NEW p \in Party, linkState' = Dropped(p),
         UNCHANGED <<tick, ahead, handshakes>>, SameClocks => ~tornDown',
         record'[p].state = "RecoveryRequired", record'[p].created = record[p].created,
         record'[Other(p)] = record[Other(p)],
         \A r \in Party : Markers(r)' \subseteq Markers(r) \cup {NoMarker}
  PROVE  RecoveryInv'
<1> DEFINE q == Other(p)
<1>1. q \in Party /\ q # p /\ Other(q) = p /\ \A r \in Party : r = p \/ r = q
  BY OtherParty
<1> HIDE DEF q
<1>2. /\ linkState'[p].link = NoLink /\ linkState'[p].handshake = 0
      /\ linkState'[p].checkpointed = Clock(p) /\ linkState'[q] = linkState[q]
  BY <1>1, DroppedLink DEF RecoveryInv
<1>3. LinkFits(p)'
  <2>1. /\ Clock(p)' = Clock(p) /\ Clock(p) \in Nat /\ handshakes' = handshakes
        /\ handshakes \in Nat /\ record[p].created <= Clock(p)
    BY DEF RecoveryInv, RecoveryTypes, LinkFits, Clock
  <2>2. \A h \in linkState'[p].link : FALSE
    BY <1>2 DEF NoLink
  <2> QED  BY <1>2, <2>1, <2>2 DEF LinkFits
<1>4. LinkFits(q)'
  BY <1>1, <1>2 DEF RecoveryInv, LinkFits, Clock, q
<1>5. Later(p)
  BY <1>2 DEF Later, Shared
<1>6. Later(q)
  <2>1. linkState[q].link # NoLink => 0 \notin linkState[q].link
    BY <1>1, RecoveryConstants DEF RecoveryInv, RecoveryTypes, LinkFits, EncryptedLinkState
  <2>2. ~Shared(q)'
    BY <1>1, <1>2, <2>1, Zenon DEF Shared, GivenUp
  <2> QED  BY <2>2 DEF Later
<1>7. \A r \in Party : LinkFits(r)' /\ Later(r)
  BY <1>1, <1>3, <1>4, <1>5, <1>6
<1> QED  BY <1>7, RecoveryKept DEF RecoveryInv, RecoveryTypes

LEMMA RequireRecoveryKeeps ==
  ASSUME RecoveryInv, NEW p \in Party, RequireRecovery(p)
  PROVE  RecoveryInv'
<1> DEFINE new == [NoJob EXCEPT !.pc = "publish", !.fresh = NewEpisode(p)]
<1>1. RecoveryTypes /\ job' = [job EXCEPT ![p] = new] /\ record' = [record EXCEPT ![p] = Marked(p)]
  BY DEF RecoveryInv, RequireRecovery
<1>2. new \in RecoveryJob /\ new.marker = NoMarker
  BY Zenon DEF NoJob, RecoveryJob, NewEpisode, MarkerState, NoMarker
<1> HIDE DEF new
<1>3. linkState' \in [Party -> EncryptedLinkState]
  BY <1>1, DroppedLink DEF RequireRecovery
<1>4. RecoveryTypes'
  BY <1>1, <1>2, <1>3, MarkedRecord, Zenon DEF RecoveryTypes, RequireRecovery
<1>5. \A r \in Party : Markers(r)' \subseteq Markers(r) \cup {NoMarker}
  BY <1>1, <1>2, OtherParty, Zenon DEF RecoveryTypes, RequireRecovery, Markers
<1>6. /\ record'[p].state = "RecoveryRequired" /\ record'[p].created = record[p].created
      /\ record'[Other(p)] = record[Other(p)]
  BY <1>1, MarkedRecord, OtherParty DEF RecoveryTypes
<1> QED  BY <1>4, <1>5, <1>6, DropKeeps DEF RequireRecovery, RecoveryInv

\* The one step that creates a marker: its author has no link and no handshake, so that it
\* shares none.
LEMMA ChooseAttemptKeeps ==
  ASSUME RecoveryInv, NEW p \in Party, ChooseAttempt(p)
  PROVE  RecoveryInv'
<1> DEFINE q == Other(p)
<1>1. q \in Party /\ q # p /\ Other(q) = p /\ \A r \in Party : r = p \/ r = q
  BY OtherParty
<1> HIDE DEF q
<1>2. PICK id \in Nat, at \in Nat :
        /\ at <= Clock(p)
        /\ record' = [record EXCEPT ![p].attempt = id, ![p].created = at]
        /\ job' = [job EXCEPT ![p].pc = "put",
                              ![p].marker = [attempt |-> id, created |-> Second(at)]]
  <2>1. record[p].attempt \in Nat /\ record[p].created \in Nat /\ attempts + 1 \in Nat
        /\ Clock(p) \in Nat /\ record[p].created <= Clock(p)
    BY DEF RecoveryInv, RecoveryTypes, PeerState, Clock, LinkFits
  <2>2. CASE ~job[p].fresh /\ local_recovery_marker_belongs_to_current_episode(record[p])
    BY <2>1, <2>2, Zenon DEF ChooseAttempt
  <2>3. CASE ~(~job[p].fresh /\ local_recovery_marker_belongs_to_current_episode(record[p]))
    <3>1. /\ record' = [record EXCEPT ![p].attempt = attempts + 1, ![p].created = Clock(p)]
          /\ job' = [job EXCEPT ![p].pc = "put",
                                ![p].marker = [attempt |-> attempts + 1,
                                               created |-> Second(Clock(p))]]
      BY <2>3, Zenon DEF ChooseAttempt
    <3>2. Clock(p) <= Clock(p)
      BY <2>1
    <3> QED  BY <2>1, <3>1, <3>2, Zenon
  <2> QED  BY <2>2, <2>3, Zenon
<1>3. /\ UNCHANGED <<tick, ahead, linkState, marker, fetched, handshakes, tornDown>>
      /\ record[p].state = "RecoveryRequired" /\ RecoveryTypes
      /\ Clock(p) \in Nat /\ attempts' \in Nat
  BY DEF ChooseAttempt, RecoveryInv, RecoveryTypes, Clock
<1>4. Second(at) \in Nat /\ Second(at) <= Second(Clock(p)) /\ Second(Clock(p)) \in Nat
  BY <1>2, <1>3, SecondMonotone
<1>5. [attempt |-> id, created |-> Second(at)] \in MarkerState
  BY <1>2, <1>4 DEF MarkerState
<1>6. /\ record' \in [Party -> PeerState]
      /\ record'[p].state = record[p].state /\ record'[p].created = at
      /\ record'[q] = record[q]
  <2> DEFINE new == [record[p] EXCEPT !.attempt = id, !.created = at]
  <2>1. new \in PeerState /\ new.state = record[p].state /\ new.created = at
    BY <1>2, <1>3, Zenon DEF RecoveryTypes, PeerState
  <2>2. record' = [record EXCEPT ![p] = new]
    BY <1>2, <1>3, Zenon DEF RecoveryTypes
  <2> HIDE DEF new
  <2> QED  BY <1>1, <1>3, <2>1, <2>2, RecordMoves, Zenon
<1>7. /\ job' \in [Party -> RecoveryJob]
      /\ job'[p].marker = [attempt |-> id, created |-> Second(at)] /\ job'[q] = job[q]
  <2> DEFINE new == [job[p] EXCEPT !.pc = "put",
                                   !.marker = [attempt |-> id, created |-> Second(at)]]
  <2>1. job[p] \in RecoveryJob
    BY <1>3 DEF RecoveryTypes
  <2>2. new \in RecoveryJob /\ new.marker = [attempt |-> id, created |-> Second(at)]
    BY <1>5, <2>1, Zenon DEF RecoveryJob
  <2>3. job' = [job EXCEPT ![p] = new]
    BY <1>2, <1>3, Zenon DEF RecoveryTypes
  <2> HIDE DEF new
  <2> QED  BY <1>1, <1>3, <2>2, <2>3 DEF RecoveryTypes
<1>8. RecoveryTypes'
  BY <1>3, <1>6, <1>7 DEF RecoveryTypes
<1>9. \A r \in Party : LinkFits(r)'
  BY <1>1, <1>2, <1>3, <1>6 DEF RecoveryInv, LinkFits, Clock
<1>10. ~Shared(q)
  <2>1. linkState[p].link = NoLink /\ linkState[p].handshake = 0
    BY <1>3 DEF RecoveryInv, LinkFits
  <2>2. linkState[q].link # NoLink => 0 \notin linkState[q].link
    BY <1>1, RecoveryConstants DEF RecoveryInv, RecoveryTypes, LinkFits, EncryptedLinkState
  <2> QED  BY <1>1, <2>1, <2>2 DEF Shared, GivenUp
<1>11. SameClocks' = SameClocks /\ Shared(p)' = Shared(p) /\ Shared(q)' = Shared(q)
  BY <1>3 DEF SameClocks, Shared, GivenUp
<1>12. ASSUME SameClocks PROVE MarkersDated(p)' /\ MarkersDated(q)'
  <2>1. MarkersDated(p) /\ MarkersDated(q)
    BY <1>1, <1>12, SMTT(20) DEF RecoveryInv
  <2>2. MarkersDated(p)'
    BY <1>3, <1>7, <1>11, <2>1 DEF MarkersDated, Dated, Clock, q
  <2>3. job'[p].marker.created <= Second(Clock(p))
    BY <1>4, <1>7, SMTT(20)
  <2>4. MarkersDated(q)'
    BY <1>1, <1>3, <1>10, <1>11, <2>1, <2>3 DEF MarkersDated, Dated, Clock
  <2> QED  BY <2>2, <2>4
<1> QED  BY <1>1, <1>3, <1>8, <1>9, <1>11, <1>12 DEF RecoveryInv

\* Markers are written, fetched and removed.
LEMMA DocumentStepKeeps ==
  ASSUME RecoveryInv, NEW p \in Party,
         \/ PutRecoveryMarker(p) \/ PublishGivesUp(p) \/ FetchMarker(p) \/ RemoveMarker(p)
         \/ RemoveIfRecorded(p)
  PROVE  RecoveryInv'
<1>1. RecoveryTypes /\ UNCHANGED <<tick, ahead, record, linkState, attempts, handshakes, tornDown>>
  BY DEF RecoveryInv, PutRecoveryMarker, PublishGivesUp, FetchMarker, RemoveMarker,
     RemoveIfRecorded
<1>2. Other(p) \in Party /\ Other(Other(p)) = p /\ \A r \in Party : r = p \/ r = Other(p)
  BY OtherParty
<1>3. /\ marker' \in [Party -> MarkerState]
      /\ marker'[Other(p)] = marker[Other(p)]
      /\ marker'[p] \in {marker[p], job[p].marker, NoMarker}
  BY <1>1, RecoveryDefaults, OtherParty DEF RecoveryTypes, RecoveryJob, PutRecoveryMarker,
     PublishGivesUp, FetchMarker, RemoveMarker, RemoveIfRecorded
<1>4. /\ job' \in [Party -> RecoveryJob]
      /\ job'[Other(p)] = job[Other(p)]
      /\ job'[p].marker \in {job[p].marker, NoMarker}
  <2>1. \E new \in RecoveryJob : /\ job' = [job EXCEPT ![p] = new]
                                 /\ new.marker \in {job[p].marker, NoMarker}
    <3>1. CASE UNCHANGED job
      <4>1. job' = [job EXCEPT ![p] = job[p]] /\ job[p] \in RecoveryJob
        BY <1>1, <3>1 DEF RecoveryTypes
      <4> QED  BY <4>1, Zenon
    <3>2. CASE job' = [job EXCEPT ![p] = NoJob]
      BY <3>2, RecoveryDefaults, Zenon
    <3>3. CASE job' = [job EXCEPT ![p].pc = "clear"]
      <4> DEFINE new == [job[p] EXCEPT !.pc = "clear"]
      <4>1. new \in RecoveryJob /\ new.marker = job[p].marker
        BY <1>1 DEF RecoveryTypes, RecoveryJob
      <4>2. job' = [job EXCEPT ![p] = new]
        BY <1>1, <3>3 DEF RecoveryTypes
      <4> HIDE DEF new
      <4> QED  BY <4>1, <4>2, Zenon
    <3> QED
      BY <3>1, <3>2, <3>3 DEF PutRecoveryMarker, PublishGivesUp, FetchMarker, RemoveMarker,
         RemoveIfRecorded, Release
  <2> QED  BY <1>1, <2>1, OtherParty DEF RecoveryTypes
<1>5. /\ fetched' \in [Party -> MarkerState]
      /\ fetched'[Other(p)] = fetched[Other(p)]
      /\ fetched'[p] \in {fetched[p], marker[Other(p)]}
  BY <1>1, OtherParty DEF RecoveryTypes, PutRecoveryMarker, PublishGivesUp, FetchMarker,
     RemoveMarker, RemoveIfRecorded
<1>6. RecoveryTypes'
  BY <1>1, <1>3, <1>4, <1>5 DEF RecoveryTypes
<1>7. \A r \in Party : Markers(r)' \subseteq Markers(r) \cup {NoMarker}
  <2>1. Markers(p)' \subseteq Markers(p) \cup {NoMarker}
    BY <1>3, <1>4, <1>5 DEF Markers
  <2>2. Markers(Other(p))' \subseteq Markers(Other(p)) \cup {NoMarker}
    BY <1>2, <1>3, <1>4, <1>5 DEF Markers
  <2> QED  BY <1>2, <2>1, <2>2
<1> QED  BY <1>1, <1>6, <1>7, LinksStay

LEMMA ClearAttemptKeeps ==
  ASSUME RecoveryInv, NEW p \in Party, ClearAttempt(p) \/ ClearIfRecorded(p)
  PROVE  RecoveryInv'
<1>1. /\ RecoveryTypes
      /\ UNCHANGED <<tick, ahead, linkState, marker, fetched, attempts, handshakes, tornDown>>
      /\ record' = [record EXCEPT ![p].attempt = 0, ![p].created = 0]
      /\ job' \in {job, [job EXCEPT ![p] = NoJob]}
  BY DEF RecoveryInv, ClearAttempt, ClearIfRecorded, ClearedRecord, Release
<1>2. /\ record' \in [Party -> PeerState]
      /\ \A r \in Party : /\ record'[r].state = record[r].state
                          /\ record'[r].created \in {record[r].created, 0}
  <2> DEFINE new == [record[p] EXCEPT !.attempt = 0, !.created = 0]
  <2>0. record[p] \in PeerState
    BY <1>1 DEF RecoveryTypes
  <2>1. new \in PeerState /\ new.state = record[p].state /\ new.created = 0
    BY <2>0, Zenon DEF PeerState
  <2>2. record' = [record EXCEPT ![p] = new]
    BY <1>1, Zenon DEF RecoveryTypes
  <2> HIDE DEF new
  <2> QED  BY <1>1, <2>1, <2>2, RecordMoves, Zenon
<1>3. /\ job' \in [Party -> RecoveryJob]
      /\ \A r \in Party : job'[r].marker \in {job[r].marker, NoMarker}
  BY <1>1, RecoveryDefaults DEF RecoveryTypes
<1>4. RecoveryTypes'
  BY <1>1, <1>2, <1>3 DEF RecoveryTypes
<1>5. \A r \in Party : Markers(r)' \subseteq Markers(r) \cup {NoMarker}
  BY <1>1, <1>3, OtherParty DEF Markers
<1> QED  BY <1>1, <1>2, <1>4, <1>5, LinksStay

\* A marker that is heeded is younger than the checkpoint, so that the link is not shared.
LEMMA MarkObservedKeeps ==
  ASSUME RecoveryInv, NEW p \in Party, MarkObserved(p)
  PROVE  RecoveryInv'
<1> DEFINE m == fetched[p]
           heeds == Heeds(record[p], linkState[p], m)
<1>1. /\ RecoveryTypes /\ UNCHANGED <<tick, ahead, marker, job, attempts, handshakes>>
      /\ fetched' = [fetched EXCEPT ![p] = NoMarker]
      /\ record' = IF heeds THEN [record EXCEPT ![p] = [Marked(p) EXCEPT !.remote = m.attempt,
                                                                         !.sync = Clock(p)]]
                            ELSE record
      /\ linkState' = IF heeds THEN Dropped(p) ELSE linkState
      /\ tornDown' = (tornDown \/ (heeds /\ BreaksLiveLink(p)))
  BY DEF RecoveryInv, MarkObserved
<1>2. fetched' \in [Party -> MarkerState] /\ fetched'[p] = NoMarker
      /\ \A r \in Party : fetched'[r] \in {fetched[r], NoMarker}
  BY <1>1, RecoveryDefaults DEF RecoveryTypes
<1>3. \A r \in Party : Markers(r)' \subseteq Markers(r) \cup {NoMarker}
  BY <1>1, <1>2 DEF Markers
<1>4. ASSUME SameClocks, heeds PROVE ~BreaksLiveLink(p)
  <2>1. Dated(p, m)
    BY <1>4 DEF RecoveryInv, MarkersDated
  <2>2. ~remote_recovery_marker_is_stale(record[p], linkState[p], m.created)
    BY <1>4 DEF Heeds
  <2> QED  BY <2>1, <2>2 DEF Dated, Shared, BreaksLiveLink, remote_recovery_marker_is_stale
<1>5. SameClocks => ~tornDown'
  BY <1>1, <1>4, Zenon DEF RecoveryInv
<1>6. CASE heeds
  <2> DEFINE new == [Marked(p) EXCEPT !.remote = m.attempt, !.sync = Clock(p)]
  <2>1. /\ new \in PeerState /\ new.state = "RecoveryRequired"
        /\ new.created = record[p].created
    <3>1. m.attempt \in Nat /\ Clock(p) \in Nat
      BY <1>1 DEF RecoveryTypes, MarkerState, Clock
    <3> QED  BY <1>1, <3>1, MarkedRecord, Zenon DEF PeerState
  <2>2. record' = [record EXCEPT ![p] = new] /\ linkState' = Dropped(p)
    BY <1>1, <1>6
  <2> HIDE DEF new
  <2>3. linkState' \in [Party -> EncryptedLinkState]
    BY <1>1, <2>2, DroppedLink
  <2>4. RecoveryTypes'
    BY <1>1, <1>2, <2>1, <2>2, <2>3 DEF RecoveryTypes
  <2>5. /\ record'[p].state = "RecoveryRequired" /\ record'[p].created = record[p].created
        /\ record'[Other(p)] = record[Other(p)]
    BY <1>1, <2>1, <2>2, OtherParty, Zenon DEF RecoveryTypes
  <2> QED  BY <1>1, <1>3, <1>5, <2>2, <2>4, <2>5, DropKeeps
<1>7. CASE ~heeds
  <2>1. UNCHANGED <<record, linkState>> /\ tornDown' = (tornDown \/ FALSE)
    BY <1>1, <1>7
  <2>2. RecoveryTypes'
    BY <1>1, <1>2, <2>1 DEF RecoveryTypes
  <2>3. \A r \in Party : LinkFits(r)'
    BY <1>1, <2>1, Zenon DEF RecoveryInv, LinkFits, Clock
  <2>4. \A r \in Party : Later(r)
    BY <1>1, <2>1 DEF RecoveryTypes, EncryptedLinkState, Later, Shared, GivenUp
  <2> QED  BY <1>1, <1>3, <1>5, <2>2, <2>3, <2>4, RecoveryKept DEF RecoveryTypes
<1> QED  BY <1>6, <1>7

\* A new handshake is part of no link yet.
LEMMA StartHandshakeKeeps ==
  ASSUME RecoveryInv, NEW p \in Party, StartHandshake(p)
  PROVE  RecoveryInv'
<1> DEFINE q == Other(p)
<1>1. q \in Party /\ q # p /\ Other(q) = p /\ \A r \in Party : r = p \/ r = q
  BY OtherParty
<1> HIDE DEF q
<1>2. /\ RecoveryTypes /\ UNCHANGED <<tick, ahead, marker, job, fetched, attempts, tornDown>>
      /\ handshakes' = handshakes + 1 /\ handshakes < MaxHandshake
      /\ Clock(p) \in Nat /\ MaxHandshake \in Nat /\ handshakes + 1 \in Nat
      /\ linkState[p].link = NoLink
  BY RecoveryConstants DEF RecoveryInv, RecoveryTypes, StartHandshake, Clock, LinkFits
<1>3. /\ linkState' \in [Party -> EncryptedLinkState] /\ linkState'[q] = linkState[q]
      /\ linkState'[p].link = NoLink /\ linkState'[p].handshake = handshakes + 1
      /\ linkState'[p].checkpointed = Clock(p)
  <2> DEFINE new == [linkState[p] EXCEPT !.handshake = handshakes + 1, !.checkpointed = Clock(p)]
  <2>1. /\ new \in EncryptedLinkState /\ new.link = NoLink /\ new.handshake = handshakes + 1
        /\ new.checkpointed = Clock(p)
    <3>1. linkState[p] \in EncryptedLinkState
      BY <1>2 DEF RecoveryTypes
    <3> QED  BY <1>2, <3>1, Zenon DEF EncryptedLinkState
  <2>2. linkState' = [linkState EXCEPT ![p] = new]
    BY <1>2, Zenon DEF StartHandshake, RecoveryTypes, EncryptedLinkState
  <2> HIDE DEF new
  <2> QED  BY <1>1, <1>2, <2>1, <2>2 DEF RecoveryTypes
<1>4. /\ record' \in [Party -> PeerState] /\ record'[q] = record[q]
      /\ record'[p].state = "Linking" /\ record'[p].created = record[p].created
  <2> DEFINE new == [record[p] EXCEPT !.state = "Linking", !.sync = Clock(p)]
  <2>1. new \in PeerState /\ new.state = "Linking" /\ new.created = record[p].created
    BY <1>2, Zenon DEF RecoveryTypes, PeerState
  <2>2. record' = [record EXCEPT ![p] = new]
    BY <1>2, Zenon DEF StartHandshake, RecoveryTypes, PeerState
  <2> HIDE DEF new
  <2> QED  BY <1>1, <1>2, <2>1, <2>2 DEF RecoveryTypes
<1>5. RecoveryTypes'
  BY <1>2, <1>3, <1>4 DEF RecoveryTypes
<1>6. LinkFits(p)'
  BY <1>2, <1>3, <1>4 DEF RecoveryInv, RecoveryTypes, LinkFits, Clock, NoLink
<1>7. LinkFits(q)'
  BY <1>1, <1>2, <1>3, <1>4 DEF RecoveryInv, RecoveryTypes, EncryptedLinkState, LinkFits, Clock
<1>8. Later(p)
  BY <1>3 DEF Later, Shared
<1>9. Later(q)
  <2>1. handshakes + 1 \notin linkState[q].link
    BY <1>1, <1>2 DEF RecoveryInv, RecoveryTypes, EncryptedLinkState, LinkFits
  <2>2. ~Shared(q)'
    BY <1>1, <1>3, <2>1 DEF Shared, GivenUp
  <2> QED  BY <2>2 DEF Later
<1>10. \A r \in Party : LinkFits(r)' /\ Later(r)
  BY <1>1, <1>6, <1>7, <1>8, <1>9
<1>11. \A r \in Party : Markers(r)' = Markers(r)
  BY <1>2 DEF Markers
<1> QED  BY <1>2, <1>5, <1>10, <1>11, RecoveryKept DEF RecoveryInv, RecoveryTypes

\* The completed handshake is checkpointed now; the other party shared the link before.
LEMMA CompleteHandshakeKeeps ==
  ASSUME RecoveryInv, NEW p \in Party, CompleteHandshake(p)
  PROVE  RecoveryInv'
<1> DEFINE q == Other(p)
           met == IF linkState[q].handshake # 0
                  THEN {linkState[p].handshake, linkState[q].handshake} ELSE linkState[q].link
           new == [link |-> met, handshake |-> 0, checkpointed |-> Clock(p), since |-> Clock(p)]
           newJob == [NoJob EXCEPT !.pc = "delete"]
<1>1. q \in Party /\ q # p /\ Other(q) = p /\ \A r \in Party : r = p \/ r = q
  BY OtherParty
<1>2. /\ RecoveryTypes /\ UNCHANGED <<tick, ahead, marker, fetched, attempts, handshakes, tornDown>>
      /\ linkState[p].handshake # 0 /\ linkState[p].handshake \in met
      /\ linkState' = [linkState EXCEPT ![p] = new]
      /\ record' = [record EXCEPT ![p].state = "Linked", ![p].sync = Clock(p)]
      /\ job' = [job EXCEPT ![p] = newJob]
      /\ Clock(p) \in Nat
  BY DEF RecoveryInv, RecoveryTypes, CompleteHandshake, Clock
<1>3. newJob \in RecoveryJob /\ newJob.marker = NoMarker
  BY Zenon DEF NoJob, RecoveryJob, MarkerState, NoMarker
<1> HIDE DEF q, newJob
<1>4. /\ met \in SUBSET Nat
      /\ \A h \in met : (0 < h /\ h <= handshakes) \/ h = MaxHandshake + 1
  BY <1>1, <1>2 DEF RecoveryInv, RecoveryTypes, EncryptedLinkState, LinkFits
<1>5. linkState[q].link # NoLink => met = linkState[q].link
  BY <1>1 DEF RecoveryInv, LinkFits
<1> HIDE DEF met
<1>6. /\ linkState' \in [Party -> EncryptedLinkState] /\ linkState'[q] = linkState[q]
      /\ linkState'[p].link = met /\ linkState'[p].handshake = 0
      /\ linkState'[p].checkpointed = Clock(p)
  BY <1>1, <1>2, <1>4 DEF RecoveryTypes, EncryptedLinkState
<1>7. /\ record' \in [Party -> PeerState] /\ record'[q] = record[q]
      /\ record'[p].state = "Linked" /\ record'[p].created = record[p].created
  <2> DEFINE rec == [record[p] EXCEPT !.state = "Linked", !.sync = Clock(p)]
  <2>1. rec \in PeerState /\ rec.state = "Linked" /\ rec.created = record[p].created
    BY <1>2, Zenon DEF RecoveryTypes, PeerState
  <2>2. record' = [record EXCEPT ![p] = rec]
    BY <1>2, Zenon DEF RecoveryTypes
  <2> HIDE DEF rec
  <2> QED  BY <1>1, <1>2, <2>1, <2>2, RecordMoves, Zenon
<1>8. RecoveryTypes'
  BY <1>2, <1>3, <1>6, <1>7 DEF RecoveryTypes
<1>9. LinkFits(p)'
  BY <1>2, <1>4, <1>6, <1>7 DEF RecoveryInv, RecoveryTypes, LinkFits, Clock
<1>10. LinkFits(q)'
  BY <1>1, <1>2, <1>6, <1>7 DEF RecoveryInv, LinkFits, Clock
<1>11. Later(p)
  BY <1>2, <1>6 DEF Later, Clock
<1>12. Later(q)
  <2>1. Shared(q)' => Shared(q)
    BY <1>1, <1>2, <1>5, <1>6 DEF Shared, GivenUp
  <2> QED  BY <1>1, <1>2, <1>6, <2>1 DEF Later, RecoveryTypes, EncryptedLinkState
<1>13. \A r \in Party : LinkFits(r)' /\ Later(r)
  BY <1>1, <1>9, <1>10, <1>11, <1>12
<1>14. \A r \in Party : Markers(r)' \subseteq Markers(r) \cup {NoMarker}
  BY <1>2, <1>3, OtherParty DEF Markers, RecoveryTypes
<1> QED  BY <1>2, <1>8, <1>13, <1>14, RecoveryKept DEF RecoveryInv, RecoveryTypes

LEMMA CheckpointLinkKeeps ==
  ASSUME RecoveryInv, NEW p \in Party, CheckpointLink(p)
  PROVE  RecoveryInv'
<1> DEFINE q == Other(p)
<1>1. q \in Party /\ q # p /\ Other(q) = p /\ \A r \in Party : r = p \/ r = q
  BY OtherParty
<1> HIDE DEF q
<1>2. /\ RecoveryTypes
      /\ UNCHANGED <<tick, ahead, marker, job, fetched, attempts, handshakes, tornDown>>
      /\ linkState' = [linkState EXCEPT ![p].checkpointed = Clock(p)]
      /\ Clock(p) \in Nat
  BY DEF RecoveryInv, RecoveryTypes, CheckpointLink, Clock
<1>3. PICK received \in Nat :
        record' = [record EXCEPT ![p].sync = Clock(p), ![p].received = received]
  BY <1>2, Zenon DEF CheckpointLink, RecoveryTypes, PeerState
<1>4. /\ linkState' \in [Party -> EncryptedLinkState] /\ linkState'[q] = linkState[q]
      /\ linkState'[p].link = linkState[p].link
      /\ linkState'[p].handshake = linkState[p].handshake
      /\ linkState'[p].checkpointed = Clock(p)
  BY <1>1, <1>2, Zenon DEF RecoveryTypes, EncryptedLinkState
<1>5. /\ record' \in [Party -> PeerState] /\ record'[q] = record[q]
      /\ record'[p].state = record[p].state /\ record'[p].created = record[p].created
  <2> DEFINE new == [record[p] EXCEPT !.sync = Clock(p), !.received = received]
  <2>1. new \in PeerState /\ new.state = record[p].state /\ new.created = record[p].created
    BY <1>2, Zenon DEF RecoveryTypes, PeerState
  <2>2. record' = [record EXCEPT ![p] = new]
    BY <1>2, <1>3, Zenon DEF RecoveryTypes, PeerState
  <2> HIDE DEF new
  <2> QED  BY <1>1, <1>2, <2>1, <2>2 DEF RecoveryTypes
<1>6. RecoveryTypes'
  BY <1>2, <1>4, <1>5 DEF RecoveryTypes
<1>7. LinkFits(p)'
  BY <1>2, <1>4, <1>5 DEF RecoveryInv, RecoveryTypes, LinkFits, Clock
<1>8. LinkFits(q)'
  BY <1>1, <1>2, <1>4, <1>5 DEF RecoveryInv, LinkFits, Clock
<1>9. Later(p)
  BY <1>2, <1>4 DEF Later, Clock
<1>10. Later(q)
  BY <1>1, <1>2, <1>4 DEF Later, Shared, GivenUp, RecoveryTypes, EncryptedLinkState
<1>11. \A r \in Party : LinkFits(r)' /\ Later(r)
  BY <1>1, <1>7, <1>8, <1>9, <1>10
<1>12. \A r \in Party : Markers(r)' = Markers(r)
  BY <1>2 DEF Markers
<1> QED  BY <1>2, <1>6, <1>11, <1>12, RecoveryKept DEF RecoveryInv, RecoveryTypes

LEMMA RecoveryTickKeeps ==
  ASSUME RecoveryInv,
         \/ Tick
         \/ UNCHANGED recoveryVars
  PROVE  RecoveryInv'
<1>1. /\ RecoveryTypes /\ tick' \in Nat /\ tick <= tick'
      /\ UNCHANGED <<ahead, record, linkState, marker, job, fetched, attempts, handshakes, tornDown>>
  BY DEF RecoveryInv, RecoveryTypes, Tick, recoveryVars
<1>2. RecoveryTypes'
  BY <1>1 DEF RecoveryTypes
<1>3. \A p \in Party : LinkFits(p)'
  BY <1>1 DEF RecoveryInv, RecoveryTypes, EncryptedLinkState, PeerState, LinkFits, Clock
<1>4. \A p \in Party : Later(p) /\ Markers(p)' = Markers(p)
  BY <1>1, OtherParty DEF Later, Shared, GivenUp, RecoveryTypes, EncryptedLinkState, Markers
<1> QED  BY <1>1, <1>2, <1>3, <1>4, RecoveryKept DEF RecoveryInv

LEMMA RecoveryInitial == RecoveryInit => RecoveryInv
<1> SUFFICES ASSUME RecoveryInit PROVE RecoveryInv
  OBVIOUS
<1>1. /\ ahead \in [Party -> Nat] /\ tick = 1 /\ handshakes = 0 /\ MaxHandshake \in Nat
      /\ \A p \in Party : Clock(p) \in Nat /\ ahead[p] \in Nat
  <2>1. ahead \in [Party -> Nat] /\ tick = 1 /\ handshakes = 0 /\ MaxHandshake \in Nat
    BY RecoveryConstants, Zenon DEF RecoveryInit
  <2> QED  BY <2>1 DEF Clock
<1>2. record \in [Party -> PeerState]
      /\ \A p \in Party : record[p].state = "Linked" /\ record[p].created = 0
  BY <1>1 DEF RecoveryInit, PeerState
<1>3. linkState \in [Party -> EncryptedLinkState]
      /\ \A p \in Party : /\ linkState[p].link = {MaxHandshake + 1}
                          /\ linkState[p].handshake = 0 /\ linkState[p].checkpointed = Clock(p)
  BY <1>1 DEF RecoveryInit, EncryptedLinkState
<1>4. /\ marker \in [Party -> MarkerState] /\ fetched \in [Party -> MarkerState]
      /\ job \in [Party -> RecoveryJob]
      /\ \A p \in Party : marker[p] = NoMarker /\ fetched[p] = NoMarker /\ job[p] = NoJob
  BY RecoveryDefaults DEF RecoveryInit
<1>5. RecoveryTypes
  BY <1>1, <1>2, <1>3, <1>4 DEF RecoveryTypes, RecoveryInit
<1>6. \A p \in Party : LinkFits(p)
  BY <1>1, <1>2, <1>3 DEF LinkFits
<1>7. \A p \in Party : MarkersDated(p)
  <2> SUFFICES ASSUME NEW p \in Party PROVE MarkersDated(p)
    OBVIOUS
  <2>1. /\ 0 <= Second(Clock(Other(p))) /\ 0 <= Second(linkState[p].checkpointed)
    <3>1. Clock(Other(p)) \in Nat /\ linkState[p].checkpointed \in Nat
      BY <1>1, <1>3, OtherParty
    <3>2. \A n \in Nat : Second(n) \in Nat
      BY SecondMonotone
    <3> QED  BY <3>1, <3>2
  <2> QED  BY <1>4, <2>1, OtherParty, RecoveryDefaults, Zenon DEF MarkersDated, Dated
<1> QED  BY <1>5, <1>6, <1>7 DEF RecoveryInv, RecoveryInit

LEMMA RecoveryInvariant == RecoverySpec => []RecoveryInv
<1>1. RecoveryInv /\ [RecoveryNext]_recoveryVars => RecoveryInv'
  BY RequireRecoveryKeeps, ChooseAttemptKeeps, DocumentStepKeeps, ClearAttemptKeeps,
     MarkObservedKeeps, StartHandshakeKeeps, CompleteHandshakeKeeps, CheckpointLinkKeeps,
     RecoveryTickKeeps DEF RecoveryNext, RecoveryStep
<1> QED  BY RecoveryInitial, <1>1, PTL DEF RecoverySpec

\* As long as the clocks of two parties agree, mark_remote_recovery_marker_observed_with_lease never
\* drops a link that the author of the marker still has or is completing: whatever markers
\* were left behind, fetched early or written late.
THEOREM LinkOutlivesTheorem == RecoverySpec => []LinkOutlivesMarker
<1>1. RecoveryInv => LinkOutlivesMarker
  BY DEF RecoveryInv, SameClocks, LinkOutlivesMarker
<1> QED  BY RecoveryInvariant, <1>1, PTL

=============================================================================
