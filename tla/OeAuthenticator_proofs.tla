----------------------- MODULE OeAuthenticator_proofs -----------------------
(***************************************************************************)
(* What the lock gives the authenticator: for any set of concurrent        *)
(* updates and any set of users the token in memory, the stored one and    *)
(* the one the listeners know agree, although Refresh writes without the   *)
(* lock.                                                                   *)
(*                                                                         *)
(* The proof needs where an update is and what it remembers there: inside  *)
(* the lock it is a holder, hence alone (AsyncSemaphore_proofs); until it  *)
(* assigns, no valid token is there; what it remembers as the previous     *)
(* token is the stored one, and then the one the listeners know.           *)
(***************************************************************************)
EXTENDS OeAuthenticator, TLAPS

LockProof == INSTANCE AsyncSemaphore_proofs WITH InitialCount <- 1

Inside == {"reexpiry", "choose", "refresh", "ask", "release"} \cup Asking \cup Updating

Places == {"idle", "check", "expiry", "lock"} \cup Holding

Types ==
  /\ pc \in [Tasks -> Places]
  /\ data \in [token : Tokens, fresh : BOOLEAN]
  /\ {stored, announced} \subseteq Tokens
  /\ {reply, previous} \subseteq [Tasks -> Tokens]
  /\ grant \in [Tasks -> {"refresh_token", "client_token"}]
  /\ user \in Users
  /\ known \in {"changed", "refreshed", "overtaken"}
  /\ issued \in 0..MaxTokens

InsideHolds == \A t \in Tasks : pc[t] \in Inside => t \in holders

InvalidUntilAssigned ==
  \A t \in Tasks :
    pc[t] \in {"choose", "refresh", "ask", "update", "assign"} \cup Asking => ~data.fresh

PreviousIsStored == \A t \in Tasks : pc[t] \in {"assign", "store"} => previous[t] = stored

PreviousIsKnown ==
  \A t \in Tasks : pc[t] = "announce" =>
    \/ announced = previous[t]
    \/ announced.uid = Anonymous /\ previous[t].uid = Anonymous

ReplyOfCurrentUser ==
  known = "refreshed" =>
    \A t \in Tasks : pc[t] \in {"posting", "update", "assign"} => reply[t].uid = user

TokenInv ==
  /\ Types
  /\ InsideHolds
  /\ InvalidUntilAssigned
  /\ StoredIsCurrent
  /\ PreviousIsStored
  /\ PreviousIsKnown
  /\ ListenersKnowTheToken
  /\ ReplyOfCurrentUser
  /\ TokenOfCurrentUser

IInv == TokenInv /\ LockProof!IInv

-----------------------------------------------------------------------------
(* The lock *)

\* The lock of the service that has just started.
LEMMA LockInit == Init => LockProof!IInv
<1> SUFFICES ASSUME Init PROVE LockProof!IInv  OBVIOUS
<1>1. LockProof!Init  BY DEF Init, Lock!Init, LockProof!Init
<1> QED  BY <1>1, LockProof!InitialState

\* Whatever the updates do, the lock takes steps of an AsyncSemaphore or none.
LEMMA LockStep == [Next]_vars => [LockProof!Next]_lockVars
<1> SUFFICES ASSUME [Next]_vars PROVE [LockProof!Next]_lockVars  OBVIOUS
<1>1. ASSUME NEW t \in Tasks, LockAsync(t) PROVE LockProof!Next
  BY <1>1 DEF LockAsync, Lock!WaitAsync, Lock!Waiting,
    LockProof!Next, LockProof!WaitAsync, LockProof!Waiting
<1>2. ASSUME NEW t \in Tasks, Dispose(t) PROVE LockProof!Next
  BY <1>2 DEF Dispose, Lock!Release, LockProof!Next, LockProof!Release
<1>3. ASSUME NEW t \in Tasks, Resume(t) PROVE LockProof!Next
  BY <1>3 DEF Resume, Lock!SetResult, LockProof!Next, LockProof!SetResult
<1>4. ASSUME NEW t \in Tasks, GetAccessToken(t) \/ Refresh(t) \/ Check(t)
      PROVE  UNCHANGED lockVars
  BY <1>4 DEF GetAccessToken, Refresh, Check, FirstRead, SecondRead
<1>5. ASSUME NEW t \in Tasks, Holder(t), ~Dispose(t) PROVE UNCHANGED lockVars
  BY <1>5 DEF Holder, Recheck, FirstRead, SecondRead, Choose, PostRefreshToken,
    QueryBackend, Answered, Refused, RememberPrevious, Assign, Store, Announce
<1>6. CASE Expire \/ UserChanges
  BY <1>6 DEF Expire, UserChanges
<1>7. CASE UNCHANGED vars  BY <1>7 DEF vars
<1> QED  BY <1>1, <1>2, <1>3, <1>4, <1>5, <1>6, <1>7 DEF Next, Update

LEMMA LockInvariant == LockProof!IInv /\ [Next]_vars => LockProof!IInv'
<1> SUFFICES ASSUME LockProof!IInv, [Next]_vars PROVE LockProof!IInv'  OBVIOUS
<1>1. [LockProof!Next]_(LockProof!semaphoreVars)
  BY LockStep DEF lockVars, LockProof!semaphoreVars
<1> QED  BY <1>1, LockProof!InvariantStep

\* An update inside the lock is alone there.
LEMMA Alone ==
  ASSUME IInv, NEW t \in Tasks, NEW u \in Tasks, pc[t] \in Inside, pc[u] \in Inside
  PROVE  t = u
<1>1. t \in holders /\ u \in holders  BY DEF IInv, TokenInv, InsideHolds
<1>2. LockProof!IInv  BY DEF IInv
<1> QED  BY <1>1, <1>2, LockProof!OneHolder

-----------------------------------------------------------------------------
(* Steps that leave the tokens alone *)

\* An update moves on; what the place it comes to promises is known to hold.
LEMMA MoveStep ==
  ASSUME IInv, NEW t \in Tasks, NEW l \in Places,
         pc' = [pc EXCEPT ![t] = l],
         pc[t] \notin {"store", "announce"},
         l \notin {"posting", "update", "assign", "store", "announce"},
         l \in {"choose", "refresh", "ask", "asking"} => ~data.fresh,
         \A u \in Tasks : u \in holders /\ (u = t => l \in Inside) => u \in holders',
         l \in Inside => t \in holders,
         UNCHANGED <<tokenVars, reply, previous, backendVars>>,
         grant' \in [Tasks -> {"refresh_token", "client_token"}]
  PROVE  TokenInv'
<1> USE DEF IInv, TokenInv, tokenVars, backendVars
<1>1. Types'  BY DEF Types
<1>2. /\ pc'[t] = l
      /\ \A u \in Tasks : u # t => pc'[u] = pc[u]
  BY DEF Types
<1>3. InsideHolds'  BY <1>2 DEF InsideHolds
<1>4. InvalidUntilAssigned'  BY <1>2 DEF InvalidUntilAssigned, Asking
<1>5. StoredIsCurrent'  BY <1>2 DEF StoredIsCurrent
<1>6. PreviousIsStored'  BY <1>2 DEF PreviousIsStored
<1>7. PreviousIsKnown'  BY <1>2 DEF PreviousIsKnown
<1>8. ListenersKnowTheToken'  BY <1>2 DEF ListenersKnowTheToken
<1>9. ReplyOfCurrentUser'  BY <1>2 DEF ReplyOfCurrentUser
<1>10. TokenOfCurrentUser'  BY DEF TokenOfCurrentUser
<1> QED  BY <1>1, <1>3, <1>4, <1>5, <1>6, <1>7, <1>8, <1>9, <1>10

LEMMA GetAccessTokenStep ==
  ASSUME IInv, NEW t \in Tasks, GetAccessToken(t)
  PROVE  TokenInv'
<1> DEFINE l == "check"
<1>1. l \in Places /\ l \notin Inside /\ pc[t] = "idle"
  BY DEF GetAccessToken, Idle, Places, Inside, Asking, Updating
<1> QED
  BY <1>1, MoveStep DEF GetAccessToken, Goto, replyVars, lockVars, IInv, TokenInv, Types

LEMMA CheckStep ==
  ASSUME IInv, NEW t \in Tasks, Check(t)
  PROVE  TokenInv'
<1>1. PICK l \in {"expiry", "lock", "idle"} :
        /\ pc' = [pc EXCEPT ![t] = l]
        /\ pc[t] \in {"check", "expiry"}
        /\ UNCHANGED <<tokenVars, replyVars, backendVars, lockVars>>
  BY DEF Check, FirstRead, SecondRead, Goto
<1>2. l \in Places /\ l \notin Inside  BY DEF Places, Inside, Asking, Updating
<1> QED  BY <1>1, <1>2, MoveStep DEF replyVars, lockVars, IInv, TokenInv, Types

LEMMA LockAsyncStep ==
  ASSUME IInv, NEW t \in Tasks, LockAsync(t)
  PROVE  TokenInv'
<1> DEFINE l == "recheck"
<1>1. l \in Places /\ l \notin Inside /\ pc[t] = "lock" /\ pc' = [pc EXCEPT ![t] = l]
  BY DEF LockAsync, Goto, Places, Holding, Inside, Asking, Updating
<1>2. \A u \in Tasks : u \in holders => u \in holders'
  BY DEF LockAsync, Lock!WaitAsync
<1>3. UNCHANGED <<tokenVars, replyVars, backendVars>>  BY DEF LockAsync
<1> QED  BY <1>1, <1>2, <1>3, MoveStep DEF replyVars, IInv, TokenInv, Types

LEMMA RecheckStep ==
  ASSUME IInv, NEW t \in Tasks, t \in holders, Recheck(t)
  PROVE  TokenInv'
<1>1. PICK l \in {"reexpiry", "choose", "release"} :
        /\ pc' = [pc EXCEPT ![t] = l]
        /\ pc[t] \in {"recheck", "reexpiry"}
        /\ l = "choose" => data = NoData \/ ~data.fresh
        /\ UNCHANGED <<tokenVars, replyVars, backendVars, lockVars>>
  BY DEF Recheck, FirstRead, SecondRead, Goto
<1>2. l \in Places  BY DEF Places, Holding
<1>3. data = NoData => ~data.fresh  BY DEF NoData
<1> QED  BY <1>1, <1>2, <1>3, MoveStep DEF replyVars, lockVars, IInv, TokenInv, Types

LEMMA ChooseStep ==
  ASSUME IInv, NEW t \in Tasks, t \in holders, Choose(t)
  PROVE  TokenInv'
<1>1. PICK l \in {"ask", "refresh"} :
        /\ pc' = [pc EXCEPT ![t] = l]
        /\ pc[t] = "choose"
        /\ UNCHANGED <<tokenVars, replyVars, backendVars, lockVars>>
  BY DEF Choose, Goto
<1>2. l \in Places  BY DEF Places, Holding
<1>3. ~data.fresh  BY <1>1 DEF IInv, TokenInv, InvalidUntilAssigned
<1> QED  BY <1>1, <1>2, <1>3, MoveStep DEF replyVars, lockVars, IInv, TokenInv, Types

LEMMA QueryBackendStep ==
  ASSUME IInv, NEW t \in Tasks, t \in holders, QueryBackend(t)
  PROVE  TokenInv'
<1>1. PICK l \in {"asking", "release"} :
        /\ pc' = [pc EXCEPT ![t] = l]
        /\ pc[t] = "ask"
  BY DEF QueryBackend, Goto
<1>2. /\ UNCHANGED <<reply, previous, tokenVars, backendVars, lockVars>>
      /\ grant' \in [Tasks -> {"refresh_token", "client_token"}]
  BY DEF QueryBackend, IInv, TokenInv, Types
<1>3. l \in Places  BY DEF Places, Holding, Asking
<1>4. ~data.fresh  BY <1>1 DEF IInv, TokenInv, InvalidUntilAssigned
<1> QED  BY <1>1, <1>2, <1>3, <1>4, MoveStep DEF lockVars

LEMMA RefusedStep ==
  ASSUME IInv, NEW t \in Tasks, t \in holders, Refused(t)
  PROVE  TokenInv'
<1>1. PICK l \in {"ask", "release"} :
        /\ pc' = [pc EXCEPT ![t] = l]
        /\ pc[t] \in Asking
        /\ UNCHANGED <<tokenVars, replyVars, backendVars, lockVars>>
  BY DEF Refused, AfterFailure, Goto
<1>2. l \in Places /\ pc[t] \notin {"store", "announce"}  BY <1>1 DEF Places, Holding, Asking
<1>3. ~data.fresh  BY <1>1 DEF IInv, TokenInv, InvalidUntilAssigned
<1> QED  BY <1>1, <1>2, <1>3, MoveStep DEF replyVars, lockVars, IInv, TokenInv, Types

LEMMA DisposeStep ==
  ASSUME IInv, NEW t \in Tasks, Dispose(t)
  PROVE  TokenInv'
<1> DEFINE l == "idle"
<1>1. l \in Places /\ l \notin Inside /\ pc[t] = "release" /\ pc' = [pc EXCEPT ![t] = l]
  BY DEF Dispose, Goto, Places, Inside, Asking, Updating
<1>2. \A u \in Tasks : u \in holders /\ u # t => u \in holders'
  BY DEF Dispose, Lock!Release
<1>3. UNCHANGED <<tokenVars, replyVars, backendVars>>  BY DEF Dispose
<1> QED  BY <1>1, <1>2, <1>3, MoveStep DEF replyVars, IInv, TokenInv, Types

LEMMA ResumeStep ==
  ASSUME IInv, NEW t \in Tasks, Resume(t)
  PROVE  TokenInv'
<1>1. UNCHANGED <<pc, tokenVars, replyVars, backendVars>>  BY DEF Resume
<1>2. holders \subseteq holders'  BY DEF Resume, Lock!SetResult
<1> QED
  BY <1>1, <1>2 DEF IInv, TokenInv, tokenVars, replyVars, backendVars, Types, InsideHolds,
    InvalidUntilAssigned, StoredIsCurrent, PreviousIsStored, PreviousIsKnown,
    ListenersKnowTheToken, ReplyOfCurrentUser, TokenOfCurrentUser

-----------------------------------------------------------------------------
(* Steps outside the lock that change a token or a user *)

LEMMA RefreshStep ==
  ASSUME IInv, NEW t \in Tasks, Refresh(t)
  PROVE  TokenInv'
<1> USE DEF IInv, TokenInv
<1>1. /\ pc[t] = "idle" /\ pc' = [pc EXCEPT ![t] = "check"]
      /\ data' = NoData
      /\ known' = IF InFlight THEN "overtaken" ELSE "refreshed"
      /\ UNCHANGED <<stored, announced, reply, previous, grant, user, issued, holders>>
  BY DEF Refresh, Idle, Goto, replyVars, lockVars
<1>2. /\ pc'[t] = "check"
      /\ \A u \in Tasks : u # t => pc'[u] = pc[u]
  BY <1>1 DEF Types
<1>3. NoData \in [token : Tokens, fresh : BOOLEAN] /\ ~NoData.fresh
  BY UsersAssumption, MaxTokensAssumption DEF NoData, NoToken, Tokens
<1>4. Types'  BY <1>1, <1>3 DEF Types, Places
<1>5. InsideHolds'  BY <1>1, <1>2 DEF InsideHolds, Inside, Asking, Updating
<1>6. InvalidUntilAssigned'  BY <1>1, <1>3 DEF InvalidUntilAssigned
<1>7. StoredIsCurrent' /\ TokenOfCurrentUser'
  BY <1>1 DEF StoredIsCurrent, TokenOfCurrentUser
<1>8. PreviousIsStored' /\ PreviousIsKnown'
  BY <1>1, <1>2 DEF PreviousIsStored, PreviousIsKnown
<1>9. ListenersKnowTheToken'  BY <1>1, <1>2 DEF ListenersKnowTheToken
<1>10. ReplyOfCurrentUser'
  BY <1>1, <1>2 DEF ReplyOfCurrentUser, InFlight
<1> QED  BY <1>4, <1>5, <1>6, <1>7, <1>8, <1>9, <1>10

LEMMA ExpireStep ==
  ASSUME IInv, Expire
  PROVE  TokenInv'
<1> USE DEF IInv, TokenInv
<1>1. /\ data' = [data EXCEPT !.fresh = FALSE] /\ data # NoData
      /\ UNCHANGED <<pc, stored, announced, reply, previous, grant, user, known, issued, holders>>
  BY DEF Expire, NoData, replyVars, backendVars, lockVars
<1>2. data' \in [token : Tokens, fresh : BOOLEAN] /\ data'.token = data.token /\ ~data'.fresh
  BY <1>1 DEF Types
<1> QED
  BY <1>1, <1>2 DEF Types, InsideHolds, InvalidUntilAssigned, StoredIsCurrent, PreviousIsStored,
    PreviousIsKnown, ListenersKnowTheToken, ReplyOfCurrentUser, TokenOfCurrentUser

LEMMA UserChangesStep ==
  ASSUME IInv, UserChanges
  PROVE  TokenInv'
<1> USE DEF IInv, TokenInv
<1>1. /\ user' \in Users /\ known' = "changed"
      /\ UNCHANGED <<pc, data, stored, announced, reply, previous, grant, issued, holders>>
  BY DEF UserChanges, tokenVars, replyVars, lockVars
<1> QED
  BY <1>1 DEF Types, InsideHolds, InvalidUntilAssigned, StoredIsCurrent, PreviousIsStored,
    PreviousIsKnown, ListenersKnowTheToken, ReplyOfCurrentUser, TokenOfCurrentUser

-----------------------------------------------------------------------------
(* Steps of the update inside the lock *)

LEMMA PostRefreshTokenStep ==
  ASSUME IInv, NEW t \in Tasks, t \in holders, PostRefreshToken(t)
  PROVE  TokenInv'
<1> USE DEF IInv, TokenInv
<1>1. pc[t] = "refresh" /\ ~data.fresh  BY DEF PostRefreshToken, InvalidUntilAssigned
<1>2. CASE data = NoData
  <2>1. pc' = [pc EXCEPT ![t] = "release"]  BY <1>2 DEF PostRefreshToken, Goto
  <2>2. "release" \in Places  BY DEF Places, Holding
  <2>3. UNCHANGED <<tokenVars, replyVars, backendVars, lockVars>>
    BY <1>2 DEF PostRefreshToken
  <2> QED  BY <1>1, <2>1, <2>2, <2>3, MoveStep DEF replyVars, lockVars, Types
<1>3. CASE data # NoData
  <2>1. /\ pc' = [pc EXCEPT ![t] = "posting"]
        /\ reply' = [reply EXCEPT ![t] = data.token]
        /\ grant' = [grant EXCEPT ![t] = "refresh_token"]
        /\ UNCHANGED <<previous, data, stored, announced, user, known, issued, holders>>
    BY <1>3 DEF PostRefreshToken, Goto, tokenVars, backendVars, lockVars
  <2>2. /\ pc'[t] = "posting" /\ reply'[t] = data.token
        /\ \A u \in Tasks : u # t => pc'[u] = pc[u] /\ reply'[u] = reply[u]
    BY <2>1 DEF Types
  <2>3. Types'  BY <2>1 DEF Types, Places, Holding, Asking
  <2>4. InsideHolds' /\ InvalidUntilAssigned'
    BY <1>1, <2>1, <2>2 DEF InsideHolds, InvalidUntilAssigned
  <2>5. StoredIsCurrent' /\ TokenOfCurrentUser'
    BY <1>1, <2>1, <2>2 DEF StoredIsCurrent, TokenOfCurrentUser
  <2>6. PreviousIsStored' /\ PreviousIsKnown'
    BY <2>1, <2>2 DEF PreviousIsStored, PreviousIsKnown
  <2>7. ListenersKnowTheToken'  BY <1>1, <2>1, <2>2 DEF ListenersKnowTheToken
  <2>8. ReplyOfCurrentUser'
    BY <1>3, <2>1, <2>2 DEF ReplyOfCurrentUser, TokenOfCurrentUser
  <2> QED  BY <2>3, <2>4, <2>5, <2>6, <2>7, <2>8
<1> QED  BY <1>2, <1>3

LEMMA AnsweredStep ==
  ASSUME IInv, NEW t \in Tasks, t \in holders, Answered(t)
  PROVE  TokenInv'
<1> USE DEF IInv, TokenInv
<1>1. /\ pc[t] \in Asking /\ issued < MaxTokens /\ issued' = issued + 1
      /\ reply' = [reply EXCEPT ![t] =
           [uid |-> IF pc[t] = "posting" THEN reply[t].uid ELSE user, n |-> issued + 1]]
      /\ pc' = [pc EXCEPT ![t] = "update"]
      /\ UNCHANGED <<previous, grant, data, stored, announced, user, known, holders>>
  BY DEF Answered, Goto, tokenVars, lockVars
<1>2. issued + 1 \in 0..MaxTokens  BY <1>1, MaxTokensAssumption DEF Types
<1>3. reply[t].uid \in Users  BY DEF Types, Tokens
<1>4. /\ pc'[t] = "update"
      /\ reply'[t].uid = IF pc[t] = "posting" THEN reply[t].uid ELSE user
      /\ \A u \in Tasks : u # t => pc'[u] = pc[u] /\ reply'[u] = reply[u]
  BY <1>1 DEF Types
<1>5. Types'
  <2>1. reply' \in [Tasks -> Tokens]  BY <1>1, <1>2, <1>3 DEF Types, Tokens
  <2>2. pc' \in [Tasks -> Places]  BY <1>1 DEF Types, Places, Holding, Updating
  <2> QED  BY <1>1, <1>2, <2>1, <2>2 DEF Types
<1>6. InsideHolds' /\ InvalidUntilAssigned'
  BY <1>1, <1>4 DEF InsideHolds, InvalidUntilAssigned
<1>7. StoredIsCurrent' /\ TokenOfCurrentUser'
  BY <1>1, <1>4 DEF StoredIsCurrent, TokenOfCurrentUser, Asking
<1>8. PreviousIsStored' /\ PreviousIsKnown'
  BY <1>1, <1>4 DEF PreviousIsStored, PreviousIsKnown
<1>9. ListenersKnowTheToken'  BY <1>1, <1>4 DEF ListenersKnowTheToken, Asking
<1>10. ReplyOfCurrentUser'  BY <1>1, <1>4 DEF ReplyOfCurrentUser
<1> QED  BY <1>5, <1>6, <1>7, <1>8, <1>9, <1>10

\* Reading AccessToken wakes an idle update at most.
LEMMA AfterGetter ==
  ASSUME Types, NEW t \in Tasks, NEW l \in Places, pc[t] # "idle", GotoAfterGetter(t, l)
  PROVE  /\ pc' \in [Tasks -> Places]
         /\ pc'[t] = l
         /\ \A u \in Tasks : u # t => pc'[u] = pc[u] \/ (pc[u] = "idle" /\ pc'[u] = "check")
<1> DEFINE p == [pc EXCEPT ![t] = l]
<1>1. pc \in [Tasks -> Places] /\ "check" \in Places  BY DEF Types, Places
<1>2. p \in [Tasks -> Places] /\ p[t] = l /\ \A u \in Tasks : u # t => p[u] = pc[u]
  BY <1>1
<1>3. CASE Idle = {}
  <2>1. pc' = p  BY <1>3 DEF GotoAfterGetter, Goto
  <2> QED  BY <1>2, <2>1
<1>4. CASE Idle # {}
  <2>1. PICK v \in Idle : pc' = [pc EXCEPT ![t] = l, ![v] = "check"]
    BY <1>4 DEF GotoAfterGetter
  <2>2. v \in Tasks /\ pc[v] = "idle" /\ v # t  BY DEF Idle
  <2>3. pc' = [p EXCEPT ![v] = "check"]  BY <2>1
  <2>4. pc' \in [Tasks -> Places] /\ pc'[v] = "check" /\ \A u \in Tasks : u # v => pc'[u] = p[u]
    <3> HIDE DEF p
    <3> QED  BY <1>1, <1>2, <2>2, <2>3
  <2> QED  BY <1>2, <2>2, <2>4
<1> QED  BY <1>3, <1>4

LEMMA RememberPreviousStep ==
  ASSUME IInv, NEW t \in Tasks, t \in holders, RememberPrevious(t)
  PROVE  TokenInv'
<1> USE DEF IInv, TokenInv
<1>1. /\ pc[t] = "update" /\ GotoAfterGetter(t, "assign")
      /\ previous' = [previous EXCEPT ![t] = AccessToken]
      /\ UNCHANGED <<reply, grant, data, stored, announced, user, known, issued, holders>>
  BY DEF RememberPrevious, tokenVars, backendVars, lockVars
<1>2. "assign" \in Places  BY DEF Places, Holding, Updating
<1>3. /\ pc' \in [Tasks -> Places]
      /\ pc'[t] = "assign"
      /\ \A u \in Tasks : u # t => pc'[u] = pc[u] \/ (pc[u] = "idle" /\ pc'[u] = "check")
  BY <1>1, <1>2, AfterGetter
<1>4. \A u \in Tasks : pc[u] \in Inside => u = t  BY <1>1, Alone DEF Inside, Updating
<1>5. AccessToken = stored
  BY <1>1, <1>4 DEF AccessToken, StoredIsCurrent, Inside, Updating
<1>6. /\ previous' \in [Tasks -> Tokens]
      /\ previous'[t] = stored
      /\ \A u \in Tasks : u # t => previous'[u] = previous[u]
  <2>1. previous' = [previous EXCEPT ![t] = stored]  BY <1>1, <1>5
  <2> QED  BY <2>1 DEF Types
<1>7. Types'  BY <1>1, <1>3, <1>6 DEF Types
<1>8. InsideHolds' /\ InvalidUntilAssigned'
  BY <1>1, <1>3 DEF InsideHolds, InvalidUntilAssigned, Inside, Asking, Updating
<1>9. StoredIsCurrent' /\ TokenOfCurrentUser'
  BY <1>1, <1>3 DEF StoredIsCurrent, TokenOfCurrentUser
<1>10. PreviousIsStored' /\ PreviousIsKnown'
  BY <1>1, <1>3, <1>6 DEF PreviousIsStored, PreviousIsKnown
<1>11. ListenersKnowTheToken'  BY <1>1, <1>3 DEF ListenersKnowTheToken
<1>12. ReplyOfCurrentUser'  BY <1>1, <1>3 DEF ReplyOfCurrentUser
<1> QED  BY <1>7, <1>8, <1>9, <1>10, <1>11, <1>12

LEMMA AssignStep ==
  ASSUME IInv, NEW t \in Tasks, t \in holders, Assign(t)
  PROVE  TokenInv'
<1> USE DEF IInv, TokenInv
<1>1. /\ pc[t] = "assign" /\ pc' = [pc EXCEPT ![t] = "store"]
      /\ UNCHANGED <<reply, previous, grant, stored, announced, user, known, issued, holders>>
  BY DEF Assign, Goto, replyVars, backendVars, lockVars
<1>2. PICK fresh \in BOOLEAN : data' = [token |-> reply[t], fresh |-> fresh]  BY DEF Assign
<1>3. /\ pc'[t] = "store"
      /\ \A u \in Tasks : u # t => pc'[u] = pc[u]
  BY <1>1 DEF Types
<1>4. \A u \in Tasks : pc[u] \in Inside => u = t  BY <1>1, Alone DEF Inside, Updating
<1>5. data' \in [token : Tokens, fresh : BOOLEAN] /\ data'.token = reply[t]
  BY <1>2 DEF Types
<1>6. Types'  BY <1>1, <1>5 DEF Types, Places, Holding, Updating
<1>7. InsideHolds'  BY <1>1, <1>3 DEF InsideHolds, Inside, Updating
<1>8. InvalidUntilAssigned'
  BY <1>1, <1>3, <1>4 DEF InvalidUntilAssigned, Inside, Asking, Updating
<1>9. StoredIsCurrent'  BY <1>1, <1>3 DEF StoredIsCurrent
<1>10. TokenOfCurrentUser'  BY <1>1, <1>5 DEF TokenOfCurrentUser, ReplyOfCurrentUser
<1>11. PreviousIsStored' /\ PreviousIsKnown'
  BY <1>1, <1>3 DEF PreviousIsStored, PreviousIsKnown
<1>12. ListenersKnowTheToken'  BY <1>1, <1>3 DEF ListenersKnowTheToken
<1>13. ReplyOfCurrentUser'  BY <1>1, <1>3 DEF ReplyOfCurrentUser
<1> QED  BY <1>6, <1>7, <1>8, <1>9, <1>10, <1>11, <1>12, <1>13

LEMMA StoreStep ==
  ASSUME IInv, NEW t \in Tasks, t \in holders, Store(t)
  PROVE  TokenInv'
<1> USE DEF IInv, TokenInv
<1>1. PICK l \in {"announce", "ask", "release"} :
        /\ pc[t] = "store" /\ pc' = [pc EXCEPT ![t] = l]
        /\ l = "announce" => data # NoData /\ stored' = data.token
        /\ l # "announce" => data = NoData /\ stored' = stored
  BY DEF Store, AfterFailure, Goto
<1>2. UNCHANGED <<reply, previous, grant, data, announced, user, known, issued, holders>>
  BY DEF Store, replyVars, backendVars, lockVars
<1>3. /\ pc'[t] = l
      /\ \A u \in Tasks : u # t => pc'[u] = pc[u]
  BY <1>1 DEF Types
<1>4. \A u \in Tasks : pc[u] \in Inside => u = t  BY <1>1, Alone DEF Inside, Updating
<1>5. \A u \in Tasks : u # t => pc'[u] \notin Inside  BY <1>3, <1>4
<1>6. data = NoData => ~data.fresh  BY DEF NoData
<1>7. Types'  BY <1>1, <1>2 DEF Types, Places, Holding, Updating
<1>8. InsideHolds'  BY <1>1, <1>2, <1>3 DEF InsideHolds, Inside, Updating
<1>9. InvalidUntilAssigned'
  BY <1>1, <1>2, <1>3, <1>5, <1>6 DEF InvalidUntilAssigned, Inside, Asking, Updating
<1>10. StoredIsCurrent' /\ TokenOfCurrentUser'
  BY <1>1, <1>2, <1>3 DEF StoredIsCurrent, TokenOfCurrentUser
<1>11. PreviousIsStored'
  BY <1>1, <1>2, <1>3, <1>5 DEF PreviousIsStored, Inside, Updating
<1>12. \/ announced = previous[t]
       \/ announced.uid = Anonymous /\ previous[t].uid = Anonymous
  BY <1>1, <1>4 DEF PreviousIsStored, ListenersKnowTheToken, Inside, Updating
<1>13. PreviousIsKnown'
  BY <1>2, <1>3, <1>5, <1>12 DEF PreviousIsKnown, Inside, Updating
<1>14. ListenersKnowTheToken'
  BY <1>1, <1>2, <1>3, <1>4 DEF ListenersKnowTheToken, Inside, Updating
<1>15. ReplyOfCurrentUser'  BY <1>1, <1>2, <1>3 DEF ReplyOfCurrentUser
<1> QED  BY <1>7, <1>8, <1>9, <1>10, <1>11, <1>13, <1>14, <1>15

LEMMA AnnounceStep ==
  ASSUME IInv, NEW t \in Tasks, t \in holders, Announce(t)
  PROVE  TokenInv'
<1> USE DEF IInv, TokenInv
<1>1. /\ pc[t] = "announce" /\ GotoAfterGetter(t, "release")
      /\ data' = IF data = NoData THEN NoData ELSE [data EXCEPT !.fresh = TRUE]
      /\ announced' = IF TokenHasChanged(previous[t], AccessToken) THEN stored ELSE announced
      /\ UNCHANGED <<reply, previous, grant, stored, user, known, issued, holders>>
  BY DEF Announce, replyVars, backendVars, lockVars
<1>2. "release" \in Places  BY DEF Places, Holding
<1>3. /\ pc' \in [Tasks -> Places]
      /\ pc'[t] = "release"
      /\ \A u \in Tasks : u # t => pc'[u] = pc[u] \/ (pc[u] = "idle" /\ pc'[u] = "check")
  BY <1>1, <1>2, AfterGetter
<1>4. \A u \in Tasks : pc[u] \in Inside => u = t  BY <1>1, Alone DEF Inside, Updating
<1>5. \A u \in Tasks : u # t => pc'[u] \notin Inside
  BY <1>3, <1>4 DEF Inside, Asking, Updating
<1>6. AccessToken = stored
  BY <1>1, <1>4 DEF AccessToken, StoredIsCurrent, Inside, Updating
<1>7. /\ data' \in [token : Tokens, fresh : BOOLEAN]
      /\ data' # NoData => data # NoData /\ data'.token = data.token
  BY <1>1 DEF Types
<1>8. Types'
  <2>1. announced' \in Tokens  BY <1>1 DEF Types
  <2> QED  BY <1>1, <1>3, <1>7, <2>1 DEF Types
<1>9. InsideHolds'  BY <1>1, <1>3, <1>5 DEF InsideHolds, Inside, Updating
<1>10. InvalidUntilAssigned'
  BY <1>3, <1>5 DEF InvalidUntilAssigned, Inside, Asking, Updating
<1>11. StoredIsCurrent'  BY <1>1, <1>4, <1>7 DEF StoredIsCurrent, Inside, Updating
<1>12. TokenOfCurrentUser'  BY <1>1, <1>7 DEF TokenOfCurrentUser
<1>13. PreviousIsStored' /\ PreviousIsKnown'
  BY <1>3, <1>5 DEF PreviousIsStored, PreviousIsKnown, Inside, Updating
<1>14. ListenersKnowTheToken'
  <2>1. \/ announced = previous[t]
        \/ announced.uid = Anonymous /\ previous[t].uid = Anonymous
    BY <1>1 DEF PreviousIsKnown
  <2>2. CASE TokenHasChanged(previous[t], stored)
    BY <1>1, <1>6, <2>2 DEF ListenersKnowTheToken
  <2>3. CASE ~TokenHasChanged(previous[t], stored)
    <3>1. announced' = announced  BY <1>1, <1>6, <2>3
    <3>2. \/ previous[t] = stored
          \/ stored.uid = Anonymous /\ previous[t].uid = Anonymous
      BY <2>3 DEF TokenHasChanged
    <3> QED  BY <1>1, <2>1, <3>1, <3>2 DEF ListenersKnowTheToken
  <2> QED  BY <2>2, <2>3
<1>15. ReplyOfCurrentUser'  BY <1>1, <1>3 DEF ReplyOfCurrentUser
<1> QED  BY <1>8, <1>9, <1>10, <1>11, <1>12, <1>13, <1>14, <1>15

-----------------------------------------------------------------------------

LEMMA InitialState == Init => IInv
<1> SUFFICES ASSUME Init PROVE IInv  OBVIOUS
<1> USE DEF Init
<1>1. LockProof!IInv  BY LockInit
<1>2. /\ NoToken \in Tokens /\ \A u \in Users : [uid |-> u, n |-> 1] \in Tokens
      /\ 1 \in 0..MaxTokens
  BY UsersAssumption, MaxTokensAssumption DEF NoToken, Tokens
<1>3. NoData \in [token : Tokens, fresh : BOOLEAN] /\ ~NoData.fresh  BY <1>2 DEF NoData
<1>4. Types  BY <1>2, <1>3 DEF Types, Places
<1>5. InsideHolds  BY DEF InsideHolds, Inside, Asking, Updating
<1>6. InvalidUntilAssigned /\ StoredIsCurrent /\ TokenOfCurrentUser
  BY <1>3 DEF InvalidUntilAssigned, StoredIsCurrent, TokenOfCurrentUser
<1>7. PreviousIsStored /\ PreviousIsKnown /\ ListenersKnowTheToken /\ ReplyOfCurrentUser
  BY DEF PreviousIsStored, PreviousIsKnown, ListenersKnowTheToken, ReplyOfCurrentUser
<1> QED  BY <1>1, <1>4, <1>5, <1>6, <1>7 DEF IInv, TokenInv

LEMMA InvariantStep == IInv /\ [Next]_vars => IInv'
<1> SUFFICES ASSUME IInv, [Next]_vars PROVE IInv'  OBVIOUS
<1>1. LockProof!IInv'  BY LockInvariant DEF IInv
<1>2. TokenInv'
  <2>1. ASSUME NEW t \in Tasks, GetAccessToken(t) \/ Refresh(t) \/ Update(t) PROVE TokenInv'
    BY <2>1, GetAccessTokenStep, RefreshStep, CheckStep, LockAsyncStep, ResumeStep,
      RecheckStep, ChooseStep, PostRefreshTokenStep, QueryBackendStep, AnsweredStep,
      RefusedStep, RememberPreviousStep, AssignStep, StoreStep, AnnounceStep, DisposeStep
      DEF Update, Holder
  <2>2. CASE UNCHANGED vars
    <3>1. /\ UNCHANGED <<pc, data, stored, announced, reply, previous, grant>>
          /\ UNCHANGED <<user, known, issued, holders>>
      BY <2>2 DEF vars, tokenVars, replyVars, backendVars, lockVars
    <3> QED
      BY <3>1 DEF IInv, TokenInv, Types, InsideHolds, InvalidUntilAssigned, StoredIsCurrent,
        PreviousIsStored, PreviousIsKnown, ListenersKnowTheToken, ReplyOfCurrentUser,
        TokenOfCurrentUser
  <2> QED  BY <2>1, <2>2, ExpireStep, UserChangesStep DEF Next
<1> QED  BY <1>1, <1>2 DEF IInv

\* The inductive invariant holds in every reachable state.
THEOREM Invariant == Spec => []IInv
<1> QED  BY InitialState, InvariantStep, PTL DEF Spec

\* The authenticator's variables, and those of its lock, keep their types.
THEOREM TypeCorrect == Spec => []TypeOK
<1>1. IInv => TypeOK
  BY DEF IInv, TokenInv, Types, Places, TypeOK, Lock!TypeOK, LockProof!IInv, LockProof!TypeOK
<1> QED  BY Invariant, <1>1, PTL

\* queryBackendLock: only one update at a time asks the backend and uses its reply.
THEOREM OneQueryAtATime == Spec => []OneQuery
<1>1. IInv => OneQuery  BY Alone DEF OneQuery, Inside
<1> QED  BY Invariant, <1>1, PTL

\* UpdateAccessTokenIfNecessary looks again under the lock, so a valid token is not replaced.
THEOREM ValidTokenStays == Spec => ValidTokenIsKept
<1>1. IInv /\ [Next]_vars => [data.fresh => data'.token = data.token \/ data' = NoData]_vars
  <2> SUFFICES ASSUME IInv, Next, data.fresh
               PROVE  data'.token = data.token \/ data' = NoData
    OBVIOUS
  <2>1. ASSUME NEW t \in Tasks, Refresh(t) PROVE data' = NoData  BY <2>1 DEF Refresh
  <2>2. ASSUME NEW t \in Tasks, Assign(t) PROVE FALSE
    BY <2>2 DEF Assign, IInv, TokenInv, InvalidUntilAssigned
  <2>3. ASSUME NEW t \in Tasks, Announce(t)
        PROVE  data'.token = data.token \/ data' = NoData
    BY <2>3 DEF Announce, IInv, TokenInv, Types
  <2>4. ASSUME NEW t \in Tasks, GetAccessToken(t) \/ Check(t) \/ LockAsync(t) \/ Resume(t)
        PROVE  data' = data
    BY <2>4 DEF GetAccessToken, Check, FirstRead, SecondRead, LockAsync, Resume, tokenVars
  <2>5. ASSUME NEW t \in Tasks, Holder(t), ~Assign(t), ~Announce(t) PROVE data' = data
    BY <2>5 DEF Holder, Recheck, FirstRead, SecondRead, Choose, PostRefreshToken,
      QueryBackend, Answered, Refused, RememberPrevious, Store, Dispose, tokenVars
  <2>6. CASE Expire  BY <2>6 DEF Expire, IInv, TokenInv, Types
  <2>7. CASE UserChanges  BY <2>7 DEF UserChanges, tokenVars
  <2> QED  BY <2>1, <2>2, <2>3, <2>4, <2>5, <2>6, <2>7 DEF Next, Update
<1> QED  BY Invariant, <1>1, PTL DEF Spec, ValidTokenIsKept

\* What ProductSettings keeps for the next start is the token in memory.
THEOREM StoredStaysCurrent == Spec => []StoredIsCurrent
<1>1. IInv => StoredIsCurrent  BY DEF IInv, TokenInv
<1> QED  BY Invariant, <1>1, PTL

\* AccessTokenChanged is raised for every change its listeners have to know.
THEOREM ListenersAreTold == Spec => []ListenersKnowTheToken
<1>1. IInv => ListenersKnowTheToken  BY DEF IInv, TokenInv
<1> QED  BY Invariant, <1>1, PTL

\* A Refresh that overtakes no request never leaves the token of another user in use.
THEOREM RefreshServesCurrentUser == Spec => []TokenOfCurrentUser
<1>1. IInv => TokenOfCurrentUser  BY DEF IInv, TokenInv
<1> QED  BY Invariant, <1>1, PTL
=============================================================================
