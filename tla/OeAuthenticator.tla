-------------------------- MODULE OeAuthenticator --------------------------
(***************************************************************************)
(* The access token of the service.  Reading AccessToken starts an update  *)
(* when the token looks invalid, and does not wait for it; Refresh forgets *)
(* the token first.  Updates take turns with an AsyncLock and look again   *)
(* once they have it.  UpdateAuthentificationData itself reads AccessToken *)
(* and so starts one more update, while it holds the lock.                 *)
(*                                                                         *)
(* Any thread may call Refresh at any time; nothing but the lock orders    *)
(* the accesses to authentificationData, which is read twice where it is   *)
(* tested and then used.                                                   *)
(*                                                                         *)
(* External: the backend, which answers with a token of whoever is signed  *)
(* in, or of the owner of the refresh token, or fails.                     *)
(***************************************************************************)
EXTENDS Naturals, Sequences, FiniteSets

CONSTANTS
  Tasks,       \* activations of UpdateAccessTokenIfNecessary; a bound on those under way
  Users,       \* uid of the tokens, Anonymous among them
  MaxTokens    \* bound on the tokens the backend issues

Anonymous == 0

ASSUME UsersAssumption == Users \subseteq Nat /\ Anonymous \in Users
ASSUME MaxTokensAssumption == MaxTokens \in Nat \ {0}

VARIABLES
  pc,          \* where each update is
  data,        \* authentificationData and whether it looks unexpired, or NoData
  stored,      \* ProductSettings.AccessToken
  reply,       \* per update: the token it got from the backend
  previous,    \* per update: the token before the reply
  grant,       \* per update: "refresh_token" or "client_token"
  announced,   \* history: what the listeners of AccessTokenChanged know
  user,        \* backend: who is signed in
  known,       \* history: whether a Refresh followed the last change of user,
               \* and whether it came while an update had asked already
  issued       \* number of tokens issued

\* queryBackendLock
VARIABLES currentCount, waiters, woken, holders

lockVars == <<currentCount, waiters, woken, holders>>
tokenVars == <<data, stored, announced>>
replyVars == <<reply, previous, grant>>
backendVars == <<user, known, issued>>
vars == <<pc, tokenVars, replyVars, backendVars, lockVars>>

Lock == INSTANCE AsyncSemaphore WITH InitialCount <- 1

Tokens == [uid : Users, n : 0..MaxTokens]
NoToken == [uid |-> Anonymous, n |-> 0]
NoData == [token |-> NoToken, fresh |-> FALSE]

\* Under the lock, in the order of the code.
Asking == {"posting", "asking"}
Updating == {"update", "assign", "store", "announce"}
Holding == {"recheck", "reexpiry", "choose", "refresh", "ask", "release"} \cup Asking \cup Updating

TypeOK ==
  /\ pc \in [Tasks -> {"idle", "check", "expiry", "lock"} \cup Holding]
  /\ data \in [token : Tokens, fresh : BOOLEAN]
  /\ {stored, announced} \subseteq Tokens
  /\ {reply, previous} \subseteq [Tasks -> Tokens]
  /\ grant \in [Tasks -> {"refresh_token", "client_token"}]
  /\ user \in Users
  /\ known \in {"changed", "refreshed", "overtaken"}
  /\ issued \in 0..MaxTokens
  /\ Lock!TypeOK

\* The service has started: nothing in memory, and whatever token an earlier run stored.
Init ==
  /\ pc = [t \in Tasks |-> "idle"]
  /\ data = NoData
  /\ stored \in {NoToken} \cup {[uid |-> u, n |-> 1] : u \in Users}
  /\ announced = stored
  /\ reply = [t \in Tasks |-> NoToken]
  /\ previous = [t \in Tasks |-> NoToken]
  /\ grant = [t \in Tasks |-> "client_token"]
  /\ user \in Users
  /\ known = "refreshed"
  /\ issued = 1
  /\ Lock!Init

-----------------------------------------------------------------------------
(* Calls *)

Goto(t, place) == pc' = [pc EXCEPT ![t] = place]

Idle == {t \in Tasks : pc[t] = "idle"}

\* t goes on, having read AccessToken, which started one more update.
GotoAfterGetter(t, place) ==
  IF Idle = {}
    THEN Goto(t, place)
    ELSE \E u \in Idle : pc' = [pc EXCEPT ![t] = place, ![u] = "check"]

\* What the property AccessToken returns.
AccessToken == IF data # NoData THEN data.token ELSE stored

\* AccessToken is read somewhere in the program.
GetAccessToken(t) ==
  /\ t \in Idle
  /\ Goto(t, "check")
  /\ UNCHANGED <<tokenVars, replyVars, backendVars, lockVars>>

\* An update that has a token, or will get one, of a user it no longer asks for.
InFlight == \E t \in Tasks : pc[t] \in {"posting", "update", "assign"}

\* Mutant: the old token is kept until it expires.
RefreshKeepsToken(t) ==
  /\ t \in Idle
  /\ known' = IF InFlight THEN "overtaken" ELSE "refreshed"
  /\ Goto(t, "check")
  /\ UNCHANGED <<tokenVars, replyVars, user, issued, lockVars>>

\* Refresh: the user's profile or licence has changed, or a poll waits for a registered user.
Refresh(t) ==
  /\ t \in Idle
  /\ data' = NoData
  /\ known' = IF InFlight THEN "overtaken" ELSE "refreshed"
  /\ Goto(t, "check")
  /\ UNCHANGED <<stored, announced, replyVars, user, issued, lockVars>>

-----------------------------------------------------------------------------
(* UpdateAccessTokenIfNecessary *)

\* IsTokenInvalid reads authentificationData twice; between the reads it may become null.
FirstRead(t, here, second, invalid) ==
  /\ pc[t] = here
  /\ Goto(t, IF data = NoData THEN invalid ELSE second)
  /\ UNCHANGED <<tokenVars, replyVars, backendVars, lockVars>>

SecondRead(t, here, invalid, otherwise) ==
  /\ pc[t] = here
  /\ Goto(t, IF data # NoData /\ ~data.fresh THEN invalid ELSE otherwise)
  /\ UNCHANGED <<tokenVars, replyVars, backendVars, lockVars>>

Check(t) ==
  \/ FirstRead(t, "check", "expiry", "lock")
  \/ SecondRead(t, "expiry", "lock", "idle")

LockAsync(t) ==
  /\ pc[t] = "lock"
  /\ Lock!WaitAsync(t)
  /\ Goto(t, "recheck")
  /\ UNCHANGED <<tokenVars, replyVars, backendVars>>

\* Mutant: what was found before the lock is taken for granted.
NoRecheck(t) ==
  /\ pc[t] \in {"recheck", "reexpiry"}
  /\ Goto(t, "choose")
  /\ UNCHANGED <<tokenVars, replyVars, backendVars, lockVars>>

Recheck(t) ==
  \/ FirstRead(t, "recheck", "reexpiry", "choose")
  \/ SecondRead(t, "reexpiry", "choose", "release")

Choose(t) ==
  /\ pc[t] = "choose"
  /\ Goto(t, IF data = NoData THEN "ask" ELSE "refresh")
  /\ UNCHANGED <<tokenVars, replyVars, backendVars, lockVars>>

\* Mutant: the exception leaves the method without disposing the Releaser.
PostRefreshTokenLeaks(t) ==
  /\ pc[t] = "refresh"
  /\ IF data = NoData
       THEN Goto(t, "idle") /\ UNCHANGED replyVars
       ELSE /\ Goto(t, "posting")
            /\ reply' = [reply EXCEPT ![t] = data.token]
            /\ grant' = [grant EXCEPT ![t] = "refresh_token"]
            /\ UNCHANGED previous
  /\ UNCHANGED <<tokenVars, backendVars, lockVars>>

\* RequestAccessTokenUsingRefreshToken up to its await. If the data has gone meanwhile the
\* exception ends the update.
PostRefreshToken(t) ==
  /\ pc[t] = "refresh"
  /\ IF data = NoData
       THEN Goto(t, "release") /\ UNCHANGED replyVars
       ELSE /\ Goto(t, "posting")
            /\ reply' = [reply EXCEPT ![t] = data.token]
            /\ grant' = [grant EXCEPT ![t] = "refresh_token"]
            /\ UNCHANGED previous
  /\ UNCHANGED <<tokenVars, backendVars, lockVars>>

\* QueryBackend up to its await; it gives up when the launcher is not connected.
QueryBackend(t) ==
  /\ pc[t] = "ask"
  /\ \/ /\ Goto(t, "asking")
        /\ grant' = [grant EXCEPT ![t] = "client_token"]
     \/ /\ Goto(t, "release")
        /\ UNCHANGED grant
  /\ UNCHANGED <<reply, previous, tokenVars, backendVars, lockVars>>

\* Where an update goes on when its request or the handling of the reply fails.
AfterFailure(t) == IF grant[t] = "refresh_token" THEN "ask" ELSE "release"

\* The backend issues a token: to the owner of the refresh token, or to who is signed in.
Answered(t) ==
  /\ pc[t] \in Asking
  /\ issued < MaxTokens
  /\ issued' = issued + 1
  /\ reply' = [reply EXCEPT ![t] =
       [uid |-> IF pc[t] = "posting" THEN reply[t].uid ELSE user, n |-> issued + 1]]
  /\ Goto(t, "update")
  /\ UNCHANGED <<previous, grant, tokenVars, user, known, lockVars>>

\* An error, no connection, or an exception.
Refused(t) ==
  /\ pc[t] \in Asking
  /\ Goto(t, AfterFailure(t))
  /\ UNCHANGED <<tokenVars, replyVars, backendVars, lockVars>>

-----------------------------------------------------------------------------
(* UpdateAuthentificationData *)

RememberPrevious(t) ==
  /\ pc[t] = "update"
  /\ previous' = [previous EXCEPT ![t] = AccessToken]
  /\ GotoAfterGetter(t, "assign")
  /\ UNCHANGED <<reply, grant, tokenVars, backendVars, lockVars>>

\* The request time is still the old one: the new token may look expired.
Assign(t) ==
  /\ pc[t] = "assign"
  /\ \E fresh \in BOOLEAN : data' = [token |-> reply[t], fresh |-> fresh]
  /\ Goto(t, "store")
  /\ UNCHANGED <<stored, announced, replyVars, backendVars, lockVars>>

\* Mutant: only a token of another user is stored.
StoreForNewUser(t) ==
  /\ pc[t] = "store"
  /\ IF data = NoData \/ data.token.uid = stored.uid
       THEN Goto(t, "announce") /\ UNCHANGED stored
       ELSE Goto(t, "announce") /\ stored' = data.token
  /\ UNCHANGED <<data, announced, replyVars, backendVars, lockVars>>

\* authentificationData is read again: it may be null, and the request then counts as failed.
Store(t) ==
  /\ pc[t] = "store"
  /\ IF data = NoData
       THEN Goto(t, AfterFailure(t)) /\ UNCHANGED stored
       ELSE Goto(t, "announce") /\ stored' = data.token
  /\ UNCHANGED <<data, announced, replyVars, backendVars, lockVars>>

\* Mutant: only a token of another user counts as changed.
ChangedUser(old, new) == old.uid # new.uid

TokenHasChanged(old, new) ==
  \/ old.uid # new.uid
  \/ new.uid # Anonymous /\ old # new

\* The request time is set, and the listeners are told.
Announce(t) ==
  /\ pc[t] = "announce"
  /\ data' = IF data = NoData THEN NoData ELSE [data EXCEPT !.fresh = TRUE]
  /\ announced' = IF TokenHasChanged(previous[t], AccessToken) THEN stored ELSE announced
  /\ GotoAfterGetter(t, "release")
  /\ UNCHANGED <<stored, replyVars, backendVars, lockVars>>

-----------------------------------------------------------------------------

Dispose(t) ==
  /\ pc[t] = "release"
  /\ Lock!Release(t)
  /\ Goto(t, "idle")
  /\ UNCHANGED <<tokenVars, replyVars, backendVars>>

\* The lock is handed over to the next update.
Resume(t) ==
  /\ Lock!SetResult(t)
  /\ UNCHANGED <<pc, tokenVars, replyVars, backendVars>>

Holder(t) ==
  /\ t \in holders
  /\ \/ Recheck(t) \/ Choose(t) \/ PostRefreshToken(t) \/ QueryBackend(t)
     \/ Answered(t) \/ Refused(t)
     \/ RememberPrevious(t) \/ Assign(t) \/ Store(t) \/ Announce(t)
     \/ Dispose(t)

Update(t) == Check(t) \/ LockAsync(t) \/ Resume(t) \/ Holder(t)

\* Time passes.
Expire ==
  /\ data.fresh
  /\ data' = [data EXCEPT !.fresh = FALSE]
  /\ UNCHANGED <<pc, stored, announced, replyVars, backendVars, lockVars>>

\* Somebody else signs in.
UserChanges ==
  /\ \E u \in Users \ {user} : user' = u
  /\ known' = "changed"
  /\ UNCHANGED <<pc, tokenVars, replyVars, issued, lockVars>>

Next ==
  \/ \E t \in Tasks : GetAccessToken(t) \/ Refresh(t) \/ Update(t)
  \/ Expire
  \/ UserChanges

Spec == Init /\ [][Next]_vars

\* The thread pool runs every update, and the backend answers or fails.
Fairness == \A t \in Tasks : WF_vars(Update(t))

FairSpec == Spec /\ Fairness

-----------------------------------------------------------------------------
(* Properties *)

\* One request at a time, and nobody else between a reply and what is done with it.
OneQuery ==
  \A t, u \in Tasks :
    pc[t] \in Asking \cup Updating /\ pc[u] \in Asking \cup Updating => t = u

\* However many updates a burst of readers starts, none replaces a token that is still
\* valid: all but the first find it when they get the lock.
ValidTokenIsKept ==
  [][data.fresh => data'.token = data.token \/ data' = NoData]_vars

\* The next start of the service has the token this one uses.
StoredIsCurrent ==
  data # NoData => stored = data.token \/ \E t \in Tasks : pc[t] = "store"

\* Once an update is done the listeners know its token, also when a Refresh in its middle
\* made it fail, or took the token away again.
ListenersKnowTheToken ==
  \/ announced = stored
  \/ announced.uid = Anonymous /\ stored.uid = Anonymous
  \/ \E t \in Tasks : pc[t] = "announce"

\* After a Refresh that overtook no request the token in use is of the user signed in.
TokenOfCurrentUser ==
  known = "refreshed" /\ data # NoData => data.token.uid = user

\* Every update ends and leaves the lock, whatever exceptions end it.
UpdatesEnd == \A t \in Tasks : pc[t] # "idle" ~> pc[t] = "idle"
=============================================================================
