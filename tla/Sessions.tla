------------------------------ MODULE Sessions ------------------------------
(***************************************************************************)
(* How one user signs in, stays signed in and signs out: password login     *)
(* with its lockout, magic links, OAuth, the rotation of a session's tokens *)
(* and logout.  Handlers of several replicas run at the same time; each is  *)
(* cut at the points where it has read rows that it writes later.           *)
(*                                                                         *)
(* A session's access and refresh tokens are its generation: rotation        *)
(* replaces both hashes, so a token of an older generation matches no row.   *)
(***************************************************************************)
EXTENDS Integers, FiniteSets

CONSTANTS
  Handlers,     \* requests handled at one time
  Sessions,     \* user_sessions rows a behaviour may use
  Links,        \* magic links
  Flows,        \* OAuth flows
  MaxFailures,  \* wrong passwords before the account is locked
  MaxGen,       \* bound on the rotations of a session
  MaxWrong,     \* bound on the wrong passwords of a behaviour
  Scenarios     \* which endpoints a behaviour uses together

ASSUME SessionsAssumption ==
  /\ MaxFailures \in Nat \ {0}
  /\ MaxGen \in Nat
  /\ MaxWrong \in Nat
  /\ IsFiniteSet(Handlers)
  /\ IsFiniteSet(Sessions)
  /\ IsFiniteSet(Links)
  /\ Flows \cap {"none", "password", "magic link"} = {}

VARIABLES
  uses,      \* the endpoints this behaviour uses
  active,    \* the user, the membership and the organization are active
  failures,  \* users.failed_login_count
  lock,      \* users.locked_until: "none", "held" or "expired"
  session,   \* session[s]: the row, its generation and how it was issued
  link,      \* link[l]: "none", "sent", "consumed" or "expired"
  flow,      \* flow[f]: "none", "open", "deleted" or "expired"
  identity,  \* the user's OAuth identity exists
  handler,   \* handler[h]: a request being handled
  rotated,   \* rotated[s]: refreshes of s answered 200 (history)
  signedOut, \* <<s, g, found>>: logouts answered 204, and whether the row was found (history)
  wrong      \* wrong passwords since the last lock or success (history)

accountVars == <<failures, lock, wrong>>
grantVars == <<link, flow, identity>>
vars == <<uses, active, failures, lock, session, link, flow, identity,
          handler, rotated, signedOut, wrong>>

Free == [at |-> "idle"]
NoSession == [state |-> "none", gen |-> 0, from |-> "none", access |-> FALSE, refresh |-> FALSE]

Init ==
  /\ uses \in Scenarios
  /\ active = TRUE
  /\ failures = 0
  /\ lock = "none"
  /\ session = [s \in Sessions |-> NoSession]
  /\ link = [l \in Links |-> "none"]
  /\ flow = [f \in Flows |-> "none"]
  /\ identity = FALSE
  /\ handler = [h \in Handlers |-> Free]
  /\ rotated = [s \in Sessions |-> 0]
  /\ signedOut = {}
  /\ wrong = 0

-----------------------------------------------------------------------------
(* _issue_session *)

\* A new row with fresh tokens, if account and membership are still active.
IssueSession(from) ==
  /\ active
  /\ \E s \in Sessions :
       /\ session[s].state = "none"
       /\ session' = [session EXCEPT ![s] =
            [state |-> "live", gen |-> 0, from |-> from, access |-> TRUE, refresh |-> TRUE]]

Finish(h) == handler' = [handler EXCEPT ![h] = Free]

-----------------------------------------------------------------------------
(* POST /auth/login *)

\* The user row is read and the password verified, which takes a while; a lock that
\* still runs makes any password invalid.
ReadLogin(h) ==
  /\ "password" \in uses
  /\ handler[h].at = "idle"
  /\ \E correct \in BOOLEAN :
       /\ correct \/ wrong < MaxWrong
       /\ handler' = [handler EXCEPT ![h] =
            [at |-> "login", failures |-> failures, lock |-> lock, correct |-> correct]]
  /\ UNCHANGED <<uses, active, accountVars, session, grantVars, rotated, signedOut>>

Valid(h) == handler[h].correct /\ handler[h].lock # "held"

\* Faulty: a failure below the limit is forgotten.
CountFailureLate(h) ==
  /\ handler[h].at = "login"
  /\ ~Valid(h)
  /\ IF handler[h].failures + 1 >= MaxFailures
       THEN failures' = 0 /\ lock' = "held" /\ wrong' = 0
       ELSE failures' = handler[h].failures /\ wrong' = wrong + 1 /\ UNCHANGED lock
  /\ Finish(h)
  /\ UNCHANGED <<uses, active, session, grantVars, rotated, signedOut>>

\* The count that was read plus one is written; the last failure locks the account for
\* a quarter of an hour and starts the count again.  It answers 401.
CountFailure(h) ==
  /\ handler[h].at = "login"
  /\ ~Valid(h)
  /\ IF handler[h].failures + 1 >= MaxFailures
       THEN failures' = 0 /\ lock' = "held" /\ wrong' = 0
       ELSE failures' = handler[h].failures + 1 /\ wrong' = wrong + 1 /\ UNCHANGED lock
  /\ Finish(h)
  /\ UNCHANGED <<uses, active, session, grantVars, rotated, signedOut>>

\* Columns are written only where they differ from what was read.
LoginSucceeds(h) ==
  /\ handler[h].at = "login"
  /\ Valid(h)
  /\ IssueSession("password")
  /\ failures' = IF handler[h].failures = 0 THEN failures ELSE 0
  /\ lock' = IF handler[h].lock = "none" THEN lock ELSE "none"
  /\ wrong' = 0
  /\ Finish(h)
  /\ UNCHANGED <<uses, active, grantVars, rotated, signedOut>>

\* No active membership: 403, and nothing is written.
LoginForbidden(h) ==
  /\ handler[h].at = "login"
  /\ Valid(h)
  /\ ~active
  /\ Finish(h)
  /\ UNCHANGED <<uses, active, accountVars, session, grantVars, rotated, signedOut>>

LockExpires ==
  /\ lock = "held"
  /\ lock' = "expired"
  /\ UNCHANGED <<uses, active, failures, wrong, session, grantVars, handler, rotated, signedOut>>

-----------------------------------------------------------------------------
(* POST /auth/refresh *)

\* The row stays locked until the transaction ends; whoever waited for it evaluates the
\* refresh hash again on the row as it then is.
Locked(s) == \E h \in Handlers : handler[h].at = "refresh" /\ handler[h].session = s

\* Faulty: the row is read without FOR UPDATE.
LockSessionPlainRead(h, s, g) ==
  /\ "refresh" \in uses
  /\ g < MaxGen
  /\ handler[h].at = "idle"
  /\ session[s].state = "live" /\ session[s].refresh /\ session[s].gen = g
  /\ active
  /\ handler' = [handler EXCEPT ![h] = [at |-> "refresh", session |-> s, gen |-> g]]
  /\ UNCHANGED <<uses, active, accountVars, session, grantVars, rotated, signedOut>>

\* A token that matches no row, or a row that is revoked or expired, is 401; an inactive
\* account is 403: neither changes anything.
LockSession(h, s, g) ==
  /\ "refresh" \in uses
  /\ g < MaxGen
  /\ handler[h].at = "idle"
  /\ ~Locked(s)
  /\ session[s].state = "live" /\ session[s].refresh /\ session[s].gen = g
  /\ active
  /\ handler' = [handler EXCEPT ![h] = [at |-> "refresh", session |-> s, gen |-> g]]
  /\ UNCHANGED <<uses, active, accountVars, session, grantVars, rotated, signedOut>>

RotateTokens(h) ==
  LET s == handler[h].session IN
  /\ handler[h].at = "refresh"
  /\ session' = [session EXCEPT ![s].gen = handler[h].gen + 1, ![s].access = TRUE, ![s].refresh = TRUE]
  /\ rotated' = [rotated EXCEPT ![s] = @ + 1]
  /\ Finish(h)
  /\ UNCHANGED <<uses, active, accountVars, grantVars, signedOut>>

-----------------------------------------------------------------------------
(* current_principal and POST /auth/logout *)

Authenticates(s, g) ==
  session[s].state = "live" /\ session[s].access /\ session[s].gen = g /\ active

\* The first read, by the access hash, authenticates the request.
BeginLogout(h, s, g) ==
  /\ "logout" \in uses
  /\ handler[h].at = "idle"
  /\ Authenticates(s, g)
  /\ handler' = [handler EXCEPT ![h] = [at |-> "logout", session |-> s, gen |-> g]]
  /\ UNCHANGED <<uses, active, accountVars, session, grantVars, rotated, signedOut>>

SignedOut(h, found) ==
  signedOut' = signedOut \cup {<<handler[h].session, handler[h].gen, found>>}

\* The second read looks the hash up again; without a row there is nothing to revoke, and
\* the answer is 204 as well.
FindForLogout(h) ==
  LET s == handler[h].session IN
  /\ handler[h].at = "logout"
  /\ IF session[s].gen = handler[h].gen
       THEN handler' = [handler EXCEPT ![h].at = "revoke"] /\ UNCHANGED signedOut
       ELSE Finish(h) /\ SignedOut(h, FALSE)
  /\ UNCHANGED <<uses, active, accountVars, session, grantVars, rotated>>

\* Faulty: a session rotated since it was found is left as it is.
RevokeSameGeneration(h) ==
  LET s == handler[h].session IN
  /\ handler[h].at = "revoke"
  /\ ~Locked(s)
  /\ session' = IF session[s].gen = handler[h].gen
                  THEN [session EXCEPT ![s].state = "revoked"] ELSE session
  /\ Finish(h)
  /\ SignedOut(h, TRUE)
  /\ UNCHANGED <<uses, active, accountVars, grantVars, rotated>>

\* revoked_at is written by primary key, after any rotation that holds the row.
Revoke(h) ==
  LET s == handler[h].session IN
  /\ handler[h].at = "revoke"
  /\ ~Locked(s)
  /\ session' = [session EXCEPT ![s].state = "revoked"]
  /\ Finish(h)
  /\ SignedOut(h, TRUE)
  /\ UNCHANGED <<uses, active, accountVars, grantVars, rotated>>

-----------------------------------------------------------------------------
(* Magic links *)

\* The row is committed before the link is sent.
RequestMagicLink(l) ==
  /\ "magic link" \in uses
  /\ link[l] = "none"
  /\ link' = [link EXCEPT ![l] = "sent"]
  /\ UNCHANGED <<uses, active, accountVars, session, flow, identity, handler, rotated, signedOut>>

\* Under the lock of the row; an inactive account is 403 and leaves the link usable.
ConsumeMagicLink(l) ==
  /\ link[l] = "sent"
  /\ IssueSession("magic link")
  /\ link' = [link EXCEPT ![l] = "consumed"]
  /\ UNCHANGED <<uses, active, accountVars, flow, identity, handler, rotated, signedOut>>

-----------------------------------------------------------------------------
(* OAuth *)

StartOAuth(f) ==
  /\ "oauth" \in uses
  /\ flow[f] = "none"
  /\ flow' = [flow EXCEPT ![f] = "open"]
  /\ UNCHANGED <<uses, active, accountVars, session, link, identity, handler, rotated, signedOut>>

\* The callback finds the flow by its state, without a lock, and talks to the provider.
BeginCallback(h, f) ==
  /\ handler[h].at = "idle"
  /\ flow[f] = "open"
  /\ handler' = [handler EXCEPT ![h] = [at |-> "oauth", flow |-> f]]
  /\ UNCHANGED <<uses, active, accountVars, session, grantVars, rotated, signedOut>>

\* The identity is looked up, or user, organization and identity are created; the flow is
\* deleted, which no longer matters when it is gone already.
FinishCallback(h) ==
  /\ handler[h].at = "oauth"
  /\ IssueSession(handler[h].flow)
  /\ identity' = TRUE
  /\ flow' = [flow EXCEPT ![handler[h].flow] = "deleted"]
  /\ Finish(h)
  /\ UNCHANGED <<uses, active, accountVars, link, rotated, signedOut>>

\* The provider refuses, gives no verified address, an address that belongs to an account
\* without this identity, or the account is inactive: the flow stays.
RefuseCallback(h) ==
  /\ handler[h].at = "oauth"
  /\ Finish(h)
  /\ UNCHANGED <<uses, active, accountVars, session, grantVars, rotated, signedOut>>

-----------------------------------------------------------------------------
(* Time, failures and the operator *)

\* The answer of a handler is lost with its transaction.
Abort(h) ==
  /\ handler[h].at # "idle"
  /\ Finish(h)
  /\ UNCHANGED <<uses, active, accountVars, session, grantVars, rotated, signedOut>>

Expire ==
  /\ \/ \E s \in Sessions :
          \/ session[s].access /\ session' = [session EXCEPT ![s].access = FALSE]
          \/ session[s].refresh /\ session' = [session EXCEPT ![s].refresh = FALSE]
        /\ UNCHANGED <<link, flow>>
     \/ \E l \in Links : link[l] = "sent" /\ link' = [link EXCEPT ![l] = "expired"]
        /\ UNCHANGED <<session, flow>>
     \/ \E f \in Flows : flow[f] = "open" /\ flow' = [flow EXCEPT ![f] = "expired"]
        /\ UNCHANGED <<session, link>>
  /\ UNCHANGED <<uses, active, accountVars, identity, handler, rotated, signedOut>>

\* No route does it: the row is changed in the database.
Deactivate ==
  /\ active
  /\ active' = FALSE
  /\ UNCHANGED <<uses, accountVars, session, grantVars, handler, rotated, signedOut>>

-----------------------------------------------------------------------------
Next ==
  \/ \E h \in Handlers :
       \/ ReadLogin(h)
       \/ CountFailure(h)
       \/ LoginSucceeds(h)
       \/ LoginForbidden(h)
       \/ \E s \in Sessions, g \in 0 .. MaxGen : LockSession(h, s, g) \/ BeginLogout(h, s, g)
       \/ RotateTokens(h)
       \/ FindForLogout(h)
       \/ Revoke(h)
       \/ \E f \in Flows : BeginCallback(h, f)
       \/ FinishCallback(h)
       \/ RefuseCallback(h)
       \/ Abort(h)
  \/ \E l \in Links : RequestMagicLink(l) \/ ConsumeMagicLink(l)
  \/ \E f \in Flows : StartOAuth(f)
  \/ LockExpires
  \/ Expire
  \/ Deactivate

Spec == Init /\ [][Next]_vars

-----------------------------------------------------------------------------
(* Properties *)

TypeOK ==
  /\ active \in BOOLEAN /\ identity \in BOOLEAN
  /\ failures \in 0 .. MaxFailures - 1
  /\ lock \in {"none", "held", "expired"}
  /\ wrong \in Nat
  /\ session \in [Sessions ->
       [state : {"none", "live", "revoked"}, gen : 0 .. MaxGen, access : BOOLEAN, refresh : BOOLEAN,
        from : {"none", "password", "magic link"} \cup Flows]]
  /\ link \in [Links -> {"none", "sent", "consumed", "expired"}]
  /\ flow \in [Flows -> {"none", "open", "deleted", "expired"}]
  /\ rotated \in [Sessions -> Nat]
  /\ signedOut \subseteq Sessions \X (0 .. MaxGen) \X BOOLEAN

From(way) == {s \in Sessions : session[s].from = way}

Callbacks(f) == {h \in Handlers : handler[h].at = "oauth" /\ handler[h].flow = f}

\* What signs a user in is spent by it.  A consumed magic link has given one session.  A
\* refresh token has been exchanged once, however many tabs present it at the same time:
\* the answers with new tokens are as many as the generations of the row.  An OAuth flow,
\* deleted without looking whether it is still there, gives at most one session for each
\* callback that was under way when the first one finished.
CredentialsSpentOnce ==
  /\ Cardinality(From("magic link")) = Cardinality({l \in Links : link[l] = "consumed"})
  /\ \A s \in Sessions : rotated[s] = session[s].gen
  /\ \A f \in Flows :
       flow[f] = "deleted" => Cardinality(From(f)) + Cardinality(Callbacks(f)) <= Cardinality(Handlers)

\* A logout that answered 204 has ended the session its token belonged to, also when a
\* refresh overtakes it after it found the row, or is overtaken by it: the rotation never
\* brings the session back.  Only a refresh that finishes between the two reads of the
\* logout escapes it: the row is not found, the answer is 204 as well, and the session
\* lives on under its new tokens.
SignedOutUnlessRotated ==
  \A s \in Sessions, g \in 0 .. MaxGen :
    /\ <<s, g, TRUE>> \in signedOut => session[s].state = "revoked"
    /\ <<s, g, FALSE>> \in signedOut => session[s].gen > g

\* How many requests stand at each count, for requests that stand at the counts o.
Profile(o) == [v \in 0 .. MaxFailures - 1 |-> Cardinality({h \in Handlers : o[h] = v})]

Profiles == {Profile(o) : o \in [Handlers -> 0 .. MaxFailures - 1]}

\* The counter is read, incremented and written without a lock, so concurrent failures
\* overwrite each other, and one that is late sets the counter back.  The account is
\* locked all the same: every wrong password that does not lock it moves the requests to
\* another profile, and back to none they had, so that the lock comes after as many wrong
\* passwords as there are profiles.  They are MaxFailures for one request at a time,
\* 1 + 2 + ... + MaxFailures for two, and in general the ways to place the requests on
\* MaxFailures counts.
LockoutBound == wrong < Cardinality(Profiles)
=============================================================================
