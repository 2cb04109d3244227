--------------------------- MODULE SessionsProofs ---------------------------
(* Theorems about Sessions: a credential is spent once and a logout holds, for any *)
(* numbers of requests, sessions, links, flows and rotations.                       *)
EXTENDS Sessions, TLAPS, FiniteSetTheorems

-----------------------------------------------------------------------------
(* Types *)

Rows ==
  [state : {"none", "live", "revoked"}, gen : 0 .. MaxGen, access : BOOLEAN, refresh : BOOLEAN,
   from : {"none", "password", "magic link"} \cup Flows]

LoggingIn ==
  [at : {"login"}, failures : 0 .. MaxFailures - 1, lock : {"none", "held", "expired"}, correct : BOOLEAN]

Holding == [at : {"refresh", "logout", "revoke"}, session : Sessions, gen : 0 .. MaxGen]

CallingBack == [at : {"oauth"}, flow : Flows]

\* What a request has read; a rotation that holds its row has room for one more.
HandlersOK ==
  /\ handler \in [Handlers -> {Free} \cup LoggingIn \cup Holding \cup CallingBack]
  /\ \A h \in Handlers : handler[h].at = "refresh" => handler[h].gen < MaxGen

Typed == TypeOK /\ HandlersOK

\* The bounds are numbers.
LEMMA Bounds == MaxGen \in Nat /\ 0 \in 0 .. MaxGen /\ MaxFailures \in Nat /\ MaxFailures >= 1
  <1>1. MaxGen \in Nat /\ MaxFailures \in Nat \ {0}
    BY SessionsAssumption
  <1> QED
    BY <1>1

\* What a logout reports.
LEMMA ReportTyped ==
  ASSUME NEW s \in Sessions, NEW g \in 0 .. MaxGen, NEW found \in BOOLEAN,
         signedOut \subseteq Sessions \X (0 .. MaxGen) \X BOOLEAN
  PROVE  signedOut \cup {<<s, g, found>>} \subseteq Sessions \X (0 .. MaxGen) \X BOOLEAN
  <1>1. <<s, g, found>> \in Sessions \X (0 .. MaxGen) \X BOOLEAN
    OBVIOUS
  <1> QED
    BY <1>1

\* The stage of a request tells what it has read.
LEMMA Stages ==
  ASSUME HandlersOK, NEW h \in Handlers
  PROVE  /\ handler[h].at = "login" => handler[h] \in LoggingIn
         /\ handler[h].at \in {"refresh", "logout", "revoke"} =>
              /\ handler[h] \in Holding
              /\ handler[h].session \in Sessions /\ handler[h].gen \in 0 .. MaxGen
         /\ handler[h].at = "oauth" => handler[h] \in CallingBack /\ handler[h].flow \in Flows
         /\ handler[h].at \in {"idle", "login", "refresh", "logout", "revoke", "oauth"}
  <1>1. handler[h] \in {Free} \cup LoggingIn \cup Holding \cup CallingBack
    BY DEF HandlersOK
  <1> QED
    BY <1>1 DEF Free, LoggingIn, Holding, CallingBack

\* A request that ends, or reads something that is not a row to rotate.
LEMMA HandlerMoves ==
  ASSUME HandlersOK, NEW h \in Handlers, NEW x \in {Free} \cup LoggingIn \cup Holding \cup CallingBack,
         x.at = "refresh" => x.gen < MaxGen,
         handler' = [handler EXCEPT ![h] = x]
  PROVE  /\ HandlersOK'
         /\ handler'[h] = x
         /\ \A k \in Handlers : k # h => handler'[k] = handler[k]
  BY DEF HandlersOK

\* A new session.
LEMMA IssueTyped ==
  ASSUME session \in [Sessions -> Rows],
         NEW from \in {"none", "password", "magic link"} \cup Flows, IssueSession(from)
  PROVE  session' \in [Sessions -> Rows]
  <1>1. [state |-> "live", gen |-> 0, from |-> from, access |-> TRUE, refresh |-> TRUE] \in Rows
    BY Bounds DEF Rows
  <1> QED
    BY <1>1 DEF IssueSession

\* Sign-in, by password.
LEMMA LoginTyped ==
  ASSUME Typed, NEW h \in Handlers,
         ReadLogin(h) \/ CountFailure(h) \/ LoginSucceeds(h) \/ LoginForbidden(h)
  PROVE  Typed'
  <1> USE DEF Typed
  <1>0. session \in [Sessions -> Rows] /\ failures \in 0 .. MaxFailures - 1
    BY DEF TypeOK, Rows
  <1>1. CASE ReadLogin(h)
    <2>1. PICK correct \in BOOLEAN : handler' = [handler EXCEPT ![h] =
               [at |-> "login", failures |-> failures, lock |-> lock, correct |-> correct]]
      BY <1>1 DEF ReadLogin
    <2>2. [at |-> "login", failures |-> failures, lock |-> lock, correct |-> correct] \in LoggingIn
      BY DEF LoggingIn, TypeOK
    <2>3. HandlersOK'
      BY <2>1, <2>2, HandlerMoves DEF LoggingIn
    <2> QED
      BY <1>1, <2>3 DEF ReadLogin, TypeOK, accountVars, grantVars
  <1>2. CASE CountFailure(h)
    <2>1. HandlersOK'
      BY <1>2, HandlerMoves DEF CountFailure, Finish, Free
    <2>2. handler[h].failures \in 0 .. MaxFailures - 1
      BY <1>2, Stages DEF CountFailure, LoggingIn
    <2>3. failures' \in 0 .. MaxFailures - 1
      BY <1>2, <2>2, Bounds DEF CountFailure
    <2>4. lock' \in {"none", "held", "expired"}
      BY <1>2 DEF CountFailure, TypeOK
    <2>5. wrong' \in Nat
      <3>1. wrong \in Nat /\ (wrong' = 0 \/ wrong' = wrong + 1)
        BY <1>2 DEF CountFailure, TypeOK
      <3> QED
        BY <3>1
    <2> QED
      BY <1>2, <2>1, <2>3, <2>4, <2>5 DEF CountFailure, TypeOK, grantVars
  <1>3. CASE LoginSucceeds(h)
    <2>1. HandlersOK'
      BY <1>3, HandlerMoves DEF LoginSucceeds, Finish, Free
    <2>2. session' \in [Sessions -> Rows]
      BY <1>0, <1>3, IssueTyped DEF LoginSucceeds
    <2>3. failures' \in 0 .. MaxFailures - 1
      BY <1>0, <1>3, Bounds DEF LoginSucceeds
    <2>4. lock' \in {"none", "held", "expired"} /\ wrong' \in Nat
      BY <1>3 DEF LoginSucceeds, TypeOK
    <2> QED
      BY <1>3, <2>1, <2>2, <2>3, <2>4 DEF LoginSucceeds, TypeOK, Rows, grantVars
  <1>4. CASE LoginForbidden(h)
    <2>1. HandlersOK'
      BY <1>4, HandlerMoves DEF LoginForbidden, Finish, Free
    <2> QED
      BY <1>4, <2>1 DEF LoginForbidden, TypeOK, accountVars, grantVars
  <1> QED
    BY <1>1, <1>2, <1>3, <1>4

\* Rotation and logout.
LEMMA HoldersTyped ==
  ASSUME Typed, NEW h \in Handlers,
         (\E s \in Sessions, g \in 0 .. MaxGen : LockSession(h, s, g) \/ BeginLogout(h, s, g))
           \/ RotateTokens(h) \/ FindForLogout(h) \/ Revoke(h)
  PROVE  Typed'
  <1> USE DEF Typed
  <1>0. session \in [Sessions -> Rows] /\ signedOut \subseteq Sessions \X (0 .. MaxGen) \X BOOLEAN
    BY DEF TypeOK, Rows
  <1>1. ASSUME NEW s \in Sessions, NEW g \in 0 .. MaxGen, LockSession(h, s, g) \/ BeginLogout(h, s, g)
        PROVE  Typed'
    <2>1. PICK at \in {"refresh", "logout"} :
               /\ handler' = [handler EXCEPT ![h] = [at |-> at, session |-> s, gen |-> g]]
               /\ at = "refresh" => g < MaxGen
      BY <1>1 DEF LockSession, BeginLogout
    <2>2. [at |-> at, session |-> s, gen |-> g] \in Holding
      BY DEF Holding
    <2>3. HandlersOK'
      BY <2>1, <2>2, HandlerMoves
    <2> QED
      BY <1>1, <2>3 DEF LockSession, BeginLogout, TypeOK, accountVars, grantVars
  <1>2. CASE RotateTokens(h)
    <2>1. PICK s \in Sessions, g \in 0 .. MaxGen : s = handler[h].session /\ g = handler[h].gen /\ g < MaxGen
      BY <1>2, Stages DEF RotateTokens, HandlersOK
    <2>2. /\ session' = [session EXCEPT ![s].gen = g + 1, ![s].access = TRUE, ![s].refresh = TRUE]
          /\ rotated' = [rotated EXCEPT ![s] = @ + 1]
      BY <1>2, <2>1 DEF RotateTokens
    <2>3. g + 1 \in 0 .. MaxGen
      BY <2>1, Bounds
    <2>4. [session[s] EXCEPT !.gen = g + 1, !.access = TRUE, !.refresh = TRUE] \in Rows
      BY <1>0, <2>3 DEF Rows
    <2>5. session' \in [Sessions -> Rows]
      <3>1. session' = [session EXCEPT ![s] = [session[s] EXCEPT !.gen = g + 1, !.access = TRUE, !.refresh = TRUE]]
        BY <1>0, <2>2
      <3> QED
        BY <1>0, <2>4, <3>1
    <2>7. rotated' \in [Sessions -> Nat]
      <3>1. rotated \in [Sessions -> Nat]
        BY DEF TypeOK
      <3> QED
        BY <2>2, <3>1
    <2>6. HandlersOK'
      BY <1>2, HandlerMoves DEF RotateTokens, Finish, Free
    <2> QED
      BY <1>2, <2>5, <2>6, <2>7 DEF RotateTokens, TypeOK, Rows, accountVars, grantVars
  <1>3. CASE FindForLogout(h)
    <2>1. handler[h].at = "logout" /\ handler[h] \in Holding
      BY <1>3, Stages DEF FindForLogout
    <2>2. CASE handler' = [handler EXCEPT ![h].at = "revoke"] /\ UNCHANGED signedOut
      <3>1. [handler[h] EXCEPT !.at = "revoke"] \in Holding /\ [handler[h] EXCEPT !.at = "revoke"].at = "revoke"
        BY <2>1 DEF Holding
      <3>2. handler' = [handler EXCEPT ![h] = [handler[h] EXCEPT !.at = "revoke"]]
        BY <2>2
      <3>3. HandlersOK'
        BY <3>1, <3>2, HandlerMoves
      <3> QED
        BY <1>3, <2>2, <3>3 DEF FindForLogout, TypeOK, accountVars, grantVars
    <2>3. CASE Finish(h) /\ SignedOut(h, FALSE)
      <3>1. HandlersOK'
        BY <2>3, HandlerMoves DEF Finish, Free
      <3>2. signedOut' \subseteq Sessions \X (0 .. MaxGen) \X BOOLEAN
        BY <1>0, <2>1, <2>3, ReportTyped DEF SignedOut, Holding
      <3> QED
        BY <1>3, <3>1, <3>2 DEF FindForLogout, TypeOK, accountVars, grantVars
    <2> QED
      BY <1>3, <2>2, <2>3 DEF FindForLogout
  <1>4. CASE Revoke(h)
    <2>1. PICK s \in Sessions : s = handler[h].session /\ handler[h] \in Holding
      BY <1>4, Stages DEF Revoke
    <2>2. session' = [session EXCEPT ![s].state = "revoked"]
      BY <1>4, <2>1 DEF Revoke
    <2>3. [session[s] EXCEPT !.state = "revoked"] \in Rows
      BY <1>0 DEF Rows
    <2>4. session' \in [Sessions -> Rows]
      BY <1>0, <2>2, <2>3
    <2>5. HandlersOK'
      BY <1>4, HandlerMoves DEF Revoke, Finish, Free
    <2>6. signedOut' \subseteq Sessions \X (0 .. MaxGen) \X BOOLEAN
      BY <1>0, <1>4, <2>1, ReportTyped DEF Revoke, SignedOut, Holding
    <2> QED
      BY <1>4, <2>4, <2>5, <2>6 DEF Revoke, TypeOK, Rows, accountVars, grantVars
  <1> QED
    BY <1>1, <1>2, <1>3, <1>4

\* Links, flows, time and failures.
LEMMA GrantsTyped ==
  ASSUME Typed,
         (\E h \in Handlers : (\E f \in Flows : BeginCallback(h, f)) \/ FinishCallback(h)
              \/ RefuseCallback(h) \/ Abort(h))
           \/ (\E l \in Links : RequestMagicLink(l) \/ ConsumeMagicLink(l))
           \/ (\E f \in Flows : StartOAuth(f))
           \/ LockExpires \/ Expire \/ Deactivate
  PROVE  Typed'
  <1> USE DEF Typed
  <1>0. session \in [Sessions -> Rows]
    BY DEF TypeOK, Rows
  <1>1. ASSUME NEW h \in Handlers, NEW f \in Flows, BeginCallback(h, f) PROVE Typed'
    <2>1. [at |-> "oauth", flow |-> f] \in CallingBack
      BY DEF CallingBack
    <2>2. HandlersOK'
      BY <1>1, <2>1, HandlerMoves DEF BeginCallback
    <2> QED
      BY <1>1, <2>2 DEF BeginCallback, TypeOK, accountVars, grantVars
  <1>2. ASSUME NEW h \in Handlers, FinishCallback(h) PROVE Typed'
    <2>1. HandlersOK'
      BY <1>2, HandlerMoves DEF FinishCallback, Finish, Free
    <2>2. handler[h].flow \in Flows
      BY <1>2, Stages DEF FinishCallback
    <2>3. session' \in [Sessions -> Rows]
      BY <1>0, <1>2, <2>2, IssueTyped DEF FinishCallback
    <2> QED
      BY <1>2, <2>1, <2>3 DEF FinishCallback, TypeOK, Rows, accountVars
  <1>3. ASSUME NEW h \in Handlers, RefuseCallback(h) \/ Abort(h) PROVE Typed'
    <2>1. HandlersOK'
      BY <1>3, HandlerMoves DEF RefuseCallback, Abort, Finish, Free
    <2> QED
      BY <1>3, <2>1 DEF RefuseCallback, Abort, TypeOK, accountVars, grantVars
  <1>4. ASSUME NEW l \in Links, RequestMagicLink(l) PROVE Typed'
    BY <1>4 DEF RequestMagicLink, TypeOK, HandlersOK, accountVars
  <1>5. ASSUME NEW l \in Links, ConsumeMagicLink(l) PROVE Typed'
    <2>1. session' \in [Sessions -> Rows]
      BY <1>0, <1>5, IssueTyped DEF ConsumeMagicLink
    <2> QED
      BY <1>5, <2>1 DEF ConsumeMagicLink, TypeOK, Rows, HandlersOK, accountVars
  <1>6. ASSUME NEW f \in Flows, StartOAuth(f) PROVE Typed'
    BY <1>6 DEF StartOAuth, TypeOK, HandlersOK, accountVars
  <1>7. CASE LockExpires
    BY <1>7 DEF LockExpires, TypeOK, HandlersOK, grantVars
  <1>8. CASE Expire
    <2>1. session' \in [Sessions -> Rows]
      <3>1. CASE UNCHANGED session
        BY <1>0, <3>1
      <3>2. ASSUME NEW s \in Sessions,
                   \/ session' = [session EXCEPT ![s].access = FALSE]
                   \/ session' = [session EXCEPT ![s].refresh = FALSE]
            PROVE  session' \in [Sessions -> Rows]
        BY <1>0, <3>2 DEF Rows
      <3> QED
        BY <1>8, <3>1, <3>2 DEF Expire
    <2> QED
      BY <1>8, <2>1 DEF Expire, TypeOK, Rows, HandlersOK, accountVars
  <1>9. CASE Deactivate
    BY <1>9 DEF Deactivate, TypeOK, HandlersOK, accountVars, grantVars
  <1> QED
    BY <1>1, <1>2, <1>3, <1>4, <1>5, <1>6, <1>7, <1>8, <1>9

\* The start.
LEMMA InitTyped == Init => Typed
  <1> SUFFICES ASSUME Init PROVE Typed
    OBVIOUS
  <1>1. failures \in 0 .. MaxFailures - 1 /\ wrong \in Nat
    BY Bounds DEF Init
  <1>2. session \in [Sessions -> Rows]
    BY Bounds DEF Init, NoSession, Rows
  <1>3. HandlersOK
    BY DEF Init, HandlersOK, Free
  <1>4. rotated \in [Sessions -> Nat] /\ signedOut = {}
    BY DEF Init
  <1> QED
    BY <1>1, <1>2, <1>3, <1>4 DEF Init, Typed, TypeOK, Rows

\* Every step keeps the types.
LEMMA StepTyped == Typed /\ [Next]_vars => Typed'
  <1> SUFFICES ASSUME Typed, [Next]_vars PROVE Typed'
    OBVIOUS
  <1>1. CASE UNCHANGED vars
    BY <1>1 DEF vars, Typed, TypeOK, HandlersOK
  <1>2. CASE Next
    BY <1>2, LoginTyped, HoldersTyped, GrantsTyped DEF Next
  <1> QED
    BY <1>1, <1>2

\* Types hold in every state, for any numbers of requests, sessions, links and flows.
THEOREM SessionsTyped == Spec => []Typed
  BY InitTyped, StepTyped, PTL DEF Spec

-----------------------------------------------------------------------------
(* Rotation and logout *)

Refreshing(h) == handler[h].at = "refresh"
LoggingOut(h) == handler[h].at \in {"logout", "revoke"}

\* A rotation is alone on its row and has read the generation the row still has; a logout
\* has seen a generation the row has or had; a row without a session is as it was made.
RotationOK ==
  /\ \A h \in Handlers : Refreshing(h) =>
       /\ session[handler[h].session].state = "live"
       /\ session[handler[h].session].gen = handler[h].gen
       /\ \A k \in Handlers : Refreshing(k) /\ handler[k].session = handler[h].session => k = h
  /\ \A h \in Handlers : LoggingOut(h) =>
       /\ session[handler[h].session].state # "none"
       /\ handler[h].gen <= session[handler[h].session].gen
  /\ \A s \in Sessions : session[s].state = "none" => session[s].gen = 0 /\ session[s].from = "none"
  /\ \A s \in Sessions : rotated[s] = session[s].gen

LogoutOK == RotationOK /\ SignedOutUnlessRotated

\* Rows that keep state, generation and origin, with handlers that end or turn elsewhere.
LEMMA QuietKeeps ==
  ASSUME Typed, LogoutOK,
         \A s \in Sessions :
           /\ session'[s].state = session[s].state
           /\ session'[s].gen = session[s].gen /\ session'[s].from = session[s].from,
         \A h \in Handlers :
           \/ handler'[h] = handler[h]
           \/ handler'[h].at \notin {"refresh", "logout", "revoke"},
         UNCHANGED <<rotated, signedOut>>
  PROVE  LogoutOK'
  <1>1. \A h \in Handlers : Refreshing(h) \/ LoggingOut(h) => handler[h].session \in Sessions
    BY Stages DEF Typed, Refreshing, LoggingOut
  <1>2. \A h \in Handlers :
          Refreshing(h)' \/ LoggingOut(h)' =>
            handler'[h] = handler[h] /\ (Refreshing(h)' => Refreshing(h)) /\ (LoggingOut(h)' => LoggingOut(h))
    BY DEF Refreshing, LoggingOut
  <1>3. RotationOK'
    BY <1>1, <1>2 DEF LogoutOK, RotationOK
  <1>4. SignedOutUnlessRotated'
    BY DEF LogoutOK, SignedOutUnlessRotated
  <1> QED
    BY <1>3, <1>4 DEF LogoutOK

\* A new session takes a row nobody has seen.
LEMMA IssueKeeps ==
  ASSUME Typed, LogoutOK, NEW from, IssueSession(from),
         \A h \in Handlers :
           \/ handler'[h] = handler[h]
           \/ handler'[h].at \notin {"refresh", "logout", "revoke"},
         UNCHANGED <<rotated, signedOut>>
  PROVE  LogoutOK'
  <1>1. PICK s \in Sessions :
             /\ session[s].state = "none"
             /\ session' = [session EXCEPT ![s] =
                  [state |-> "live", gen |-> 0, from |-> from, access |-> TRUE, refresh |-> TRUE]]
    BY DEF IssueSession
  <1>2. /\ \A t \in Sessions : t # s => session'[t] = session[t]
        /\ session'[s].state = "live" /\ session'[s].gen = 0 /\ session[s].gen = 0
    BY <1>1 DEF Typed, TypeOK, LogoutOK, RotationOK
  <1>3. \A h \in Handlers : Refreshing(h) \/ LoggingOut(h) =>
          handler[h].session \in Sessions /\ handler[h].session # s
    BY <1>1, Stages DEF Typed, Refreshing, LoggingOut, LogoutOK, RotationOK
  <1>4. \A h \in Handlers :
          Refreshing(h)' \/ LoggingOut(h)' =>
            handler'[h] = handler[h] /\ (Refreshing(h)' => Refreshing(h)) /\ (LoggingOut(h)' => LoggingOut(h))
    BY DEF Refreshing, LoggingOut
  <1>5. RotationOK'
    BY <1>2, <1>3, <1>4 DEF LogoutOK, RotationOK
  <1>6. SignedOutUnlessRotated'
    BY <1>1, <1>2 DEF LogoutOK, SignedOutUnlessRotated
  <1> QED
    BY <1>5, <1>6 DEF LogoutOK

\* A request turns to a row: to rotate it, alone, or to log it out.
LEMMA HoldKeeps ==
  ASSUME Typed, LogoutOK, NEW h \in Handlers, NEW s \in Sessions, NEW g \in 0 .. MaxGen,
         LockSession(h, s, g) \/ BeginLogout(h, s, g)
  PROVE  LogoutOK'
  <1>1. /\ UNCHANGED <<session, rotated, signedOut>>
        /\ session[s].state = "live" /\ session[s].gen = g
        /\ handler \in [Handlers -> {Free} \cup LoggingIn \cup Holding \cup CallingBack]
    BY DEF LockSession, BeginLogout, Authenticates, Typed, HandlersOK
  <1>2. \A k \in Handlers : k # h => handler'[k] = handler[k]
    BY <1>1 DEF LockSession, BeginLogout
  <1>3. handler'[h].session = s /\ handler'[h].gen = g /\ handler'[h].at \in {"refresh", "logout"}
    BY <1>1 DEF LockSession, BeginLogout
  <1>4. Refreshing(h)' => \A k \in Handlers : ~(Refreshing(k) /\ handler[k].session = s)
    BY <1>1 DEF LockSession, BeginLogout, Locked, Refreshing
  <1>5. g <= g
    BY Bounds
  <1>6. RotationOK'
    BY <1>1, <1>2, <1>3, <1>4, <1>5 DEF LogoutOK, RotationOK, Refreshing, LoggingOut
  <1>7. SignedOutUnlessRotated'
    BY <1>1 DEF LogoutOK, SignedOutUnlessRotated
  <1> QED
    BY <1>6, <1>7 DEF LogoutOK

\* The rotation.
LEMMA RotateKeeps ==
  ASSUME Typed, LogoutOK, NEW h \in Handlers, RotateTokens(h)
  PROVE  LogoutOK'
  <1>1. PICK s \in Sessions, g \in 0 .. MaxGen : s = handler[h].session /\ g = handler[h].gen
    BY Stages DEF RotateTokens, Typed
  <1>2. /\ session' = [session EXCEPT ![s].gen = g + 1, ![s].access = TRUE, ![s].refresh = TRUE]
        /\ rotated' = [rotated EXCEPT ![s] = @ + 1]
        /\ handler' = [handler EXCEPT ![h] = Free]
        /\ UNCHANGED signedOut
        /\ Refreshing(h)
    BY <1>1 DEF RotateTokens, Finish, Refreshing
  <1>3. session[s].gen = g /\ session[s].state = "live" /\ rotated[s] = g /\ g \in Nat
    BY <1>1, <1>2, Bounds DEF LogoutOK, RotationOK
  <1>4. /\ \A t \in Sessions : t # s => session'[t] = session[t] /\ rotated'[t] = rotated[t]
        /\ session'[s].gen = g + 1 /\ rotated'[s] = g + 1
        /\ session'[s].state = "live"
    BY <1>2, <1>3 DEF Typed, TypeOK
  <1>5. /\ handler'[h].at = "idle"
        /\ \A k \in Handlers : k # h => handler'[k] = handler[k]
    BY <1>2 DEF Typed, HandlersOK, Free
  <1>6. ASSUME NEW k \in Handlers, Refreshing(k)'
        PROVE  /\ session'[handler'[k].session].state = "live"
               /\ session'[handler'[k].session].gen = handler'[k].gen
               /\ \A j \in Handlers : Refreshing(j)' /\ handler'[j].session = handler'[k].session => j = k
    <2>1. k # h /\ handler'[k] = handler[k] /\ Refreshing(k)
      BY <1>5, <1>6 DEF Refreshing
    <2>2. handler[k].session \in Sessions /\ handler[k].session # s
      BY <1>1, <1>2, <2>1, Stages DEF Typed, Refreshing, LogoutOK, RotationOK
    <2>3. \A j \in Handlers : Refreshing(j)' => handler'[j] = handler[j] /\ Refreshing(j)
      BY <1>5 DEF Refreshing
    <2> QED
      BY <1>4, <2>1, <2>2, <2>3 DEF LogoutOK, RotationOK
  <1>7. ASSUME NEW k \in Handlers, LoggingOut(k)'
        PROVE  /\ session'[handler'[k].session].state # "none"
               /\ handler'[k].gen <= session'[handler'[k].session].gen
    <2>1. k # h /\ handler'[k] = handler[k] /\ LoggingOut(k)
      BY <1>5, <1>7 DEF LoggingOut
    <2>2. /\ handler[k].session \in Sessions /\ handler[k].gen \in 0 .. MaxGen
          /\ session[handler[k].session].state # "none"
          /\ handler[k].gen <= session[handler[k].session].gen
      BY <2>1, Stages DEF Typed, LoggingOut, LogoutOK, RotationOK
    <2>3. CASE handler[k].session = s
      BY <1>3, <1>4, <2>1, <2>2, <2>3, Bounds
    <2>4. CASE handler[k].session # s
      BY <1>4, <2>1, <2>2, <2>4
    <2> QED
      BY <2>3, <2>4
  <1>8. RotationOK'
    BY <1>4, <1>6, <1>7 DEF LogoutOK, RotationOK
  <1>9. SignedOutUnlessRotated'
    <2>1. ASSUME NEW t \in Sessions, NEW k \in 0 .. MaxGen
          PROVE  /\ <<t, k, TRUE>> \in signedOut => session'[t].state = "revoked"
                 /\ <<t, k, FALSE>> \in signedOut => session'[t].gen > k
      <3>1. /\ <<t, k, TRUE>> \in signedOut => session[t].state = "revoked"
            /\ <<t, k, FALSE>> \in signedOut => session[t].gen > k
        BY DEF LogoutOK, SignedOutUnlessRotated
      <3>2. CASE t = s
        BY <1>3, <1>4, <3>1, <3>2, Bounds
      <3>3. CASE t # s
        BY <1>4, <3>1, <3>3
      <3> QED
        BY <3>2, <3>3
    <2> QED
      BY <1>2, <2>1 DEF SignedOutUnlessRotated
  <1> QED
    BY <1>8, <1>9 DEF LogoutOK

\* The second read of a logout: the row is there, or was rotated since.
LEMMA FindKeeps ==
  ASSUME Typed, LogoutOK, NEW h \in Handlers, FindForLogout(h)
  PROVE  LogoutOK'
  <1>1. PICK s \in Sessions, g \in 0 .. MaxGen : s = handler[h].session /\ g = handler[h].gen
    BY Stages DEF FindForLogout, Typed
  <1>2. /\ handler[h].at = "logout" /\ handler[h] \in Holding
        /\ UNCHANGED <<session, rotated>>
    BY Stages DEF FindForLogout, Typed
  <1>3. session[s].state # "none" /\ g <= session[s].gen /\ g \in Nat /\ session[s].gen \in Nat
    <2>1. session[s].state # "none" /\ g <= session[s].gen
      BY <1>1, <1>2 DEF LogoutOK, RotationOK, LoggingOut
    <2>2. session[s].gen \in 0 .. MaxGen
      BY DEF Typed, TypeOK
    <2> QED
      BY <2>1, <2>2, Bounds
  <1>4. CASE session[s].gen = g
    <2>1. handler' = [handler EXCEPT ![h].at = "revoke"] /\ UNCHANGED signedOut
      BY <1>1, <1>4 DEF FindForLogout
    <2>2. /\ \A k \in Handlers : k # h => handler'[k] = handler[k]
          /\ handler'[h].at = "revoke" /\ handler'[h].session = s /\ handler'[h].gen = g
      BY <1>1, <1>2, <2>1 DEF Typed, HandlersOK, Holding
    <2>3. RotationOK'
      BY <1>2, <1>3, <2>2 DEF LogoutOK, RotationOK, Refreshing, LoggingOut
    <2>4. SignedOutUnlessRotated'
      BY <1>2, <2>1 DEF LogoutOK, SignedOutUnlessRotated
    <2> QED
      BY <2>3, <2>4 DEF LogoutOK
  <1>5. CASE session[s].gen # g
    <2>1. handler' = [handler EXCEPT ![h] = Free] /\ signedOut' = signedOut \cup {<<s, g, FALSE>>}
      BY <1>1, <1>5 DEF FindForLogout, Finish, SignedOut
    <2>2. /\ handler'[h].at = "idle"
          /\ \A k \in Handlers : k # h => handler'[k] = handler[k]
      BY <2>1 DEF Typed, HandlersOK, Free
    <2>3. RotationOK'
      BY <1>2, <2>2 DEF LogoutOK, RotationOK, Refreshing, LoggingOut
    <2>4. ASSUME NEW t \in Sessions, NEW k \in 0 .. MaxGen
          PROVE  /\ <<t, k, TRUE>> \in signedOut' => session[t].state = "revoked"
                 /\ <<t, k, FALSE>> \in signedOut' => session[t].gen > k
      <3>1. <<t, k, TRUE>> \in signedOut' => <<t, k, TRUE>> \in signedOut
        BY <2>1
      <3>2. <<t, k, FALSE>> \in signedOut' => <<t, k, FALSE>> \in signedOut \/ (t = s /\ k = g)
        BY <2>1
      <3>3. session[s].gen > g
        BY <1>3, <1>5
      <3>4. /\ <<t, k, TRUE>> \in signedOut => session[t].state = "revoked"
            /\ <<t, k, FALSE>> \in signedOut => session[t].gen > k
        BY DEF LogoutOK, SignedOutUnlessRotated
      <3> QED
        BY <3>1, <3>2, <3>3, <3>4
    <2>5. SignedOutUnlessRotated'
      BY <1>2, <2>4 DEF SignedOutUnlessRotated
    <2> QED
      BY <2>3, <2>5 DEF LogoutOK
  <1> QED
    BY <1>4, <1>5

\* The revocation waits for a rotation that holds the row.
LEMMA RevokeKeeps ==
  ASSUME Typed, LogoutOK, NEW h \in Handlers, Revoke(h)
  PROVE  LogoutOK'
  <1>1. PICK s \in Sessions, g \in 0 .. MaxGen : s = handler[h].session /\ g = handler[h].gen
    BY Stages DEF Revoke, Typed
  <1>2. /\ handler[h].at = "revoke"
        /\ ~Locked(s)
        /\ session' = [session EXCEPT ![s].state = "revoked"]
        /\ handler' = [handler EXCEPT ![h] = Free]
        /\ signedOut' = signedOut \cup {<<s, g, TRUE>>}
        /\ UNCHANGED rotated
    BY <1>1 DEF Revoke, Finish, SignedOut
  <1>3. /\ \A t \in Sessions : t # s => session'[t] = session[t]
        /\ session'[s].state = "revoked" /\ session'[s].gen = session[s].gen
    BY <1>2 DEF Typed, TypeOK
  <1>4. /\ handler'[h].at = "idle"
        /\ \A k \in Handlers : k # h => handler'[k] = handler[k]
    BY <1>2 DEF Typed, HandlersOK, Free
  <1>5. \A k \in Handlers : Refreshing(k) => handler[k].session \in Sessions /\ handler[k].session # s
    BY <1>2, Stages DEF Locked, Refreshing, Typed
  <1>6. \A k \in Handlers : LoggingOut(k) => handler[k].session \in Sessions
    BY Stages DEF LoggingOut, Typed
  <1>7. \A k \in Handlers :
          /\ Refreshing(k)' => handler'[k] = handler[k] /\ Refreshing(k)
          /\ LoggingOut(k)' => handler'[k] = handler[k] /\ LoggingOut(k)
    BY <1>4 DEF Refreshing, LoggingOut
  <1>8. RotationOK'
    <2>1. ASSUME NEW k \in Handlers, Refreshing(k)'
          PROVE  /\ session'[handler'[k].session].state = "live"
                 /\ session'[handler'[k].session].gen = handler'[k].gen
                 /\ \A j \in Handlers : Refreshing(j)' /\ handler'[j].session = handler'[k].session => j = k
      BY <1>3, <1>5, <1>7, <2>1 DEF LogoutOK, RotationOK
    <2>2. ASSUME NEW k \in Handlers, LoggingOut(k)'
          PROVE  /\ session'[handler'[k].session].state # "none"
                 /\ handler'[k].gen <= session'[handler'[k].session].gen
      <3>1. /\ handler'[k] = handler[k] /\ handler[k].session \in Sessions
            /\ session[handler[k].session].state # "none"
            /\ handler[k].gen <= session[handler[k].session].gen
        BY <1>6, <1>7, <2>2 DEF LogoutOK, RotationOK
      <3> QED
        BY <1>3, <3>1
    <2>3. \A t \in Sessions :
            /\ session'[t].state = "none" => session'[t].gen = 0 /\ session'[t].from = "none"
            /\ rotated'[t] = session'[t].gen
      BY <1>2, <1>3 DEF LogoutOK, RotationOK
    <2> QED
      BY <2>1, <2>2, <2>3 DEF RotationOK
  <1>9. SignedOutUnlessRotated'
    <2>1. ASSUME NEW t \in Sessions, NEW k \in 0 .. MaxGen
          PROVE  /\ <<t, k, TRUE>> \in signedOut' => session'[t].state = "revoked"
                 /\ <<t, k, FALSE>> \in signedOut' => session'[t].gen > k
      <3>1. <<t, k, TRUE>> \in signedOut' => <<t, k, TRUE>> \in signedOut \/ t = s
        BY <1>2
      <3>2. <<t, k, FALSE>> \in signedOut' => <<t, k, FALSE>> \in signedOut
        BY <1>2
      <3> QED
        BY <1>3, <3>1, <3>2 DEF LogoutOK, SignedOutUnlessRotated
    <2> QED
      BY <2>1 DEF SignedOutUnlessRotated
  <1> QED
    BY <1>8, <1>9 DEF LogoutOK

\* What a lifetime's end does to a row.
LEMMA ExpireKeeps ==
  ASSUME Typed, Expire
  PROVE  /\ \A s \in Sessions :
              /\ session'[s].state = session[s].state
              /\ session'[s].gen = session[s].gen /\ session'[s].from = session[s].from
         /\ UNCHANGED <<handler, rotated, signedOut>>
  <1>1. CASE UNCHANGED session
    BY <1>1 DEF Expire
  <1>2. ASSUME NEW s \in Sessions,
               \/ session' = [session EXCEPT ![s].access = FALSE]
               \/ session' = [session EXCEPT ![s].refresh = FALSE]
        PROVE  \A t \in Sessions :
                 /\ session'[t].state = session[t].state
                 /\ session'[t].gen = session[t].gen /\ session'[t].from = session[t].from
    <2>1. session \in [Sessions -> Rows]
      BY DEF Typed, TypeOK, Rows
    <2>2. \A t \in Sessions : t # s => session'[t] = session[t]
      BY <1>2, <2>1
    <2>3. /\ session'[s].state = session[s].state
          /\ session'[s].gen = session[s].gen /\ session'[s].from = session[s].from
      BY <1>2, <2>1 DEF Rows
    <2> QED
      BY <2>2, <2>3
  <1> QED
    BY <1>1, <1>2 DEF Expire

\* A request that ends leaves every other one alone.
LEMMA Ending ==
  ASSUME Typed, NEW h \in Handlers, Finish(h)
  PROVE  \A k \in Handlers :
           handler'[k] = handler[k] \/ handler'[k].at \notin {"refresh", "logout", "revoke"}
  BY DEF Finish, Free, Typed, HandlersOK

\* Sign-outs hold whoever acts.
LEMMA LogoutStep == Typed /\ LogoutOK /\ [Next]_vars => LogoutOK'
  <1> SUFFICES ASSUME Typed, LogoutOK, [Next]_vars PROVE LogoutOK'
    OBVIOUS
  <1>1. CASE UNCHANGED <<session, handler, rotated, signedOut>>
    BY <1>1, QuietKeeps
  <1>2. ASSUME NEW h \in Handlers,
               ReadLogin(h) \/ (\E f \in Flows : BeginCallback(h, f)) PROVE LogoutOK'
    <2>1. UNCHANGED <<session, rotated, signedOut>>
      BY <1>2 DEF ReadLogin, BeginCallback
    <2>2. \A k \in Handlers :
            handler'[k] = handler[k] \/ handler'[k].at \notin {"refresh", "logout", "revoke"}
      BY <1>2 DEF ReadLogin, BeginCallback, Typed, HandlersOK
    <2> QED
      BY <2>1, <2>2, QuietKeeps
  <1>3. ASSUME NEW h \in Handlers,
               CountFailure(h) \/ LoginForbidden(h) \/ RefuseCallback(h) \/ Abort(h)
        PROVE  LogoutOK'
    <2>1. UNCHANGED <<session, rotated, signedOut>> /\ Finish(h)
      BY <1>3 DEF CountFailure, LoginForbidden, RefuseCallback, Abort
    <2> QED
      BY <2>1, Ending, QuietKeeps
  <1>4. ASSUME NEW h \in Handlers, LoginSucceeds(h) \/ FinishCallback(h) PROVE LogoutOK'
    <2>1. PICK from : IssueSession(from)
      BY <1>4 DEF LoginSucceeds, FinishCallback
    <2>2. Finish(h) /\ UNCHANGED <<rotated, signedOut>>
      BY <1>4 DEF LoginSucceeds, FinishCallback
    <2> QED
      BY <2>1, <2>2, Ending, IssueKeeps
  <1>5. ASSUME NEW h \in Handlers, NEW s \in Sessions, NEW g \in 0 .. MaxGen,
               LockSession(h, s, g) \/ BeginLogout(h, s, g)
        PROVE  LogoutOK'
    BY <1>5, HoldKeeps
  <1>6. ASSUME NEW h \in Handlers, RotateTokens(h) \/ FindForLogout(h) \/ Revoke(h) PROVE LogoutOK'
    BY <1>6, RotateKeeps, FindKeeps, RevokeKeeps
  <1>7. ASSUME NEW l \in Links, ConsumeMagicLink(l) PROVE LogoutOK'
    <2>1. IssueSession("magic link") /\ UNCHANGED <<handler, rotated, signedOut>>
      BY <1>7 DEF ConsumeMagicLink
    <2> QED
      BY <2>1, IssueKeeps
  <1>8. CASE Expire
    BY <1>8, ExpireKeeps, QuietKeeps
  <1>9. (\E l \in Links : RequestMagicLink(l)) \/ (\E f \in Flows : StartOAuth(f))
          \/ LockExpires \/ Deactivate => UNCHANGED <<session, handler, rotated, signedOut>>
    BY DEF RequestMagicLink, StartOAuth, LockExpires, Deactivate
  <1> QED
    BY <1>1, <1>2, <1>3, <1>4, <1>5, <1>6, <1>7, <1>8, <1>9 DEF Next, vars

\* The start.
LEMMA LogoutInit == Init => LogoutOK
  BY DEF Init, LogoutOK, RotationOK, SignedOutUnlessRotated, Refreshing, LoggingOut, Free, NoSession

\* The invariant of rotation and logout.
LEMMA LogoutInvariant == Spec => [](Typed /\ LogoutOK)
  BY InitTyped, StepTyped, LogoutInit, LogoutStep, PTL DEF Spec

\* For any numbers of requests and sessions: a logout that found its row has ended the
\* session for good, whatever rotation was under way, and one that found none was
\* overtaken by a completed rotation.
THEOREM LogoutsHold == Spec => []SignedOutUnlessRotated
  BY LogoutInvariant, PTL DEF LogoutOK

-----------------------------------------------------------------------------
(* What signs a user in *)

Consumed == {l \in Links : link[l] = "consumed"}

\* A flow that was never finished has given no session.
SpentOK ==
  /\ Cardinality(From("magic link")) = Cardinality(Consumed)
  /\ \A f \in Flows :
       /\ flow[f] # "deleted" => From(f) = {}
       /\ flow[f] = "deleted" => Cardinality(From(f)) + Cardinality(Callbacks(f)) <= Cardinality(Handlers)

\* The sets that are counted are finite.
LEMMA SpentFinite ==
  /\ \A x : IsFiniteSet(From(x)) /\ Cardinality(From(x)) \in Nat
  /\ \A f : IsFiniteSet(Callbacks(f)) /\ Cardinality(Callbacks(f)) \in Nat
  /\ \A f : Cardinality(Callbacks(f)) <= Cardinality(Handlers)
  /\ IsFiniteSet(Consumed) /\ Cardinality(Consumed) \in Nat
  /\ Cardinality(Handlers) \in Nat
  <1>1. /\ \A x : From(x) \subseteq Sessions
        /\ \A f : Callbacks(f) \subseteq Handlers
        /\ Consumed \subseteq Links
    BY DEF From, Callbacks, Consumed
  <1> QED
    BY <1>1, SessionsAssumption, FS_Subset, FS_CardinalityType

\* Steps that issue nothing and end no flow; callbacks of finished flows only end.
LEMMA SpentFrame ==
  ASSUME SpentOK,
         \A s \in Sessions : session'[s].from = session[s].from,
         \A l \in Links : link'[l] = "consumed" <=> link[l] = "consumed",
         \A f \in Flows : flow'[f] = "deleted" <=> flow[f] = "deleted",
         \A f \in Flows : flow[f] = "deleted" => Callbacks(f)' \subseteq Callbacks(f)
  PROVE  SpentOK'
  <1>1. Consumed' = Consumed /\ \A x : From(x)' = From(x)
    BY DEF Consumed, From
  <1>2. ASSUME NEW f \in Flows, flow[f] = "deleted"
        PROVE  Cardinality(From(f)') + Cardinality(Callbacks(f)') <= Cardinality(Handlers)
    <2>1. Cardinality(Callbacks(f)') <= Cardinality(Callbacks(f)) /\ Cardinality(Callbacks(f)') \in Nat
      BY <1>2, SpentFinite, FS_Subset, FS_CardinalityType
    <2>2. Cardinality(From(f)) + Cardinality(Callbacks(f)) <= Cardinality(Handlers)
      BY <1>2 DEF SpentOK
    <2>3. Cardinality(From(f)') = Cardinality(From(f))
      BY <1>1
    <2> QED
      BY <2>1, <2>2, <2>3, SpentFinite
  <1>3. Cardinality(From("magic link")') = Cardinality(Consumed')
    BY <1>1 DEF SpentOK
  <1>4. \A f \in Flows : flow'[f] # "deleted" => From(f)' = {}
    BY <1>1 DEF SpentOK
  <1> QED
    BY <1>2, <1>3, <1>4 DEF SpentOK

\* A new session counts for the way it was issued, and for no other.
LEMMA IssueCounts ==
  ASSUME Typed, LogoutOK, NEW from, from # "none", IssueSession(from)
  PROVE  /\ Cardinality(From(from)') = Cardinality(From(from)) + 1
         /\ \A x : x # from /\ x # "none" => From(x)' = From(x)
  <1>1. PICK s \in Sessions :
             /\ session[s].state = "none"
             /\ session' = [session EXCEPT ![s] =
                  [state |-> "live", gen |-> 0, from |-> from, access |-> TRUE, refresh |-> TRUE]]
    BY DEF IssueSession
  <1>2. /\ \A t \in Sessions : t # s => session'[t] = session[t]
        /\ session'[s].from = from /\ session[s].from = "none"
    BY <1>1 DEF Typed, TypeOK, LogoutOK, RotationOK
  <1>3. From(from)' = From(from) \cup {s} /\ s \notin From(from)
    BY <1>2 DEF From
  <1>4. \A x : x # from /\ x # "none" => From(x)' = From(x)
    BY <1>2 DEF From
  <1> QED
    BY <1>3, <1>4, SpentFinite, FS_AddElement

\* Ways to sign in are told apart.
LEMMA Ways ==
  /\ "magic link" # "password" /\ "none" \notin Flows /\ "password" \notin Flows /\ "magic link" \notin Flows
  BY SessionsAssumption

\* The password.
LEMMA LoginSpends ==
  ASSUME Typed, LogoutOK, SpentOK, NEW h \in Handlers, LoginSucceeds(h)
  PROVE  SpentOK'
  <1>1. IssueSession("password") /\ handler[h].at = "login" /\ Finish(h) /\ UNCHANGED <<link, flow>>
    BY DEF LoginSucceeds, grantVars
  <1>2. \A x : x # "password" /\ x # "none" => From(x)' = From(x)
    BY <1>1, IssueCounts
  <1>3. From("magic link")' = From("magic link") /\ \A f \in Flows : From(f)' = From(f)
    BY <1>2, Ways
  <1>4. \A f : Callbacks(f)' = Callbacks(f)
    BY <1>1 DEF Callbacks, Finish, Free, Typed, HandlersOK
  <1>5. Consumed' = Consumed
    BY <1>1 DEF Consumed
  <1>6. Cardinality(From("magic link")') = Cardinality(Consumed')
    BY <1>3, <1>5 DEF SpentOK
  <1> QED
    BY <1>1, <1>3, <1>4, <1>6 DEF SpentOK

\* A magic link.
LEMMA LinkSpends ==
  ASSUME Typed, LogoutOK, SpentOK, NEW l \in Links, ConsumeMagicLink(l)
  PROVE  SpentOK'
  <1>1. /\ link[l] = "sent" /\ link' = [link EXCEPT ![l] = "consumed"]
        /\ IssueSession("magic link") /\ UNCHANGED <<flow, handler>>
    BY DEF ConsumeMagicLink
  <1>2. Consumed' = Consumed \cup {l} /\ l \notin Consumed
    BY <1>1 DEF Consumed, Typed, TypeOK
  <1>3. Cardinality(Consumed') = Cardinality(Consumed) + 1
    BY <1>2, SpentFinite, FS_AddElement
  <1>4. /\ Cardinality(From("magic link")') = Cardinality(From("magic link")) + 1
        /\ \A x : x # "magic link" /\ x # "none" => From(x)' = From(x)
    BY <1>1, IssueCounts
  <1>5. \A f \in Flows : From(f)' = From(f) /\ Callbacks(f)' = Callbacks(f)
    BY <1>1, <1>4, Ways DEF Callbacks
  <1>6. Cardinality(From("magic link")') = Cardinality(Consumed')
    BY <1>3, <1>4 DEF SpentOK
  <1> QED
    BY <1>1, <1>5, <1>6 DEF SpentOK

\* A callback: each session of a finished flow was a callback when the flow ended.
LEMMA CallbackSpends ==
  ASSUME Typed, LogoutOK, SpentOK, NEW h \in Handlers, FinishCallback(h)
  PROVE  SpentOK'
  <1>1. PICK f \in Flows : f = handler[h].flow
    BY Stages DEF FinishCallback, Typed
  <1>2. /\ handler[h].at = "oauth" /\ IssueSession(f) /\ Finish(h)
        /\ flow' = [flow EXCEPT ![f] = "deleted"] /\ UNCHANGED link
    BY <1>1 DEF FinishCallback
  <1>3. /\ Cardinality(From(f)') = Cardinality(From(f)) + 1
        /\ \A x : x # f /\ x # "none" => From(x)' = From(x)
    BY <1>2, IssueCounts, Ways
  <1>4. /\ \A g : Callbacks(g)' = Callbacks(g) \ {h}
        /\ h \in Callbacks(f)
        /\ \A g : g # f => h \notin Callbacks(g)
    BY <1>1, <1>2 DEF Callbacks, Finish, Free, Typed, HandlersOK
  <1>5. Cardinality(Callbacks(f)') = Cardinality(Callbacks(f)) - 1
    BY <1>4, SpentFinite, FS_RemoveElement
  <1>6. Cardinality(From(f)') + Cardinality(Callbacks(f)') <= Cardinality(Handlers)
    <2>1. CASE flow[f] = "deleted"
      <3>1. Cardinality(From(f)) + Cardinality(Callbacks(f)) <= Cardinality(Handlers)
        BY <2>1 DEF SpentOK
      <3> QED
        BY <1>3, <1>5, <3>1, SpentFinite
    <2>2. CASE flow[f] # "deleted"
      <3>1. From(f) = {}
        BY <2>2 DEF SpentOK
      <3>2. Cardinality(From(f)) = 0
        BY <3>1, FS_EmptySet
      <3>3. Cardinality(Callbacks(f)) <= Cardinality(Handlers) /\ Cardinality(Callbacks(f)) \in Nat
        BY SpentFinite
      <3> QED
        BY <1>3, <1>5, <3>2, <3>3, SpentFinite
    <2> QED
      BY <2>1, <2>2
  <1>7. /\ flow'[f] = "deleted"
        /\ \A g \in Flows : g # f => flow'[g] = flow[g] /\ From(g)' = From(g) /\ Callbacks(g)' = Callbacks(g)
    BY <1>2, <1>3, <1>4, Ways DEF Typed, TypeOK
  <1>8. \A g \in Flows :
          /\ flow'[g] # "deleted" => From(g)' = {}
          /\ flow'[g] = "deleted" => Cardinality(From(g)') + Cardinality(Callbacks(g)') <= Cardinality(Handlers)
    BY <1>6, <1>7 DEF SpentOK
  <1>9. Cardinality(From("magic link")') = Cardinality(Consumed')
    <2>1. From("magic link")' = From("magic link") /\ Consumed' = Consumed
      BY <1>2, <1>3, Ways DEF Consumed
    <2> QED
      BY <2>1 DEF SpentOK
  <1> QED
    BY <1>8, <1>9 DEF SpentOK

\* The other steps.
LEMMA SpentStep == Typed /\ LogoutOK /\ SpentOK /\ [Next]_vars => SpentOK'
  <1> SUFFICES ASSUME Typed, LogoutOK, SpentOK, [Next]_vars PROVE SpentOK'
    OBVIOUS
  <1>1. CASE UNCHANGED <<session, link, flow, handler>>
    BY <1>1, SpentFrame DEF Callbacks
  <1>2. ASSUME NEW h \in Handlers,
               \/ ReadLogin(h) \/ CountFailure(h) \/ LoginForbidden(h)
               \/ \E s \in Sessions, g \in 0 .. MaxGen : LockSession(h, s, g) \/ BeginLogout(h, s, g)
               \/ FindForLogout(h) \/ RefuseCallback(h) \/ Abort(h)
        PROVE  SpentOK'
    <2>1. UNCHANGED <<session, link, flow>>
      BY <1>2 DEF ReadLogin, CountFailure, LoginForbidden, LockSession, BeginLogout, FindForLogout,
                  RefuseCallback, Abort, grantVars
    <2>2. \A k \in Handlers : handler'[k] = handler[k] \/ handler'[k].at # "oauth"
      <3>1. CASE ReadLogin(h) \/ CountFailure(h) \/ LoginForbidden(h) \/ RefuseCallback(h) \/ Abort(h)
        BY <3>1 DEF ReadLogin, CountFailure, LoginForbidden, RefuseCallback, Abort, Finish, Free, Typed,
                    HandlersOK
      <3>2. ASSUME NEW s \in Sessions, NEW g \in 0 .. MaxGen, LockSession(h, s, g) \/ BeginLogout(h, s, g)
            PROVE  \A k \in Handlers : handler'[k] = handler[k] \/ handler'[k].at # "oauth"
        BY <3>2 DEF LockSession, BeginLogout, Typed, HandlersOK
      <3>3. CASE FindForLogout(h)
        <4>1. handler[h] \in Holding
          BY <3>3, Stages DEF FindForLogout, Typed
        <4>2. handler' = [handler EXCEPT ![h].at = "revoke"] \/ handler' = [handler EXCEPT ![h] = Free]
          BY <3>3 DEF FindForLogout, Finish
        <4>3. \A k \in Handlers : k # h => handler'[k] = handler[k]
          BY <4>2 DEF Typed, HandlersOK
        <4>4. handler'[h].at \in {"revoke", "idle"}
          BY <4>1, <4>2 DEF Typed, HandlersOK, Holding, Free
        <4> QED
          BY <4>3, <4>4
      <3> QED
        BY <1>2, <3>1, <3>2, <3>3
    <2>3. \A f : Callbacks(f)' \subseteq Callbacks(f)
      BY <2>2 DEF Callbacks
    <2> QED
      BY <2>1, <2>3, SpentFrame
  <1>3. ASSUME NEW h \in Handlers, NEW f \in Flows, BeginCallback(h, f) PROVE SpentOK'
    <2>1. flow[f] = "open" /\ UNCHANGED <<session, link, flow>>
      BY <1>3 DEF BeginCallback, grantVars
    <2>2. \A g : g # f => Callbacks(g)' \subseteq Callbacks(g)
      BY <1>3 DEF BeginCallback, Callbacks, Typed, HandlersOK
    <2> QED
      BY <2>1, <2>2, SpentFrame
  <1>4. ASSUME NEW h \in Handlers, RotateTokens(h) \/ Revoke(h) PROVE SpentOK'
    <2>1. UNCHANGED <<link, flow>> /\ Finish(h)
      BY <1>4 DEF RotateTokens, Revoke, grantVars
    <2>2. \A s \in Sessions : session'[s].from = session[s].from
      <3>1. PICK s \in Sessions : s = handler[h].session
        BY <1>4, Stages DEF RotateTokens, Revoke, Typed
      <3>2. session \in [Sessions -> Rows]
        BY DEF Typed, TypeOK, Rows
      <3>3. PICK g : \/ session' = [session EXCEPT ![s].gen = g, ![s].access = TRUE, ![s].refresh = TRUE]
                    \/ session' = [session EXCEPT ![s].state = "revoked"]
        BY <1>4, <3>1 DEF RotateTokens, Revoke
      <3>4. session'[s].from = session[s].from
        BY <3>2, <3>3 DEF Rows
      <3> QED
        BY <3>2, <3>3, <3>4
    <2>3. \A f : Callbacks(f)' \subseteq Callbacks(f)
      BY <2>1 DEF Callbacks, Finish, Free, Typed, HandlersOK
    <2> QED
      BY <2>1, <2>2, <2>3, SpentFrame
  <1>5. ASSUME NEW h \in Handlers, LoginSucceeds(h) \/ FinishCallback(h) PROVE SpentOK'
    BY <1>5, LoginSpends, CallbackSpends
  <1>6. ASSUME NEW l \in Links, ConsumeMagicLink(l) PROVE SpentOK'
    BY <1>6, LinkSpends
  <1>7. ASSUME NEW l \in Links, RequestMagicLink(l) PROVE SpentOK'
    <2>1. UNCHANGED <<session, flow, handler>> /\ link[l] = "none" /\ link' = [link EXCEPT ![l] = "sent"]
      BY <1>7 DEF RequestMagicLink
    <2>2. \A k \in Links : link'[k] = "consumed" <=> link[k] = "consumed"
      BY <2>1 DEF Typed, TypeOK
    <2>3. \A f : Callbacks(f)' = Callbacks(f)
      BY <2>1 DEF Callbacks
    <2> QED
      BY <2>1, <2>2, <2>3, SpentFrame
  <1>8. ASSUME NEW f \in Flows, StartOAuth(f) PROVE SpentOK'
    <2>1. UNCHANGED <<session, link, handler>> /\ flow[f] = "none" /\ flow' = [flow EXCEPT ![f] = "open"]
      BY <1>8 DEF StartOAuth
    <2>2. \A g \in Flows : flow'[g] = "deleted" <=> flow[g] = "deleted"
      BY <2>1 DEF Typed, TypeOK
    <2>3. \A g : Callbacks(g)' = Callbacks(g)
      BY <2>1 DEF Callbacks
    <2> QED
      BY <2>1, <2>2, <2>3, SpentFrame
  <1>9. CASE Expire
    <2>1. \A s \in Sessions : session'[s].from = session[s].from
      BY <1>9, ExpireKeeps
    <2>2. /\ \A l \in Links : link'[l] = "consumed" <=> link[l] = "consumed"
          /\ \A f \in Flows : flow'[f] = "deleted" <=> flow[f] = "deleted"
      BY <1>9 DEF Expire, Typed, TypeOK
    <2>3. \A f : Callbacks(f)' = Callbacks(f)
      BY <1>9 DEF Expire, Callbacks
    <2> QED
      BY <2>1, <2>2, <2>3, SpentFrame
  <1>10. LockExpires \/ Deactivate => UNCHANGED <<session, link, flow, handler>>
    BY DEF LockExpires, Deactivate, grantVars
  <1> QED
    BY <1>1, <1>2, <1>3, <1>4, <1>5, <1>6, <1>7, <1>8, <1>9, <1>10 DEF Next, vars

\* The start.
LEMMA SpentInit == Init => SpentOK
  <1> SUFFICES ASSUME Init PROVE SpentOK
    OBVIOUS
  <1>1. From("magic link") = {} /\ Consumed = {} /\ \A f \in Flows : flow[f] # "deleted"
    BY DEF Init, From, Consumed, NoSession
  <1>2. \A f \in Flows : From(f) = {}
    BY Ways DEF Init, From, NoSession
  <1> QED
    BY <1>1, <1>2, FS_EmptySet DEF SpentOK

\* For any numbers of requests, links, flows and rotations: a magic link gives one session,
\* a refresh token one exchange, and a flow no more sessions than requests are handled at
\* a time.
THEOREM SpentOnce == Spec => []CredentialsSpentOnce
  <1>1. LogoutOK /\ SpentOK => CredentialsSpentOnce
    BY DEF LogoutOK, RotationOK, SpentOK, Consumed, CredentialsSpentOnce
  <1> QED
    BY <1>1, LogoutInvariant, SpentInit, SpentStep, PTL DEF Spec

-----------------------------------------------------------------------------
(* The lockout *)

Counts == 0 .. MaxFailures - 1

\* The count a request stands at, when the row has count: this one, or a lower one that
\* its login has read.
Lowest(a, b) == IF a <= b THEN a ELSE b
Stand(x, count) == IF x.at = "login" THEN Lowest(x.failures, count) ELSE count
Standing(hs, count) == [h \in Handlers |-> Stand(hs[h], count)]

\* The profile q comes after p: fewer requests are left at the lowest count that tells them apart.
Less(p, q) == \E v \in Counts : q[v] < p[v] /\ \A u \in 0 .. v - 1 : p[u] = q[u]

Before(p) == {q \in Profiles : Less(q, p)}

\* There have been no more wrong passwords than there are profiles before that of now.
CountOK == wrong <= Cardinality(Before(Profile(Standing(handler, failures))))

LEMMA CountsBounds == Counts \subseteq Nat /\ 0 \in Counts /\ MaxFailures \in Nat
  BY Bounds DEF Counts

LEMMA ProfileType ==
  ASSUME NEW o \in [Handlers -> Counts]
  PROVE  Profile(o) \in Profiles /\ Profile(o) \in [Counts -> Nat]
  <1>1. ASSUME NEW v \in Counts PROVE Cardinality({h \in Handlers : o[h] = v}) \in Nat
    <2>1. IsFiniteSet({h \in Handlers : o[h] = v})
      BY SessionsAssumption, FS_Subset
    <2> QED
      BY <2>1, FS_CardinalityType
  <1> QED
    BY <1>1 DEF Profile, Profiles, Counts

\* Functions between finite sets are finitely many.
LEMMA FiniteFunctions ==
  ASSUME NEW S, NEW T, IsFiniteSet(S), IsFiniteSet(T) PROVE IsFiniteSet([S -> T])
  <1> DEFINE graph == [f \in [S -> T] |-> {<<x, f[x]>> : x \in S}]
  <1>1. IsFiniteSet(SUBSET (S \X T))
    BY FS_Product, FS_SUBSET
  <1>2. graph \in [[S -> T] -> SUBSET (S \X T)]
    OBVIOUS
  <1>3. ASSUME NEW f \in [S -> T], NEW g \in [S -> T], graph[f] = graph[g] PROVE f = g
    <2>1. ASSUME NEW x \in S PROVE f[x] = g[x]
      <3>1. <<x, f[x]>> \in graph[f]
        OBVIOUS
      <3>2. <<x, f[x]>> \in {<<y, g[y]>> : y \in S}
        BY <3>1, <1>3
      <3> QED
        BY <3>2
    <2> QED
      BY <2>1
  <1>4. graph \in Injection([S -> T], SUBSET (S \X T))
    BY <1>2, <1>3 DEF Injection, IsInjective
  <1> QED
    BY <1>1, <1>4, FS_Injection

LEMMA ProfilesFinite == IsFiniteSet(Profiles)
  <1> DEFINE all == [Handlers -> Counts]
             profile == [o \in all |-> Profile(o)]
  <1>1. IsFiniteSet(all)
    <2>1. MaxFailures - 1 \in Int /\ 0 \in Int
      BY Bounds
    <2>2. IsFiniteSet(Counts)
      BY <2>1, FS_Interval DEF Counts
    <2>3. IsFiniteSet(Handlers)
      BY SessionsAssumption
    <2> QED
      BY <2>2, <2>3, FiniteFunctions
  <1>2. profile \in Surjection(all, Profiles)
    BY DEF Profiles, Counts, Surjection
  <1> QED
    BY <1>1, <1>2, FS_Surjection

\* A request leaves the count v, nobody below v moves, and nobody comes to v or below.
LEMMA Advances ==
  ASSUME NEW o \in [Handlers -> Counts], NEW n \in [Handlers -> Counts], NEW v \in Counts,
         NEW h \in Handlers, o[h] = v, n[h] # v,
         \A k \in Handlers : o[k] < v \/ n[k] <= v => n[k] = o[k]
  PROVE  Less(Profile(o), Profile(n))
  <1> DEFINE At(f, u) == {k \in Handlers : f[k] = u}
  <1>0. v \in Nat /\ \A k \in Handlers : o[k] \in Nat /\ n[k] \in Nat
    BY CountsBounds
  <1>1. ASSUME NEW u \in 0 .. v - 1 PROVE Profile(o)[u] = Profile(n)[u]
    <2>1. u \in Counts /\ u < v
      BY <1>0, CountsBounds DEF Counts
    <2>2. At(o, u) = At(n, u)
      BY <1>0, <2>1
    <2> QED
      BY <2>1, <2>2 DEF Profile, Counts
  <1>2. Profile(n)[v] < Profile(o)[v]
    <2>1. At(n, v) \subseteq At(o, v) /\ h \in At(o, v) \ At(n, v)
      BY <1>0
    <2>2. IsFiniteSet(At(o, v))
      BY SessionsAssumption, FS_Subset
    <2> HIDE DEF At
    <2>3. /\ Cardinality(At(n, v)) <= Cardinality(At(o, v))
          /\ Cardinality(At(n, v)) # Cardinality(At(o, v))
          /\ IsFiniteSet(At(n, v))
      BY <2>1, <2>2, FS_Subset
    <2>4. Cardinality(At(n, v)) \in Nat /\ Cardinality(At(o, v)) \in Nat
      BY <2>2, <2>3, FS_CardinalityType
    <2>5. Cardinality(At(n, v)) < Cardinality(At(o, v))
      BY <2>3, <2>4
    <2> QED
      BY <2>5 DEF Profile, Counts, At
  <1> QED
    BY <1>1, <1>2 DEF Less

LEMMA LessTransitive ==
  ASSUME NEW p \in [Counts -> Nat], NEW q \in [Counts -> Nat], NEW r \in [Counts -> Nat],
         Less(p, q), Less(q, r)
  PROVE  Less(p, r)
  <1>1. PICK v \in Counts : q[v] < p[v] /\ \A u \in 0 .. v - 1 : p[u] = q[u]
    BY DEF Less
  <1>2. PICK w \in Counts : r[w] < q[w] /\ \A u \in 0 .. w - 1 : q[u] = r[u]
    BY DEF Less
  <1>3. v \in Nat /\ w \in Nat /\ \A u \in Counts : p[u] \in Nat /\ q[u] \in Nat /\ r[u] \in Nat
    BY CountsBounds
  <1>4. CASE v < w
    <2>1. r[v] < p[v] /\ \A u \in 0 .. v - 1 : p[u] = r[u]
      BY <1>1, <1>2, <1>3, <1>4
    <2> QED
      BY <2>1 DEF Less
  <1>5. CASE ~(v < w)
    <2>0. p[w] = q[w] \/ (w = v /\ q[w] < p[w])
      BY <1>1, <1>3, <1>5
    <2>1. r[w] < p[w]
      BY <1>2, <1>3, <2>0
    <2>2. \A u \in 0 .. w - 1 : p[u] = r[u]
      BY <1>1, <1>2, <1>3, <1>5
    <2> QED
      BY <2>1, <2>2 DEF Less
  <1> QED
    BY <1>4, <1>5

\* A later profile has one more before it, at least.
LEMMA MoreBefore ==
  ASSUME NEW o \in [Handlers -> Counts], NEW n \in [Handlers -> Counts], Less(Profile(o), Profile(n))
  PROVE  /\ Cardinality(Before(Profile(o))) \in Nat
         /\ Cardinality(Before(Profile(n))) \in Nat
         /\ Cardinality(Before(Profile(o))) + 1 <= Cardinality(Before(Profile(n)))
  <1> DEFINE p == Profile(o)
             q == Profile(n)
  <1>1. p \in Profiles /\ p \in [Counts -> Nat] /\ q \in [Counts -> Nat]
    BY ProfileType
  <1>2. \A r \in Profiles : r \in [Counts -> Nat]
    BY ProfileType DEF Profiles, Counts
  <1> HIDE DEF p, q
  <1>3. p \notin Before(p)
    BY <1>1, CountsBounds DEF Before, Less
  <1>4. Before(p) \cup {p} \subseteq Before(q)
    <2>1. p \in Before(q)
      BY <1>1 DEF Before, p, q
    <2>2. ASSUME NEW r \in Before(p) PROVE r \in Before(q)
      <3>1. r \in Profiles /\ r \in [Counts -> Nat] /\ Less(r, p) /\ Less(p, q)
        BY <1>2 DEF Before, p, q
      <3>2. Less(r, q)
        BY <1>1, <3>1, LessTransitive
      <3> QED
        BY <3>1, <3>2 DEF Before
    <2> QED
      BY <2>1, <2>2
  <1>5. IsFiniteSet(Before(p)) /\ IsFiniteSet(Before(q))
    BY ProfilesFinite, FS_Subset DEF Before
  <1>6. Cardinality(Before(p) \cup {p}) = Cardinality(Before(p)) + 1
    BY <1>3, <1>5, FS_AddElement
  <1>7. Cardinality(Before(p) \cup {p}) <= Cardinality(Before(q))
    BY <1>4, <1>5, FS_Subset
  <1>8. Cardinality(Before(p)) \in Nat /\ Cardinality(Before(q)) \in Nat
    BY <1>5, FS_CardinalityType
  <1> QED
    BY <1>6, <1>7, <1>8 DEF p, q

Stage == {Free} \cup LoggingIn \cup Holding \cup CallingBack

LEMMA StandType ==
  ASSUME NEW x \in Stage, NEW count \in Counts
  PROVE  /\ Stand(x, count) \in Counts
         /\ Stand(x, count) <= count
         /\ x.at = "login" => x.failures \in Counts /\ Stand(x, count) = Lowest(x.failures, count)
         /\ x.at # "login" => Stand(x, count) = count
  <1>1. x.at = "login" => x.failures \in Counts
    BY DEF Stage, Free, LoggingIn, Holding, CallingBack, Counts
  <1> QED
    BY <1>1, CountsBounds DEF Stand, Lowest

LEMMA StandingType ==
  ASSUME NEW hs \in [Handlers -> Stage], NEW count \in Counts
  PROVE  /\ Standing(hs, count) \in [Handlers -> Counts]
         /\ \A k \in Handlers : Standing(hs, count)[k] = Stand(hs[k], count)
  BY StandType DEF Standing

\* A login that reads the count of the row, and a request that ends or begins otherwise,
\* leave the profile or move on.
LEMMA KeepsOn ==
  ASSUME NEW hs \in [Handlers -> Stage], NEW ns \in [Handlers -> Stage], NEW c \in Counts,
         NEW h \in Handlers, \A k \in Handlers \ {h} : ns[k] = hs[k],
         ns[h].at = "login" => ns[h].failures = c
  PROVE  \/ Standing(ns, c) = Standing(hs, c)
         \/ Less(Profile(Standing(hs, c)), Profile(Standing(ns, c)))
  <1> DEFINE o == Standing(hs, c)
             n == Standing(ns, c)
  <1>1. o \in [Handlers -> Counts] /\ n \in [Handlers -> Counts]
    BY StandingType
  <1>2. \A k \in Handlers : o[k] = Stand(hs[k], c) /\ n[k] = Stand(ns[k], c)
    BY StandingType
  <1>3. n[h] = c /\ o[h] <= c /\ \A k \in Handlers \ {h} : n[k] = o[k]
    <2>1. hs[h] \in Stage /\ ns[h] \in Stage
      OBVIOUS
    <2>2. Stand(ns[h], c) = c /\ Stand(hs[h], c) <= c
      BY <2>1, StandType, CountsBounds DEF Lowest
    <2> QED
      BY <1>2, <2>2
  <1> HIDE DEF o, n
  <1>4. CASE o[h] = c
    <2>1. \A k \in Handlers : n[k] = o[k]
      BY <1>3, <1>4
    <2>2. n = o
      BY <1>1, <2>1
    <2> QED
      BY <2>2 DEF n, o
  <1>5. CASE o[h] # c
    <2>a. o[h] \in Counts
      BY <1>1
    <2>b. o[h] \in Nat /\ c \in Nat
      BY <2>a, CountsBounds
    <2>1. o[h] \in Counts /\ c \in Nat /\ o[h] \in Nat /\ o[h] < c
      BY <2>a, <2>b, <1>3, <1>5
    <2>2. \A k \in Handlers : o[k] < o[h] \/ n[k] <= o[h] => n[k] = o[k]
      BY <1>3, <2>1
    <2>3. n[h] # o[h]
      BY <1>3, <1>5
    <2>4. Less(Profile(o), Profile(n))
      BY <1>1, <2>1, <2>2, <2>3, Advances
    <2> QED
      BY <2>4 DEF o, n
  <1> QED
    BY <1>4, <1>5

\* A wrong password that does not lock the account moves the requests to a later profile:
\* the lowest count that changes is the one its login stood at.
LEMMA MovesOn ==
  ASSUME NEW hs \in [Handlers -> Stage], NEW ns \in [Handlers -> Stage], NEW c \in Counts,
         NEW h \in Handlers, \A k \in Handlers \ {h} : ns[k] = hs[k],
         hs[h].at = "login", ns[h].at # "login", hs[h].failures + 1 \in Counts
  PROVE  Less(Profile(Standing(hs, c)), Profile(Standing(ns, hs[h].failures + 1)))
  <1> DEFINE a == hs[h].failures
             d == a + 1
             o == Standing(hs, c)
             n == Standing(ns, d)
  <1>1. o \in [Handlers -> Counts] /\ n \in [Handlers -> Counts] /\ d \in Counts
    BY StandingType
  <1>2. \A k \in Handlers : o[k] = Stand(hs[k], c) /\ n[k] = Stand(ns[k], d)
    BY StandingType
  <1>3. a \in Counts /\ o[h] = Lowest(a, c) /\ n[h] = d
    <2>1. hs[h] \in Stage /\ ns[h] \in Stage
      OBVIOUS
    <2>2. hs[h].failures \in Counts /\ Stand(hs[h], c) = Lowest(hs[h].failures, c) /\ Stand(ns[h], d) = d
      BY <2>1, StandType
    <2> QED
      BY <1>2, <2>2
  <1>4. ASSUME NEW k \in Handlers \ {h}
        PROVE  \/ o[k] = c /\ n[k] = d
               \/ hs[k].failures \in Nat /\ o[k] = Lowest(hs[k].failures, c) /\ n[k] = Lowest(hs[k].failures, d)
    <2>1. hs[k] \in Stage /\ ns[k] = hs[k]
      OBVIOUS
    <2>2. CASE hs[k].at = "login"
      <3>1. /\ hs[k].failures \in Counts
            /\ Stand(hs[k], c) = Lowest(hs[k].failures, c) /\ Stand(hs[k], d) = Lowest(hs[k].failures, d)
        BY <1>1, <2>1, <2>2, StandType
      <3> QED
        BY <1>2, <2>1, <3>1, CountsBounds
    <2>3. CASE hs[k].at # "login"
      <3>1. Stand(hs[k], c) = c /\ Stand(hs[k], d) = d
        BY <1>1, <2>1, <2>3, StandType
      <3> QED
        BY <1>2, <2>1, <3>1
    <2> QED
      BY <2>2, <2>3
  <1>5. a \in Nat /\ c \in Nat /\ d = a + 1
    BY <1>3, CountsBounds
  <1> HIDE DEF a, d, o, n
  <1>6. ASSUME NEW k \in Handlers, o[k] < o[h] \/ n[k] <= o[h] PROVE n[k] = o[k]
    <2>1. CASE k = h
      BY <1>3, <1>5, <1>6, <2>1 DEF Lowest
    <2>2. CASE k # h
      BY <1>3, <1>4, <1>5, <1>6, <2>2 DEF Lowest
    <2> QED
      BY <2>1, <2>2
  <1>7. o[h] \in Counts /\ n[h] # o[h]
    BY <1>1, <1>3, <1>5 DEF Lowest
  <1>8. Less(Profile(o), Profile(n))
    BY <1>1, <1>6, <1>7, Advances
  <1> QED
    BY <1>8 DEF o, n, d, a

\* What the types say of the requests and of the row.
LEMMA Stands ==
  /\ Typed => handler \in [Handlers -> Stage] /\ failures \in Counts /\ wrong \in Nat
  /\ Typed' => handler' \in [Handlers -> Stage] /\ failures' \in Counts /\ wrong' \in Nat
  BY DEF Typed, TypeOK, HandlersOK, Stage, Counts

LEMMA BeforeNumber ==
  ASSUME NEW hs \in [Handlers -> Stage], NEW c \in Counts
  PROVE  Cardinality(Before(Profile(Standing(hs, c)))) \in Nat
  <1>1. IsFiniteSet(Before(Profile(Standing(hs, c))))
    BY ProfilesFinite, FS_Subset DEF Before
  <1> QED
    BY <1>1, FS_CardinalityType

\* Whatever forgets the wrong passwords.
LEMMA CountForgets == ASSUME Typed', wrong' = 0 PROVE CountOK'
  <1>1. Cardinality(Before(Profile(Standing(handler', failures')))) \in Nat
    BY Stands, BeforeNumber
  <1>2. 0 <= Cardinality(Before(Profile(Standing(handler', failures'))))
    BY <1>1
  <1> QED
    BY <1>2 DEF CountOK

LEMMA CountInit == Init => CountOK
  <1> SUFFICES ASSUME Init PROVE CountOK
    OBVIOUS
  <1>1. Cardinality(Before(Profile(Standing(handler, failures)))) \in Nat
    BY InitTyped, Stands, BeforeNumber
  <1>2. wrong = 0
    BY DEF Init
  <1> QED
    BY <1>1, <1>2 DEF CountOK

\* A request that reads the count of the row, or that ends without counting a failure.
LEMMA CountEnds ==
  ASSUME Typed, Typed', CountOK, NEW h \in Handlers, \A k \in Handlers \ {h} : handler'[k] = handler[k],
         handler'[h].at = "login" => handler'[h].failures = failures,
         failures' = failures, wrong' = wrong
  PROVE  CountOK'
  <1> DEFINE o == Standing(handler, failures)
             n == Standing(handler', failures)
  <1>1. handler \in [Handlers -> Stage] /\ handler' \in [Handlers -> Stage] /\ failures \in Counts
    BY Stands
  <1>2. n = o \/ Less(Profile(o), Profile(n))
    BY <1>1, KeepsOn
  <1>3. o \in [Handlers -> Counts] /\ n \in [Handlers -> Counts]
    BY <1>1, StandingType
  <1>4. Cardinality(Before(Profile(o))) \in Nat /\ Cardinality(Before(Profile(n))) \in Nat
    BY <1>1, BeforeNumber
  <1>5. wrong <= Cardinality(Before(Profile(o))) /\ wrong \in Nat
    BY Stands DEF CountOK
  <1> HIDE DEF o, n
  <1>6. Cardinality(Before(Profile(o))) <= Cardinality(Before(Profile(n)))
    <2>1. CASE n = o
      BY <1>4, <2>1
    <2>2. CASE Less(Profile(o), Profile(n))
      BY <1>3, <1>4, <2>2, MoreBefore
    <2> QED
      BY <1>2, <2>1, <2>2
  <1>7. wrong <= Cardinality(Before(Profile(n)))
    BY <1>4, <1>5, <1>6
  <1> QED
    BY <1>7 DEF CountOK, n

\* A failure is counted from what the login has read.
LEMMA FailureCounts ==
  ASSUME Typed, Typed', CountOK, NEW h \in Handlers, CountFailure(h) PROVE CountOK'
  <1> DEFINE a == handler[h].failures
             o == Standing(handler, failures)
             n == Standing(handler', a + 1)
  <1>1. handler \in [Handlers -> Stage] /\ handler' \in [Handlers -> Stage] /\ failures \in Counts
        /\ failures' \in Counts
    BY Stands
  <1>2. /\ handler[h].at = "login"
        /\ handler'[h].at # "login" /\ \A k \in Handlers \ {h} : handler'[k] = handler[k]
    BY <1>1 DEF CountFailure, Finish, Free
  <1>3. CASE a + 1 >= MaxFailures
    BY <1>3, CountForgets DEF CountFailure
  <1>4. CASE ~(a + 1 >= MaxFailures)
    <2>1. failures' = a + 1 /\ wrong' = wrong + 1
      BY <1>4 DEF CountFailure
    <2>2. Less(Profile(o), Profile(n))
      BY <1>1, <1>2, <2>1, MovesOn
    <2>3. o \in [Handlers -> Counts] /\ n \in [Handlers -> Counts]
      BY <1>1, <2>1, StandingType
    <2>4. wrong <= Cardinality(Before(Profile(o))) /\ wrong \in Nat
      BY Stands DEF CountOK
    <2> HIDE DEF o, n
    <2>5. /\ Cardinality(Before(Profile(o))) \in Nat
          /\ Cardinality(Before(Profile(n))) \in Nat
          /\ Cardinality(Before(Profile(o))) + 1 <= Cardinality(Before(Profile(n)))
      BY <2>2, <2>3, MoreBefore
    <2>6. wrong' <= Cardinality(Before(Profile(n)))
      BY <2>1, <2>4, <2>5
    <2> QED
      BY <2>1, <2>6 DEF CountOK, n
  <1> QED
    BY <1>3, <1>4

LEMMA CountStep == Typed /\ CountOK /\ [Next]_vars => CountOK'
  <1> SUFFICES ASSUME Typed, CountOK, [Next]_vars PROVE CountOK'
    OBVIOUS
  <1>0. HandlersOK /\ Typed'
    BY StepTyped DEF Typed
  <1>1. ASSUME NEW h \in Handlers, CountFailure(h) PROVE CountOK'
    BY <1>0, <1>1, FailureCounts
  <1>2. ASSUME NEW h \in Handlers, LoginSucceeds(h) PROVE CountOK'
    BY <1>0, <1>2, CountForgets DEF LoginSucceeds
  <1>3. ASSUME NEW h \in Handlers, NEW x, x.at = "login" => x.failures = failures,
               handler' = [handler EXCEPT ![h] = x], failures' = failures, wrong' = wrong
        PROVE  CountOK'
    <2>1. handler'[h] = x /\ \A k \in Handlers \ {h} : handler'[k] = handler[k]
      BY <1>0, <1>3 DEF HandlersOK
    <2> QED
      BY <1>0, <1>3, <2>1, CountEnds
  <1>4. ASSUME NEW h \in Handlers,
               \/ LoginForbidden(h) \/ RotateTokens(h) \/ Revoke(h) \/ FinishCallback(h)
               \/ RefuseCallback(h) \/ Abort(h)
        PROVE  CountOK'
    <2>1. Free.at # "login"
      BY DEF Free
    <2>2. handler' = [handler EXCEPT ![h] = Free] /\ failures' = failures /\ wrong' = wrong
      BY <1>4 DEF LoginForbidden, RotateTokens, Revoke, FinishCallback, RefuseCallback, Abort, Finish, accountVars
    <2> QED
      BY <1>3, <2>1, <2>2
  <1>5. ASSUME NEW h \in Handlers, NEW s \in Sessions, NEW g \in 0 .. MaxGen,
               LockSession(h, s, g) \/ BeginLogout(h, s, g)
        PROVE  CountOK'
    <2>1. PICK at \in {"refresh", "logout"} :
               handler' = [handler EXCEPT ![h] = [at |-> at, session |-> s, gen |-> g]]
      BY <1>5 DEF LockSession, BeginLogout
    <2>2. failures' = failures /\ wrong' = wrong
      BY <1>5 DEF LockSession, BeginLogout, accountVars
    <2>3. [at |-> at, session |-> s, gen |-> g].at # "login"
      OBVIOUS
    <2> QED
      BY <1>3, <2>1, <2>2, <2>3
  <1>6. ASSUME NEW h \in Handlers, FindForLogout(h) PROVE CountOK'
    <2>1. failures' = failures /\ wrong' = wrong /\ handler[h] \in Holding
      BY <1>0, <1>6, Stages DEF FindForLogout, accountVars
    <2>2. [handler[h] EXCEPT !.at = "revoke"].at # "login" /\ Free.at # "login"
      BY <2>1 DEF Holding, Free
    <2>3. \/ handler' = [handler EXCEPT ![h] = [handler[h] EXCEPT !.at = "revoke"]]
          \/ handler' = [handler EXCEPT ![h] = Free]
      BY <1>6 DEF FindForLogout, Finish
    <2> QED
      BY <1>3, <2>1, <2>2, <2>3
  <1>7. ASSUME NEW h \in Handlers, NEW f \in Flows, BeginCallback(h, f) PROVE CountOK'
    <2>1. handler' = [handler EXCEPT ![h] = [at |-> "oauth", flow |-> f]] /\ failures' = failures /\ wrong' = wrong
      BY <1>7 DEF BeginCallback, accountVars
    <2>2. [at |-> "oauth", flow |-> f].at # "login"
      OBVIOUS
    <2> QED
      BY <1>3, <2>1, <2>2
  <1>8. ASSUME NEW h \in Handlers, ReadLogin(h) PROVE CountOK'
    <2>1. PICK correct \in BOOLEAN : handler' = [handler EXCEPT ![h] =
               [at |-> "login", failures |-> failures, lock |-> lock, correct |-> correct]]
      BY <1>8 DEF ReadLogin
    <2>2. failures' = failures /\ wrong' = wrong
      BY <1>8 DEF ReadLogin, accountVars
    <2>3. [at |-> "login", failures |-> failures, lock |-> lock, correct |-> correct].failures = failures
      OBVIOUS
    <2> QED
      BY <1>3, <2>1, <2>2, <2>3
  <1>9. ASSUME UNCHANGED <<handler, failures, wrong>> PROVE CountOK'
    BY <1>9 DEF CountOK
  <1>10. CASE UNCHANGED vars
    BY <1>9, <1>10 DEF vars
  <1>11. CASE \/ \E l \in Links : RequestMagicLink(l) \/ ConsumeMagicLink(l)
              \/ \E f \in Flows : StartOAuth(f)
              \/ LockExpires \/ Expire \/ Deactivate
    BY <1>9, <1>11 DEF RequestMagicLink, ConsumeMagicLink, StartOAuth, LockExpires, Expire, Deactivate, accountVars
  <1> QED
    BY <1>1, <1>2, <1>4, <1>5, <1>6, <1>7, <1>8, <1>10, <1>11 DEF Next

\* The profile of now is not before itself.
LEMMA CountBounds == Typed /\ CountOK => LockoutBound
  <1> SUFFICES ASSUME Typed, CountOK PROVE LockoutBound
    OBVIOUS
  <1> DEFINE p == Profile(Standing(handler, failures))
  <1>1. p \in Profiles /\ p \in [Counts -> Nat]
    BY Stands, StandingType, ProfileType
  <1>2. wrong <= Cardinality(Before(p)) /\ wrong \in Nat
    BY Stands DEF CountOK
  <1> HIDE DEF p
  <1>3. Before(p) \subseteq Profiles /\ p \notin Before(p)
    BY <1>1, CountsBounds DEF Before, Less
  <1>4. /\ Cardinality(Before(p)) <= Cardinality(Profiles)
        /\ Cardinality(Before(p)) # Cardinality(Profiles)
        /\ Cardinality(Before(p)) \in Nat /\ Cardinality(Profiles) \in Nat
    <2>1. IsFiniteSet(Before(p)) /\ Before(p) # Profiles
      BY <1>1, <1>3, ProfilesFinite, FS_Subset
    <2> QED
      BY <1>3, <2>1, ProfilesFinite, FS_Subset, FS_CardinalityType
  <1> QED
    BY <1>2, <1>4 DEF LockoutBound

\* For any number of requests at a time and of allowed failures: lost updates of the
\* counter let fewer wrong passwords pass than there are profiles of the requests.
THEOREM LockoutHolds == Spec => []LockoutBound
  BY CountInit, CountStep, CountBounds, InitTyped, StepTyped, PTL DEF Spec
=============================================================================
