---------------------------- MODULE PolicyEngine ----------------------------
(***************************************************************************)
(* Policies and their versions, and their evaluation for a request           *)
(* (_current_policies and agentguard_policy.evaluate).  Administrators edit  *)
(* policies while requests are being decided: the rows are read in one       *)
(* statement and the documents afterwards, one by one.                      *)
(*                                                                         *)
(* Policies are numbered in the order of their ids.                          *)
(***************************************************************************)
EXTENDS Integers, Sequences, FiniteSets, PolicyConditions

CONSTANTS
  Policies,      \* policies a behaviour may create
  Readers,       \* requests decided at one time
  Documents,     \* documents administrators send
  Priorities,    \* priorities they give
  Requests,      \* facts of the requests
  MaxEdits       \* bound on the edits of a behaviour

ASSUME PolicyAssumption ==
  /\ Policies \subseteq Nat \ {0}
  /\ IsFiniteSet(Policies)
  /\ Priorities \subseteq Int
  /\ \A doc \in Documents :
       /\ doc.subject \in Conditions /\ doc.resource \in Conditions
       /\ Len(doc.rules) \in Nat /\ DOMAIN doc.rules = 1 .. Len(doc.rules)
       /\ \A i \in DOMAIN doc.rules : doc.rules[i].when \in Conditions
  /\ Requests \subseteq FactSets
  /\ MaxEdits \in Nat

VARIABLES
  policy,    \* policy[p]: the row
  version,   \* version[p]: the documents of its versions, which nothing changes
  reader,    \* reader[r]: a request being decided
  edits      \* edits so far

vars == <<policy, version, reader, edits>>

\* A policy is of the whole organization, or of the workspace of the requests or another.
Scopes == {"organization", "here", "elsewhere"}

Absent == [exists |-> FALSE, priority |-> 0, scope |-> "organization", enabled |-> FALSE, current |-> 0]
Idle == [at |-> "idle"]

Init ==
  /\ policy = [p \in Policies |-> Absent]
  /\ version = [p \in Policies |-> << >>]
  /\ reader = [r \in Readers |-> Idle]
  /\ edits = 0

-----------------------------------------------------------------------------
(* Administration *)

\* parse_policy: an invalid document is refused.
Accepted(doc) ==
  Valid(doc.subject) /\ Valid(doc.resource) /\ \A i \in DOMAIN doc.rules : Valid(doc.rules[i].when)

Edit == edits < MaxEdits /\ edits' = edits + 1

\* The row and its first version, in one transaction.
CreatePolicy(p, doc, priority, scope) ==
  /\ ~policy[p].exists
  /\ Accepted(doc)
  /\ Edit
  /\ policy' = [policy EXCEPT ![p] =
       [exists |-> TRUE, priority |-> priority, scope |-> scope, enabled |-> TRUE, current |-> 1]]
  /\ version' = [version EXCEPT ![p] = <<doc>>]
  /\ UNCHANGED reader

\* Under the lock of the row; the new version and the row that points to it are
\* committed together.
UpdatePolicy(p, doc, priority, scope) ==
  /\ policy[p].exists
  /\ Accepted(doc)
  /\ Edit
  /\ policy' = [policy EXCEPT ![p].priority = priority, ![p].scope = scope, ![p].current = @ + 1]
  /\ version' = [version EXCEPT ![p] = Append(@, doc)]
  /\ UNCHANGED reader

PolicyStatus(p, enabled) ==
  /\ policy[p].exists
  /\ policy[p].enabled # enabled
  /\ Edit
  /\ policy' = [policy EXCEPT ![p].enabled = enabled]
  /\ UNCHANGED <<version, reader>>

-----------------------------------------------------------------------------
(* _current_policies *)

Applies(row) == row.exists /\ row.enabled /\ row.scope # "elsewhere"

\* The document a row points to.
DocumentOf(p, row) == version[p][row.current]

\* The rows of one moment.  then is what the policies were at that moment (history).
ReadPolicies(r) ==
  /\ reader[r].at = "idle"
  /\ LET rows == {p \in Policies : Applies(policy[p])} IN
     \E facts \in Requests :
       reader' = [reader EXCEPT ![r] =
         [at |-> "reading", facts |-> facts, rows |-> [p \in rows |-> policy[p]], todo |-> rows,
          docs |-> << >>,
          then |-> [p \in rows |-> [priority |-> policy[p].priority, document |-> DocumentOf(p, policy[p])]]]]
  /\ UNCHANGED <<policy, version, edits>>

With(docs, p, doc) == [q \in DOMAIN docs \cup {p} |-> IF q = p THEN doc ELSE docs[q]]

\* Faulty: the newest version of a policy is read.
ReadNewestVersion(r, p) ==
  /\ reader[r].at = "reading"
  /\ p \in reader[r].todo
  /\ reader' = [reader EXCEPT ![r].todo = @ \ {p},
                              ![r].docs = With(@, p, DocumentOf(p, policy[p]))]
  /\ UNCHANGED <<policy, version, edits>>

\* The version the row pointed to when it was read; the rows come in no fixed order.
ReadVersion(r, p) ==
  /\ reader[r].at = "reading"
  /\ p \in reader[r].todo
  /\ reader' = [reader EXCEPT ![r].todo = @ \ {p},
                              ![r].docs = With(@, p, DocumentOf(p, reader[r].rows[p]))]
  /\ UNCHANGED <<policy, version, edits>>

-----------------------------------------------------------------------------
(* evaluate *)

Severity(action) ==
  CASE action = "allow" -> 1 [] action = "require_approval" -> 2 [] action = "deny" -> 3 [] OTHER -> 0

\* A document with "enabled": false of its own is not consulted: the row decides.
InScope(doc, facts) ==
  IF When(doc.subject, facts) = "yes" THEN When(doc.resource, facts) ELSE When(doc.subject, facts)

Raises(doc, facts) ==
  \/ InScope(doc, facts) = "raise"
  \/ InScope(doc, facts) = "yes" /\ \E i \in DOMAIN doc.rules : When(doc.rules[i].when, facts) = "raise"

\* The rules of a document that match, as <<policy, index>>.
MatchesOf(p, doc, facts) ==
  {m \in {p} \X DOMAIN doc.rules :
     InScope(doc, facts) = "yes" /\ When(doc.rules[m[2]].when, facts) = "yes"}

Matches(docs, facts) == UNION {MatchesOf(p, docs[p], facts) : p \in DOMAIN docs}

Rule(docs, m) == docs[m[1]].rules[m[2]]

Terminals(docs, facts) == {m \in Matches(docs, facts) : Severity(Rule(docs, m).action) > 0}

Duties(docs, facts) ==
  {<<Rule(docs, m).action, m[1]>> : m \in Matches(docs, facts) \ Terminals(docs, facts)}

\* The order of the sort: priority, severity, id; Python's sort keeps equals in order.
Before(m, n, rows, docs) ==
  LET sm == Severity(Rule(docs, m).action)
      sn == Severity(Rule(docs, n).action)
  IN \/ rows[m[1]].priority > rows[n[1]].priority
     \/ /\ rows[m[1]].priority = rows[n[1]].priority
        /\ \/ sm > sn
           \/ sm = sn /\ (m[1] < n[1] \/ (m[1] = n[1] /\ m[2] <= n[2]))

Winner(rows, docs, facts) ==
  CHOOSE m \in Terminals(docs, facts) : \A n \in Terminals(docs, facts) : Before(m, n, rows, docs)

Constraints(docs, m) == IF Rule(docs, m).constrained THEN {<<"constraints", m[1]>>} ELSE {}

Denied == [decision |-> "deny", policy |-> 0, version |-> 0, obligations |-> {}]

Chosen(rows, docs, m, duties) ==
  [decision |-> Rule(docs, m).action, policy |-> m[1], version |-> rows[m[1]].current,
   obligations |-> duties \cup Constraints(docs, m)]

\* Any exception denies; without a terminal match the default does, which keeps the
\* obligations of the others; else the first match in order.
Evaluate(rows, docs, facts) ==
  IF \E p \in DOMAIN docs : Raises(docs[p], facts) THEN Denied
  ELSE IF Terminals(docs, facts) = {} THEN [Denied EXCEPT !.obligations = Duties(docs, facts)]
  ELSE Chosen(rows, docs, Winner(rows, docs, facts), Duties(docs, facts))

Decide(r) ==
  /\ reader[r].at = "reading"
  /\ reader[r].todo = {}
  /\ reader' = [reader EXCEPT ![r] =
       [at |-> "decided", facts |-> reader[r].facts, then |-> reader[r].then,
        answer |-> Evaluate(reader[r].rows, reader[r].docs, reader[r].facts)]]
  /\ UNCHANGED <<policy, version, edits>>

\* The rest of the authorization is modelled in Lifecycle.
Answer(r) ==
  /\ reader[r].at = "decided"
  /\ reader' = [reader EXCEPT ![r] = Idle]
  /\ UNCHANGED <<policy, version, edits>>

-----------------------------------------------------------------------------
Next ==
  \/ \E p \in Policies :
       \/ \E doc \in Documents, priority \in Priorities, scope \in Scopes :
            CreatePolicy(p, doc, priority, scope) \/ UpdatePolicy(p, doc, priority, scope)
       \/ \E enabled \in BOOLEAN : PolicyStatus(p, enabled)
  \/ \E r \in Readers :
       \/ ReadPolicies(r)
       \/ \E p \in Policies : ReadVersion(r, p)
       \/ Decide(r)
       \/ Answer(r)

Spec == Init /\ [][Next]_vars

-----------------------------------------------------------------------------
(* Properties *)

\* The policies that have a say: their subject and resource fit.
Speaking(then, facts) == {p \in DOMAIN then : InScope(then[p].document, facts) = "yes"}

\* What the policies of one moment say of the facts with an action.
Say(then, facts, action) ==
  {p \in Speaking(then, facts) :
     \E i \in DOMAIN then[p].document.rules :
       /\ then[p].document.rules[i].action = action
       /\ When(then[p].document.rules[i].when, facts) = "yes"}

Terminal == {"allow", "require_approval", "deny"}

\* Those of S that no policy with a terminal rule of the action set A outranks.
Top(then, facts, action) ==
  {p \in Say(then, facts, action) :
     \A a \in Terminal : \A q \in Say(then, facts, a) : then[q].priority <= then[p].priority}

\* What an answer owes to the policies it was given for.
Follows(answer, then, facts) ==
  LET raised == \E p \in DOMAIN then : Raises(then[p].document, facts)
      says(action) == Top(then, facts, action) # {}
  IN /\ answer.decision = "allow" <=>
          ~raised /\ says("allow") /\ ~says("require_approval") /\ ~says("deny")
     /\ answer.decision = "require_approval" <=>
          ~raised /\ says("require_approval") /\ ~says("deny")
     /\ answer.policy # 0 =>
          /\ answer.policy \in Top(then, facts, answer.decision)
          /\ \A p \in Top(then, facts, answer.decision) : answer.policy <= p
     /\ answer.policy = 0 => raised \/ \A a \in Terminal : Say(then, facts, a) = {}
     /\ ~raised => \A a \in {"warn", "redact", "rate_limit"} :
          {p \in DOMAIN then : <<a, p>> \in answer.obligations} = Say(then, facts, a)

\* A decision is the one the policies gave at the moment their rows were read, however
\* they are edited, disabled or moved while their documents are being read: nothing if
\* some condition raised, else deny if a policy of the highest priority that matches
\* denies, else an approval if one asks for it, else allow if one allows.  It is
\* attributed to the first policy that says so, and to the version that says it, and the
\* other actions of every matching policy come with it whichever wins.
DecisionFollowsSnapshot ==
  \A r \in Readers : reader[r].at = "decided" =>
    LET then == reader[r].then
        answer == reader[r].answer
    IN /\ Follows(answer, then, reader[r].facts)
       /\ answer.policy # 0 => then[answer.policy].document = version[answer.policy][answer.version]

\* What _when answers does not depend on the order of the clauses, nor on a comparison
\* that would have raised an exception: an ill-typed fact or value can only turn an
\* answer into an exception, on which evaluate denies, never into the opposite answer,
\* however it is nested under not, any and all.  A missing fact opens nothing unless
\* there is a negation, and validation leaves only the exceptions that depend on the
\* facts.  None of it depends on the state: the conditions are tried before anything is
\* stored.
ConditionsFailClosed ==
  edits = 0 /\ (\A r \in Readers : reader[r].at = "idle") =>
    \A c \in Conditions, f \in FactSets :
      AnswersMeaning(c, f) /\ MissingNeverOpens(c, f) /\ ValidRaisesOnFacts(c, f)
=============================================================================
