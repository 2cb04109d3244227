---------------------------- MODULE MCPolicyCases ----------------------------
(* The conditions and facts of the small instance in MCPolicy, in a module of  *)
(* their own that MCPolicy names first, so that TLC enumerates them once.      *)
EXTENDS Integers

num(n) == [t |-> "num", v |-> n]
text(s) == [t |-> "text", v |-> s]
bool(b) == [t |-> "bool", v |-> b]
list(s) == [t |-> "list", v |-> s]

field(path, op, value) == [key |-> "field", path |-> path, op |-> op, value |-> value]
all(c, d) == [key |-> "all", of |-> <<c, d>>]
any(c, d) == [key |-> "any", of |-> <<c, d>>]
neg(c) == [key |-> "not", of |-> <<c>>]

Simple ==
  {field("amount", "gt", num(5)), field("amount", "lte", text("7")), field("amount", "eq", num(7)),
   field("amount", "eq", text("seven")), field("amount", "exists", bool(FALSE)),
   field("amount", "gte", text("seven")),
   field("resource", "eq", text("prod")), field("resource", "ne", text("prod")),
   field("resource", "contains", text("prod")), field("resource", "contains", num(1)),
   field("resource", "not_in", list(<<text("prod"), num(1)>>)),
   field("resource", "lt", num(5)), field("agent", "in", list(<<text("a1")>>))}

One == {<<l>> : l \in Simple}

Flat == {<< >>, <<field("amount", "gt", text("seven"))>>} \cup One \cup {<<l, m>> : l, m \in Simple}

Nested == {<<all(c, d)>> : c, d \in One} \cup {<<any(c, d)>> : c, d \in One} \cup {<<neg(c)>> : c \in One}

AllConditions ==
  Flat \cup Nested \cup {<<neg(c)>> : c \in Nested} \cup {<<any(c, d)>> : c \in One, d \in Nested}

AllNesting == [c \in AllConditions |-> IF c \in Flat THEN 0 ELSE IF c \in Nested THEN 1 ELSE 2]

AllFacts ==
  LET amounts == {num(7), text("7"), text("seven"), bool(TRUE)}
      resources == {text("prod-eu"), list(<<bool(TRUE)>>), num(1)}
      agents == {[t |-> "object", key |-> text("a1")]}
  IN {[p \in {"amount", "resource"} |-> IF p = "amount" THEN a ELSE r] : a \in amounts, r \in resources}
     \cup {[p \in {"resource", "agent"} |-> IF p = "agent" THEN a ELSE r] : a \in agents, r \in resources}
=============================================================================
