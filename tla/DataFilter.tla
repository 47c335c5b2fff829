----------------------------- MODULE DataFilter -----------------------------
(***************************************************************************)
(* The row filter of the data plane, as operators: the grammar of          *)
(* conditions, which policies apply to a user, how they are merged, how    *)
(* "$user.x" is resolved, the parameterised statement                      *)
(* (internal/sidecar/dataperm) and what the SDK makes of it in the query   *)
(* of the application (sdk/go/sydomsql, sdk/go/sydomgorm).  A statement is *)
(* kept as its tree with numbered holes for the placeholders; what a       *)
(* database answers is the three-valued logic of SQL.                      *)
(***************************************************************************)
EXTENDS Naturals, Sequences, FiniteSets, SequencesExt

CONSTANTS Null,   \* SQL's and JSON's null
          Field,  \* well-formed column names
          Exact   \* up to here every integer is a float64: 2^53 in the code

ASSUME FilterAssumption == Exact \in Nat

-----------------------------------------------------------------------------
(* Conditions: an operand is a literal, the variable $user.x, or a hole *)

Lit(v)  == [kind |-> "lit", v |-> v]
Var(x)  == [kind |-> "var", v |-> x]
Hole(n) == [kind |-> "hole", v |-> n]

Leaf(op, field, operands) == [op |-> op, field |-> field, operands |-> operands]
Node(op, children) == [op |-> op, children |-> children]

LogicalOps == {"AND", "OR", "NOT"}
ListOps    == {"IN", "NOT_IN"}
NullOps    == {"IS_NULL", "IS_NOT_NULL"}
ScalarOps  == {"EQ", "NE", "GT", "GE", "LT", "LE"}
LeafOps    == ListOps \cup NullOps \cup ScalarOps \cup {"BETWEEN"}

(***************************************************************************)
(* validateLeaf: a column name goes into the text and must be one, the     *)
(* number of operands fits the operator, and a scalar comparison is never  *)
(* with null.                                                              *)
(***************************************************************************)
ValidateLeaf(c) ==
  c.field \in Field /\
  CASE c.op \in NullOps   -> c.operands = << >>
    [] c.op \in ListOps   -> c.operands # << >>
    [] c.op = "BETWEEN"   -> Len(c.operands) = 2
    [] OTHER              -> Len(c.operands) = 1 /\ c.operands[1] # Lit(Null)

RECURSIVE Validate(_)
Validate(c) ==
  IF c.op \in LogicalOps
  THEN /\ IF c.op = "NOT" THEN Len(c.children) = 1 ELSE c.children # << >>
       /\ \A i \in DOMAIN c.children : Validate(c.children[i])
  ELSE c.op \in LeafOps /\ ValidateLeaf(c)

-----------------------------------------------------------------------------
(* Policies *)

NormalizeEffect(e) == IF e = "" THEN "allow" ELSE e

(***************************************************************************)
(* toStored: a policy whose effect or condition is not understood is kept  *)
(* as poisoned.                                                            *)
(***************************************************************************)
ToStored(p) ==
  [stype |-> p.stype, sid |-> p.sid, effect |-> NormalizeEffect(p.effect), cond |-> p.cond,
   poisoned |-> ~(NormalizeEffect(p.effect) \in {"allow", "deny"} /\ Validate(p.cond))]

SubjectMatches(s, user, roles) ==
  \/ s.stype = "user" /\ s.sid = user
  \/ s.stype = "role" /\ s.sid \in roles

OrAll(cs) == IF Len(cs) = 1 THEN cs[1] ELSE Node("OR", cs)

NoTree == Node("OR", << >>)
Plan(mode, tree) == [mode |-> mode, tree |-> tree, err |-> "none"]
Failed(err) == [mode |-> "failed", tree |-> NoTree, err |-> err]

Conds(ss) == [i \in DOMAIN ss |-> ss[i].cond]

Merge(allow, deny) ==
  IF deny = << >> THEN OrAll(Conds(allow))
  ELSE Node("AND", <<OrAll(Conds(allow)), Node("NOT", <<OrAll(Conds(deny))>>)>>)

(* Mutant: a poisoned policy is skipped. *)
SelectAndMergeSkipping(configured, bucket, user, roles) ==
  LET mine   == SelectSeq(bucket, LAMBDA s : SubjectMatches(s, user, roles) /\ ~s.poisoned)
      allow  == SelectSeq(mine, LAMBDA s : s.effect # "deny")
      deny   == SelectSeq(mine, LAMBDA s : s.effect = "deny")
  IN  CASE ~configured -> Plan("all", NoTree)
        [] configured /\ allow = << >> -> Plan("none", NoTree)
        [] OTHER -> Plan("conditional", Merge(allow, deny))

(***************************************************************************)
(* selectAndMerge: no bucket, no filter; a poisoned policy that applies is *)
(* an error; without an allow nothing is visible.                          *)
(***************************************************************************)
SelectAndMerge(configured, bucket, user, roles) ==
  LET mine  == SelectSeq(bucket, LAMBDA s : SubjectMatches(s, user, roles))
      allow == SelectSeq(mine, LAMBDA s : s.effect # "deny")
      deny  == SelectSeq(mine, LAMBDA s : s.effect = "deny")
  IN  CASE ~configured -> Plan("all", NoTree)
        [] configured /\ (\E i \in DOMAIN mine : mine[i].poisoned) -> Failed("invalidPolicy")
        [] configured /\ (\A i \in DOMAIN mine : ~mine[i].poisoned) /\ allow = << >> -> Plan("none", NoTree)
        [] OTHER -> Plan("conditional", Merge(allow, deny))

-----------------------------------------------------------------------------
(* Variables *)

RECURSIVE Operands(_)
Operands(c) ==
  IF c.op \in LogicalOps
  THEN UNION {Operands(c.children[i]) : i \in DOMAIN c.children}
  ELSE ToSet(c.operands)

ResolveValue(o, attrs) == IF o.kind = "var" THEN Lit(attrs[o.v]) ELSE o

RECURSIVE ResolveTree(_, _)
ResolveTree(c, attrs) ==
  IF c.op \in LogicalOps
  THEN Node(c.op, [i \in DOMAIN c.children |-> ResolveTree(c.children[i], attrs)])
  ELSE Leaf(c.op, c.field, [i \in DOMAIN c.operands |-> ResolveValue(c.operands[i], attrs)])

(* Mutant: a variable without a value is null. *)
ResolveVarsNull(plan, attrs) ==
  [plan EXCEPT !.tree = ResolveTree(@, [v \in {o.v : o \in {x \in Operands(plan.tree) : x.kind = "var"}} |->
                                          IF v \in DOMAIN attrs THEN attrs[v] ELSE Null])]

(***************************************************************************)
(* resolveVars: a variable the request has no attribute for is an error,   *)
(* also under an OR.                                                       *)
(***************************************************************************)
ResolveVars(plan, attrs) ==
  IF \E o \in Operands(plan.tree) : o.kind = "var" /\ o.v \notin DOMAIN attrs
  THEN Failed("missingVar")
  ELSE [plan EXCEPT !.tree = ResolveTree(@, attrs)]

BuildPlan(plan, attrs) == IF plan.mode = "conditional" THEN ResolveVars(plan, attrs) ELSE plan

-----------------------------------------------------------------------------
(* The parameterised statement *)

(***************************************************************************)
(* renderLeaf: each operand goes to the arguments and leaves a placeholder *)
(* in the text.                                                            *)
(***************************************************************************)
RenderLeaf(c, args) ==
  [sql  |-> Leaf(c.op, c.field, [i \in DOMAIN c.operands |-> Hole(Len(args) + i)]),
   args |-> args \o [i \in DOMAIN c.operands |-> c.operands[i].v]]

RECURSIVE RenderSQL(_, _)
RenderSQL(c, args) ==
  IF c.op \in LogicalOps
  THEN LET all == FoldLeft(LAMBDA acc, ch :
                             LET r == RenderSQL(ch, acc.args)
                             IN  [sql |-> Append(acc.sql, r.sql), args |-> r.args],
                           [sql |-> << >>, args |-> args], c.children)
       IN  [sql |-> Node(c.op, all.sql), args |-> all.args]
  ELSE RenderLeaf(c, args)

Answer(kind, sql, args) == [kind |-> kind, sql |-> sql, args |-> args]

(***************************************************************************)
(* FilterSQL: the empty text, "1=0", or the rendered tree.                 *)
(***************************************************************************)
FilterSQL(plan) ==
  CASE plan.mode = "all"  -> Answer("empty", NoTree, << >>)
    [] plan.mode = "none" -> Answer("1=0", NoTree, << >>)
    [] plan.mode = "conditional" ->
         LET r == RenderSQL(plan.tree, << >>) IN Answer("text", r.sql, r.args)

(***************************************************************************)
(* Numbers travel as protobuf values, that is as float64: an odd integer   *)
(* above 2^53 is rounded to a neighbour (half to even).                    *)
(***************************************************************************)
ToFloat(v) ==
  IF v = Null \/ v <= Exact \/ v % 2 = 0 THEN v
  ELSE IF (v \div 2) % 2 = 0 THEN v - 1 ELSE v + 1

AsMap(attrs) == [x \in DOMAIN attrs |-> ToFloat(attrs[x])]

Encode(fr) == [fr EXCEPT !.args = [i \in DOMAIN @ |-> ToFloat(@[i])]]

-----------------------------------------------------------------------------
(* The SDK: the fragment in the query of the application *)

RECURSIVE CountHoles(_)
CountHoles(c) ==
  IF c.op \in LogicalOps
  THEN FoldLeft(LAMBDA n, ch : n + CountHoles(ch), 0, c.children)
  ELSE Len(c.operands)

(* Mutant: the numbers start at one again, whatever the query uses. *)
RECURSIVE ToDollarFromOne(_, _)
ToDollarFromOne(c, startIndex) ==
  IF c.op \in LogicalOps
  THEN Node(c.op, [i \in DOMAIN c.children |-> ToDollarFromOne(c.children[i], startIndex)])
  ELSE Leaf(c.op, c.field, [i \in DOMAIN c.operands |-> Hole(c.operands[i].v)])

(***************************************************************************)
(* toDollar: the placeholders are numbered on from startIndex.             *)
(***************************************************************************)
RECURSIVE ToDollar(_, _)
ToDollar(c, startIndex) ==
  IF c.op \in LogicalOps
  THEN Node(c.op, [i \in DOMAIN c.children |-> ToDollar(c.children[i], startIndex)])
  ELSE Leaf(c.op, c.field, [i \in DOMAIN c.operands |-> Hole(c.operands[i].v + startIndex)])

(***************************************************************************)
(* Build: what the fragment means, refused if its placeholders and its     *)
(* arguments differ in number.  Question keeps "?", which the driver       *)
(* numbers in the order of the text.                                       *)
(***************************************************************************)
Build(fr, dialect, startIndex) ==
  CASE fr.kind = "empty" -> [kind |-> "MatchAll", sql |-> NoTree, args |-> << >>]
    [] fr.kind = "1=0"   -> [kind |-> "MatchNone", sql |-> NoTree, args |-> << >>]
    [] fr.kind = "text"  ->
         IF CountHoles(fr.sql) # Len(fr.args) THEN [kind |-> "error", sql |-> NoTree, args |-> << >>]
         ELSE [kind |-> "Conditional", args |-> fr.args,
               sql |-> IF dialect = "Postgres" THEN ToDollar(fr.sql, startIndex) ELSE fr.sql]

(***************************************************************************)
(* AndWhere: base AND fragment, the arguments of the base first.  Under    *)
(* Question the driver counts on from the placeholders of the base.        *)
(***************************************************************************)
AndWhere(base, baseArgs, fr, dialect) ==
  LET cl == Build(fr, dialect, Len(baseArgs))
      counted == IF dialect = "Question" THEN ToDollar(cl.sql, Len(baseArgs)) ELSE cl.sql
  IN  CASE cl.kind = "error"    -> [kind |-> "error", where |-> NoTree, args |-> << >>]
        [] cl.kind = "MatchAll" -> [kind |-> "where", where |-> base, args |-> baseArgs]
        [] cl.kind = "MatchNone" -> [kind |-> "none", where |-> base, args |-> baseArgs]
        [] OTHER -> [kind |-> "where", where |-> Node("AND", <<base, counted>>), args |-> baseArgs \o cl.args]

(***************************************************************************)
(* sydomgorm.Scope: the same clause handed to the query builder, which     *)
(* binds the arguments of each Where by itself.                            *)
(***************************************************************************)
Scope(base, baseArgs, fr) ==
  LET cl == Build(fr, "Question", 0)
  IN  CASE cl.kind = "error"    -> [kind |-> "error", where |-> NoTree, args |-> << >>]
        [] cl.kind = "MatchAll" -> [kind |-> "where", where |-> base, args |-> baseArgs]
        [] cl.kind = "MatchNone" -> [kind |-> "none", where |-> base, args |-> baseArgs]
        [] OTHER -> [kind |-> "where", where |-> Node("AND", <<base, ToDollar(cl.sql, Len(baseArgs))>>),
                     args |-> baseArgs \o cl.args]

-----------------------------------------------------------------------------
(* The database: three-valued logic, "T", "F" and "U" *)

Truth(b) == IF b THEN "T" ELSE "F"
Not(x) == CASE x = "T" -> "F" [] x = "F" -> "T" [] OTHER -> "U"
AndOf(xs) == IF "F" \in xs THEN "F" ELSE IF "U" \in xs THEN "U" ELSE "T"
OrOf(xs)  == IF "T" \in xs THEN "T" ELSE IF "U" \in xs THEN "U" ELSE "F"

Compare(op, a, b) ==
  IF a = Null \/ b = Null THEN "U"
  ELSE Truth(CASE op = "EQ" -> a = b [] op = "NE" -> a # b [] op = "GT" -> a > b
               [] op = "GE" -> a >= b [] op = "LT" -> a < b [] op = "LE" -> a <= b)

OperandValue(o, args) == IF o.kind = "hole" THEN args[o.v] ELSE o.v

EvalLeaf(c, row, args) ==
  LET a    == row[c.field]
      v(i) == OperandValue(c.operands[i], args)
      some == OrOf({Compare("EQ", a, v(i)) : i \in DOMAIN c.operands})
  IN  CASE c.op = "IS_NULL"     -> Truth(a = Null)
        [] c.op = "IS_NOT_NULL" -> Truth(a # Null)
        [] c.op = "IN"          -> some
        [] c.op = "NOT_IN"      -> Not(some)
        [] c.op = "BETWEEN"     -> AndOf({Compare("GE", a, v(1)), Compare("LE", a, v(2))})
        [] OTHER                -> Compare(c.op, a, v(1))

RECURSIVE Eval(_, _, _)
Eval(c, row, args) ==
  LET kids == IF c.op \in LogicalOps THEN {Eval(c.children[i], row, args) : i \in DOMAIN c.children} ELSE {}
  IN  CASE c.op = "AND" -> AndOf(kids)
        [] c.op = "OR"  -> OrOf(kids)
        [] c.op = "NOT" -> Not(Eval(c.children[1], row, args))
        [] OTHER        -> EvalLeaf(c, row, args)
=============================================================================
