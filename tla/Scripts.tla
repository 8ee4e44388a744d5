------------------------------ MODULE Scripts ------------------------------
(* The expression language of core.script@1 (json.expr@1) and the condition node: a
   source text is cut into tokens, parsed and evaluated on the inputs of the node.
   A string is a sequence of atoms (a letter or a word: nothing looks into an atom),
   an object the sequence of its fields in insertion order, a number an integer (-0,
   which the result's snapshot refuses, is not told from 0).  Left out: "/" and "%",
   the builtins that only reword a text, and separators of split longer than an atom.
   Used by TLC only. *)
EXTENDS Integers, Sequences
LOCAL INSTANCE SequencesExt

CONSTANTS ScriptStudies,   \* what is evaluated: [tree, tight, input]
          MaxNesting,      \* 64 in the code
          Alphabet         \* the atoms, in the order strings are compared by

VARIABLES script,    \* the expression under study, printed with or without blanks
          parsed,    \* [tree, at] the parser answers, at = 0 if it refuses
          outcome    \* what the node's execution ends with

scriptVars == <<script, parsed, outcome>>
-----------------------------------------------------------------------------
(* JSON values, as <<type, payload>>. *)
Null == <<"null", 0>>      Bool(b) == <<"bool", b>>     Num(n) == <<"num", n>>
Str(s) == <<"str", s>>     Arr(vs) == <<"arr", vs>>     Obj(fs) == <<"obj", fs>>
Missing == <<"missing">>   Fail == <<"fail">>           Stopped == <<"stopped">>

Has(v, type) == v[1] = type
Holds(v, type) == Has(v, "arr") /\ \A i \in DOMAIN v[2] : Has(v[2][i], type)
Map(vs, Op(_)) == [i \in DOMAIN vs |-> Op(vs[i])]
Filter(vs, Test(_)) == Map(SelectSeq([i \in DOMAIN vs |-> i], Test), LAMBDA i : vs[i])
KeysOf(o) == {o[2][i][1] : i \in DOMAIN o[2]}
Field(o, k) == o[2][CHOOSE i \in DOMAIN o[2] : o[2][i][1] = k][2]
Put(o, k, v) == IF k \in KeysOf(o) THEN Obj(Map(o[2], LAMBDA f : IF f[1] = k THEN <<k, v>> ELSE f))
                ELSE Obj(Append(o[2], <<k, v>>))
Spread(o, p) == FoldLeft(LAMBDA acc, f : Put(acc, f[1], f[2]), o, p[2])

Unsafe == {<<"__proto__">>, <<"prototype">>, <<"constructor">>}
Truthy(v) == v \notin {Null, Bool(FALSE), Num(0), Str(<<>>)}

RECURSIVE EqualJson(_, _)
EqualJson(l, r) ==
    /\ l[1] = r[1]
    /\ CASE Has(l, "arr") -> /\ Len(l[2]) = Len(r[2])
                             /\ \A i \in DOMAIN l[2] : EqualJson(l[2][i], r[2][i])
         [] Has(l, "obj") -> /\ KeysOf(l) = KeysOf(r)
                             /\ \A k \in KeysOf(l) : EqualJson(Field(l, k), Field(r, k))
         [] OTHER -> l[2] = r[2]

Position(a) == CHOOSE i \in DOMAIN Alphabet : Alphabet[i] = a
Less(l, r) ==
    IF Has(l, "num") THEN l[2] < r[2]
    ELSE \E i \in DOMAIN r[2] : /\ \A j \in 1 .. i - 1 : j <= Len(l[2]) /\ l[2][j] = r[2][j]
                                /\ i <= Len(l[2]) => Position(l[2][i]) < Position(r[2][i])
Ordered(l, r) == l[1] = r[1] /\ l[1] \in {"num", "str"}

SplitAt(s, a) == FoldLeft(LAMBDA acc, c : IF c = a THEN Append(acc, <<>>)
                                          ELSE [acc EXCEPT ![Len(acc)] = Append(@, c)], << <<>> >>, s)
(* The text of a number, a truth value or a structure is the one atom "?". *)
RenderScalar(v) == CASE Has(v, "null") -> <<>> [] Has(v, "str") -> v[2] [] OTHER -> <<"?">>
JoinWith(texts, sep) == FoldLeft(LAMBDA acc, i : acc \o (IF i = 1 THEN <<>> ELSE sep) \o texts[i],
                                 <<>>, [i \in DOMAIN texts |-> i])
-----------------------------------------------------------------------------
(* Tokens are <<kind, text>>.  Without a blank between them, a minus and the number
   behind it are one token. *)
RECURSIVE Tokenize(_, _)
Tokenize(pieces, tight) ==
    IF pieces = <<>> THEN << <<"eof", "">> >>
    ELSE IF /\ tight /\ Len(pieces) > 1 /\ pieces[1] = <<"symbol", "-">>
            /\ pieces[2][1] = "number" /\ pieces[2][2] >= 0
    THEN << <<"number", -pieces[2][2]>> >> \o Tokenize(SubSeq(pieces, 3, Len(pieces)), tight)
    ELSE <<pieces[1]>> \o Tokenize(Tail(pieces), tight)

Precedence == [op \in {"??", "||", "&&", "==", "!=", ">", ">=", "<", "<=", "+", "-", "*"} |->
                 CASE op = "??" -> 1 [] op = "||" -> 2 [] op = "&&" -> 3 [] op \in {"==", "!="} -> 4
                   [] op \in {">", ">=", "<", "<="} -> 5 [] op \in {"+", "-"} -> 6 [] op = "*" -> 7]
Builtins == {"len", "join", "split", "concat", "slice", "coalesce", "keys", "values", "get", "has", "sum",
             "min", "max", "unique", "sort", "sortBy", "withIndex", "joinBy", "mapGet", "filterEq"}
Literals == [w \in {"true", "false", "null"} |->
                CASE w = "true" -> Bool(TRUE) [] w = "false" -> Bool(FALSE) [] w = "null" -> Null]

(* The parser compares the text of a token and not its kind: a string literal spelled
   like a symbol passes for it. *)
Is(ts, i, symbol) == \/ ts[i] = <<"symbol", symbol>>
                     \/ ts[i][1] = "string" /\ ts[i][2] = <<symbol>>
Node(tree, at) == [tree |-> tree, at |-> at]
Refused == Node(<<"refused">>, 0)
Then(p, Op(_)) == IF p.at = 0 THEN Refused ELSE Op(p)

RECURSIVE Conditional(_, _, _), Binary(_, _, _, _), Operands(_, _, _, _), OperandsRight(_, _, _, _), Unary(_, _, _),
          Members(_, _, _), Primary(_, _, _), Entries(_, _, _), Delimited(_, _, _, _)

Nested(ts, i, d) == IF d >= MaxNesting THEN Refused ELSE Conditional(ts, i, d + 1)
Closed(ts, p, end) == Then(p, LAMBDA q : IF Is(ts, q.at, end) THEN Node(q.tree, q.at + 1) ELSE Refused)

Conditional(ts, i, d) ==
    Then(Binary(ts, i, d, 1), LAMBDA t :
      IF ~Is(ts, t.at, "?") THEN t
      ELSE Then(Closed(ts, Conditional(ts, t.at + 1, d), ":"), LAMBDA c :
             Then(Conditional(ts, c.at, d), LAMBDA a : Node(<<"cond", t.tree, c.tree, a.tree>>, a.at))))

Binary(ts, i, d, min) == Then(Unary(ts, i, d), LAMBDA l : Operands(ts, l, d, min))

\* An operator whose right operand may hold operators of the same precedence.
OperandsRight(ts, l, d, min) ==
    LET ops == {op \in DOMAIN Precedence : Is(ts, l.at, op) /\ Precedence[op] >= min}
    IN  IF ops = {} THEN l
        ELSE LET op == CHOOSE op \in ops : TRUE
             IN Then(Binary(ts, l.at + 1, d, Precedence[op]), LAMBDA r :
                  Operands(ts, Node(<<"bin", op, l.tree, r.tree>>, r.at), d, min))

Operands(ts, l, d, min) ==
    LET ops == {op \in DOMAIN Precedence : Is(ts, l.at, op) /\ Precedence[op] >= min}
    IN  IF ops = {} THEN l
        ELSE LET op == CHOOSE op \in ops : TRUE
             IN Then(Binary(ts, l.at + 1, d, Precedence[op] + 1), LAMBDA r :
                  Operands(ts, Node(<<"bin", op, l.tree, r.tree>>, r.at), d, min))

Unary(ts, i, d) ==
    IF \E op \in {"!", "-"} : Is(ts, i, op)
    THEN Then(Unary(ts, i + 1, d), LAMBDA x :
           Node(<<"un", CHOOSE op \in {"!", "-"} : Is(ts, i, op), x.tree>>, x.at))
    ELSE Then(Primary(ts, i, d), LAMBDA o : Members(ts, o, d))

Members(ts, o, d) ==
    CASE Is(ts, o.at, ".") -> IF ts[o.at + 1][1] = "identifier" /\ <<ts[o.at + 1][2]>> \notin Unsafe
                              THEN Members(ts, Node(<<"mem", o.tree, <<"lit", Str(<<ts[o.at + 1][2]>>)>> >>, o.at + 2), d)
                              ELSE Refused
      [] Is(ts, o.at, "[") -> Then(Closed(ts, Nested(ts, o.at + 1, d), "]"), LAMBDA k :
                                Members(ts, Node(<<"mem", o.tree, k.tree>>, k.at), d))
      [] OTHER -> o

Primary(ts, i, d) ==
    LET kind == ts[i][1]  text == ts[i][2]
    IN CASE kind = "number" -> Node(<<"lit", Num(text)>>, i + 1)
         [] kind = "string" -> Node(<<"lit", Str(text)>>, i + 1)
         [] kind = "identifier" ->
               CASE text \in DOMAIN Literals -> Node(<<"lit", Literals[text]>>, i + 1)
                 [] text = "input" -> Node(<<"input">>, i + 1)
                 [] text \in Builtins /\ Is(ts, i + 1, "(") ->
                       Then(Delimited(ts, i + 2, d, ")"), LAMBDA l : Node(<<"call", text, l.tree>>, l.at))
                 [] OTHER -> Refused
         [] kind = "symbol" /\ text = "(" -> Closed(ts, Nested(ts, i + 1, d), ")")
         [] kind = "symbol" /\ text = "[" -> Then(Delimited(ts, i + 1, d, "]"), LAMBDA l : Node(<<"arr", l.tree>>, l.at))
         [] kind = "symbol" /\ text = "{" -> Then(Entries(ts, i + 1, d), LAMBDA l : Node(<<"obj", l.tree>>, l.at))
         [] OTHER -> Refused

(* After one element: the end, or a comma and the elements behind it. *)
Rest(ts, x, end, Further(_)) ==
    CASE Is(ts, x.at, end) -> Node(<<x.tree>>, x.at + 1)
      [] Is(ts, x.at, ",") -> Then(Further(x.at + 1), LAMBDA more : Node(<<x.tree>> \o more.tree, more.at))
      [] OTHER -> Refused

Delimited(ts, i, d, end) ==
    IF Is(ts, i, end) THEN Node(<<>>, i + 1)
    ELSE Then(Nested(ts, i, d), LAMBDA x : Rest(ts, x, end, LAMBDA j : Delimited(ts, j, d, end)))

Entries(ts, i, d) ==
    LET key == IF ts[i][1] = "string" THEN ts[i][2] ELSE <<ts[i][2]>>
    IN CASE Is(ts, i, "}") -> Node(<<>>, i + 1)
         [] ts[i][1] \in {"identifier", "string"} /\ key \notin Unsafe /\ Is(ts, i + 1, ":") ->
               Then(Nested(ts, i + 2, d), LAMBDA v :
                 Rest(ts, Node(<<key, v.tree>>, v.at), "}", LAMBDA j : Entries(ts, j, d)))
         [] OTHER -> Refused

Parse(ts) == Then(Conditional(ts, 1, 0), LAMBDA p : IF ts[p.at][1] = "eof" THEN p ELSE Refused)
-----------------------------------------------------------------------------
With(v, Op(_)) == IF v = Fail THEN Fail ELSE Op(v)
WithAll(vs, Op(_)) == IF \E i \in DOMAIN vs : vs[i] = Fail THEN Fail ELSE Op(vs)
Require(ok, v) == IF ok THEN v ELSE Fail

Segments(path) == IF Has(path, "str")
                  THEN Map(SelectSeq(SplitAt(path[2], "."), LAMBDA s : s # <<>>), Str) ELSE path[2]
IsPath(p) == Has(p, "str") \/ (Has(p, "arr") /\ \A i \in DOMAIN p[2] : p[2][i][1] \in {"str", "num"})
Descend(v, seg) ==
    CASE v = Missing -> Missing
      [] Has(seg, "num") /\ Has(v, "arr") /\ seg[2] >= 0 /\ seg[2] < Len(v[2]) -> v[2][seg[2] + 1]
      [] Has(seg, "str") /\ Has(v, "obj") /\ seg[2] \notin Unsafe /\ seg[2] \in KeysOf(v) -> Field(v, seg[2])
      [] OTHER -> Missing
GetPath(root, path, fallback) ==
    LET v == FoldLeft(Descend, root, Segments(path)) IN IF v = Missing THEN fallback ELSE v
ReadMember(v, property) == IF ~IsPath(Arr(<<property>>)) THEN Fail
                           ELSE GetPath(v, Arr(<<property>>), Fail)

(* A stable sort, as Array.prototype.sort is. *)
SortedBy(vs, Before(_, _)) ==
    Map(SortSeq([i \in DOMAIN vs |-> i],
                LAMBDA i, j : Before(vs[i], vs[j]) \/ (~Before(vs[j], vs[i]) /\ i < j)),
        LAMBDA i : vs[i])
Clamp(i, n) == IF i < 0 THEN (IF n + i < 0 THEN 0 ELSE n + i) ELSE IF i > n THEN n ELSE i
Top(ns, Better(_, _)) == CHOOSE n \in {ns[i] : i \in DOMAIN ns} : \A i \in DOMAIN ns : ~Better(ns[i][2], n[2])

Unique(vs) == Filter(vs, LAMBDA i : \A j \in 1 .. i - 1 : ~EqualJson(vs[j], vs[i]))

Directions == {Str(<<"asc">>), Str(<<"desc">>)}
SortBy(vs, fields) ==
    LET At(v, f) == GetPath(v, fields[f][1], Missing)
        Tied(v, w, f) == \A g \in 1 .. f - 1 : At(v, g) = At(w, g)
        Sortable == \A i, j \in DOMAIN vs : \A f \in DOMAIN fields :
                       At(vs[i], f)[1] \in {"num", "str"} /\ (Tied(vs[i], vs[j], f) => Ordered(At(vs[i], f), At(vs[j], f)))
        Before(v, w) == \E f \in DOMAIN fields :
                          /\ Tied(v, w, f)
                          /\ IF fields[f][2] = Str(<<"asc">>) THEN Less(At(v, f), At(w, f)) ELSE Less(At(w, f), At(v, f))
    IN  Require(Sortable, Arr(SortedBy(vs, Before)))

TopLevel(name) == Has(name, "str") /\ name[2] # <<>> /\ name[2] \notin Unsafe
                  /\ \A i \in DOMAIN name[2] : name[2][i] # "."
WithIndex(vs, field, start) ==
    Require(\A i \in DOMAIN vs : field \notin KeysOf(vs[i]),
            Arr([i \in DOMAIN vs |-> Put(vs[i], field, Num(start + i - 1))]))

Identity(o, k) == IF k \in KeysOf(o) THEN Field(o, k) ELSE Missing
Distinct(vs, k) == \A i, j \in DOMAIN vs : Identity(vs[i], k) = Identity(vs[j], k) => i = j
Identified(vs, k) == \A i \in DOMAIN vs : Identity(vs[i], k)[1] \in {"num", "str"}
Mate(v, others, k) == CHOOSE i \in DOMAIN others : Identity(others[i], k) = Identity(v, k)
Attachable(base, overlays, k) ==
    \A i \in DOMAIN overlays : \E j \in DOMAIN base :
        /\ Identity(base[j], k) = Identity(overlays[i], k)
        /\ KeysOf(base[j]) \cap KeysOf(overlays[i]) = {k}

\* A join that lets an overlay replace fields of its item.
JoinByReplacing(base, overlays, k) ==
    Require(/\ Identified(base, k) /\ Identified(overlays, k)
            /\ Distinct(base, k) /\ Distinct(overlays, k)
            /\ \A i \in DOMAIN overlays : \E j \in DOMAIN base : Identity(base[j], k) = Identity(overlays[i], k)
            /\ Len(base) = Len(overlays),
            Arr(Map(base, LAMBDA v : Spread(v, overlays[Mate(v, overlays, k)]))))

JoinBy(base, overlays, k) ==
    Require(/\ Identified(base, k) /\ Identified(overlays, k)
            /\ Distinct(base, k) /\ Distinct(overlays, k)
            /\ Attachable(base, overlays, k)
            /\ Len(base) = Len(overlays),
            Arr(Map(base, LAMBDA v : Spread(v, overlays[Mate(v, overlays, k)]))))

(* What a builtin answers: the arity and the types of a call it accepts, or Fail. *)
CallBuiltin(name, a) ==
    LET n == Len(a)
        List(i) == n >= i /\ Has(a[i], "arr")
        Text(i) == n >= i /\ Has(a[i], "str")
        Number(i) == n >= i /\ Has(a[i], "num")
        Item(i, default) == IF n >= i THEN a[i] ELSE default
        vs == a[1][2]
    IN
    CASE name = "len" /\ n = 1 /\ a[1][1] \in {"str", "arr", "obj"} -> Num(Len(vs))
      [] name = "join" /\ n \in 1 .. 2 /\ List(1) /\ (n = 2 => Text(2)) ->
            Str(JoinWith(Map(vs, RenderScalar), Item(2, Str(<<",">>))[2]))
      [] name = "split" /\ n = 2 /\ Text(1) /\ Text(2) /\ Len(a[2][2]) = 1 -> Arr(Map(SplitAt(vs, a[2][2][1]), Str))
      [] name = "concat" /\ n >= 1 /\ a[1][1] \in {"arr", "str"} /\ \A i \in 1 .. n : Has(a[i], a[1][1]) ->
            <<a[1][1], FlattenSeq(Map(a, LAMBDA v : v[2]))>>
      [] name = "slice" /\ n \in 2 .. 3 /\ a[1][1] \in {"arr", "str"} /\ \A i \in 2 .. n : Number(i) ->
            <<a[1][1], SubSeq(vs, Clamp(a[2][2], Len(vs)) + 1, Clamp(Item(3, Num(Len(vs)))[2], Len(vs)))>>
      [] name = "coalesce" /\ n >= 1 -> LET given == SelectSeq(a, LAMBDA v : v # Null)
                                        IN IF given = <<>> THEN Null ELSE given[1]
      [] name = "keys" /\ n = 1 /\ Has(a[1], "obj") ->
            Arr(SelectSeq(Map(vs, LAMBDA f : Str(f[1])), LAMBDA k : k[2] \notin Unsafe))
      [] name = "values" /\ n = 1 /\ Has(a[1], "obj") ->
            Arr(Map(SelectSeq(vs, LAMBDA f : f[1] \notin Unsafe), LAMBDA f : f[2]))
      [] name = "get" /\ n \in 2 .. 3 /\ IsPath(a[2]) -> GetPath(a[1], a[2], Item(3, Null))
      [] name = "has" /\ n = 2 /\ IsPath(a[2]) -> Bool(GetPath(a[1], a[2], Missing) # Missing)
      [] name = "sum" /\ n = 1 /\ Holds(a[1], "num") -> Num(FoldLeft(LAMBDA s, v : s + v[2], 0, vs))
      [] name = "min" /\ n = 1 /\ Holds(a[1], "num") /\ vs # <<>> -> Top(vs, LAMBDA p, q : p < q)
      [] name = "max" /\ n = 1 /\ Holds(a[1], "num") /\ vs # <<>> -> Top(vs, LAMBDA p, q : p > q)
      [] name = "unique" /\ n = 1 /\ List(1) -> Arr(Unique(vs))
      [] name = "sort" /\ n = 1 /\ (Holds(a[1], "num") \/ Holds(a[1], "str")) -> Arr(SortedBy(vs, Less))
      [] name = "sortBy" /\ n >= 3 /\ n % 2 = 1 /\ Holds(a[1], "obj")
         /\ \A i \in 2 .. n : IF i % 2 = 0 THEN Text(i) /\ a[i][2] # <<>> ELSE a[i] \in Directions ->
            SortBy(vs, [f \in 1 .. n \div 2 |-> <<a[2 * f], a[2 * f + 1]>>])
      [] name = "withIndex" /\ n \in 2 .. 3 /\ Holds(a[1], "obj") /\ TopLevel(a[2]) /\ (n = 3 => Number(3)) ->
            WithIndex(vs, a[2][2], Item(3, Num(0))[2])
      [] name = "joinBy" /\ n = 3 /\ Holds(a[1], "obj") /\ Holds(a[2], "obj") /\ TopLevel(a[3]) ->
            JoinBy(vs, a[2][2], a[3][2])
      [] name = "mapGet" /\ n \in 2 .. 3 /\ List(1) /\ (vs = <<>> \/ IsPath(a[2])) ->
            Arr(Map(vs, LAMBDA v : GetPath(v, a[2], Item(3, Null))))
      [] name = "filterEq" /\ n = 3 /\ List(1) /\ (vs = <<>> \/ IsPath(a[2])) ->
            Arr(SelectSeq(vs, LAMBDA v : EqualJson(GetPath(v, a[2], Null), a[3])))
      [] OTHER -> Fail
-----------------------------------------------------------------------------
RECURSIVE Evaluate(_, _)

EvaluateBinary(op, l, right, x) ==
    LET Right == Evaluate(right, x)
        WithRight(Allowed(_), Answer(_)) == With(Right, LAMBDA r : IF Allowed(r) THEN Answer(r) ELSE Fail)
        Comparison(Answer(_)) == WithRight(LAMBDA r : Ordered(l, r), LAMBDA r : Bool(Answer(r)))
    IN CASE op = "&&" -> IF Truthy(l) THEN Right ELSE l
         [] op = "||" -> IF Truthy(l) THEN l ELSE Right
         [] op = "??" -> IF l = Null THEN Right ELSE l
         [] op = "==" -> WithRight(LAMBDA r : TRUE, LAMBDA r : Bool(EqualJson(l, r)))
         [] op = "!=" -> WithRight(LAMBDA r : TRUE, LAMBDA r : Bool(~EqualJson(l, r)))
         [] op = "+" -> WithRight(LAMBDA r : Ordered(l, r),
                                  LAMBDA r : IF Has(l, "num") THEN Num(l[2] + r[2]) ELSE Str(l[2] \o r[2]))
         [] op = "-" -> WithRight(LAMBDA r : Has(l, "num") /\ Has(r, "num"), LAMBDA r : Num(l[2] - r[2]))
         [] op = "*" -> WithRight(LAMBDA r : Has(l, "num") /\ Has(r, "num"), LAMBDA r : Num(l[2] * r[2]))
         [] op = "<"  -> Comparison(LAMBDA r : Less(l, r))
         [] op = ">"  -> Comparison(LAMBDA r : Less(r, l))
         [] op = "<=" -> Comparison(LAMBDA r : ~Less(r, l))
         [] op = ">=" -> Comparison(LAMBDA r : ~Less(l, r))

Evaluate(e, x) ==
    CASE e[1] = "lit"   -> e[2]
      [] e[1] = "input" -> x
      [] e[1] = "arr"   -> WithAll(Map(e[2], LAMBDA item : Evaluate(item, x)), Arr)
      [] e[1] = "obj"   -> WithAll(Map(e[2], LAMBDA entry : Evaluate(entry[2], x)), LAMBDA vs :
                             FoldLeft(LAMBDA o, i : Put(o, e[2][i][1], vs[i]), Obj(<<>>), [i \in DOMAIN vs |-> i]))
      [] e[1] = "mem"   -> With(Evaluate(e[2], x), LAMBDA o : With(Evaluate(e[3], x), LAMBDA k : ReadMember(o, k)))
      [] e[1] = "call"  -> WithAll(Map(e[3], LAMBDA a : Evaluate(a, x)), LAMBDA vs : CallBuiltin(e[2], vs))
      [] e[1] = "un"    -> With(Evaluate(e[3], x), LAMBDA v :
                             IF e[2] = "!" THEN Bool(~Truthy(v)) ELSE Require(Has(v, "num"), Num(-v[2])))
      [] e[1] = "bin"   -> With(Evaluate(e[3], x), LAMBDA l : EvaluateBinary(e[2], l, e[4], x))
      [] e[1] = "cond"  -> With(Evaluate(e[2], x), LAMBDA t : Evaluate(IF Truthy(t) THEN e[3] ELSE e[4], x))
-----------------------------------------------------------------------------
(* How an author writes a tree: parentheses where precedence asks for them only. *)
Level(e) == CASE e[1] = "cond" -> 0 [] e[1] = "bin" -> Precedence[e[2]] [] e[1] = "un" -> 8 [] OTHER -> 9
Symbol(s) == << <<"symbol", s>> >>
Word(w) == << <<"identifier", w>> >>

RECURSIVE Written(_)
Written(e) ==
    LET Within(x, least) == IF Level(x) >= least THEN Written(x) ELSE Symbol("(") \o Written(x) \o Symbol(")")
        Listed(pieces) == FoldLeft(LAMBDA acc, i : acc \o (IF i = 1 THEN <<>> ELSE Symbol(",")) \o pieces[i],
                                   <<>>, [i \in DOMAIN pieces |-> i])
        WordFor(v) == CHOOSE w \in DOMAIN Literals : Literals[w] = v
    IN CASE e[1] = "lit" -> (CASE Has(e[2], "num") -> << <<"number", e[2][2]>> >>
                               [] Has(e[2], "str") -> << <<"string", e[2][2]>> >>
                               [] OTHER -> Word(WordFor(e[2])))
         [] e[1] = "input" -> Word("input")
         [] e[1] = "arr" -> Symbol("[") \o Listed(Map(e[2], Written)) \o Symbol("]")
         [] e[1] = "obj" -> Symbol("{") \o Listed(Map(e[2], LAMBDA f : << <<"string", f[1]>> >> \o Symbol(":") \o Written(f[2])))
                               \o Symbol("}")
         [] e[1] = "mem" -> Within(e[2], 9) \o Symbol("[") \o Written(e[3]) \o Symbol("]")
         [] e[1] = "call" -> Word(e[2]) \o Symbol("(") \o Listed(Map(e[3], Written)) \o Symbol(")")
         [] e[1] = "un" -> Symbol(e[2]) \o Within(e[3], 8)
         [] e[1] = "bin" -> Within(e[3], Precedence[e[2]]) \o Symbol(e[2]) \o Within(e[4], Precedence[e[2]] + 1)
         [] e[1] = "cond" -> Within(e[2], 1) \o Symbol("?") \o Written(e[3]) \o Symbol(":") \o Written(e[4])

Brackets(text) == LET Count(n, S) == Len(SelectSeq(SubSeq(text, 1, n), LAMBDA t : t[1] = "symbol" /\ t[2] \in S))
                      Open(n) == Count(n, {"(", "[", "{"}) - Count(n, {")", "]", "}"})
                  IN Open(CHOOSE n \in DOMAIN text : \A m \in DOMAIN text : Open(m) <= Open(n))
-----------------------------------------------------------------------------
NoScript == script = <<>> /\ parsed = Refused /\ outcome = <<"none">>
ScriptInit == script \in ScriptStudies /\ parsed = Refused /\ outcome = <<"given">>

(* The script node: the source is parsed again, evaluated, and must yield an object. *)
ExecuteScript ==
    /\ outcome = <<"given">>
    /\ parsed' = Parse(Tokenize(Written(script.tree), script.tight))
    /\ LET v == Evaluate(parsed'.tree, script.input)
       IN outcome' = IF parsed'.at = 0 THEN <<"refused">> ELSE Require(v # Fail /\ Has(v, "obj"), v)
    /\ UNCHANGED script

(* spend: the operation budget is exceeded or the signal aborted, after any step. *)
StopScript ==
    /\ outcome = <<"given">>
    /\ parsed' = Parse(Tokenize(Written(script.tree), script.tight))
    /\ parsed'.at # 0
    /\ outcome' = Stopped
    /\ UNCHANGED script

ScriptNext == ExecuteScript \/ StopScript

(* An expression means what its author sees: written with blanks and the parentheses
   precedence asks for, it is parsed to itself, and refused only for brackets nested too
   deep or a forbidden key; written without blanks, it is refused or has the same value,
   though "a-1" is cut into two operands (tokenize, Parser).  The exception is a text in
   which the parser takes a string for a symbol: "-" or "!", or a closing bracket where a
   list may end, behind the opening one or a comma. *)
Misread(text) ==
    \E i \in DOMAIN text :
        /\ text[i][1] = "string"
        /\ \/ text[i][2] \in {<<"-">>, <<"!">>}
           \/ i > 1 /\ \E b \in {<<"(", ")">>, <<"[", "]">>, <<"{", "}">>} :
                 text[i][2] = <<b[2]>> /\ text[i - 1] \in {<<"symbol", b[1]>>, <<"symbol", ",">>}
Guarded(text) == \E i \in DOMAIN text : text[i][1] = "string" /\ text[i][2] \in Unsafe
PrintedIsParsed ==
    outcome \in {<<"none">>, <<"given">>} \/
    LET text == Written(script.tree)
    IN  \/ Misread(text)
        \/ script.tight /\ parsed.at = 0
        \/ script.tight /\ Evaluate(parsed.tree, script.input) = Evaluate(script.tree, script.input)
        \/ ~script.tight /\ parsed.tree = script.tree
        \/ ~script.tight /\ parsed.at = 0 /\ (Brackets(text) > MaxNesting \/ Guarded(text))

(* What authors rely on when they sort, join and select items instead of writing code:
   a sort is a permutation in the order of its fields, and in that of the list where they
   tie; unique keeps the first of what it drops; a join changes no field of an item, uses
   every overlay once and leaves no item without; has and the fallback of get agree
   (callBuiltin). *)
Answers(name, Promise(_, _)) ==
    (outcome[1] = "obj" /\ script.tree[2][1][2][1] = "call" /\ script.tree[2][1][2][2] = name) =>
       Promise(Map(script.tree[2][1][2][3], LAMBDA e : Evaluate(e, script.input)), outcome[2][1][2])
Arranged(vs, ws, Before(_, _)) ==
    \E p \in [DOMAIN ws -> DOMAIN vs] :
        /\ \A i \in DOMAIN vs : \E j \in DOMAIN ws : p[j] = i
        /\ \A j \in DOMAIN ws : ws[j] = vs[p[j]]
        /\ \A i, j \in DOMAIN ws : i < j => Before(ws[i], ws[j]) \/ (~Before(ws[j], ws[i]) /\ p[i] < p[j])
Among(v, vs) == \E i \in DOMAIN vs : EqualJson(v, vs[i])
Unaltered(v, w) == \A k \in KeysOf(v) : k \in KeysOf(w) /\ Field(w, k) = Field(v, k)
BuiltinsKeepPromises ==
    /\ Answers("sort", LAMBDA a, r : Len(r[2]) = Len(a[1][2]) /\ Arranged(a[1][2], r[2], Less))
    /\ Answers("sortBy", LAMBDA a, r :
          LET Of(v, f) == Field(v, a[2 * f][2])
              Fields == 1 .. Len(a) \div 2
              Before(v, w) == \E f \in Fields :
                                 /\ \A g \in 1 .. f - 1 : Of(v, g) = Of(w, g)
                                 /\ IF a[2 * f + 1] = Str(<<"asc">>) THEN Less(Of(v, f), Of(w, f)) ELSE Less(Of(w, f), Of(v, f))
          IN Len(r[2]) = Len(a[1][2]) /\ Arranged(a[1][2], r[2], Before))
    /\ Answers("unique", LAMBDA a, r :
          /\ \A v \in {a[1][2][i] : i \in DOMAIN a[1][2]} : Among(v, r[2])
          /\ \A i, j \in DOMAIN r[2] : EqualJson(r[2][i], r[2][j]) => i = j
          /\ \A i \in DOMAIN a[1][2] : (\E j \in DOMAIN r[2] : r[2][j] = a[1][2][i]) \/ Among(a[1][2][i], SubSeq(a[1][2], 1, i - 1)))
    /\ Answers("joinBy", LAMBDA a, r :
          /\ Len(r[2]) = Len(a[1][2]) /\ Len(r[2]) = Len(a[2][2])
          /\ \A i \in DOMAIN r[2] : /\ Unaltered(a[1][2][i], r[2][i])
                                    /\ \E j \in DOMAIN a[2][2] : Unaltered(a[2][2][j], r[2][i])
          /\ \A j \in DOMAIN a[2][2] : \E i \in DOMAIN r[2] : Unaltered(a[2][2][j], r[2][i]))
    /\ Answers("has", LAMBDA a, r :
          r = Bool(GetPath(a[1], a[2], Null) = GetPath(a[1], a[2], Bool(TRUE))))
=============================================================================
