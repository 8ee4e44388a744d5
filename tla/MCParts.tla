------------------------------ MODULE MCParts ------------------------------
(***************************************************************************)
(* The parts that share no state with the others, checked side by side:    *)
(* a behaviour is about one of them.  The graph of the settlement is that  *)
(* of MCEdgeSettlement; the scripts are the expressions of up to three     *)
(* operators over a few operands, written with and without blanks, and     *)
(* calls of the builtins on lists of items with equal and different keys.  *)
(***************************************************************************)
EXTENDS MCEdgeSettlement, MCReplay, MCCommands, Scripts, Studio, Observation
LOCAL S == INSTANCE SequencesExt

VARIABLE part

partsVars == <<vars, scriptVars, studioVars, watchVars, replayVars, commandVars, part>>

NoSettlement == nodes = <<>> /\ edges = <<>> /\ ready = {} /\ last = [sel |-> {}]
NoStudio == /\ kept = <<>> /\ draft = NoDraft /\ template = NoRecovery.template /\ documentState = "pristine"
            /\ recovery = NoRecovery /\ pending = {} /\ due = FALSE /\ busy = FALSE /\ slipped = FALSE /\ astray = FALSE
PartsInit ==
    /\ part \in {"settlement", "scripts", "studio", "watching", "replay", "commands"}
    /\ WatchInit
    /\ IF part = "settlement" THEN Init ELSE NoSettlement
    /\ IF part = "studio" THEN StudioInit ELSE NoStudio
    /\ IF part = "replay" THEN ReplayInit ELSE NoReplay
    /\ IF part = "scripts" THEN ScriptInit ELSE NoScript
    /\ IF part = "commands" THEN CommandInit ELSE NoCommand

PartsNext ==
    /\ UNCHANGED part
    /\ \/ part = "settlement" /\ Next /\ UNCHANGED <<scriptVars, studioVars, watchVars, replayVars, commandVars>>
       \/ part = "scripts" /\ ScriptNext /\ UNCHANGED <<vars, studioVars, watchVars, replayVars, commandVars>>
       \/ part = "studio" /\ StudioNext /\ UNCHANGED <<vars, scriptVars, watchVars, replayVars, commandVars>>
       \/ part = "watching" /\ WatchNext /\ UNCHANGED <<vars, scriptVars, studioVars, replayVars, commandVars>>
       \/ part = "replay" /\ ReplayNext /\ UNCHANGED <<vars, scriptVars, studioVars, watchVars, commandVars>>
       \/ part = "commands" /\ CommandNext /\ UNCHANGED <<vars, scriptVars, studioVars, watchVars, replayVars>>

PartsSpec == PartsInit /\ [][PartsNext]_partsVars
-----------------------------------------------------------------------------
(* Identifiers of templates are told apart and no more. *)
Renamings == S!Permutations(Documents)
MCAlphabet == <<"a", "b", "k", "n", "r", "x", "y", "constructor", "asc", "desc", ".", ",", "-", ")", "?">>
Lit(v) == <<"lit", v>>
InputOf(k) == <<"mem", <<"input">>, Lit(Str(<<k>>))>>
Wrapped(e) == <<"obj", <<<< <<"r">>, e>> >> >>
Record(fs) == Obj(fs)

\* Expressions of up to three operators, one nested in the other.
Leaves == {Lit(Num(1)), Lit(Num(-1)), Lit(Str(<<"a">>)), Lit(Str(<<"-">>)), InputOf("n")}
FewOps == {"??", "||", "==", "<", "-", "+", "*"}
Simple == {<<"un", op, x>> : op \in {"!", "-"}, x \in Leaves}
     \cup {<<"bin", op, x, Lit(Num(1))>> : op \in FewOps, x \in Leaves}
     \cup {<<"bin", "-", Lit(Num(-1)), InputOf("n")>>}
     \cup {<<"cond", x, Lit(Num(1)), Lit(Null)>> : x \in Leaves}
     \cup {<<"arr", <<x, InputOf("n")>>>> : x \in Leaves}
     \cup {<<"call", "coalesce", <<x, Lit(Null)>>>> : x \in Leaves}
     \cup {<<"mem", x, Lit(Num(1))>> : x \in Leaves} \cup {Lit(Bool(TRUE)), <<"arr", <<>>>>}
Nestings == {<<"un", op, x>> : op \in {"!", "-"}, x \in Simple}
     \cup {<<"bin", op, x, Lit(Num(1))>> : op \in FewOps, x \in Simple}
     \cup {<<"bin", op, InputOf("n"), x>> : op \in FewOps, x \in Simple}
     \cup {<<"cond", x, y, z>> : x \in {Lit(Num(1)), <<"cond", Lit(Null), Lit(Num(1)), Lit(Null)>>}, 
                 y \in {Lit(Str(<<")">>))} \cup Simple, z \in {Lit(Num(1))}}
     \cup {<<"cond", Lit(Num(1)), Lit(Num(1)), x>> : x \in Simple}
     \cup {<<"mem", x, Lit(Num(0))>> : x \in Simple} \cup {<<"mem", InputOf("n"), x>> : x \in Simple}
     \cup {<<"call", "len", <<x>>>> : x \in Simple} \cup {<<"arr", <<x, x>>>> : x \in Simple}
     \cup {<<"arr", <<InputOf("n"), Lit(Str(<<k>>))>>>> : k \in {",", ")", "]"}} \cup {<<"arr", <<Lit(Str(<<k>>))>>>> : k \in {",", ")"}}
     \cup {<<"obj", << <<k, x>> >> >> : k \in {<<"a">>, <<"constructor">>}, x \in Simple}
Numbers == Obj(<< << <<"n">>, Num(2)>> >>)
Printed == [tree : {Wrapped(x) : x \in Leaves \cup Simple \cup Nestings}, tight : BOOLEAN, input : {Numbers}]

\* Calls of builtins on lists of items with a key, a field or neither.
Items == {Obj(<< << <<"k">>, Num(1)>> >>), Obj(<< << <<"k">>, Num(2)>> >>),
          Obj(<< << <<"k">>, Num(1)>>, << <<"x">>, Num(2)>> >>), Obj(<< << <<"x">>, Num(2)>>, << <<"k">>, Num(1)>> >>),
          Obj(<< << <<"k">>, Num(1)>>, << <<"x">>, Num(1)>> >>), Obj(<< << <<"k">>, Num(2)>>, << <<"x">>, Num(1)>> >>), Obj(<< << <<"k">>, Num(2)>>, << <<"y">>, Num(1)>> >>),
          Obj(<< << <<"k">>, Str(<<"a">>)>>, << <<"x">>, Num(1)>> >>)}
Lists(T, n) == {Arr(s) : s \in S!BoundedSeq(T, n)}
Xs == InputOf("x")
Ys == InputOf("y")
K(k) == Lit(Str(k))
One(tree, inputs) == [tree : {Wrapped(tree)}, tight : {FALSE}, input : inputs]
X(xs) == {Obj(<< << <<"x">>, v>> >>) : v \in xs}
XY(xs, ys) == {Obj(<< << <<"x">>, v>>, << <<"y">>, w>> >>) : v \in xs, w \in ys}
Call(name, args) == <<"call", name, args>>
Calls ==
    One(Call("sort", <<Xs>>), X(Lists({Num(1), Num(2), Str(<<"a">>), Str(<<"a", "b">>), Str(<<"b">>)}, 3)))
    \cup One(Call("sortBy", <<Xs, K(<<"k">>), K(<<"desc">>)>>), X(Lists(Items, 3)))
    \cup One(Call("sortBy", <<Xs, K(<<"k">>), K(<<"asc">>), K(<<"x">>), K(<<"desc">>)>>), X(Lists(Items, 3)))
    \cup One(Call("unique", <<Xs>>), X(Lists(Items \cup {Num(1), Null}, 3)))
    \cup One(Call("joinBy", <<Xs, Ys, K(<<"k">>)>>), XY(Lists(Items, 2), Lists(Items, 2)))
    \cup UNION {One(Call("has", <<Xs, K(p)>>), X({Arr(<<v>>) : v \in Items} \cup Items)) : p \in {<<"k">>, <<"x">>, <<"constructor">>, <<>>}}
    \cup UNION {One(Call(f, <<Xs, K(<<"x">>)>>), X(Lists(Items, 2))) : f \in {"mapGet", "withIndex", "join"}}
MCStudies == Printed \cup Calls
=============================================================================
