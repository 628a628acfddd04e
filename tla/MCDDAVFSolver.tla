---------------------------- MODULE MCDDAVFSolver ----------------------------
(***************************************************************************)
(* Model checking the demand-driven analysis.  The graphs are those of     *)
(* programs over                                                           *)
(*     a = &o; b = &p; f = &g; x = phi(a, ...); y = &x->fld; v = *x;       *)
(*     r = v(x), where g(c) returns c;                                     *)
(*     *x = b (S); *a = v (T); *a = f (U); *a = b (W)                      *)
(* with operands of the phi out of PhiMenu and indirect edges out of       *)
(* MemMenu.  p is the field of o.  P is the actual parameter v of a        *)
(* recursive call whose formal parameter is x.  o is a local of a function *)
(* that is recursive, or may become so when the call r = v(x) is joined,   *)
(* or is not.                                                              *)
(***************************************************************************)
EXTENDS DDAVFSolver, FiniteSetsExt

CONSTANTS
    PhiMenu,   \* the operands of the phi to choose from
    MaxPhi     \* operands chosen at most

MCNodes == {"A", "B", "F", "X", "Y", "V", "P", "R", "C", "S", "T", "U", "W", "M"}
MCVars == {"a", "b", "f", "x", "y", "v", "r", "c"}
MCObjs == {"o", "p", "g"}
MCKind ==
    [n \in MCNodes |->
        CASE n \in {"A", "B", "F"} -> "addr" [] n \in {"X", "P", "R", "C"} -> "copy"
          [] n = "Y" -> "gep"
          [] n = "V" -> "load" [] n = "M" -> "mr" [] OTHER -> "store"]
MCLhs ==
    [n \in MCNodes \ {"S", "T", "U", "W", "M"} |->
        CASE n = "A" -> "a" [] n = "B" -> "b" [] n = "F" -> "f" [] n = "X" -> "x"
          [] n = "Y" -> "y"
          [] n \in {"V", "P"} -> "v" [] n = "R" -> "r" [] OTHER -> "c"]
MCDef == [v \in MCVars |-> CHOOSE n \in DOMAIN MCLhs : n # "P" /\ MCLhs[n] = v]
MCObjAt == [n \in {"A", "B", "F"} |-> CASE n = "A" -> "o" [] n = "B" -> "p" [] OTHER -> "g"]
MCFieldAt == [n \in {"Y"} |-> [o \in MCObjs |-> IF o = "o" THEN "p" ELSE o]]
MCPtrAt == [n \in {"V", "S", "T", "U", "W"} |-> IF n \in {"V", "S"} THEN "x" ELSE "a"]
MCSrcAt ==
    [n \in {"S", "T", "U", "W"} |->
        CASE n \in {"S", "W"} -> "b" [] n = "T" -> "v" [] OTHER -> "f"]
MCFunPtrsAt == [n \in MCNodes |-> IF n \in {"R", "C"} THEN {"v"} ELSE {}]
MCIndCalls ==
    {[fptr |-> "v", callee |-> "g", direct |-> {<<"X", "C">>, <<"C", "R">>}, indirect |-> {}]}

\* Edges are chosen a statement at a time, so each choice is a set of them.
Fixed == {<<"A", "X">>, <<"X", "V">>, <<"A", "U">>, <<"F", "U">>}

\* Operands of the phi: parameters are phis with opt-svfg, nodes by default.
OptMenu == {{<<"X", "Y">>, <<"Y", "X">>}, {<<"V", "X">>}, {<<"R", "X">>}}
ParmMenu == {{<<"V", "P">>, <<"P", "X">>}}

UntoV == <<"U", "V", {"o"}>>
StoreS == {<<"X", "S">>, <<"B", "S">>}
StoreT == {<<"A", "T">>, <<"V", "T">>}
MemMenu ==
    {{UntoV},
     StoreS \union {UntoV, <<"S", "V", {"o"}>>},
     StoreS \union {<<"U", "S", {"o"}>>, <<"S", "V", {"o"}>>},
     StoreS \union {UntoV, <<"S", "M", {"o", "p"}>>, <<"M", "V", {"p"}>>},
     StoreT \union {UntoV, <<"T", "V", {"o"}>>},
     StoreT \union {<<"U", "T", {"o"}>>, <<"T", "V", {"o"}>>},
     {<<"A", "W">>, <<"B", "W">>, <<"W", "U", {"o"}>>, UntoV},
     StoreT \union {UntoV, <<"U", "T", {"o"}>>, <<"T", "V", {"o"}>>}}

(***************************************************************************)
(* The pre-analysis: the least flow-insensitive solution, of which every   *)
(* memory object is one cell.                                              *)
(***************************************************************************)
Ander(g) ==
    LET Cells == MCVars \union MCObjs
        Step(S) ==
            LET calls == UNION {Callees(S[v], v) : v \in MCVars}
                Of(v) == UNION {
                    CASE MCKind[n] = "addr" -> {MCObjAt[n]}
                      [] MCKind[n] = "gep" ->
                             {MCFieldAt[n][o] : o \in UNION {S[d[2]] : d \in DirectPreds(g, calls, n)}}
                      [] MCKind[n] = "copy" -> UNION {S[d[2]] : d \in DirectPreds(g, calls, n)}
                      [] OTHER -> UNION {S[o] : o \in S[MCPtrAt[n]]} :
                    n \in {m \in DOMAIN MCLhs : MCLhs[m] = v}}
                In(o) == UNION {S[MCSrcAt[n]] : n \in {m \in DOMAIN MCSrcAt : o \in S[MCPtrAt[m]]}}
            IN  [c \in Cells |-> S[c] \union (IF c \in MCVars THEN Of(c) ELSE In(c))]
        lfp[S \in [Cells -> SUBSET MCObjs]] == IF Step(S) = S THEN S ELSE lfp[Step(S)]
    IN  lfp[[c \in Cells |-> {}]]

\* Whether o is in a recursion matters to what a store overwrites.
Overwrites(M) == \E e \in M : Len(e) = 3 /\ {MCKind[e[1]], MCKind[e[2]]} = {"store"}
Recursions(M) ==
    {[C \in SUBSET MCIndCalls |-> {}]} \union
    (IF Overwrites(M) THEN {[C \in SUBSET MCIndCalls |-> {"o"}],
                            [C \in SUBSET MCIndCalls |-> IF C = {} THEN {} ELSE {"o"}]}
     ELSE {})

GraphOf(E, recursive) ==
    LET g == [direct |-> {e \in E : Len(e) = 2}, indirect |-> {e \in E : Len(e) = 3}]
    IN  [direct |-> g.direct, indirect |-> g.indirect, ander |-> Ander(g),
         recursive |-> recursive]
MCGraphs ==
    UNION {{GraphOf(Fixed \union UNION C \union M, recursive) : recursive \in Recursions(M)} :
        C \in UNION {kSubset(n, PhiMenu) : n \in 0 .. MaxPhi},
        M \in MemMenu}
=============================================================================
