------------------------------ MODULE MCPrograms ------------------------------
(***************************************************************************)
(* The programs the solvers are checked on: every program of at most so    *)
(* many statements out of a menu, and single programs that show one thing. *)
(***************************************************************************)
EXTENDS Program, FiniteSetsExt

CONSTANTS
    MaxStatements,      \* statements chosen at most from a menu without geps
    MaxFieldStatements  \* statements chosen at most from a menu with geps

-----------------------------------------------------------------------------
(* Statements, tagged with the kind of edge buildCG makes of them. *)

Of(S, kind) == {x[2] : x \in {y \in S : y[1] = kind}}

ProgramOf(S) ==
    [addr |-> Of(S, "addr"), copy |-> Of(S, "copy"), load |-> Of(S, "load"),
     store |-> Of(S, "store"), ngep |-> Of(S, "ngep"), vgep |-> Of(S, "vgep"),
     calls |-> Of(S, "call")]

\* The programs of the statements fixed and at most k others out of menu.
Chosen(fixed, menu, k) ==
    {ProgramOf(fixed \union S) : S \in UNION {kSubset(n, menu) : n \in 0 .. k}}

-----------------------------------------------------------------------------
(* Three pointers; a cell a, also a function; a struct b with one field or *)
(* two.  ConstMenu adds a constant k and a variable n that is no pointer.  *)
SmallVars == {"p", "q", "r"}
OneField == {"a", "b", "b1"}
TwoFields == OneField \union {"b2"}
ConstVars == SmallVars \union {"n"}
ConstObjects == TwoFields \union {"k"}
SmallBaseOf == [o \in Objs |-> IF o \in {"a", "k"} THEN o ELSE "b"]
SmallFieldOf ==
    [x \in Objs \X Offsets |->
        IF x[1] \in {"a", "k"} THEN x[1]
        ELSE IF "b2" \in Objs /\ (x[2] = 2 \/ x[1] = "b1") THEN "b2" ELSE "b1"]

PtrMenu ==
    {<<"addr", <<"b", "p">>>>, <<"addr", <<"a", "q">>>>, <<"addr", <<"a", "r">>>>,
     <<"copy", <<"p", "q">>>>, <<"copy", <<"q", "r">>>>, <<"copy", <<"r", "p">>>>,
     <<"load", <<"p", "r">>>>, <<"load", <<"r", "q">>>>,
     <<"store", <<"q", "p">>>>, <<"store", <<"p", "r">>>>, <<"store", <<"r", "r">>>>,
     <<"call", [fptr |-> "r", callee |-> "a", params |-> {<<"p", "r">>, <<"r", "q">>}]>>}

ConstMenu ==
    PtrMenu \union {<<"addr", <<"k", "r">>>>, <<"load", <<"p", "n">>>>, <<"store", <<"n", "q">>>>}

FieldFixed == {<<"addr", <<"b", "p">>>>, <<"addr", <<"a", "r">>>>}

\* Geps with constant offsets.
GepMenu ==
    {<<"ngep", <<"p", "q", 1>>>>, <<"ngep", <<"q", "r", 1>>>>, <<"ngep", <<"q", "p", Max(Offsets)>>>>,
     <<"copy", <<"q", "p">>>>, <<"copy", <<"r", "q">>>>,
     <<"load", <<"q", "r">>>>, <<"store", <<"r", "q">>>>, <<"store", <<"q", "p">>>>}

\* Variable offsets too.
FieldMenu ==
    GepMenu \union {<<"vgep", <<"p", "r">>>>, <<"vgep", <<"r", "p">>>>, <<"load", <<"p", "q">>>>,
     <<"store", <<"p", "q">>>>}

\* All kinds of statements, with variable offsets in the smaller programs.
AllKindsPrograms ==
    Chosen({}, ConstMenu, MaxStatements) \union Chosen(FieldFixed, GepMenu, MaxFieldStatements)
        \union Chosen(FieldFixed, FieldMenu, MaxFieldStatements - 1)

FieldPrograms == Chosen(FieldFixed, FieldMenu, MaxFieldStatements)

PtrFieldPrograms == Chosen(FieldFixed, PtrMenu, MaxStatements) \union FieldPrograms

SteensPrograms == Chosen({}, PtrMenu \union {<<"vgep", <<"q", "p">>>>}, MaxStatements)

-----------------------------------------------------------------------------
(* One program that collapses a struct whose base and field hold different *)
(* pointers: r = *p; *p = x; q = &p->1; *q = y; t1 = p; t2 = t1; t3 = t2;  *)
(* u = &t3[i].                                                             *)
CollapseVars == {"p", "q", "r", "x", "y", "t1", "t2", "t3", "u"}
CollapseObjs == {"s", "s1", "a", "b"}
CollapseBaseOf == [o \in CollapseObjs |-> IF o = "s1" THEN "s" ELSE o]
CollapseFieldOf == [e \in CollapseObjs \X {1} |-> IF e[1] = "s" THEN "s1" ELSE e[1]]
CollapseMenu ==
    {<<"addr", <<"s", "p">>>>, <<"addr", <<"a", "x">>>>, <<"addr", <<"b", "y">>>>,
     <<"load", <<"p", "r">>>>, <<"store", <<"x", "p">>>>,
     <<"ngep", <<"p", "q", 1>>>>, <<"store", <<"y", "q">>>>,
     <<"copy", <<"p", "t1">>>>, <<"copy", <<"t1", "t2">>>>, <<"copy", <<"t2", "t3">>>>,
     <<"vgep", <<"t3", "u">>>>}
CollapsePrograms == {ProgramOf(CollapseMenu)}

-----------------------------------------------------------------------------
(* One program whose copy cycle p -> q -> o -> l -> p only closes through  *)
(* the cell o:                                                             *)
(* s = &o; p = &a; q = &b; q = p; *s = q; l = *s; p = l; x = *p.           *)
CycleVars == {"a0", "b0", "s", "p", "q", "l", "x"}
CycleObjs == {"a", "b", "o"}
CyclePrograms ==
    {ProgramOf({<<"addr", <<"a", "a0">>>>, <<"addr", <<"b", "b0">>>>, <<"addr", <<"o", "s">>>>,
                <<"copy", <<"a0", "p">>>>, <<"copy", <<"b0", "q">>>>, <<"copy", <<"p", "q">>>>,
                <<"store", <<"q", "s">>>>, <<"load", <<"s", "l">>>>, <<"copy", <<"l", "p">>>>,
                <<"load", <<"p", "x">>>>})}

-----------------------------------------------------------------------------
(* A pointer that only gets pointees as a member of another's class:       *)
(* s = &a; x = &b; *s = p; *s = x; y = p.                                  *)
MemberVars == {"s", "x", "p", "y"}
MemberObjs == {"a", "b"}
MemberPrograms ==
    {ProgramOf({<<"addr", <<"a", "s">>>>, <<"addr", <<"b", "x">>>>,
                <<"store", <<"p", "s">>>>, <<"store", <<"x", "s">>>>, <<"copy", <<"p", "y">>>>})}

SelfBaseOf == [o \in Objs |-> o]
SelfFieldOf == [e \in Objs \X Offsets |-> e[1]]
=============================================================================
