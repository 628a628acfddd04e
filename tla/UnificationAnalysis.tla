-------------------------- MODULE UnificationAnalysis --------------------------
(***************************************************************************)
(* What a unification-based (Steensgaard) analysis promises: to unify the  *)
(* nodes that the comments in Steensgaard::solveWorklist ask for, and no   *)
(* others.                                                                 *)
(*                                                                         *)
(*   copy    q = p       EC(q) == EC(p)                                    *)
(*   gep     q = &p->f   EC(q) == EC(p)                                    *)
(*   store   *p = q      EC(o) == EC(q) for every o \in pts(p)             *)
(*   load    r = *p      EC(r) == EC(o) for every o \in pts(p)             *)
(*   call    fptr(..)    the ends of its params, if callee \in pts(fptr)   *)
(***************************************************************************)
EXTENDS Program

CONSTANT Prog  \* the program

\* A class of nodes is named by one of them.
ClassMaps == {c \in [Nodes -> Nodes] : \A n \in Nodes : c[c[n]] = c[n]}

\* The pointees of n under the classes c.
Pointees(c, n) == {e[1] : e \in {x \in Prog.addr : c[x[2]] = c[n]}}

\* The pairs that have to be unified when the classes are those of c.
Asked(c) ==
    Prog.copy \union Prog.vgep
    \union {<<e[1], e[2]>> : e \in Prog.ngep}
    \union (UNION {{<<e[1], o>> : o \in Pointees(c, e[2])} : e \in Prog.store})
    \union (UNION {{<<o, e[2]>> : o \in Pointees(c, e[1])} : e \in Prog.load})
    \union (UNION {x.params : x \in {y \in Prog.calls : y.callee \in Pointees(c, y.fptr)}})

(***************************************************************************)
(* The classes that satisfy the rules.  Coarser classes ask for more, so   *)
(* one unification is the least, and what holds in all of them holds in it. *)
(***************************************************************************)
Unifications == {c \in ClassMaps : \A e \in Asked(c) : c[e[1]] = c[e[2]]}
=============================================================================
