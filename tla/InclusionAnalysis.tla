--------------------------- MODULE InclusionAnalysis ---------------------------
(***************************************************************************)
(* What an inclusion-based (Andersen) analysis promises, whatever order it *)
(* works in: it only ever derives facts the rules on the handlers in       *)
(* Andersen.cpp derive, and when it stops, every rule has been applied.    *)
(*                                                                         *)
(*   addr   dst = &obj    obj \in pts(dst)                                 *)
(*   copy   dst = src     pts(src) \subseteq pts(dst)                      *)
(*   load   dst = *src    o \in pts(src) => pts(o) \subseteq pts(dst)      *)
(*   store  *dst = src    o \in pts(dst) => pts(src) \subseteq pts(o)      *)
(*   gep    dst = &src->k o \in pts(src) => o.k \in pts(dst)               *)
(*   call   fptr(..)      callee \in pts(fptr) => its params are copies    *)
(*                                                                         *)
(* Geps with a variable offset coarsen the objects themselves and are left *)
(* to the detailed specification.                                          *)
(***************************************************************************)
EXTENDS Program

VARIABLES
    prog,   \* the program
    sol,    \* the points-to sets reported for it
    done    \* the analysis has stopped

absVars == <<prog, sol, done>>

GepOf(o, k) ==
    IF o \in ConstOrBlk \/ BaseOf[o] \in InitFI THEN o ELSE FieldOf[<<o, k>>]

\* The copies that hold when S does: the program's own, and those the pointers induce.
Flow(S) ==
    prog.copy
    \union {<<x[1], x[2][2]>> : x \in
              {y \in (Objs \ ConstObjs) \X prog.load : y[1] \in S[y[2][1]] /\ y[2][2] \notin NonPtrs}}
    \union {<<x[2][1], x[1]>> : x \in
              {y \in (Objs \ ConstObjs) \X prog.store : y[1] \in S[y[2][2]] /\ y[2][1] \notin NonPtrs}}
    \union UNION {c.params : c \in {x \in prog.calls : x.callee \in S[x.fptr]}}

\* One application of every rule to S.
Infer(S) ==
    [n \in Nodes |->
        S[n]
        \union {e[1] : e \in {x \in prog.addr : x[2] = n}}
        \union (UNION {S[e[1]] : e \in {x \in Flow(S) : x[2] = n}})
        \union (UNION {{GepOf(o, e[3]) : o \in S[e[1]]} : e \in {x \in prog.ngep : x[2] = n}})]

Below(S, T) == \A n \in Nodes : S[n] \subseteq T[n]

Closed(S) == Below(Infer(S), S)

Solutions == [Nodes -> SUBSET Objs]

AddrFacts == [n \in Nodes |-> {o \in Objs : <<o, n>> \in prog.addr}]

(***************************************************************************)
(* The least solution, from sets of facts <<node, pointee>>: there are     *)
(* never more steps to it than there are facts.                            *)
(***************************************************************************)
Facts(S) == UNION {{<<n, o>> : o \in S[n]} : n \in Nodes}

FromFacts(F) == [n \in Nodes |-> {o \in Objs : <<n, o>> \in F}]

Derived[k \in Nat] ==
    IF k = 0 THEN Facts(AddrFacts)
             ELSE UNION {Facts(Infer(FromFacts(F))) : F \in {Derived[k - 1]}}

Least == FromFacts(Derived[Cardinality(Nodes \X Objs)])

-----------------------------------------------------------------------------
Init ==
    /\ prog \in Statements
    /\ sol = AddrFacts
    /\ done = FALSE

Derive ==
    /\ ~ done
    /\ sol' \in Solutions
    /\ Below(sol, sol')
    /\ Below(sol', Infer(sol))
    /\ UNCHANGED <<prog, done>>

Finish ==
    /\ ~ done
    /\ Closed(sol)
    /\ done' = TRUE
    /\ UNCHANGED <<prog, sol>>

\* Nothing is promised of programs with variable offsets.
Coarsen ==
    /\ prog.vgep # {}
    /\ sol' \in Solutions /\ done' \in BOOLEAN
    /\ UNCHANGED prog

Next == Derive \/ Finish \/ Coarsen

Spec == Init /\ [][Next]_absVars
=============================================================================
