--------------------------------- MODULE MCMHP ---------------------------------
(***************************************************************************)
(* Model checking the may-happen-in-parallel analysis on small programs    *)
(* with main, the routines T and U, a function H that forks and functions  *)
(* G and L that do not.  "s" is a statement.                               *)
(***************************************************************************)
EXTENDS MHP

S == [kind |-> "stmt", to |-> ""]
Fork(f) == [kind |-> "fork", to |-> f]
Join(f, i) == [kind |-> "join", to |-> <<f, i>>]
Call(f) == [kind |-> "call", to |-> f]
Body(items) == items \o <<[kind |-> "ret", to |-> ""], [kind |-> "exit", to |-> ""]>>
Prog(bodies, jumps) == [body |-> [f \in DOMAIN bodies |-> Body(bodies[f])], jumps |-> jumps]

Leaf == <<S>>

(***************************************************************************)
(* No statement follows a call of a defined function in these programs,    *)
(* except in functions that lead to no fork and no join.                   *)
(***************************************************************************)
TailCallPrograms ==
    { \* one thread, joined
      Prog([main |-> <<S, Fork("T"), S, Join("main", 2), S>>, T |-> Leaf], {}),
      \* threads forked and joined in loops
      Prog([main |-> <<Fork("T"), S, Join("main", 1), S>>, T |-> Leaf],
           {<<"main", 2, 1>>, <<"main", 3, 3>>}),
      \* siblings, one of them forked by a helper
      Prog([main |-> <<Fork("T"), Call("H")>>, H |-> <<S, Fork("U"), S>>,
            T |-> Leaf, U |-> Leaf], {}),
      \* a thread of a thread
      Prog([main |-> <<Fork("T"), S>>, T |-> <<S, Fork("U"), S>>, U |-> Leaf], {}),
      \* a sibling started after the join of the other, or instead of it
      Prog([main |-> <<Fork("T"), Join("main", 1), Fork("U"), S>>, T |-> Leaf, U |-> Leaf],
           {<<"main", 1, 3>>}),
      \* a routine that forks itself
      Prog([main |-> <<Fork("T"), S>>, T |-> <<S, Fork("T"), S>>], {}),
      \* a helper called by two threads
      Prog([main |-> <<Fork("T"), Call("H")>>, T |-> <<Call("H")>>,
            H |-> <<S, Fork("U"), S>>, U |-> Leaf], {}),
      \* functions that lead to no fork, called by two threads
      Prog([main |-> <<Fork("T"), S, Call("G")>>, T |-> <<Call("G")>>,
            G |-> <<S, Call("L"), S>>, L |-> Leaf], {}),
      \* a helper that forks, called in a loop
      Prog([main |-> <<Call("H")>>, H |-> <<Fork("U")>>, U |-> Leaf], {<<"main", 1, 1>>}) }

\* All programs of a main of three nodes, a T of two and a U, with a loop or none.
ForkPrograms ==
    {p \in {Prog([main |-> m, T |-> t, U |-> Leaf], j) :
                m \in [1 .. 3 -> {S, Fork("T"), Fork("U")}],
                t \in [1 .. 2 -> {S, Fork("T"), Fork("U")}],
                j \in {{}, {<<"main", 3, 1>>}, {<<"T", 2, 1>>}, {<<"main", 1, 3>>}}} :
        EntryFuns(p) = {"main"}}

AllPrograms == TailCallPrograms \union ForkPrograms

\* The statement of main follows the call of a function that forks.
CallPrograms ==
    {Prog([main |-> <<Call("H"), S>>, H |-> <<Fork("T")>>, T |-> Leaf], {})}
=============================================================================
