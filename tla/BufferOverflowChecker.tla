------------------------- MODULE BufferOverflowChecker -------------------------
(***************************************************************************)
(* The buffer overflow checker: from every buffer, pointers to it are      *)
(* followed with the offset they have, and an access is reported where the *)
(* offset may leave the buffer: as MUST if it has to, as MAY otherwise.    *)
(* Once the reports are out the program itself runs, from main, until it   *)
(* ends or computes an address outside of a buffer.                        *)
(***************************************************************************)
EXTENDS RangeAnalysis

LOCAL Number == INSTANCE IntervalValue WITH IntBits <- Bits

CONSTANTS
    Programs,
    MAX_CALL_DEPTH,     \* calls a pointer is followed into
    MAX_SEED_CONTEXTS,  \* calls of its function for which a buffer is followed
    Inputs,             \* numbers the environment of the program gives
    MaxVal,             \* numbers of a run stay within -MaxVal .. MaxVal
    MaxFrames           \* calls of a run that are active at once

VARIABLES
    program,
    phase,           \* "initialize", "bind", "propagate", "flush", then "run"
    ranges,          \* the caches varRanges and ctxVarRanges
    formalBindings,  \* by call and formal
    flowState,       \* offset and number of visits, by <<parent, base, call context>>
    worklist,
    pendingReports,
    frames,          \* of the run, the innermost first
    faults           \* where the run left a buffer: statement and call it was in

vars == <<program, phase, ranges, formalBindings, flowState, worklist, pendingReports,
          frames, faults>>

FunOf(i) == program.blocks[program.code[i].bb].fun
CallsOf(f) == {i \in DOMAIN program.code : program.code[i].op = "call" /\ program.code[i].callee = f}
InOrder(S) == SetToSortSeq(S, <)
bufferRange(parent) == <<0, program.size[parent] - 1>>

-----------------------------------------------------------------------------
(* The parts of the checker's state that its handlers change, as a record. *)

\* Mutant of mustOverflow: it need not miss the buffer as a whole.
mustOverflowAny(offset, size) == ~isSubset(offset, size)

mustOverflow(offset, size) == offset[1] > size[2] \/ offset[2] < size[1]

\* One report per place and context: the first, whatever the later ones say.
reportBufferOverflowError(st, loc, cxt, offset, size) ==
    IF \E r \in ToSet(st.reports) : r.loc = loc /\ r.cxt = cxt THEN st
    ELSE [st EXCEPT !.reports = Append(@,
            [loc |-> loc, cxt |-> cxt, offset |-> offset, size |-> size,
             must |-> mustOverflow(offset, size)])]

checkAccess(st, loc, cxt, offset, size) ==
    IF isBottom(offset) \/ isSubset(offset, size) THEN st
    ELSE reportBufferOverflowError(st, loc, cxt, offset, size)

\* The pointer base goes to the worklist, unless nothing new is known of it.
enqueue(st, base, parent, offset, depth, cxt) ==
    LET key == <<parent, base, cxt>>
        seen == key \in DOMAIN st.flow
        old == IF seen THEN st.flow[key].offset ELSE BOTTOM
        widened == widening(old, join(old, offset))
        visits == IF seen THEN st.flow[key].visits + 1 ELSE 1
    IN  IF seen /\ widened = old THEN st
        ELSE [st EXCEPT !.flow = (key :> [offset |-> widened, visits |-> visits]) @@ @,
                        !.work = Append(@, [base |-> base, parent |-> parent, offset |-> widened,
                                            depth |-> depth, cxt |-> cxt])]

Forward(st, base, src, offset) == enqueue(st, base, src.parent, offset, src.depth, src.cxt)

\* An index whose range could not be found may have any value.
IndexRange(r, idx) == IF isBottom(r) /\ idx \notin DOMAIN program.const THEN TOP ELSE r

(***************************************************************************)
(* A gep, when the range of its index is found.  An index into an array is *)
(* checked by itself, and goes on as what is left of it within the array,  *)
(* together with element 0.                                                *)
(***************************************************************************)
GepBy(st, i, src, found) ==
    LET s == program.code[i]
        size == bufferRange(src.parent)
        index == IndexRange(found.range, s.args[2])
        escapes == s.op = "elem" /\ ~isSubset(index, size)
        asked == [st EXCEPT !.ranges = found.cache]
        checked == IF escapes THEN checkAccess(asked, i, src.cxt, index, size) ELSE asked
        inside == IF escapes THEN meet(index, size) ELSE index
        total == CASE s.op = "gep" -> index
                   [] isBottom(inside) -> Constant(0)
                   [] OTHER -> join(Constant(0), inside)
        offset == add(total, src.offset)
    IN  Forward(checkAccess(checked, i, src.cxt, offset, size), s.dst, src, offset)

handleGep(st, i, src) ==
    LET index == program.code[i].args[2]
    IN  GepBy(st, i, src, analyzeVarRange(program, formalBindings,
                                          Query(index, src.cxt, 0, st.ranges)))

\* A copy of the pointer, a store of it or a load from where it is.
handleCopyLike(st, i, src) ==
    Forward(checkAccess(st, i, src.cxt, src.offset, bufferRange(src.parent)),
            program.code[i].dst, src, src.offset)

\* The context of the pointer in the function is the call it came from.
handleCall(st, i, src) ==
    LET s == program.code[i]
        To(t, k) == IF s.args[k] # src.base THEN t
                    ELSE enqueue(t, program.funs[s.callee].formals[k], src.parent, src.offset,
                                 src.depth + 1, i)
    IN  IF src.depth >= MAX_CALL_DEPTH THEN st
        ELSE FoldLeft(To, st, [k \in DOMAIN s.args |-> k])

\* Returned to every caller, with the context it has in the function.
handleRet(st, i, src) == Forward(st, program.code[i].dst, src, src.offset)

\* The statements that use a pointer, kind by kind as the edges of a node are ordered.
OutEdges(base) ==
    LET Uses(ops) == InOrder({i \in DOMAIN program.code :
                        program.code[i].op \in ops /\ program.code[i].args[1] = base})
        Calls == InOrder({i \in DOMAIN program.code :
                    program.code[i].op = "call" /\ base \in ToSet(program.code[i].args)})
        Returns == InOrder(UNION {CallsOf(f) :
                        f \in {g \in DOMAIN program.funs : program.funs[g].ret = base}})
        As(kind, seq) == [k \in DOMAIN seq |-> [kind |-> kind, stmt |-> seq[k]]]
    IN  As("copy", Uses({"copy"})) \o As("copy", Uses({"store"})) \o As("copy", Uses({"load"}))
        \o As("call", Calls) \o As("ret", Returns) \o As("gep", Uses({"gep", "elem"}))

-----------------------------------------------------------------------------
Init ==
    /\ program \in Programs
    /\ phase = "initialize"
    /\ ranges = EmptyCache(program)
    /\ formalBindings = <<>>
    /\ flowState = <<>>
    /\ worklist = <<>>
    /\ pendingReports = <<>>
    /\ frames = <<>>
    /\ faults = {}

\* Every buffer, by itself and under the first calls of the function it is in.
initialize ==
    /\ phase = "initialize"
    /\ LET Seed(st, b) ==
               LET calls == InOrder(CallsOf(program.home[b]))
                   first == SubSeq(calls, 1, Min({Len(calls), MAX_SEED_CONTEXTS}))
               IN  FoldLeft(LAMBDA t, c : enqueue(t, b, b, Constant(0), 0, c), st,
                            <<NoContext>> \o first)
           st == FoldLeft(Seed, [flow |-> flowState, work |-> worklist],
                          program.buffers)
       IN  flowState' = st.flow /\ worklist' = st.work
    /\ phase' = "bind"
    /\ UNCHANGED <<program, ranges, formalBindings, pendingReports, frames, faults>>

\* The ranges of the numbers that calls pass, where they are known.
bindCallArguments ==
    /\ phase = "bind"
    /\ LET Bind(st, call) ==
               LET s == program.code[call[1]]
                   formal == program.funs[s.callee].formals[call[2]]
                   With(arg) ==
                       [ranges |-> arg.cache,
                        bound |-> IF arg.range = TOP \/ isBottom(arg.range) THEN st.bound
                                  ELSE (<<call[1], formal>> :> arg.range) @@ st.bound]
               IN  IF formal \in program.pointers THEN st
                   ELSE With(analyzeVarRange(program, st.bound,
                                Query(s.args[call[2]], NoContext, 0, st.ranges)))
           Args(i) == [k \in DOMAIN program.code[i].args |-> <<i, k>>]
           calls == InOrder(Contexts(program) \ {NoContext})
       IN  \E st \in {FoldLeft(Bind, [ranges |-> ranges, bound |-> formalBindings],
                               FlattenSeq([k \in DOMAIN calls |-> Args(calls[k])]))} :
               ranges' = st.ranges /\ formalBindings' = st.bound
    /\ phase' = "propagate"
    /\ UNCHANGED <<program, flowState, worklist, pendingReports, frames, faults>>

\* One pointer of the worklist, with everything that is done with it.
propagate ==
    /\ phase = "propagate"
    /\ worklist # <<>>
    /\ LET src == Head(worklist)
           Handle(st, e) == CASE e.kind = "copy" -> handleCopyLike(st, e.stmt, src)
                              [] e.kind = "call" -> handleCall(st, e.stmt, src)
                              [] e.kind = "ret" -> handleRet(st, e.stmt, src)
                              [] OTHER -> handleGep(st, e.stmt, src)
       IN  \E st \in {FoldLeft(Handle,
                               [flow |-> flowState, work |-> Tail(worklist), ranges |-> ranges,
                                reports |-> pendingReports],
                               OutEdges(src.base))} :
               /\ flowState' = st.flow
               /\ worklist' = st.work
               /\ ranges' = st.ranges
               /\ pendingReports' = st.reports
    /\ UNCHANGED <<program, phase, formalBindings, frames, faults>>

Frame(f, site, env) ==
    [fun |-> f, site |-> site, env |-> env,
     pc |-> Min({i \in DOMAIN program.code : FunOf(i) = f})]

\* A place that has a MUST loses its MAY; what the reports then say twice is left out.
flushReports ==
    /\ phase = "propagate"
    /\ worklist = <<>>
    /\ LET Same(r, m) == r.loc = m.loc /\ r.must = m.must /\ r.offset = m.offset
           Kept(k) ==
               LET r == pendingReports[k]
               IN  /\ r.must \/ ~\E m \in ToSet(pendingReports) : m.must /\ m.loc = r.loc
                   /\ ~\E j \in 1 .. k - 1 : Same(r, pendingReports[j])
           kept == InOrder({k \in DOMAIN pendingReports : Kept(k)})
       IN  pendingReports' = [n \in DOMAIN kept |-> pendingReports[kept[n]]]
    /\ phase' = "run"
    /\ frames' = <<Frame("main", NoContext, <<>>)>>
    /\ UNCHANGED <<program, ranges, formalBindings, flowState, worklist, faults>>

-----------------------------------------------------------------------------
(* The run of the program.  Its values are numbers and pointers [buf, off]. *)

Current == Head(frames)

Value(env, v) ==
    CASE v \in DOMAIN program.const -> program.const[v]
      [] v \in DOMAIN program.size -> [buf |-> v, off |-> 0]
      [] OTHER -> env[v]

Compare(op, x, y) ==
    CASE op = "LT" -> x < y [] op = "LE" -> x <= y [] op = "GT" -> x > y
      [] op = "GE" -> x >= y [] op = "EQ" -> x = y [] op = "NE" -> x # y

\* The value that a statement other than a call gives to its variable.
Results(s, env) ==
    LET x == Value(env, s.args[1])
        y == Value(env, s.args[2])
    IN  CASE s.op = "input" -> Inputs
          [] s.op \in {"load", "store", "copy"} -> {x}
          [] s.op \in {"gep", "elem"} -> {[x EXCEPT !.off = @ + y]}
          [] s.op \in Comparisons -> {Compare(s.op, x, y)}
          [] OTHER -> {CASE s.op = "add" -> x + y [] s.op = "sub" -> x - y
                         [] s.op = "mul" -> x * y [] s.op = "and" -> Number!BitAnd(x, y)}

\* Where a frame goes on after its statement; 0 at the end of its function.
After(fr, env) ==
    LET b == program.code[fr.pc].bb
        block == program.blocks[b]
        First(c) == Min({i \in DOMAIN program.code : program.code[i].bb = c})
    IN  CASE fr.pc + 1 \in DOMAIN program.code /\ program.code[fr.pc + 1].bb = b -> fr.pc + 1
          [] OTHER -> CASE Len(block.succ) = 0 -> 0
                        [] Len(block.succ) = 1 -> First(block.succ[1])
                        [] OTHER -> First(block.succ[IF env[block.cond] THEN 1 ELSE 2])

Done(fr, dst, value) ==
    LET env == (dst :> value) @@ fr.env
    IN  [fr EXCEPT !.env = env, !.pc = After(fr, env)]

Outside(ptr) == ptr.off \notin 0 .. program.size[ptr.buf] - 1

\* A statement that computes an address outside of its buffer ends the run.
Execute ==
    /\ phase = "run"
    /\ frames # <<>>
    /\ Current.pc # 0
    /\ LET s == program.code[Current.pc]
       IN  /\ s.op # "call"
           /\ \E value \in Results(s, Current.env) :
                 IF s.dst \in program.pointers /\ Outside(value)
                 THEN /\ faults' = {[loc |-> Current.pc, site |-> Current.site, value |-> value]}
                      /\ frames' = <<>>
                 ELSE /\ s.dst \notin program.pointers /\ s.op \notin Comparisons =>
                             value \in -MaxVal .. MaxVal
                      /\ frames' = <<Done(Current, s.dst, value)>> \o Tail(frames)
                      /\ UNCHANGED faults
    /\ UNCHANGED <<program, phase, ranges, formalBindings, flowState, worklist, pendingReports>>

Call ==
    /\ phase = "run"
    /\ frames # <<>>
    /\ Current.pc # 0
    /\ Len(frames) < MaxFrames
    /\ LET s == program.code[Current.pc]
           formals == program.funs[s.callee].formals
           env == [v \in ToSet(formals) |->
                      Value(Current.env, s.args[Min({k \in DOMAIN formals : formals[k] = v})])]
       IN  /\ s.op = "call"
           /\ frames' = <<Frame(s.callee, Current.pc, env)>> \o frames
    /\ UNCHANGED <<program, phase, ranges, formalBindings, flowState, worklist, pendingReports,
                   faults>>

Return ==
    /\ phase = "run"
    /\ frames # <<>>
    /\ Current.pc = 0
    /\ frames' = IF Len(frames) = 1 THEN <<>>
                 ELSE LET caller == frames[2]
                          s == program.code[caller.pc]
                          value == IF program.funs[s.callee].ret = NoVar THEN 0
                                   ELSE Value(Current.env, program.funs[s.callee].ret)
                      IN  <<Done(caller, s.dst, value)>> \o SubSeq(frames, 3, Len(frames))
    /\ UNCHANGED <<program, phase, ranges, formalBindings, flowState, worklist, pendingReports,
                   faults>>

Next ==
    \/ initialize \/ bindCallArguments \/ propagate \/ flushReports
    \/ Execute \/ Call \/ Return

Spec == Init /\ [][Next]_vars

-----------------------------------------------------------------------------
(* Properties *)

\* An address that the run computes outside of its buffer is reported where it is
\* computed (BufferOverflowChecker::checkAccess).
OverflowsReported ==
    \A f \in faults : \E r \in ToSet(pendingReports) : r.loc = f.loc

\* Report r says that the address made at its place has to be outside of a buffer that
\* the address the run has made there is inside of.
Refuted(r) ==
    LET dst == program.code[r.loc].dst
    IN  /\ r.must
        /\ FunOf(r.loc) = Current.fun
        /\ r.cxt \in CallsOf(Current.fun) => r.cxt = Current.site
        /\ program.code[r.loc].op # "store"
        /\ dst \in DOMAIN Current.env
        /\ bufferRange(Current.env[dst].buf) = r.size

\* A MUST is certain: in the call it was found for, the run computes no address there that
\* is inside of the buffer (BufferOverflowChecker::checkAccess).  It holds where nothing more
\* was learnt of the pointer after the report was made.
MustIsCertain ==
    phase = "run" /\ frames # <<>> =>
        \A r \in ToSet(pendingReports) :
            LET base == program.code[r.loc].args[1]
            IN  Refuted(r) =>
                    \E key \in DOMAIN flowState :
                        key[2] = base /\ key[3] = r.cxt /\ flowState[key].visits > 1

\* The same of every MUST.
EveryMustIsCertain ==
    phase = "run" /\ frames # <<>> => \A r \in ToSet(pendingReports) : ~Refuted(r)
=============================================================================
