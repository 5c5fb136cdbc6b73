-------------------------------- MODULE Emit --------------------------------
(***************************************************************************)
(* The compiler (tamal-lang lib.rs and emit.rs) from the tokens of a .tam  *)
(* source to a program.  The recursive descent of the emitter over the     *)
(* statements is a stack of work, innermost first; a step lowers one       *)
(* statement, one target of a recv, or opens or closes one frame, proc or  *)
(* repeat iteration.  An error is fatal: the emitter's state is abandoned. *)
(***************************************************************************)
EXTENDS ConstEval, RegAlloc

CONSTANTS
    MaxEmittedLines,    \* 4096 in the code
    MaxExpansions       \* 65536 in the code

ASSUME BudgetsAssumption == MaxEmittedLines \in Nat /\ MaxExpansions \in Nat

VARIABLES
    source,     \* the tokens of the .tam source
    phase,      \* the stage of the driver
    module,     \* the parsed module
    em,         \* the emitter: text, allocator, trailers, open frames, ...
    todo,       \* the work the emitter has still to do, innermost first
    diags,      \* the diagnostics of a failed compilation
    program     \* the words of a successful one, with the asm lines they are from

vars == <<source, phase, module, em, todo, diags, program>>

NewEmitter(env) ==
    [text |-> <<>>, alloc |-> NewAlloc, gensym |-> 0, trailers |-> <<>>,
     frames |-> <<>>, env |-> env, active |-> <<>>, expansions |-> 0, sites |-> <<>>]

WaitStateCode == 15

\* What may not stand in a frame: it would strand CS#, or retune the link.
NotInFrame == {"pass", "fail", "config", "frame"}

-----------------------------------------------------------------------------
(* The driver's checks, lib.rs.                                            *)

CheckCallableName(f) ==
    IF f.name \in Builtins \cup Statements THEN Err(Diag(f.at, "reserved name")) ELSE Ok(f)

DefineFns(mod) ==
    LET Define(r, f) == Bind(r, LAMBDA env : Bind(CheckCallableName(f), LAMBDA ok :
            IF f.name \in DOMAIN env.fns THEN Err(Diag(f.at, "duplicate fn"))
            ELSE Ok([env EXCEPT !.fns = (f.name :> f) @@ @])))
    IN  FoldLeft(Define, Ok(EmptyEnv), mod.fns)

\* A proc shares one namespace with the fns and the procs before it.
CheckProcs(mod, env) ==
    LET Check(r, n) == Bind(r, LAMBDA ok : Bind(CheckCallableName(mod.procs[n]), LAMBDA p :
            IF \/ p.name \in DOMAIN env.fns
               \/ \E m \in 1..n-1 : mod.procs[m].name = p.name
            THEN Err(Diag(p.at, "duplicate name")) ELSE Ok(env)))
    IN  FoldLeft(Check, Ok(env), Indices(mod.procs))

\* In source order: a constant sees the ones above it.
ResolveConsts(mod, start) ==
    LET Define(r, c) == Bind(r, LAMBDA env :
            IF c.name \in DOMAIN env.consts THEN Err(Diag(c.at, "duplicate const"))
            ELSE Bind(Eval(c.value, env), LAMBDA v :
                      Ok([env EXCEPT !.consts = (c.name :> v) @@ @])))
    IN  FoldLeft(Define, Ok(start), mod.consts)

Halts(stmt) == stmt.s \in {"pass", "fail"} \/ (stmt.s = "raw" /\ stmt.name = "halt")

\* One test, with a verdict at its top level.
CheckTest(mod, env) ==
    CASE Len(mod.tests) # 1 ->
           Err(Diag(IF mod.tests = <<>> THEN 0 ELSE mod.tests[2].at, "exactly one test"))
      [] Len(mod.tests) = 1 ->
           IF \E n \in DOMAIN mod.tests[1].stmts : Halts(mod.tests[1].stmts[n])
           THEN Ok(env) ELSE Err(Diag(mod.tests[1].at, "never halts"))

Resolve(mod) ==
    Bind(DefineFns(mod), LAMBDA fns :
    Bind(CheckProcs(mod, fns), LAMBDA checked :
    Bind(ResolveConsts(mod, checked), LAMBDA env : CheckTest(mod, env))))

-----------------------------------------------------------------------------
(* The emitter's helpers.  Each is given an emitter and returns one.       *)

AsmLine(name, operands) ==
    LET Step(line, o) == IF Len(line) = 1 THEN Append(line, o) ELSE line \o <<Comma, o>>
    IN  FoldLeft(Step, <<Id(name)>>, operands)

Reg(r) == Id(XNames[r + 1])
LabelLine(label) == <<Id(label), Colon>>

\* The outermost expansion in progress is blamed, the rest of the chain and
\* the place where the budget ran out are labels.
BudgetError(e, site, why) ==
    LET chain == Append(e.sites, site)
    IN  [Diag(chain[1], why) EXCEPT !.also = ToSet(chain) \ {chain[1]}]

Push(e, line, at) ==
    IF Len(e.text) >= MaxEmittedLines THEN Err(BudgetError(e, at, "too many lines"))
    ELSE Ok([e EXCEPT !.text = Append(@, [line |-> line, at |-> at])])

PushAll(e, lines, at) ==
    LET Step(r, line) == Bind(r, LAMBDA x : Push(x, line, at))
    IN  FoldLeft(Step, Ok(e), lines)

\* The lowest free register, or no program: there is no spill.
Lowest(e, at) ==
    IF FreeRegs(e.alloc) = {} THEN Err(Diag(at, "out of registers"))
    ELSE Ok(LowestFree(e.alloc))

\* A register for a name, or a scratch register for none.
TakeFor(e, name, at) ==
    Bind(Lowest(e, at), LAMBDA r :
         Ok([e |-> [e EXCEPT !.alloc = IF name = Discard THEN Temp(@, r)
                                        ELSE BindReg(@, name, r)], r |-> r]))
Release(e, r) == [e EXCEPT !.alloc = Free(@, r)]

EnterExpansion(e, site) ==
    IF e.expansions >= MaxExpansions THEN Err(BudgetError(e, site, "too many expansions"))
    ELSE Ok([e EXCEPT !.expansions = @ + 1, !.sites = Append(@, site),
                      !.alloc = EnterScope(@)])

DeferredRegs(e) ==
    IF e.frames = <<>> THEN {} ELSE {d.reg : d \in ToSet(Last(e.frames))}

NothingReserved(e) == e       \* a plausible bug, for the mutants

\* Take again the registers the open frame's verdicts will branch on.
ReserveDeferred(e) == [e EXCEPT !.alloc = ReserveAll(@, DeferredRegs(e))]

ExitExpansion(e) ==
    ReserveDeferred([e EXCEPT !.sites = Front(@), !.alloc = ExitScope(@)])

-----------------------------------------------------------------------------
(* Lowering of one statement.                                              *)

PutBytes(e, bytes, at) ==
    PushAll(e, [n \in DOMAIN bytes |-> AsmLine("put_byte", <<Num(bytes[n])>>)], at)
WithCrc(bytes) == Append(bytes, Crc8(bytes))

LowerSend(e, s) ==
    Bind(EvalBytes(s.bytes, e.env), LAMBDA b :
         PutBytes(e, IF s.crc THEN WithCrc(b) ELSE b, s.at))

LowerRegion(e, s) ==
    LET Step(r, x) == Bind(r, LAMBDA b : Bind(EvalBytes(x, e.env), LAMBDA more : Ok(b \o more)))
    IN  Bind(FoldLeft(Step, Ok(<<>>), s.sends), LAMBDA b : PutBytes(e, WithCrc(b), s.at))

\* A named byte keeps its register to the end of the scope.
LowerTarget(e, name, at) ==
    Bind(TakeFor(e, name, at), LAMBDA x :
    Bind(Push(x.e, AsmLine("get_byte", <<Reg(x.r)>>), at), LAMBDA e2 :
         Ok(IF name = Discard THEN Release(e2, x.r) ELSE e2)))

LowerWaitState(e, s) ==
    LET label == "__wait" \o ToString(e.gensym)
        labelled == PushAll([e EXCEPT !.gensym = @ + 1],
                            <<LabelLine(label), AsmLine("crc_reset", <<>>)>>, s.at)
    IN  Bind(labelled, LAMBDA e1 :
        Bind(TakeFor(e1, s.bind, s.at), LAMBDA resp :
        Bind(Push(resp.e, AsmLine("get_byte", <<Reg(resp.r)>>), s.at), LAMBDA e2 :
        Bind(TakeFor(e2, Discard, s.at), LAMBDA k :
        Bind(PushAll(k.e, <<AsmLine("li", <<Reg(k.r), Num(WaitStateCode)>>),
                            AsmLine("beq", <<Reg(resp.r), Reg(k.r), Id(label)>>)>>, s.at),
             LAMBDA e3 : Ok(IF s.bind = Discard THEN Release(Release(e3, k.r), resp.r)
                            ELSE Release(e3, k.r)))))))

\* The CRC byte is consumed, the residue latched, the verdict deferred.
LowerExpect(e, s) ==
    IF e.frames = <<>> THEN Err(Diag(s.at, "must appear inside a frame"))
    ELSE Bind(EvalByte(s.else, e.env), LAMBDA code :
         Bind(LowerTarget(e, Discard, s.at), LAMBDA e1 :
         Bind(TakeFor(e1, Discard, s.at), LAMBDA res :
         Bind(Push(res.e, AsmLine("rdsr", <<Reg(res.r), Id("crc")>>), s.at), LAMBDA e2 :
         LET verdict == [reg |-> res.r, code |-> code, at |-> s.at,
                         label |-> "__fail" \o ToString(e2.gensym)]
         IN  Ok([e2 EXCEPT !.gensym = @ + 1,
                           !.frames = Append(Front(@), Append(Last(@), verdict))])))))

\* CS# rises before any verdict is branched on.
CloseFrame(e, at) ==
    LET verdicts == Last(e.frames)
        Branch(r, d) == Bind(r, LAMBDA x :
            Bind(Push(x, AsmLine("bnez", <<Reg(d.reg), Id(d.label)>>), d.at), LAMBDA y :
                 Ok([y EXCEPT !.trailers = Append(@, d)])))
        closed == Push([e EXCEPT !.frames = Front(@)], AsmLine("cs_deassert", <<>>), at)
    IN  Bind(FoldLeft(Branch, closed, verdicts), LAMBDA x :
             Ok([x EXCEPT !.alloc = ExitScope(@)]))

\* The fail halts, behind the code of the test.
FlushTrailers(e) ==
    LET Step(r, d) == Bind(r, LAMBDA x :
            PushAll(x, <<LabelLine(d.label), AsmLine("halt", <<Num(d.code)>>)>>, d.at))
    IN  FoldLeft(Step, Ok([e EXCEPT !.trailers = <<>>]), e.trailers)

\* The proc a call names, its scope opened and its parameters bound.
ExpandCall(e, s, procs) ==
    LET found == {p \in ToSet(procs) : p.name = s.name}
        proc == CHOOSE p \in found : TRUE
    IN  CASE s.name \in DOMAIN e.env.fns -> Err(Diag(s.at, "a fn is not a statement"))
          [] s.name \notin DOMAIN e.env.fns /\ found = {} -> Err(Diag(s.at, "unknown proc"))
          [] s.name \in ToSet(e.active) -> Err(Diag(s.at, "recursion"))
          [] OTHER ->
               Bind(BindArgs(s.name, proc.params, s.args, e.env, s.at), LAMBDA bindings :
               Bind(EnterExpansion(e, s.at), LAMBDA e1 :
                    Ok([e |-> [e1 EXCEPT !.env = ChildForCallValues(@, bindings),
                                         !.active = Append(@, s.name)],
                        body |-> proc.body])))

-----------------------------------------------------------------------------
(* The steps.                                                              *)

Init == /\ phase = "parse" /\ module = NoItems /\ em = NewEmitter(EmptyEnv)
        /\ todo = <<>> /\ diags = <<>> /\ program = <<>>

Fail(found) ==
    /\ phase' = "failed" /\ diags' = found
    /\ UNCHANGED <<source, module, em, todo, program>>

Entry == module.tests[1].at

Work(kind, s) == [w |-> kind, s |-> s]
StmtWork(stmts) == [n \in DOMAIN stmts |-> Work("stmt", stmts[n])]

ParseSource ==
    /\ phase = "parse"
    /\ LET r == ParseModule(source)
       IN  IF ~IsOk(r) THEN Fail(<<r.err>>)
           ELSE /\ module' = r.ok /\ phase' = "resolve"
                /\ UNCHANGED <<source, em, todo, diags, program>>

ResolveModule ==
    /\ phase = "resolve"
    /\ LET r == Resolve(module)
       IN  IF ~IsOk(r) THEN Fail(<<r.err>>)
           ELSE /\ em' = NewEmitter(r.ok) /\ phase' = "emit"
                /\ todo' = <<Work("prologue", <<>>)>> \o StmtWork(module.tests[1].stmts)
                             \o <<Work("trailers", <<>>)>>
                /\ UNCHANGED <<source, module, diags, program>>

\* Go on with the emitter in r and this work to do, or fail.
GoOn(r, work) ==
    IF ~IsOk(r) THEN Fail(<<r.err>>)
    ELSE /\ em' = r.ok /\ todo' = work
         /\ UNCHANGED <<source, phase, module, diags, program>>

Due(kind) == phase = "emit" /\ todo # <<>> /\ Head(todo).w = kind
Stmt == Head(todo).s
Illegal == em.frames # <<>> /\ Stmt.s \in NotInFrame
OnStmt(kind) == Due("stmt") /\ Stmt.s = kind /\ ~Illegal

NotAllowedInFrame ==
    /\ Due("stmt") /\ Illegal
    /\ Fail(<<Diag(IF Stmt.s = "pass" THEN Entry ELSE Stmt.at, "not allowed in a frame")>>)

Prologue ==
    /\ Due("prologue")
    /\ GoOn(PushAll(em, << <<Dir("globl"), Id("_start")>>, LabelLine("_start")>>, Entry),
            Tail(todo))

EmitPass == OnStmt("pass") /\ GoOn(Push(em, AsmLine("halt", <<Num(0)>>), Entry), Tail(todo))
EmitFail == OnStmt("fail") /\ GoOn(Push(em, AsmLine("halt", <<Stmt.code>>), Stmt.at), Tail(todo))
EmitRaw ==
    OnStmt("raw") /\ GoOn(Push(em, AsmLine(Stmt.name, Stmt.operands), Stmt.at), Tail(todo))
EmitSend == OnStmt("send") /\ GoOn(LowerSend(em, Stmt), Tail(todo))
EmitRegion == OnStmt("crc_region") /\ GoOn(LowerRegion(em, Stmt), Tail(todo))
EmitConfig ==
    OnStmt("config") /\ GoOn(Push(em, AsmLine("set_config", Stmt.words), Stmt.at), Tail(todo))
EmitWaitState == OnStmt("wait_state") /\ GoOn(LowerWaitState(em, Stmt), Tail(todo))
EmitExpect == OnStmt("expect") /\ GoOn(LowerExpect(em, Stmt), Tail(todo))

BeginRecv ==
    /\ OnStmt("recv")
    /\ GoOn(Ok(em), [n \in DOMAIN Stmt.targets |->
                       Work("target", [name |-> Stmt.targets[n], at |-> Stmt.at])] \o Tail(todo))
RecvTarget == Due("target") /\ GoOn(LowerTarget(em, Stmt.name, Stmt.at), Tail(todo))

BeginFrame ==
    /\ OnStmt("frame")
    /\ GoOn(Bind(Push(em, AsmLine("cs_assert", <<>>), Stmt.at), LAMBDA e :
                 Ok([e EXCEPT !.alloc = EnterScope(@), !.frames = Append(@, <<>>)])),
            StmtWork(Stmt.body) \o <<Work("endframe", [at |-> Stmt.at])>> \o Tail(todo))
EndFrame == Due("endframe") /\ GoOn(CloseFrame(em, Stmt.at), Tail(todo))

CallProc ==
    /\ OnStmt("call")
    /\ LET r == ExpandCall(em, Stmt, module.procs)
       IN  IF ~IsOk(r) THEN Fail(<<r.err>>)
           ELSE GoOn(Ok(r.ok.e), StmtWork(r.ok.body)
                       \o <<Work("endproc", [env |-> em.env])>> \o Tail(todo))
\* The caller's scope comes back and the expansion's registers are freed.
EndProc ==
    /\ Due("endproc")
    /\ GoOn(Ok(ExitExpansion([em EXCEPT !.env = Stmt.env, !.active = Front(@)])), Tail(todo))

\* The count is evaluated once, before the first iteration.
BeginRepeat ==
    /\ OnStmt("repeat")
    /\ LET count == Bind(EvalInt(Stmt.count, em.env), LAMBDA n :
                         IF n \in 0..MaxUnroll THEN Ok(n)
                         ELSE Err(Diag(Stmt.count.at, "repeat count out of range")))
       IN  IF ~IsOk(count) THEN Fail(<<count.err>>)
           ELSE GoOn(Ok(em), <<Work("iterate", [left |-> count.ok, body |-> Stmt.body,
                                                at |-> Stmt.at])>> \o Tail(todo))
Iterate ==
    /\ Due("iterate")
    /\ IF Stmt.left = 0 THEN GoOn(Ok(em), Tail(todo))
       ELSE GoOn(EnterExpansion(em, Stmt.at),
                 StmtWork(Stmt.body) \o <<Work("endrepeat", <<>>),
                     Work("iterate", [Stmt EXCEPT !.left = @ - 1])>> \o Tail(todo))
EndIteration == Due("endrepeat") /\ GoOn(Ok(ExitExpansion(em)), Tail(todo))

EmitTrailers == Due("trailers") /\ GoOn(FlushTrailers(em), Tail(todo))

-----------------------------------------------------------------------------
(* The back end: assemble the text, and re-point what it complains about.  *)

AsmText(e) == FlattenSeq([n \in DOMAIN e.text |-> Append(e.text[n].line, NL)])

\* The line an asm token is on; past the end, the last one.
LineOf(e, at) ==
    LET EndsBefore(n) == Len(AsmText([e EXCEPT !.text = SubSeq(@, 1, n)])) < at
        on == {n \in DOMAIN e.text : ~EndsBefore(n)}
    IN  IF on = {} THEN Len(e.text) ELSE CHOOSE n \in on : \A m \in on : n <= m

\* A plausible bug, for the mutants: the span of the line after.
NextLineSpan(e, at) ==
    LET n == LineOf(e, at) IN e.text[IF n < Len(e.text) THEN n + 1 ELSE n].at

TamSpan(e, at) == e.text[LineOf(e, at)].at
Remap(e, found) ==
    [n \in DOMAIN found |->
        [found[n] EXCEPT !.at = TamSpan(e, @), !.also = {TamSpan(e, a) : a \in @}]]

\* A literal spelled with separators, or past an i64, stops the asm lexer.
UnlexedAt(text) ==
    {n \in DOMAIN text : text[n].k = "num" /\ ("spaced" \in DOMAIN text[n] \/ text[n].n[1] < 0)}

AssembleText(text) ==
    LET bad == UnlexedAt(text)
    IN  IF bad = {} THEN Assemble(text)
        ELSE Err(<<Diag(CHOOSE n \in bad : \A m \in bad : n <= m, "invalid number literal")>>)

Backend ==
    /\ phase = "emit" /\ todo = <<>>
    /\ LET r == AssembleText(AsmText(em))
       IN  IF ~IsOk(r) THEN Fail(Remap(em, r.err))
           ELSE /\ program' = r.ok.instrs /\ phase' = "done"
                /\ UNCHANGED <<source, module, em, todo, diags>>

Next ==
    \/ ParseSource \/ ResolveModule \/ Prologue \/ NotAllowedInFrame
    \/ EmitPass \/ EmitFail \/ EmitRaw \/ EmitSend \/ EmitRegion \/ EmitConfig
    \/ EmitWaitState \/ EmitExpect \/ BeginRecv \/ RecvTarget
    \/ BeginFrame \/ EndFrame \/ CallProc \/ EndProc
    \/ BeginRepeat \/ Iterate \/ EndIteration \/ EmitTrailers \/ Backend

\* Scopes opened inside the open frame, for the depth of the frame's own one.
FrameDepth ==
    IF em.frames = <<>> THEN 0
    ELSE LET ends == {n \in DOMAIN todo : todo[n].w = "endframe"}
             frameEnd == CHOOSE n \in ends : \A m \in ends : n <= m
         IN  Depth(em.alloc) - Cardinality(
                 {n \in 1..frameEnd : todo[n].w \in {"endproc", "endrepeat"}})

Spec == Init /\ [][Next]_vars

=============================================================================
