------------------------------ MODULE RegAlloc ------------------------------
(***************************************************************************)
(* The register allocator of the language (tamal-lang regalloc.rs): a      *)
(* stack of scopes over x1 .. x(NumRegs-1), x0 never handed out, the lowest*)
(* free register first.  An allocator a is a record: the busy registers,   *)
(* the scopes, innermost last, with the registers and names each owns, and *)
(* the register every bound name has.                                      *)
(***************************************************************************)
EXTENDS Integers, Sequences

CONSTANT NumRegs        \* 16 in the code

ASSUME NumRegsAssumption == NumRegs \in Nat \ {0}

Registers == 1..NumRegs-1

EmptyScope == [regs |-> {}, names |-> {}]

NewAlloc == [busy |-> {}, scopes |-> <<EmptyScope>>, bindings |-> <<>>]

Depth(a) == Len(a.scopes)
Innermost(a) == a.scopes[Depth(a)]

EnterScope(a) ==
    [busy |-> a.busy, scopes |-> Append(a.scopes, EmptyScope),
     bindings |-> a.bindings]

\* The innermost scope's registers become free and its names unbound, even a
\* name that had shadowed an outer one; the root scope is never popped.
ExitScope(a) ==
    IF Depth(a) <= 1 THEN a
    ELSE [busy |-> a.busy \ Innermost(a).regs,
          scopes |-> SubSeq(a.scopes, 1, Depth(a) - 1),
          bindings |-> [n \in DOMAIN a.bindings \ Innermost(a).names |->
                          a.bindings[n]]]

FreeRegs(a) == Registers \ a.busy
IsLowestFree(a, r) == r \in FreeRegs(a) /\ \A m \in FreeRegs(a) : r <= m
LowestFree(a) == CHOOSE r \in FreeRegs(a) : IsLowestFree(a, r)

\* The allocator with other busy registers, innermost scope and bindings.
With(a, busy, scope, bindings) ==
    [busy |-> busy, scopes |-> [a.scopes EXCEPT ![Depth(a)] = scope],
     bindings |-> bindings]

\* Mark the registers busy and put them, with the names, in the scope.
Own(a, regs, names, bindings) ==
    With(a, a.busy \cup regs,
         [regs |-> Innermost(a).regs \cup regs,
          names |-> Innermost(a).names \cup names], bindings)

Temp(a, r) == Own(a, {r}, {}, a.bindings)

BindReg(a, name, r) ==
    Own(a, {r}, {name}, [n \in DOMAIN a.bindings \cup {name} |->
                           IF n = name THEN r ELSE a.bindings[n]])

\* An early release: it takes r from the innermost scope alone.
Free(a, r) ==
    With(a, a.busy \ {r},
         [regs |-> Innermost(a).regs \ {r}, names |-> Innermost(a).names],
         a.bindings)

\* Take the registers again in the innermost scope: a loop of reserve calls.
ReserveAll(a, regs) == Own(a, regs, {}, a.bindings)

=============================================================================
