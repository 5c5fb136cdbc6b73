---------------------------- MODULE AllocClient ----------------------------
(***************************************************************************)
(* The allocator as the emitter uses it (emit.rs): temporaries are freed   *)
(* in the scope that took them, a verdict latched by an expect keeps its   *)
(* register until the frame's exit, and every expansion scope is closed by *)
(* exit_expansion_scope, which takes the pending registers again.          *)
(***************************************************************************)
EXTENDS RegAlloc

CONSTANTS Names, MaxDepth       \* MaxDepth bounds the scopes of a run

VARIABLES
    alloc,      \* the allocator
    pending,    \* registers the open frame's verdicts will branch on
    frame       \* the depth of the open frame's scope, 0 when none is open

vars == <<alloc, pending, frame>>

Init == alloc = NewAlloc /\ pending = {} /\ frame = 0

\* lower_frame up to the body; frames do not nest.
OpenFrame ==
    /\ frame = 0 /\ Depth(alloc) < MaxDepth
    /\ alloc' = EnterScope(alloc)
    /\ frame' = Depth(alloc) + 1
    /\ UNCHANGED pending

\* The frame's own exit comes after its verdicts.
CloseFrame ==
    /\ frame # 0 /\ Depth(alloc) = frame
    /\ alloc' = ExitScope(alloc)
    /\ pending' = {} /\ frame' = 0

OpenExpansion ==
    /\ Depth(alloc) < MaxDepth
    /\ alloc' = EnterScope(alloc)
    /\ UNCHANGED <<pending, frame>>

CloseExpansion ==
    /\ Depth(alloc) > 1 /\ Depth(alloc) > frame
    /\ alloc' = ReserveAll(ExitScope(alloc), pending)
    /\ UNCHANGED <<pending, frame>>

BindName ==
    \E name \in Names, r \in Registers :
        /\ IsLowestFree(alloc, r)
        /\ alloc' = BindReg(alloc, name, r)
        /\ UNCHANGED <<pending, frame>>

\* A scratch register, taken and freed within one statement.
Scratch ==
    \E r \in Registers :
        /\ IsLowestFree(alloc, r)
        /\ alloc' = Free(Temp(alloc, r), r)
        /\ UNCHANGED <<pending, frame>>

\* lower_expect: the residue's register lives until the frame's exit.
Latch ==
    \E r \in Registers :
        /\ frame # 0
        /\ IsLowestFree(alloc, r)
        /\ alloc' = Temp(alloc, r)
        /\ pending' = pending \cup {r}
        /\ UNCHANGED frame

Next ==
    OpenFrame \/ CloseFrame \/ OpenExpansion \/ CloseExpansion
      \/ BindName \/ Scratch \/ Latch

Spec == Init /\ [][Next]_vars

-----------------------------------------------------------------------------

Scope == [regs : SUBSET Registers, names : SUBSET Names]
Bindings == UNION {[bound -> Registers] : bound \in SUBSET Names}

TypeOK ==
    /\ alloc \in [busy : SUBSET Registers, scopes : Seq(Scope), bindings : Bindings]
    /\ Depth(alloc) >= 1
    /\ pending \subseteq Registers
    /\ frame \in {0} \cup 2..Depth(alloc)     \* never the root scope
    /\ frame = 0 => pending = {}

\* The registers marked busy are exactly those some open scope owns.
BusyIsOwned ==
    alloc.busy = UNION {alloc.scopes[n].regs : n \in 1..Depth(alloc)}

\* Only a pending verdict's register is owned twice, and by no scope outside
\* its frame: leaving a scope frees nothing that is still to be read.
OwnersAgree ==
    /\ \A m, n \in 1..Depth(alloc) :
         m # n => alloc.scopes[m].regs \cap alloc.scopes[n].regs \subseteq pending
    /\ \A n \in 1..Depth(alloc) :
         n < frame => alloc.scopes[n].regs \cap pending = {}

\* A bound name's register is owned by the scope that bound the name, and is
\* no verdict's: no other value can be written over it while it is bound.
NamesAreHeld ==
    \A name \in DOMAIN alloc.bindings :
        /\ alloc.bindings[name] \notin pending
        /\ \E n \in 1..Depth(alloc) :
             /\ name \in alloc.scopes[n].names
             /\ alloc.bindings[name] \in alloc.scopes[n].regs

\* Whatever is live - a bound name, a pending verdict - has a busy register,
\* across every nesting of frames, procs and repeats (regalloc.rs, emit.rs
\* exit_expansion_scope).
AllocSound ==
    /\ pending \subseteq alloc.busy
    /\ BusyIsOwned /\ OwnersAgree /\ NamesAreHeld

=============================================================================
