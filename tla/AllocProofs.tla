---------------------------- MODULE AllocProofs ----------------------------
(***************************************************************************)
(* AllocSound is an invariant of the emitter's use of the allocator, for   *)
(* every number of registers, set of names and depth of nesting.  With     *)
(* TypeOK it is inductive.                                                 *)
(***************************************************************************)
EXTENDS AllocClient, TLAPS

IInv == TypeOK /\ AllocSound

\* What an allocator is, and what TypeOK says of the one the emitter holds.
Allocators == [busy : SUBSET Registers, scopes : Seq(Scope), bindings : Bindings]

\* What opening a scope does to the parts of an allocator.
LEMMA EnterParts ==
    ASSUME NEW a \in Allocators, Depth(a) >= 1, NEW b, b = EnterScope(a)
    PROVE  /\ b \in Allocators
           /\ b.busy = a.busy /\ b.bindings = a.bindings
           /\ Depth(b) = Depth(a) + 1
           /\ \A n \in 1..Depth(a) : b.scopes[n] = a.scopes[n]
           /\ b.scopes[Depth(a) + 1] = EmptyScope
  <1>1. EmptyScope \in Scope
    BY DEF EmptyScope, Scope
  <1>2. b = [busy |-> a.busy, scopes |-> Append(a.scopes, EmptyScope),
             bindings |-> a.bindings]
    BY DEF EnterScope, Allocators
  <1>3. a.scopes \in Seq(Scope) /\ a.busy \in SUBSET Registers
          /\ a.bindings \in Bindings
    BY DEF Allocators
  <1>4. b.scopes \in Seq(Scope)
    BY <1>1, <1>2, <1>3
  <1> QED
    BY <1>1, <1>2, <1>3, <1>4 DEF Depth, Allocators

\* What leaving a scope that is not the root does to them.
LEMMA ExitParts ==
    ASSUME NEW a \in Allocators, Depth(a) > 1, NEW b, b = ExitScope(a)
    PROVE  /\ b \in Allocators
           /\ b.busy = a.busy \ a.scopes[Depth(a)].regs
           /\ Depth(b) = Depth(a) - 1
           /\ \A n \in 1..Depth(a) - 1 : b.scopes[n] = a.scopes[n]
           /\ DOMAIN b.bindings =
                    DOMAIN a.bindings \ a.scopes[Depth(a)].names
           /\ \A n \in DOMAIN b.bindings : b.bindings[n] = a.bindings[n]
  <1> DEFINE top == a.scopes[Depth(a)]
             bound == DOMAIN a.bindings \ top.names
  <1>1. b = [busy |-> a.busy \ top.regs,
             scopes |-> SubSeq(a.scopes, 1, Depth(a) - 1),
             bindings |-> [n \in bound |-> a.bindings[n]]]
    BY DEF ExitScope, Innermost, Depth, Allocators
  <1>2. a.scopes \in Seq(Scope) /\ a.busy \in SUBSET Registers
          /\ a.bindings \in Bindings
    BY DEF Allocators
  <1>3. PICK dom \in SUBSET Names : a.bindings \in [dom -> Registers]
    BY <1>2 DEF Bindings
  <1>4. [n \in bound |-> a.bindings[n]] \in [bound -> Registers]
    BY <1>3
  <1>5. bound \in SUBSET Names
    BY <1>3
  <1>6. [n \in bound |-> a.bindings[n]] \in Bindings
    BY <1>4, <1>5 DEF Bindings
  <1>7. SubSeq(a.scopes, 1, Depth(a) - 1) \in Seq(Scope)
    BY <1>2 DEF Depth
  <1>8. /\ Len(SubSeq(a.scopes, 1, Depth(a) - 1)) = Depth(a) - 1
        /\ \A n \in 1..Depth(a) - 1 :
             SubSeq(a.scopes, 1, Depth(a) - 1)[n] = a.scopes[n]
    BY <1>2 DEF Depth
  <1> QED
    BY <1>1, <1>2, <1>6, <1>7, <1>8 DEF Depth, Allocators

\* What giving the innermost scope registers and names does to them.
LEMMA OwnParts ==
    ASSUME NEW a, NEW regs, NEW names, NEW bindings, NEW b, NEW d,
           b = Own(a, regs, names, bindings), d = Depth(a), d >= 1,
           a \in Allocators, regs \subseteq Registers, names \subseteq Names,
           bindings \in Bindings
    PROVE  /\ b.busy = a.busy \cup regs /\ b.bindings = bindings
           /\ b \in Allocators
           /\ Depth(b) = d
           /\ \A n \in 1..d-1 : b.scopes[n] = a.scopes[n]
           /\ b.scopes[d].regs = a.scopes[d].regs \cup regs
           /\ b.scopes[d].names = a.scopes[d].names \cup names
  <1> DEFINE top == [regs |-> a.scopes[d].regs \cup regs,
                     names |-> a.scopes[d].names \cup names]
  <1>1. a.scopes \in Seq(Scope) /\ a.busy \in SUBSET Registers
          /\ d \in 1..Len(a.scopes) /\ d = Len(a.scopes)
    BY DEF Allocators, Depth
  <1>2. b = [busy |-> a.busy \cup regs,
             scopes |-> [a.scopes EXCEPT ![d] = top], bindings |-> bindings]
    BY DEF Own, With, Innermost
  <1>3. top \in Scope
    <2>1. a.scopes[d] \in Scope
      BY <1>1
    <2>2. a.scopes[d].regs \in SUBSET Registers
            /\ a.scopes[d].names \in SUBSET Names
      BY <2>1 DEF Scope
    <2> QED
      BY <2>2 DEF Scope
  <1>4. [a.scopes EXCEPT ![d] = top] \in Seq(Scope)
    BY <1>1, <1>3
  <1>5. /\ Len([a.scopes EXCEPT ![d] = top]) = d
        /\ [a.scopes EXCEPT ![d] = top][d] = top
        /\ \A n \in 1..d-1 : [a.scopes EXCEPT ![d] = top][n] = a.scopes[n]
    BY <1>1
  <1> QED
    BY <1>1, <1>2, <1>4, <1>5 DEF Depth, Allocators

-----------------------------------------------------------------------------

\* The parts of IInv, for an allocator a, verdicts p and frame f after a step.
LEMMA Assemble ==
    ASSUME alloc' \in Allocators, Depth(alloc') >= 1, pending' \subseteq Registers,
           frame' \in {0} \cup 2..Depth(alloc'), frame' = 0 => pending' = {},
           pending' \subseteq alloc'.busy, BusyIsOwned', OwnersAgree', NamesAreHeld'
    PROVE  IInv'
  BY DEF IInv, TypeOK, AllocSound, Allocators

\* The conjuncts of IInv, spelled out for the steps that need them one by one.
LEMMA Unfolded ==
    ASSUME IInv
    PROVE  /\ alloc \in Allocators /\ Depth(alloc) >= 1 /\ Depth(alloc) \in Nat
           /\ pending \subseteq Registers /\ frame \in {0} \cup 2..Depth(alloc)
           /\ frame = 0 => pending = {}
           /\ pending \subseteq alloc.busy
           /\ BusyIsOwned /\ OwnersAgree /\ NamesAreHeld
           /\ \A n \in 1..Depth(alloc) :
                alloc.scopes[n].regs \subseteq Registers
                  /\ alloc.scopes[n].names \subseteq Names
           /\ DOMAIN alloc.bindings \subseteq Names
           /\ \A name \in DOMAIN alloc.bindings : alloc.bindings[name] \in Registers
  <1>1. alloc \in Allocators /\ Depth(alloc) >= 1
    BY DEF IInv, TypeOK, Allocators
  <1>2. Depth(alloc) = Len(alloc.scopes) /\ alloc.scopes \in Seq(Scope)
          /\ alloc.bindings \in Bindings
    BY <1>1 DEF Depth, Allocators
  <1>3. ASSUME NEW n \in 1..Depth(alloc)
        PROVE  alloc.scopes[n].regs \subseteq Registers
                 /\ alloc.scopes[n].names \subseteq Names
    <2>1. alloc.scopes[n] \in Scope
      BY <1>2
    <2> QED
      BY <2>1 DEF Scope
  <1>4. PICK dom \in SUBSET Names : alloc.bindings \in [dom -> Registers]
    BY <1>2 DEF Bindings
  <1>5. DOMAIN alloc.bindings \subseteq Names
          /\ \A name \in DOMAIN alloc.bindings : alloc.bindings[name] \in Registers
    BY <1>4
  <1>6. Depth(alloc) \in Nat
    BY <1>2
  <1> QED
    BY <1>1, <1>3, <1>5, <1>6 DEF IInv, TypeOK, AllocSound

\* Opening a scope, a frame's (lower_frame) or an expansion's
\* (enter_expansion_scope), keeps IInv: nothing is taken or freed.
LEMMA OpensKeep ==
    ASSUME IInv, alloc' = EnterScope(alloc), pending' = pending,
           frame' \in {frame, Depth(alloc) + 1}, frame' = frame \/ frame = 0
    PROVE  IInv'
  <1> DEFINE d == Depth(alloc)
  <1>1. /\ alloc' \in Allocators /\ Depth(alloc') = d + 1
        /\ alloc'.busy = alloc.busy /\ alloc'.bindings = alloc.bindings
        /\ \A n \in 1..d : alloc'.scopes[n] = alloc.scopes[n]
        /\ alloc'.scopes[d + 1].regs = {}
    BY Unfolded, EnterParts DEF EmptyScope
  <1>2. frame' \in {0} \cup 2..Depth(alloc') /\ (frame' = 0 => pending' = {})
    BY <1>1, Unfolded
  <1> HIDE DEF d
  <1>d. d \in Nat /\ d >= 1 /\ d = Depth(alloc)
    BY Unfolded DEF d
  <1>3. BusyIsOwned'
    BY <1>1, <1>d, Unfolded DEF BusyIsOwned
  <1>4. OwnersAgree'
    <2>1. \A m, n \in 1..d+1 :
            m # n => alloc'.scopes[m].regs \cap alloc'.scopes[n].regs \subseteq pending
      BY <1>1, <1>d, Unfolded DEF OwnersAgree
    <2>2. \A n \in 1..d+1 : n < frame' => alloc'.scopes[n].regs \cap pending = {}
      BY <1>1, <1>d, Unfolded DEF OwnersAgree
    <2> QED
      BY <1>1, <2>1, <2>2 DEF OwnersAgree
  <1>5. NamesAreHeld'
    BY <1>1, <1>d, Unfolded DEF NamesAreHeld
  <1> QED
    BY <1>1, <1>2, <1>3, <1>4, <1>5, <1>d, Unfolded, Assemble

\* Leaving a frame frees its registers when its verdicts are through, and no
\* outer scope's (lower_frame's exit).
LEMMA CloseFrameKeeps ==
    ASSUME IInv, CloseFrame
    PROVE  IInv'
  <1> DEFINE d == Depth(alloc)
  <1>1. frame = d /\ d > 1 /\ pending' = {} /\ frame' = 0
    BY Unfolded DEF CloseFrame
  <1>2. /\ alloc' \in Allocators /\ Depth(alloc') = d - 1
        /\ alloc'.busy = alloc.busy \ alloc.scopes[d].regs
        /\ \A n \in 1..d-1 : alloc'.scopes[n] = alloc.scopes[n]
        /\ DOMAIN alloc'.bindings = DOMAIN alloc.bindings \ alloc.scopes[d].names
        /\ \A n \in DOMAIN alloc'.bindings : alloc'.bindings[n] = alloc.bindings[n]
    BY <1>1, Unfolded, ExitParts DEF CloseFrame
  <1> HIDE DEF d
  <1>d. d \in Nat /\ d > 1 /\ d = Depth(alloc)
    BY <1>1, Unfolded DEF d
  <1>3. BusyIsOwned'
    <2>1. \A n \in 1..d-1 : alloc.scopes[n].regs \cap alloc.scopes[d].regs = {}
      BY <1>1, <1>d, Unfolded DEF OwnersAgree
    <2> QED
      BY <1>2, <1>d, <2>1, Unfolded DEF BusyIsOwned
  <1>4. OwnersAgree'
    <2>1. \A m, n \in 1..d-1 :
            m # n => alloc.scopes[m].regs \cap alloc.scopes[n].regs = {}
      <3> SUFFICES ASSUME NEW m \in 1..d-1, NEW n \in 1..d-1, m # n
                   PROVE  alloc.scopes[m].regs \cap alloc.scopes[n].regs = {}
        OBVIOUS
      <3>1. alloc.scopes[m].regs \cap pending = {}
        BY <1>1, <1>d, Unfolded DEF OwnersAgree
      <3>2. alloc.scopes[m].regs \cap alloc.scopes[n].regs \subseteq pending
        BY <1>d, Unfolded DEF OwnersAgree
      <3> QED
        BY <3>1, <3>2
    <2> QED
      BY <1>1, <1>2, <1>d, <2>1 DEF OwnersAgree
  <1>5. NamesAreHeld'
    BY <1>1, <1>2, <1>d, Unfolded DEF NamesAreHeld
  <1> QED
    BY <1>1, <1>2, <1>3, <1>4, <1>5, <1>d, Unfolded, Assemble

\* Leaving an expansion scope and taking the pending registers again keeps
\* IInv: no verdict loses its register (exit_expansion_scope, reserve_deferred).
LEMMA CloseExpansionKeeps ==
    ASSUME IInv, CloseExpansion
    PROVE  IInv'
  <1> DEFINE d == Depth(alloc)
             b == ExitScope(alloc)
  <1>1. d > 1 /\ frame < d /\ pending' = pending /\ frame' = frame
    BY Unfolded DEF CloseExpansion
  <1>2. /\ b \in Allocators /\ Depth(b) = d - 1
        /\ b.busy = alloc.busy \ alloc.scopes[d].regs
        /\ \A n \in 1..d-1 : b.scopes[n] = alloc.scopes[n]
        /\ DOMAIN b.bindings = DOMAIN alloc.bindings \ alloc.scopes[d].names
        /\ \A n \in DOMAIN b.bindings : b.bindings[n] = alloc.bindings[n]
    BY <1>1, Unfolded, ExitParts
  <1>3. alloc' = Own(b, pending, {}, b.bindings)
    BY DEF CloseExpansion, ReserveAll
  <1> HIDE DEF b, d
  <1>d. d \in Nat /\ d > 1 /\ d = Depth(alloc)
    BY <1>1, Unfolded DEF d
  <1>4. /\ alloc'.busy = (alloc.busy \ alloc.scopes[d].regs) \cup pending
        /\ alloc'.bindings = b.bindings
        /\ alloc' \in Allocators /\ Depth(alloc') = d - 1
        /\ \A n \in 1..d-2 : alloc'.scopes[n] = alloc.scopes[n]
        /\ alloc'.scopes[d-1].regs = alloc.scopes[d-1].regs \cup pending
        /\ alloc'.scopes[d-1].names = alloc.scopes[d-1].names
    <2>1. /\ b.bindings \in Bindings /\ pending \subseteq Registers
          /\ {} \subseteq Names
      BY <1>2, Unfolded DEF Allocators
    <2>2. Depth(b) >= 1 /\ d - 1 = Depth(b)
      BY <1>2, <1>d
    <2> DEFINE e == d - 1
    <2>3. e = Depth(b)
      BY <2>2
    <2>4. /\ alloc'.busy = b.busy \cup pending /\ alloc'.bindings = b.bindings
          /\ alloc' \in Allocators
          /\ Depth(alloc') = e
          /\ \A n \in 1..e-1 : alloc'.scopes[n] = b.scopes[n]
          /\ alloc'.scopes[e].regs = b.scopes[e].regs \cup pending
          /\ alloc'.scopes[e].names = b.scopes[e].names \cup {}
      <3> DEFINE none == {}
                 bound == b.bindings
      <3>1. /\ b \in Allocators /\ none \subseteq Names /\ bound \in Bindings
            /\ alloc' = Own(b, pending, none, bound)
            /\ e = Depth(b) /\ e >= 1
        BY <1>2, <1>3, <2>1, <2>2, <2>3
      <3> HIDE DEF e, none, bound
      <3>2. /\ alloc'.busy = b.busy \cup pending /\ alloc'.bindings = bound
            /\ alloc' \in Allocators
            /\ Depth(alloc') = e
            /\ \A n \in 1..e-1 : alloc'.scopes[n] = b.scopes[n]
            /\ alloc'.scopes[e].regs = b.scopes[e].regs \cup pending
            /\ alloc'.scopes[e].names = b.scopes[e].names \cup none
        BY ONLY <3>1, <2>1, OwnParts
      <3> QED
        BY <3>2 DEF none, bound
    <2> QED
      BY <1>2, <1>d, <2>4
  <1>5. BusyIsOwned'
    <2>1. \A n \in 1..d-1 : alloc.scopes[n].regs \cap alloc.scopes[d].regs \subseteq pending
      BY <1>d, Unfolded DEF OwnersAgree
    <2>2. \A n \in 1..d-1 : alloc'.scopes[n].regs \subseteq alloc'.busy
      BY <1>4, <1>d, <2>1, Unfolded DEF BusyIsOwned
    <2>3. \A r \in alloc'.busy : \E n \in 1..d-1 : r \in alloc'.scopes[n].regs
      BY <1>4, <1>d, Unfolded DEF BusyIsOwned
    <2> QED
      BY <1>4, <2>2, <2>3 DEF BusyIsOwned
  <1>6. OwnersAgree'
    <2>1. \A n \in 1..d-1 : alloc'.scopes[n].regs \subseteq alloc.scopes[n].regs \cup pending
      BY <1>4, <1>d
    <2>2. \A n \in 1..d-1 : n < frame => alloc'.scopes[n] = alloc.scopes[n]
      BY <1>1, <1>4, <1>d, Unfolded
    <2>3. \A m, n \in 1..d-1 :
            m # n => alloc'.scopes[m].regs \cap alloc'.scopes[n].regs \subseteq pending
      BY <1>d, <2>1, Unfolded DEF OwnersAgree
    <2> QED
      BY <1>1, <1>4, <1>d, <2>2, <2>3, Unfolded DEF OwnersAgree
  <1>7. NamesAreHeld'
    <2>1. \A n \in 1..d-1 : /\ alloc.scopes[n].regs \subseteq alloc'.scopes[n].regs
                            /\ alloc.scopes[n].names = alloc'.scopes[n].names
      BY <1>4, <1>d
    <2> QED
      BY <1>1, <1>2, <1>4, <1>d, <2>1, Unfolded DEF NamesAreHeld
  <1> QED
    BY <1>1, <1>4, <1>5, <1>6, <1>7, <1>d, Unfolded, Assemble

\* Taking the lowest free register r, with the names and bindings given: an
\* action that does nothing else to the allocator.
LEMMA TakeKeeps ==
    ASSUME IInv, NEW r \in Registers, r \notin alloc.busy,
           NEW names, names \subseteq Names, NEW bindings \in Bindings,
           alloc' = Own(alloc, {r}, names, bindings),
           frame' = frame,
           \/ /\ pending' = pending
              /\ \A n \in DOMAIN bindings :
                   \/ n \in names /\ bindings[n] = r
                   \/ n \in DOMAIN alloc.bindings /\ bindings[n] = alloc.bindings[n]
           \/ /\ pending' = pending \cup {r} /\ frame # 0
              /\ bindings = alloc.bindings
    PROVE  IInv'
  <1> DEFINE d == Depth(alloc)
             one == {r}
  <1>1. /\ alloc'.busy = alloc.busy \cup one /\ alloc'.bindings = bindings
        /\ alloc' \in Allocators /\ Depth(alloc') = d
        /\ \A n \in 1..d-1 : alloc'.scopes[n] = alloc.scopes[n]
        /\ alloc'.scopes[d].regs = alloc.scopes[d].regs \cup one
        /\ alloc'.scopes[d].names = alloc.scopes[d].names \cup names
    <2>1. one \subseteq Registers /\ d = Depth(alloc) /\ d >= 1
            /\ alloc' = Own(alloc, one, names, bindings) /\ alloc \in Allocators
            /\ names \subseteq Names /\ bindings \in Bindings
      BY Unfolded
    <2> HIDE DEF d, one
    <2> QED
      BY ONLY <2>1, OwnParts
  <1> HIDE DEF d
  <1>d. d \in Nat /\ d >= 1 /\ d = Depth(alloc)
    BY Unfolded DEF d
  <1>e. \A n \in 1..d :
          /\ n # d => alloc'.scopes[n] = alloc.scopes[n]
          /\ n = d => /\ alloc'.scopes[n].regs = alloc.scopes[n].regs \cup {r}
                      /\ alloc'.scopes[n].names = alloc.scopes[n].names \cup names
    <2> SUFFICES ASSUME NEW n \in 1..d, n # d
                 PROVE  alloc'.scopes[n] = alloc.scopes[n]
      BY <1>1
    <2>1. n \in 1..d-1
      BY <1>d
    <2> QED
      BY <1>1, <2>1
  <1>2. \A n \in 1..d : r \notin alloc.scopes[n].regs
    BY <1>d, Unfolded DEF BusyIsOwned
  <1>3. r \notin pending /\ r \in Registers
    BY Unfolded
  <1>4. pending' \subseteq alloc'.busy /\ pending' \subseteq Registers
          /\ (frame' = 0 => pending' = {})
    BY <1>1, <1>3, Unfolded
  <1>5. BusyIsOwned'
    <2>1. d \in 1..d
      BY ONLY <1>d
    <2>0. r \in alloc'.scopes[d].regs
      BY ONLY <1>e, <2>1
    <2>2. \A n \in 1..d : /\ alloc'.scopes[n].regs \subseteq alloc.scopes[n].regs \cup {r}
                          /\ alloc.scopes[n].regs \subseteq alloc'.scopes[n].regs
      BY <1>e
    <2>3. alloc.busy = UNION {alloc.scopes[n].regs : n \in 1..d}
      BY <1>d, Unfolded DEF BusyIsOwned
    <2>4. alloc.busy \cup {r} = UNION {alloc'.scopes[n].regs : n \in 1..d}
      BY ONLY <2>1, <2>2, <2>3, <2>0
    <2> QED
      BY <1>1, <2>4 DEF BusyIsOwned
  <1>6. OwnersAgree'
    <2>1. \A m, n \in 1..d :
            m # n => alloc'.scopes[m].regs \cap alloc'.scopes[n].regs \subseteq pending
      <3> SUFFICES ASSUME NEW m \in 1..d, NEW n \in 1..d, m # n,
                          NEW x \in alloc'.scopes[m].regs, x \in alloc'.scopes[n].regs
                   PROVE  x \in pending
        OBVIOUS
      <3>1. x \in alloc.scopes[m].regs \/ (m = d /\ x = r)
        BY <1>e
      <3>2. x \in alloc.scopes[n].regs \/ (n = d /\ x = r)
        BY <1>e
      <3>3. x \in alloc.scopes[m].regs /\ x \in alloc.scopes[n].regs
        BY <1>2, <3>1, <3>2
      <3> QED
        BY <1>d, <3>3, Unfolded DEF OwnersAgree
    <2>2. \A n \in 1..d : n < frame => alloc'.scopes[n].regs \cap pending' = {}
      <3> SUFFICES ASSUME NEW n \in 1..d, n < frame
                   PROVE  alloc'.scopes[n].regs \cap pending' = {}
        OBVIOUS
      <3>1. n \in 1..d-1
        BY <1>d, Unfolded
      <3>2. alloc'.scopes[n].regs = alloc.scopes[n].regs
        BY <1>1, <3>1
      <3>3. alloc.scopes[n].regs \cap pending = {}
        BY <1>d, Unfolded DEF OwnersAgree
      <3> QED
        BY <1>2, <3>2, <3>3
    <2>3. \A m, n \in 1..d :
            m # n => alloc'.scopes[m].regs \cap alloc'.scopes[n].regs \subseteq pending'
      BY <2>1
    <2> HIDE DEF one
    <2> QED
      BY ONLY <1>1, <2>2, <2>3, frame' = frame DEF OwnersAgree
  <1>7. NamesAreHeld'
    <2> SUFFICES ASSUME NEW name \in DOMAIN bindings
                 PROVE  /\ bindings[name] \notin pending'
                        /\ \E n \in 1..d : /\ name \in alloc'.scopes[n].names
                                           /\ bindings[name] \in alloc'.scopes[n].regs
      BY <1>1 DEF NamesAreHeld
    <2>1. CASE name \in names /\ bindings[name] = r /\ pending' = pending
      <3>1. d \in 1..d
        BY <1>d
      <3>2. r \in alloc'.scopes[d].regs /\ name \in alloc'.scopes[d].names
        BY <1>e, <2>1, <3>1
      <3> QED
        BY <1>3, <2>1, <3>1, <3>2
    <2>2. CASE name \in DOMAIN alloc.bindings /\ bindings[name] = alloc.bindings[name]
      <3>1. PICK n \in 1..d : /\ name \in alloc.scopes[n].names
                              /\ alloc.bindings[name] \in alloc.scopes[n].regs
        BY <1>d, <2>2, Unfolded DEF NamesAreHeld
      <3>2. bindings[name] # r
        BY <1>2, <2>2, <3>1
      <3>3. bindings[name] \notin pending'
        BY <2>2, <3>2, Unfolded DEF NamesAreHeld
      <3>4. name \in alloc'.scopes[n].names /\ bindings[name] \in alloc'.scopes[n].regs
        BY <1>e, <2>2, <3>1
      <3> QED
        BY <3>3, <3>4
    <2> QED
      BY <2>1, <2>2
  <1> QED
    BY <1>1, <1>4, <1>5, <1>6, <1>7, <1>d, Unfolded, Assemble

\* A register taken and freed again in the same scope leaves the allocator
\* as it was.
LEMMA ScratchIsNothing ==
    ASSUME IInv, NEW r \in Registers, r \notin alloc.busy
    PROVE  Free(Temp(alloc, r), r) = alloc
  <1> DEFINE d == Depth(alloc)
             top == alloc.scopes[d]
             taken == [regs |-> top.regs \cup {r}, names |-> top.names \cup {}]
             more == [alloc.scopes EXCEPT ![d] = taken]
             after == Temp(alloc, r)
  <1>1. alloc.scopes \in Seq(Scope) /\ d = Len(alloc.scopes) /\ d \in 1..Len(alloc.scopes)
          /\ alloc = [busy |-> alloc.busy, scopes |-> alloc.scopes,
                      bindings |-> alloc.bindings]
    BY Unfolded DEF Depth, Allocators
  <1>2. top = [regs |-> top.regs, names |-> top.names]
          /\ top.regs \subseteq Registers /\ top.names \subseteq Names
    <2>1. top \in Scope
      BY <1>1
    <2> HIDE DEF top
    <2> QED
      BY <2>1 DEF Scope
  <1>3. r \notin top.regs
    BY Unfolded, <1>1 DEF BusyIsOwned
  <1>4. after = [busy |-> alloc.busy \cup {r}, scopes |-> more,
                 bindings |-> alloc.bindings]
    BY DEF Temp, Own, With, Innermost
  <1>5. Len(more) = d /\ more[d] = taken
    <2>1. taken \in Scope
      BY <1>2 DEF Scope
    <2> HIDE DEF taken, d
    <2> QED
      BY <1>1, <2>1
  <1>6. Free(after, r) =
          [busy |-> (alloc.busy \cup {r}) \ {r},
           scopes |-> [more EXCEPT ![d] = [regs |-> taken.regs \ {r},
                                           names |-> taken.names]],
           bindings |-> alloc.bindings]
    <2> HIDE DEF more, taken, d, after
    <2>1. Depth(after) = d /\ Innermost(after) = taken
      BY <1>4, <1>5 DEF Depth, Innermost
    <2> QED
      BY <1>4, <2>1 DEF Free, With
  <1>7. [regs |-> taken.regs \ {r}, names |-> taken.names] = top
    <2>1. (top.regs \cup {r}) \ {r} = top.regs /\ top.names \cup {} = top.names
      BY <1>3
    <2>2. taken.regs = top.regs \cup {r} /\ taken.names = top.names \cup {}
      OBVIOUS
    <2> HIDE DEF top, taken
    <2> QED
      BY <1>2, <2>1, <2>2
  <1>8. [more EXCEPT ![d] = top] = alloc.scopes
    <2> HIDE DEF taken, d
    <2>1. alloc.scopes = [i \in 1..d |-> alloc.scopes[i]]
      BY <1>1
    <2> QED
      BY <1>1, <2>1
  <1>9. (alloc.busy \cup {r}) \ {r} = alloc.busy
    OBVIOUS
  <1>10. after = Temp(alloc, r)
    OBVIOUS
  <1> HIDE DEF more, taken, top, d, after
  <1> QED
    BY <1>1, <1>6, <1>7, <1>8, <1>9, <1>10

\* The new allocator, one empty root scope, satisfies IInv.
THEOREM InitHolds == Init => IInv
  <1> SUFFICES ASSUME Init
               PROVE  IInv
    OBVIOUS
  <1>1. EmptyScope \in Scope /\ EmptyScope.regs = {}
    BY DEF EmptyScope, Scope
  <1>2. << >> \in Bindings /\ DOMAIN << >> = {}
    <2>1. << >> \in [{} -> Registers]
      OBVIOUS
    <2> QED
      BY <2>1 DEF Bindings
  <1>3. alloc = [busy |-> {}, scopes |-> <<EmptyScope>>, bindings |-> << >>]
          /\ pending = {} /\ frame = 0
    BY DEF Init, NewAlloc
  <1>4. <<EmptyScope>> \in Seq(Scope) /\ Depth(alloc) = 1
          /\ alloc.scopes[1] = EmptyScope
    BY <1>1, <1>3 DEF Depth
  <1>5. TypeOK
    BY <1>2, <1>3, <1>4 DEF TypeOK
  <1>6. \A n \in 1..1 : n = 1
    OBVIOUS
  <1> QED
    BY <1>1, <1>2, <1>3, <1>4, <1>5, <1>6
       DEF IInv, AllocSound, BusyIsOwned, OwnersAgree, NamesAreHeld

\* Binding a name to the lowest free register keeps IInv (RegAlloc::bind).
LEMMA BindKeeps ==
    ASSUME IInv, BindName
    PROVE  IInv'
  <1>1. PICK name \in Names, r \in Registers :
          /\ IsLowestFree(alloc, r)
          /\ alloc' = BindReg(alloc, name, r)
          /\ UNCHANGED <<pending, frame>>
    BY DEF BindName
  <1> DEFINE names == {name}
             bindings == [n \in DOMAIN alloc.bindings \cup {name} |->
                            IF n = name THEN r ELSE alloc.bindings[n]]
  <1>2. r \notin alloc.busy
    BY <1>1 DEF IsLowestFree, FreeRegs
  <1>3. alloc' = Own(alloc, {r}, names, bindings) /\ names \subseteq Names
    BY <1>1 DEF BindReg
  <1>4. bindings \in Bindings
    <2>1. DOMAIN alloc.bindings \cup {name} \in SUBSET Names
      BY Unfolded
    <2>2. bindings \in [DOMAIN alloc.bindings \cup {name} -> Registers]
      BY Unfolded
    <2> HIDE DEF bindings
    <2> QED
      BY <2>1, <2>2 DEF Bindings
  <1>5. \A n \in DOMAIN bindings :
          \/ n \in names /\ bindings[n] = r
          \/ n \in DOMAIN alloc.bindings /\ bindings[n] = alloc.bindings[n]
    OBVIOUS
  <1>6. pending' = pending /\ frame' = frame
    BY <1>1
  <1> HIDE DEF bindings, names
  <1> QED
    BY <1>2, <1>3, <1>4, <1>5, <1>6, TakeKeeps

\* Latching a verdict in the lowest free register keeps IInv (lower_expect).
LEMMA LatchKeeps ==
    ASSUME IInv, Latch
    PROVE  IInv'
  <1>1. PICK r \in Registers :
          /\ frame # 0 /\ IsLowestFree(alloc, r)
          /\ alloc' = Temp(alloc, r)
          /\ pending' = pending \cup {r} /\ frame' = frame
    BY DEF Latch
  <1> DEFINE names == {}
             bindings == alloc.bindings
  <1>2. r \notin alloc.busy
    BY <1>1 DEF IsLowestFree, FreeRegs
  <1>3. alloc' = Own(alloc, {r}, names, bindings) /\ names \subseteq Names
    BY <1>1 DEF Temp
  <1>4. bindings \in Bindings /\ bindings = alloc.bindings
    BY Unfolded DEF Allocators
  <1> HIDE DEF bindings, names
  <1> QED
    BY <1>1, <1>2, <1>3, <1>4, TakeKeeps

\* Every use the emitter makes of the allocator keeps IInv.
THEOREM StepKeeps == IInv /\ [Next]_vars => IInv'
  <1> SUFFICES ASSUME IInv, [Next]_vars
               PROVE  IInv'
    OBVIOUS
  <1>1. CASE OpenFrame
    BY <1>1, OpensKeep DEF OpenFrame
  <1>2. CASE CloseFrame
    BY <1>2, CloseFrameKeeps
  <1>3. CASE OpenExpansion
    BY <1>3, OpensKeep DEF OpenExpansion
  <1>4. CASE CloseExpansion
    BY <1>4, CloseExpansionKeeps
  <1>5. CASE BindName
    BY <1>5, BindKeeps
  <1>6. CASE Scratch
    <2>1. PICK r \in Registers :
            /\ IsLowestFree(alloc, r) /\ alloc' = Free(Temp(alloc, r), r)
            /\ pending' = pending /\ frame' = frame
      BY <1>6 DEF Scratch
    <2>2. alloc' = alloc
      BY <2>1, ScratchIsNothing DEF IsLowestFree, FreeRegs
    <2> QED
      BY <2>1, <2>2 DEF IInv, TypeOK, AllocSound, BusyIsOwned, OwnersAgree,
                        NamesAreHeld, Depth
  <1>7. CASE Latch
    BY <1>7, LatchKeeps
  <1>8. CASE UNCHANGED vars
    BY <1>8 DEF vars, IInv, TypeOK, AllocSound, BusyIsOwned, OwnersAgree,
                NamesAreHeld, Depth
  <1> QED
    BY <1>1, <1>2, <1>3, <1>4, <1>5, <1>6, <1>7, <1>8 DEF Next

\* However frames, procs and repeats are nested, every live value - a bound
\* name, a verdict latched and not yet branched on - has a register of its own.
THEOREM AllocatorIsSound == Spec => []AllocSound
  <1>1. IInv => AllocSound
    BY DEF IInv
  <1> QED
    BY <1>1, InitHolds, StepKeeps, PTL DEF Spec

=============================================================================
