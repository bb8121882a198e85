-------------------------- MODULE Allocations_proofs --------------------------
(***************************************************************************)
(* What is proved of Allocations for any number of allocations, handlers   *)
(* and amounts.  Under every interleaving and with crashes: its types, and *)
(* that a completed allocation is dated.  As long as no two handlers       *)
(* overlap: that the parts fit the sponsored amount and, if the server     *)
(* does not stop in one either, that the sponsor is shown how much of it   *)
(* is used.                                                                *)
(***************************************************************************)
EXTENDS Allocations, SumLaws, TLAPS

LEMMA UtilizationType == ASSUME NEW rows PROVE Utilization(rows) \in UtilizationStatus
BY DEF Utilization, UtilizationStatus

\* What a handler that writes an allocation holds.
LEMMA HandlerType ==
    ASSUME TypeOK, NEW h \in Handlers
    PROVE  /\ handler[h].pc = "create" =>
                /\ handler[h].allocation \in Allocations
                /\ handler[h].amount \in Parts
           /\ handler[h].pc = "patch" =>
                /\ handler[h].allocation \in Allocations
                /\ handler[h].amount \in Parts
                /\ handler[h].status \in AllocationStatus
                /\ handler[h].dated \in BOOLEAN
                /\ handler[h].changes \in SUBSET {"amount", "status"}
           /\ handler[h].pc = "store" => handler[h].utilization \in UtilizationStatus
BY DEF TypeOK, HandlerState, Idle

\* The rows, the sponsorship and the handlers keep their shape.
THEOREM TypeCorrect == Spec => []TypeOK
<1> USE ConstantsAssumption
<1>1. Init => TypeOK
  BY DEF Init, TypeOK, AllocationRow, AllocationStatus, SponsorshipRow, UtilizationStatus,
      HandlerState
<1>2. TypeOK /\ [Next]_vars => TypeOK'
  <2> SUFFICES ASSUME TypeOK, [Next]_vars PROVE TypeOK'
    OBVIOUS
  <2>1. ASSUME NEW paid \in BOOLEAN, SetPaid(paid) PROVE TypeOK'
    BY <2>1 DEF SetPaid, TypeOK, SponsorshipRow
  <2>2. ASSUME NEW h \in Handlers, NEW a \in Allocations, NEW amount \in Parts, CreateRead(h, a, amount)
        PROVE  TypeOK'
    BY <2>2 DEF CreateRead, Starts, TypeOK, HandlerState
  <2>3. ASSUME NEW h \in Handlers, NEW a \in Allocations, NEW amount \in Parts,
               NEW status \in AllocationStatus, NEW changes \in SUBSET {"amount", "status"},
               PatchRead(h, a, amount, status, changes)
        PROVE  TypeOK'
    BY <2>3 DEF PatchRead, Starts, TypeOK, HandlerState
  <2>4. ASSUME NEW h \in Handlers, CreateCommit(h) PROVE TypeOK'
    BY <2>4, HandlerType DEF CreateCommit, TypeOK, HandlerState, AllocationRow, AllocationStatus
  <2>5. ASSUME NEW h \in Handlers, PatchCommit(h) PROVE TypeOK'
    <3>1. Patched(allocation[handler[h].allocation], handler[h]) \in AllocationRow
      BY <2>5, HandlerType DEF PatchCommit, Patched, TypeOK, AllocationRow
    <3> QED BY <2>5, <3>1, HandlerType DEF PatchCommit, TypeOK, HandlerState
  <2>6. ASSUME NEW h \in Handlers, Recompute(h) PROVE TypeOK'
    BY <2>6, UtilizationType DEF Recompute, TypeOK, HandlerState
  <2>7. ASSUME NEW h \in Handlers, Store(h) PROVE TypeOK'
    BY <2>7, HandlerType DEF Store, TypeOK, HandlerState, SponsorshipRow
  <2>8. ASSUME NEW h \in Handlers, Crash(h) PROVE TypeOK'
    BY <2>8 DEF Crash, TypeOK, HandlerState
  <2>9. CASE UNCHANGED vars
    BY <2>9 DEF vars, TypeOK
  <2> QED BY <2>1, <2>2, <2>3, <2>4, <2>5, <2>6, <2>7, <2>8, <2>9
      DEF Next, Start, TrackingManager, AddAllocation,
           SetStatus, SetAmount, Proceed
<1> QED BY <1>1, <1>2, PTL DEF Spec

-----------------------------------------------------------------------------
\* A handler that is to complete an allocation without dating it read it as
\* completed: it has its date.  A row under creation is nobody else's.
PatchesAreDated ==
    \A h \in Handlers :
        /\ handler[h].pc = "patch" =>
            /\ allocation[handler[h].allocation].exists
            /\ "status" \in handler[h].changes /\ handler[h].status = "COMPLETED" =>
                    handler[h].dated \/ allocation[handler[h].allocation].completedAt
        /\ handler[h].pc = "create" =>
            /\ ~allocation[handler[h].allocation].exists
            /\ \A g \in Handlers :
                    handler[g].pc = "create" /\ handler[g].allocation = handler[h].allocation => g = h

RowsAreDated ==
    \A a \in Allocations : allocation[a].exists /\ allocation[a].status = "COMPLETED"
                                => allocation[a].completedAt

DatedInv == PatchesAreDated /\ RowsAreDated

LEMMA DatedStep == ASSUME TypeOK, DatedInv, [Next]_vars PROVE DatedInv'
<1> USE ConstantsAssumption DEF DatedInv
<1>1. ASSUME NEW paid \in BOOLEAN, SetPaid(paid) PROVE DatedInv'
  BY <1>1 DEF SetPaid, PatchesAreDated, RowsAreDated
<1>2. ASSUME NEW h \in Handlers, NEW a \in Allocations, NEW amount \in Parts, CreateRead(h, a, amount)
      PROVE  DatedInv'
  BY <1>2 DEF CreateRead, Fresh, TypeOK, PatchesAreDated, RowsAreDated
<1>3. ASSUME NEW h \in Handlers, NEW a \in Allocations, NEW amount \in Parts,
             NEW status \in AllocationStatus, NEW changes \in SUBSET {"amount", "status"},
             PatchRead(h, a, amount, status, changes)
      PROVE  DatedInv'
  BY <1>3 DEF PatchRead, Completes, TypeOK, PatchesAreDated, RowsAreDated
<1>4. ASSUME NEW h \in Handlers, CreateCommit(h) PROVE DatedInv'
  <2>1. PICK a \in Allocations : a = handler[h].allocation
    BY <1>4, HandlerType DEF CreateCommit
  <2>2. ~allocation[a].exists
    BY <1>4, <2>1 DEF CreateCommit, PatchesAreDated
  <2>3. /\ \A b \in Allocations : b # a => allocation'[b] = allocation[b]
        /\ allocation'[a].exists /\ allocation'[a].status = "PLANNED"
    BY <1>4, <2>1 DEF CreateCommit, TypeOK
  <2>4. /\ \A g \in Handlers : g # h => handler'[g] = handler[g]
        /\ handler'[h].pc = "recompute"
    BY <1>4 DEF CreateCommit, TypeOK
  <2>5. \A g \in Handlers : g # h /\ handler[g].pc \in {"patch", "create"} => handler[g].allocation # a
    BY <1>4, <2>1, <2>2 DEF CreateCommit, PatchesAreDated
  <2>6. RowsAreDated'
    BY <2>3 DEF RowsAreDated
  <2>7. PatchesAreDated'
    BY <2>3, <2>4, <2>5, HandlerType DEF PatchesAreDated
  <2> QED BY <2>6, <2>7
<1>5. ASSUME NEW h \in Handlers, PatchCommit(h) PROVE DatedInv'
  <2>1. PICK a \in Allocations : a = handler[h].allocation
    BY <1>5, HandlerType DEF PatchCommit
  <2>2. /\ \A b \in Allocations : b # a => allocation'[b] = allocation[b]
        /\ allocation'[a] = Patched(allocation[a], handler[h])
    BY <1>5, <2>1 DEF PatchCommit, TypeOK
  <2>3. /\ allocation'[a].exists = allocation[a].exists
        /\ allocation'[a].completedAt = (allocation[a].completedAt \/ handler[h].dated)
        /\ allocation'[a].status = IF "status" \in handler[h].changes
                                   THEN handler[h].status ELSE allocation[a].status
    BY <2>2 DEF Patched, TypeOK, AllocationRow
  <2>4. /\ \A g \in Handlers : g # h => handler'[g] = handler[g]
        /\ handler'[h].pc = "recompute"
    BY <1>5 DEF PatchCommit, TypeOK
  <2>5. RowsAreDated'
    BY <1>5, <2>1, <2>2, <2>3 DEF RowsAreDated, PatchesAreDated, PatchCommit
  <2>6. ASSUME NEW b \in Allocations
        PROVE  /\ allocation'[b].exists <=> allocation[b].exists
               /\ allocation[b].completedAt => allocation'[b].completedAt
    BY <2>2, <2>3
  <2>7. \A g \in Handlers : handler'[g].pc \in {"patch", "create"} => g # h
    BY <2>4
  <2>8. ASSUME NEW g \in Handlers, handler'[g].pc = "patch"
        PROVE  /\ allocation'[handler'[g].allocation].exists
               /\ "status" \in handler'[g].changes /\ handler'[g].status = "COMPLETED" =>
                    handler'[g].dated \/ allocation'[handler'[g].allocation].completedAt
    <3>1. handler'[g] = handler[g]
      BY <2>4, <2>7, <2>8
    <3>2. handler[g].pc = "patch" /\ handler[g].allocation \in Allocations
      BY <3>1, <2>8, HandlerType
    <3>3. PICK b \in Allocations : b = handler[g].allocation
      BY <3>2
    <3>4. /\ allocation[b].exists
          /\ "status" \in handler[g].changes /\ handler[g].status = "COMPLETED" =>
                    handler[g].dated \/ allocation[b].completedAt
      BY <3>2, <3>3 DEF PatchesAreDated
    <3>5. allocation'[b].exists /\ (allocation[b].completedAt => allocation'[b].completedAt)
      BY <2>6, <3>4
    <3> QED BY <3>1, <3>3, <3>4, <3>5
  <2>9. ASSUME NEW g \in Handlers, handler'[g].pc = "create"
        PROVE  /\ ~allocation'[handler'[g].allocation].exists
               /\ \A k \in Handlers :
                    handler'[k].pc = "create" /\ handler'[k].allocation = handler'[g].allocation
                        => k = g
    BY <2>4, <2>6, <2>7, <2>9, HandlerType DEF PatchesAreDated
  <2>10. PatchesAreDated'
    BY <2>8, <2>9 DEF PatchesAreDated
  <2> QED BY <2>5, <2>10
<1>6. ASSUME NEW h \in Handlers, Recompute(h) \/ Store(h) \/ Crash(h) PROVE DatedInv'
  BY <1>6 DEF Recompute, Store, Crash, Idle, TypeOK, PatchesAreDated, RowsAreDated
<1>7. CASE UNCHANGED vars
  BY <1>7 DEF vars, PatchesAreDated, RowsAreDated
<1> QED BY <1>1, <1>2, <1>3, <1>4, <1>5, <1>6, <1>7
    DEF Next, Start, TrackingManager, AddAllocation,
           SetStatus, SetAmount, Proceed

\* A completed allocation carries the date of its completion, however the PATCH
\* handlers that complete, reopen and date it interleave.
THEOREM CompletedDated == Spec => []CompletedIsDated
<1>1. Init => DatedInv
  BY DEF Init, DatedInv, PatchesAreDated, RowsAreDated, Idle
<1>2. DatedInv => CompletedIsDated
  BY DEF DatedInv, RowsAreDated, CompletedIsDated, Existing
<1> QED BY <1>1, <1>2, DatedStep, TypeCorrect, PTL DEF Spec

-----------------------------------------------------------------------------
(* The sum of the parts *)

\* There are finitely many rows, and none is for nothing.
RowsInv ==
    /\ IsFiniteSet(Existing)
    /\ \A a \in Existing : allocation[a].amount \in Parts

\* One row has been written, the others are as they were: the sum is theirs and
\* its amount.
LEMMA AllocatedWith ==
    ASSUME TypeOK, TypeOK', RowsInv, NEW a \in Allocations, allocation'[a].exists,
           \A b \in Allocations : b # a => allocation'[b] = allocation[b]
    PROVE  /\ Allocated(Existing)' = Allocated(Existing \ {a}) + allocation'[a].amount
           /\ Allocated(Existing \ {a}) \in Nat
<1> DEFINE others == Existing \ {a}
<1>1. IsFiniteSet(others) /\ a \notin others /\ Existing' = others \cup {a}
  BY FS_RemoveElement DEF RowsInv, Existing
<1>2. \A b \in others : Worth[b] \in Nat /\ Worth'[b] = Worth[b]
  BY DEF Worth, Existing, TypeOK, AllocationRow
<1>3. Worth'[a] = allocation'[a].amount /\ Worth'[a] \in Nat
  BY DEF Worth, TypeOK, AllocationRow
<1> HIDE DEF others
<1>4. SumFunctionOnSet(Worth', others \cup {a}) = SumFunctionOnSet(Worth, others) + Worth'[a]
  <2>1. PICK f, g : f = Worth /\ g = Worth'
    OBVIOUS
  <2>2. SumFunctionOnSet(g, others \cup {a}) = SumFunctionOnSet(f, others) + g[a]
    BY <1>1, <1>2, <1>3, <2>1, SumPlus
  <2> QED BY <2>1, <2>2
<1>5. SumFunctionOnSet(Worth, others) \in Nat
  BY <1>1, <1>2, SumSplit
<1> QED BY <1>1, <1>3, <1>4, <1>5 DEF Allocated, others

\* A row of the sum can be told from the rest of it.
LEMMA AllocatedSplit ==
    ASSUME TypeOK, RowsInv, NEW a \in Existing
    PROVE  Allocated(Existing) = Allocated(Existing \ {a}) + allocation[a].amount
<1>1. IsFiniteSet(Existing) /\ \A b \in Existing : Worth[b] \in Nat
  BY DEF RowsInv, Worth, Existing, TypeOK, AllocationRow
<1>2. SumFunctionOnSet(Worth, Existing) = Worth[a] + SumFunctionOnSet(Worth, Existing \ {a})
  BY <1>1, SumSplit
<1>3. SumFunctionOnSet(Worth, Existing \ {a}) \in Nat /\ Worth[a] = allocation[a].amount
  <2>1. IsFiniteSet(Existing \ {a})
    BY <1>1, FS_RemoveElement
  <2> QED BY <1>1, <2>1, SumSplit DEF Worth, Existing
<1> QED BY <1>1, <1>2, <1>3 DEF Allocated

\* What is summed up depends on the rows alone.
LEMMA AllocatedStays ==
    ASSUME UNCHANGED allocation
    PROVE  /\ Existing' = Existing /\ Worth' = Worth
           /\ Allocated(Existing)' = Allocated(Existing)
BY DEF Existing, Worth, Allocated

\* A step writes one row, as a handler that creates or patches it holds it, or
\* none.
LEMMA RowStep ==
    ASSUME TypeOK, [Next]_vars
    PROVE  \/ UNCHANGED allocation
           \/ \E h \in Handlers : CreateCommit(h) \/ PatchCommit(h)
BY DEF Next, SetPaid, Start, TrackingManager, AddAllocation, SetStatus, SetAmount, CreateRead,
       PatchRead, Proceed, Recompute, Store, Crash, vars

\* What a commit writes: the one row, with an amount that was asked for.
LEMMA CommittedRow ==
    ASSUME TypeOK, RowsInv, NEW h \in Handlers, CreateCommit(h) \/ PatchCommit(h),
           handler[h].pc = "patch" => allocation[handler[h].allocation].exists
    PROVE  /\ handler[h].allocation \in Allocations
           /\ allocation'[handler[h].allocation].exists
           /\ allocation'[handler[h].allocation].amount =
                    IF handler[h].pc = "patch" /\ "amount" \notin handler[h].changes
                    THEN allocation[handler[h].allocation].amount
                    ELSE handler[h].amount
           /\ allocation'[handler[h].allocation].amount \in Parts
           /\ \A b \in Allocations : b # handler[h].allocation => allocation'[b] = allocation[b]
<1>1. PICK a \in Allocations : a = handler[h].allocation
  BY HandlerType DEF CreateCommit, PatchCommit
<1>2. CASE CreateCommit(h)
  BY <1>1, <1>2, HandlerType DEF CreateCommit, TypeOK
<1>3. CASE PatchCommit(h)
  <2>1. allocation' = [allocation EXCEPT ![a] = Patched(@, handler[h])] /\ handler[h].pc = "patch"
    BY <1>1, <1>3 DEF PatchCommit
  <2>2. /\ Patched(allocation[a], handler[h]).exists
        /\ Patched(allocation[a], handler[h]).amount =
                IF "amount" \in handler[h].changes THEN handler[h].amount ELSE allocation[a].amount
    BY <1>1, <2>1 DEF Patched, TypeOK, AllocationRow
  <2>3. allocation[a].amount \in Parts
    BY <1>1, <2>1 DEF RowsInv, Existing
  <2> QED BY <1>1, <2>1, <2>2, <2>3, HandlerType DEF TypeOK
<1> QED BY <1>2, <1>3

LEMMA RowsInvariant == Spec => []RowsInv
<1>1. Init => RowsInv
  <2>1. Init => Existing = {}
    BY DEF Init, Existing
  <2> QED BY <2>1, FS_EmptySet DEF RowsInv
<1>2. TypeOK /\ DatedInv /\ RowsInv /\ [Next]_vars => RowsInv'
  <2> SUFFICES ASSUME TypeOK, DatedInv, RowsInv, [Next]_vars PROVE RowsInv'
    OBVIOUS
  <2>1. CASE UNCHANGED allocation
    BY <2>1 DEF RowsInv, Existing
  <2>2. ASSUME NEW h \in Handlers, CreateCommit(h) \/ PatchCommit(h) PROVE RowsInv'
    <3>1. handler[h].pc = "patch" => allocation[handler[h].allocation].exists
      BY DEF DatedInv, PatchesAreDated
    <3>2. PICK a \in Allocations :
            /\ allocation'[a].exists /\ allocation'[a].amount \in Parts
            /\ \A b \in Allocations : b # a => allocation'[b] = allocation[b]
      BY <2>2, <3>1, CommittedRow
    <3>3. Existing' = Existing \cup {a}
      BY <3>2 DEF Existing
    <3>4. IsFiniteSet(Existing')
      BY <3>3, FS_AddElement DEF RowsInv
    <3>5. \A b \in Existing' : allocation'[b].amount \in Parts
      BY <3>2, <3>3 DEF RowsInv, Existing
    <3> QED BY <3>4, <3>5 DEF RowsInv
  <2> QED BY <2>1, <2>2, RowStep
<1>3. Init => DatedInv
  BY DEF Init, DatedInv, PatchesAreDated, RowsAreDated, Idle
<1> QED BY <1>1, <1>2, <1>3, DatedStep, TypeCorrect, PTL DEF Spec
-----------------------------------------------------------------------------
(* Handlers one at a time                                                  *)

Alone == \A g, h \in Handlers : handler[g] # Idle /\ handler[h] # Idle => g = h

\* The handler in flight writes a part for which, when it commits, there is
\* still the room it was judged to have.
HasRoom(h) ==
    /\ handler[h].pc = "create" =>
            Allocated(Existing) + handler[h].amount <= Amount
    /\ handler[h].pc = "patch" /\ "amount" \in handler[h].changes =>
            Allocated(Existing \ {handler[h].allocation}) + handler[h].amount <= Amount

FitInv ==
    "overlap" \notin mishaps => Alone /\ AllocationsFit /\ \A h \in Handlers : HasRoom(h)

\* A handler starts: there was none, and it is the only one.
LEMMA StartsAlone ==
    ASSUME TypeOK, Starts, "overlap" \notin mishaps', NEW h \in Handlers, NEW d,
           handler' = [handler EXCEPT ![h] = d]
    PROVE  /\ "overlap" \notin mishaps /\ mishaps' = mishaps
           /\ Quiet /\ Alone'
           /\ \A g \in Handlers : handler'[g] = IF g = h THEN d ELSE Idle
BY DEF Starts, Quiet, Alone, TypeOK

\* A handler that goes on is still the only one, and the others are idle.
LEMMA GoesOnAlone ==
    ASSUME TypeOK, Alone, NEW h \in Handlers, handler[h].pc # "idle", NEW d,
           handler' = [handler EXCEPT ![h] = d]
    PROVE  /\ Alone'
           /\ \A g \in Handlers : handler'[g] = IF g = h THEN d ELSE Idle
BY DEF Alone, TypeOK, Idle

LEMMA FitStep ==
    ASSUME TypeOK, TypeOK', RowsInv, RowsInv', DatedInv, FitInv, [Next]_vars PROVE FitInv'
<1> USE ConstantsAssumption
<1> SUFFICES ASSUME "overlap" \notin mishaps'
             PROVE  Alone' /\ AllocationsFit' /\ \A g \in Handlers : HasRoom(g)'
  BY DEF FitInv
<1>1. CASE UNCHANGED <<allocation, handler, mishaps>>
  BY <1>1, AllocatedStays DEF FitInv, Alone, AllocationsFit, HasRoom, Allocated
<1>2. ASSUME NEW h \in Handlers, NEW a \in Allocations, NEW amount \in Parts,
             CreateRead(h, a, amount)
      PROVE  Alone' /\ AllocationsFit' /\ \A g \in Handlers : HasRoom(g)'
  <2> DEFINE d == [pc |-> "create", allocation |-> a, amount |-> amount]
  <2>1. handler' = [handler EXCEPT ![h] = d] /\ Starts /\ UNCHANGED allocation
    BY <1>2 DEF CreateRead
  <2>2. /\ "overlap" \notin mishaps /\ Alone'
        /\ \A g \in Handlers : handler'[g] = IF g = h THEN d ELSE Idle
    BY <2>1, StartsAlone
  <2>3. AllocationsFit /\ Allocated(Existing) + amount <= Amount
    BY <1>2, <2>2 DEF FitInv, CreateRead, Fits
  <2> QED BY <2>1, <2>2, <2>3, AllocatedStays DEF AllocationsFit, HasRoom, Idle
<1>3. ASSUME NEW h \in Handlers, NEW a \in Allocations, NEW amount \in Parts,
             NEW status \in AllocationStatus, NEW changes \in SUBSET {"amount", "status"},
             PatchRead(h, a, amount, status, changes)
      PROVE  Alone' /\ AllocationsFit' /\ \A g \in Handlers : HasRoom(g)'
  <2> DEFINE d == [pc |-> "patch", allocation |-> a, amount |-> amount, status |-> status,
                   dated |-> "status" \in changes /\ Completes(allocation[a].status, status),
                   changes |-> changes]
  <2>0. d.pc = "patch" /\ d.allocation = a /\ d.amount = amount /\ d.changes = changes
    OBVIOUS
  <2>1. handler' = [handler EXCEPT ![h] = d]
    BY <1>3 DEF PatchRead
  <2> HIDE DEF d
  <2>2. Starts /\ UNCHANGED allocation
    BY <1>3 DEF PatchRead
  <2>3. /\ "overlap" \notin mishaps /\ Alone'
        /\ \A g \in Handlers : handler'[g] = IF g = h THEN d ELSE Idle
    BY <2>1, <2>2, StartsAlone
  <2>4. AllocationsFit /\ ("amount" \in changes => Allocated(Existing \ {a}) + amount <= Amount)
    BY <1>3, <2>3 DEF FitInv, PatchRead, Fits
  <2>5. Existing' = Existing /\ Worth' = Worth /\ AllocationsFit'
    BY <2>2, <2>4, AllocatedStays DEF AllocationsFit
  <2>6. ASSUME NEW g \in Handlers PROVE HasRoom(g)'
    <3>1. CASE g = h
      BY <2>0, <2>3, <2>4, <2>5, <3>1 DEF HasRoom, Allocated
    <3>2. CASE g # h
      BY <2>3, <3>2 DEF HasRoom, Idle
    <3> QED BY <3>1, <3>2
  <2> QED BY <2>3, <2>5, <2>6
<1>4. ASSUME NEW h \in Handlers, CreateCommit(h) \/ PatchCommit(h)
      PROVE  Alone' /\ AllocationsFit' /\ \A g \in Handlers : HasRoom(g)'
  <2>1. /\ handler' = [handler EXCEPT ![h] = [pc |-> "recompute"]] /\ UNCHANGED mishaps
        /\ handler[h].pc \in {"create", "patch"}
    BY <1>4 DEF CreateCommit, PatchCommit
  <2>2. Alone /\ AllocationsFit /\ HasRoom(h)
    BY <2>1 DEF FitInv
  <2>3. Alone' /\ \A g \in Handlers : handler'[g] = IF g = h THEN [pc |-> "recompute"] ELSE Idle
    BY <2>1, <2>2, GoesOnAlone
  <2>4. /\ handler[h].pc = "create" => ~allocation[handler[h].allocation].exists
        /\ handler[h].pc = "patch" => allocation[handler[h].allocation].exists
    BY DEF DatedInv, PatchesAreDated
  <2>5. PICK a \in Allocations :
            /\ a = handler[h].allocation /\ allocation'[a].exists
            /\ allocation'[a].amount =
                    IF handler[h].pc = "patch" /\ "amount" \notin handler[h].changes
                    THEN allocation[a].amount ELSE handler[h].amount
            /\ \A b \in Allocations : b # a => allocation'[b] = allocation[b]
    BY <1>4, <2>4, CommittedRow
  <2>6. Allocated(Existing)' = Allocated(Existing \ {a}) + allocation'[a].amount
    BY <2>5, AllocatedWith
  <2>7. Allocated(Existing \ {a}) + allocation'[a].amount <= Amount
    <3>1. CASE handler[h].pc = "create"
      <4>1. Existing \ {a} = Existing
        BY <2>4, <2>5, <3>1 DEF Existing
      <4> QED BY <2>2, <2>5, <3>1, <4>1 DEF HasRoom
    <3>2. CASE handler[h].pc = "patch"
      <4>1. a \in Existing
        BY <2>4, <2>5, <3>2 DEF Existing
      <4>2. Allocated(Existing) = Allocated(Existing \ {a}) + allocation[a].amount
        BY <4>1, AllocatedSplit
      <4> QED BY <2>2, <2>5, <3>2, <4>2 DEF HasRoom, AllocationsFit
    <3> QED BY <2>1, <3>1, <3>2
  <2> QED BY <2>3, <2>6, <2>7 DEF AllocationsFit, HasRoom, Idle
<1>5. ASSUME NEW h \in Handlers, Recompute(h) \/ Store(h) \/ Crash(h)
      PROVE  Alone' /\ AllocationsFit' /\ \A g \in Handlers : HasRoom(g)'
  <2>1. PICK d : /\ d.pc \in {"store", "idle"} /\ handler' = [handler EXCEPT ![h] = d]
                 /\ handler[h].pc # "idle" /\ UNCHANGED allocation
    <3>1. ASSUME Recompute(h)
          PROVE  handler' = [handler EXCEPT ![h] =
                                [pc |-> "store", utilization |-> Utilization(Existing)]]
      BY <3>1 DEF Recompute
    <3>2. Recompute(h) => handler[h].pc # "idle" /\ UNCHANGED allocation
      BY DEF Recompute
    <3>3. Store(h) => handler[h].pc # "idle" /\ UNCHANGED allocation
                        /\ handler' = [handler EXCEPT ![h] = Idle]
      BY DEF Store
    <3>4. Crash(h) => handler[h].pc # "idle" /\ UNCHANGED allocation
                        /\ handler' = [handler EXCEPT ![h] = Idle]
      BY DEF Crash, TypeOK, HandlerState, Idle
    <3> QED BY <1>5, <3>1, <3>2, <3>3, <3>4 DEF Idle
  <2>2. "overlap" \notin mishaps
    BY <1>5 DEF Recompute, Store, Crash
  <2>3. Alone /\ AllocationsFit
    BY <2>2 DEF FitInv
  <2>4. Alone' /\ \A g \in Handlers : handler'[g] = IF g = h THEN d ELSE Idle
    BY <2>1, <2>3, GoesOnAlone
  <2> QED BY <2>1, <2>3, <2>4, AllocatedStays DEF AllocationsFit, HasRoom, Idle
<1>6. ASSUME NEW paid \in BOOLEAN, SetPaid(paid) PROVE UNCHANGED <<allocation, handler, mishaps>>
  BY <1>6 DEF SetPaid
<1> QED BY <1>1, <1>2, <1>3, <1>4, <1>5, <1>6 DEF Next, Start, TrackingManager, AddAllocation,
        SetStatus, SetAmount, Proceed, vars

LEMMA FitInvariant == Spec => [](TypeOK /\ RowsInv /\ DatedInv /\ FitInv)
<1>1. Init => DatedInv /\ FitInv
  <2>1. Init => DatedInv
    BY DEF Init, DatedInv, PatchesAreDated, RowsAreDated, Idle
  <2>2. Init => Existing = {} /\ Allocated({}) = 0
    BY SumEmpty DEF Init, Existing, Allocated
  <2>3. Init => AllocationsFit
    BY <2>2, ConstantsAssumption DEF AllocationsFit
  <2>4. Init => Alone /\ \A h \in Handlers : HasRoom(h)
    BY DEF Init, Alone, HasRoom, Idle
  <2> QED BY <2>1, <2>3, <2>4 DEF FitInv
<1> QED BY <1>1, DatedStep, FitStep, RowsInvariant, TypeCorrect, PTL DEF Spec

\* The parts of a sponsorship fit the sponsored amount after any sequence of
\* creations, corrections and stops of the server without overlapping handlers,
\* for any number of parts.
THEOREM PartsFit == Spec => []NeverOverAllocated
<1>1. FitInv => NeverOverAllocated
  BY DEF FitInv, NeverOverAllocated
<1> QED BY <1>1, FitInvariant, PTL

-----------------------------------------------------------------------------
(* What the sponsor is shown *)

\* What has been bought is worth something.
LEMMA BoughtIsUtilized == ASSUME TypeOK, RowsInv PROVE Utilized = 0 <=> Bought = {}
<1>1. IsFiniteSet(Bought) /\ \A a \in Bought : Worth[a] \in Nat /\ Worth[a] > 0
  <2>1. IsFiniteSet(Bought)
    BY FS_Subset DEF RowsInv, Bought
  <2>2. ASSUME NEW a \in Bought PROVE Worth[a] \in Parts
    BY <2>2 DEF RowsInv, Bought, Existing, Worth
  <2>3. \A n \in Parts : n \in Nat /\ n > 0
    BY ConstantsAssumption
  <2> QED BY <2>1, <2>2, <2>3
<1>2. CASE Bought = {}
  BY <1>2, SumEmpty DEF Utilized, Allocated
<1>3. ASSUME NEW a \in Bought PROVE Utilized # 0
  <2>1. IsFiniteSet(Bought \ {a})
    BY <1>1, FS_RemoveElement
  <2>2. SumFunctionOnSet(Worth, Bought \ {a}) \in Nat
    BY <1>1, <2>1, SumSplit
  <2>3. SumFunctionOnSet(Worth, Bought) = Worth[a] + SumFunctionOnSet(Worth, Bought \ {a})
    BY <1>1, SumSplit
  <2> QED BY <1>1, <2>2, <2>3 DEF Utilized, Allocated
<1> QED BY <1>2, <1>3

\* Between handlers that finished the sponsorship says what its rows do, and the
\* one that is about to store the answer has it.
CurrentInv ==
    mishaps = {} =>
        /\ Quiet => sponsorship.utilization = Utilization(Existing)
        /\ \A h \in Handlers :
                handler[h].pc = "store" => handler[h].utilization = Utilization(Existing)

LEMMA CurrentStep == ASSUME TypeOK, FitInv, CurrentInv, [Next]_vars PROVE CurrentInv'
<1> SUFFICES ASSUME mishaps' = {}
             PROVE  /\ Quiet' => sponsorship'.utilization = Utilization(Existing)'
                    /\ \A g \in Handlers : handler'[g].pc = "store" =>
                            handler'[g].utilization = Utilization(Existing)'
  BY DEF CurrentInv
<1> DEFINE Goal == /\ Quiet' => sponsorship'.utilization = Utilization(Existing)'
                   /\ \A g \in Handlers : handler'[g].pc = "store" =>
                            handler'[g].utilization = Utilization(Existing)'
<1>0. UNCHANGED allocation => Utilization(Existing)' = Utilization(Existing)
  BY DEF Utilization, Existing
<1>1. ASSUME NEW paid \in BOOLEAN, SetPaid(paid) PROVE Goal
  <2>1. sponsorship'.utilization = sponsorship.utilization
    BY <1>1 DEF SetPaid, TypeOK, SponsorshipRow
  <2> QED BY <1>0, <1>1, <2>1 DEF SetPaid, CurrentInv, Quiet
<1>2. ASSUME NEW h \in Handlers, Start(h) PROVE Goal
  <2>1. PICK d : d.pc \in {"create", "patch"} /\ handler' = [handler EXCEPT ![h] = d] /\ Starts
    BY <1>2 DEF Start, TrackingManager, AddAllocation, SetStatus, SetAmount, CreateRead,
        PatchRead
  <2>2. \A g \in Handlers : handler'[g] = IF g = h THEN d ELSE Idle
    BY <2>1, StartsAlone
  <2> QED BY <2>1, <2>2 DEF Quiet, Idle
<1>3. ASSUME NEW h \in Handlers, Proceed(h) PROVE Goal
  <2>1. mishaps = {} /\ handler[h].pc # "idle"
    BY <1>3 DEF Proceed, CreateCommit, PatchCommit, Recompute, Store
  <2>2. Alone
    BY <2>1 DEF FitInv
  <2>3. ASSUME NEW d, handler' = [handler EXCEPT ![h] = d]
        PROVE  \A g \in Handlers : handler'[g] = IF g = h THEN d ELSE Idle
    BY <2>1, <2>2, <2>3, GoesOnAlone
  <2>4. CASE CreateCommit(h) \/ PatchCommit(h)
    <3>1. handler' = [handler EXCEPT ![h] = [pc |-> "recompute"]]
      BY <2>4 DEF CreateCommit, PatchCommit
    <3>2. \A g \in Handlers : handler'[g] = IF g = h THEN [pc |-> "recompute"] ELSE Idle
      BY <2>3, <3>1
    <3> QED BY <3>2 DEF Quiet, Idle
  <2>5. CASE Recompute(h)
    <3> DEFINE d == [pc |-> "store", utilization |-> Utilization(Existing)]
    <3>1. handler' = [handler EXCEPT ![h] = d] /\ UNCHANGED allocation
      BY <2>5 DEF Recompute
    <3>2. \A g \in Handlers : handler'[g] = IF g = h THEN d ELSE Idle
      BY <2>3, <3>1
    <3> QED BY <1>0, <3>1, <3>2 DEF Quiet, Idle
  <2>6. CASE Store(h)
    <3>1. handler' = [handler EXCEPT ![h] = Idle] /\ UNCHANGED allocation
      BY <2>6 DEF Store
    <3>2. \A g \in Handlers : handler'[g] = Idle
      BY <2>3, <3>1
    <3>3. sponsorship'.utilization = handler[h].utilization
      BY <2>6 DEF Store, TypeOK, SponsorshipRow
    <3> QED BY <1>0, <2>1, <2>6, <3>1, <3>2, <3>3 DEF Store, CurrentInv, Idle
  <2> QED BY <1>3, <2>4, <2>5, <2>6 DEF Proceed
<1>4. ASSUME NEW h \in Handlers, Crash(h) PROVE FALSE
  BY <1>4 DEF Crash
<1>5. CASE UNCHANGED vars
  BY <1>0, <1>5 DEF vars, CurrentInv, Quiet
<1> QED BY <1>1, <1>2, <1>3, <1>4, <1>5 DEF Next

\* Between handlers that neither overlapped nor stopped, the status of use the
\* sponsor sees agrees with the sum and the rows shown next to it.
THEOREM SponsorSeesUse == Spec => []UtilizationIsCurrent
<1>1. Init => CurrentInv
  BY DEF Init, CurrentInv, Utilization, Existing, Idle
<1>2. TypeOK /\ RowsInv /\ CurrentInv => UtilizationIsCurrent
  <2> SUFFICES ASSUME TypeOK, RowsInv, CurrentInv, Quiet, mishaps = {}
               PROVE  /\ sponsorship.utilization = "NOT_STARTED" <=> Utilized = 0
                      /\ sponsorship.utilization = "COMPLETED" <=>
                            /\ Existing # {}
                            /\ {a \in Existing : allocation[a].status # "COMPLETED"} = {}
    BY DEF UtilizationIsCurrent
  <2>1. sponsorship.utilization = Utilization(Existing)
    BY DEF CurrentInv
  <2>2. Utilization(Existing) = "NOT_STARTED" <=> Bought = {}
    BY DEF Utilization, Bought
  <2>3. Utilization(Existing) = "COMPLETED" <=>
            Existing # {} /\ {a \in Existing : allocation[a].status # "COMPLETED"} = {}
    BY DEF Utilization
  <2> QED BY <2>1, <2>2, <2>3, BoughtIsUtilized
<1> QED BY <1>1, <1>2, CurrentStep, FitInvariant, PTL DEF Spec
=============================================================================
