--------------------------- MODULE GpuCellsProofs ---------------------------
(***************************************************************************)
(* Proofs about GpuCells, for every set of containers and of instances and *)
(* any number of faults: a Pod keeps its claim unless two containers       *)
(* created its cell at once or an error came back though it was there.     *)
(***************************************************************************)
EXTENDS GpuCells, TLAPS

USE CellTypes

-----------------------------------------------------------------------------
(***************************************************************************)
(* Type correctness                                                        *)
(***************************************************************************)
LEMMA InitTypeOK == Init => TypeOK
<1>1. Init => node \in BOOLEAN /\ spoiled \in BOOLEAN
    BY DEF Init
<1> QED BY <1>1 DEF Init, TypeOK, Steps, Cells, Startable

\* What the ways to go on do to the local state.
LEMMA LocalTypes ==
    ASSUME TypeOK, NEW p \in Procs
    PROVE  /\ \A step \in Steps : Moves(p, step) =>
                  pc' \in [Procs -> Steps] /\ on' \in [Procs -> Instances \union {NoOne}]
           /\ \A step \in Steps : Goto(p, step) =>
                  /\ pc' \in [Procs -> Steps] /\ on' \in [Procs -> Instances \union {NoOne}]
                  /\ spoiled' \in BOOLEAN
           /\ Return(p) =>
                  /\ pc' \in [Procs -> Steps] /\ on' \in [Procs -> Instances \union {NoOne}]
                  /\ cell' \in [Procs -> Cells] /\ spoiled' \in BOOLEAN
BY DEF TypeOK, Goto, Moves, Return, Steps, Cells

\* Told is only used by Get, for a container that works on an instance or whose
\* update of the state is none.
LEMMA ToldTypes ==
    ASSUME TypeOK, NEW p \in Procs, NEW c \in Cells, Told(p, c)
    PROVE  /\ state' \in [Instances -> Startable \union Serving]
           /\ pc' \in [Procs -> Steps] /\ on' \in [Procs -> Instances \union {NoOne}]
           /\ cell' \in [Procs -> Cells] /\ spoiled' \in BOOLEAN
<1>1. CASE c = "FAILED"
    BY <1>1, LocalTypes DEF Told, TypeOK
<1>2. CASE c # "FAILED" /\ state[on[p]] = "PENDING_CAPACITY"
    BY <1>2, LocalTypes DEF Told, TypeOK, Serving
<1>3. CASE c # "FAILED" /\ state[on[p]] # "PENDING_CAPACITY"
    <2>1. Goto(p, "ask") /\ cell' = [cell EXCEPT ![p] = c] /\ UNCHANGED state
        BY <1>3 DEF Told
    <2> QED BY <2>1, LocalTypes DEF TypeOK, Steps
<1> QED BY <1>1, <1>2, <1>3

LEMMA WorkTypeOK ==
    ASSUME TypeOK, NEW p \in Procs, Work(p)
    PROVE  TypeOK'
<1>1. CASE Get(p)
    <2>1. CellState \in Cells /\ "POD_PENDING" \in Cells
        BY DEF CellState, Cells
    <2>2. CASE \E c \in Cells : Told(p, c)
        BY <1>1, <2>2, ToldTypes DEF Get, TypeOK, kube
    <2>3. CASE Goto(p, "get") /\ UNCHANGED <<state, cell>>
        BY <1>1, <2>3, LocalTypes DEF Get, TypeOK, kube, Steps
    <2>4. CASE Create(p) /\ UNCHANGED <<state, cell>>
        <3>1. spoiled' \in BOOLEAN
            BY <2>4 DEF Create
        <3> QED BY <1>1, <2>4, <3>1, LocalTypes DEF Create, Get, TypeOK, kube, Steps
    <2> QED BY <1>1, <2>1, <2>2, <2>3, <2>4 DEF Get
<1>2. CASE PostClaim(p)
    BY <1>2, LocalTypes DEF PostClaim, TypeOK, Steps
<1>3. CASE PostPod(p)
    <2>1. "again" \in Steps /\ "undo" \in Steps
        BY DEF Steps
    <2>2. faults' \in 0..MaxFaults
        BY <1>3 DEF PostPod, Fault, TypeOK
    <2>3. pod' \in {"none", "pending", "running", "ready", "failed"}
        BY <1>3 DEF PostPod, Posted, TypeOK
    <2>4. spoiled' \in BOOLEAN
        BY <1>3 DEF PostPod, Goto, TypeOK
    <2>5. pc' \in [Procs -> Steps] /\ on' \in [Procs -> Instances \union {NoOne}]
        BY <1>3, <2>1, LocalTypes DEF PostPod, Goto
    <2> QED BY <1>3, <2>2, <2>3, <2>4, <2>5 DEF PostPod, TypeOK
<1>4. CASE Undo(p)
    <2>1. claim' \in {"none", "free", "held", "ending"}
        BY <1>4 DEF Undo, TypeOK
    <2> QED BY <1>4, <2>1, LocalTypes DEF Undo, TypeOK
<1>5. CASE AskManager(p)
    BY <1>5, LocalTypes DEF AskManager, TypeOK, kube, Serving
<1> QED BY <1>1, <1>2, <1>3, <1>4, <1>5 DEF Work

LEMMA NextTypeOK == TypeOK /\ [Next]_vars => TypeOK'
<1> SUFFICES ASSUME TypeOK, [Next]_vars
             PROVE  TypeOK'
    OBVIOUS
<1>1. CASE Kubernetes
    <2>1. node' \in BOOLEAN
        BY <1>1 DEF Kubernetes, TypeOK
    <2>2. claim' \in {"none", "free", "held", "ending"}
          /\ pod' \in {"none", "pending", "running", "ready", "failed"}
        BY <1>1 DEF Kubernetes, Released, TypeOK
    <2>3. faults' \in 0..MaxFaults
        BY <1>1 DEF Kubernetes, Fault, TypeOK
    <2> QED BY <1>1, <2>1, <2>2, <2>3 DEF Kubernetes, TypeOK, local
<1>2. ASSUME NEW p \in Procs, Work(p)
      PROVE  TypeOK'
    BY <1>2, WorkTypeOK
<1>3. ASSUME NEW p \in Procs, Raise(p)
      PROVE  TypeOK'
    <2>1. faults' \in 0..MaxFaults
        BY <1>3 DEF Raise, Fault, TypeOK
    <2>2. /\ pod' \in {"none", "pending", "running", "ready", "failed"}
          /\ claim' \in {"none", "free", "held", "ending"}
        BY <1>3 DEF Raise, Posted, TypeOK
    <2> QED BY <1>3, <2>1, <2>2, LocalTypes DEF Raise, TypeOK
<1>4. ASSUME NEW p \in Procs, NEW u \in Instances, Begin(p, u)
      PROVE  TypeOK'
    BY <1>4 DEF Begin, TypeOK, kube, Steps, Startable
<1>5. CASE UNCHANGED vars
    BY <1>5 DEF vars, TypeOK
<1> QED BY <1>1, <1>2, <1>3, <1>4, <1>5 DEF Next

\* The cell, the sessions and what the containers are doing are of their types.
THEOREM TypeCorrect == Spec => []TypeOK
BY InitTypeOK, NextTypeOK, PTL DEF Spec

-----------------------------------------------------------------------------
(***************************************************************************)
(* The Pod keeps its claim                                                 *)
(***************************************************************************)
\* The claim is held by a Pod that runs, and about to go only with such a Pod.
HeldByPod == claim \in {"held", "ending"} => pod \in {"running", "ready"}

\* A container that creates the cell is the only one, and found no Pod; when it
\* comes to the Pod its claim is there.
Creator(p) == /\ pod = "none"
              /\ pc[p] = "pod" => claim = "free"
              /\ \A q \in Procs : Creating(q) => q = p

Sound == /\ PodHasClaim
         /\ \A p \in Procs : Creating(p) => Creator(p)

CellInv == HeldByPod /\ (~spoiled => Sound)

\* A step that leaves the cell alone and makes nobody a creator.
LEMMA CellKept ==
    ASSUME TypeOK, CellInv, ~spoiled' => ~spoiled, UNCHANGED kube,
           \A q \in Procs : Creating(q)' => pc'[q] = pc[q]
    PROVE  CellInv'
<1>1. HeldByPod'
    BY DEF CellInv, HeldByPod, kube
<1>2. ASSUME ~spoiled'
      PROVE  Sound'
    BY <1>2 DEF CellInv, Sound, PodHasClaim, Creator, Creating, kube
<1> QED BY <1>1, <1>2 DEF CellInv

\* p no longer creates the cell, and nobody else did.
LEMMA CreatorGone ==
    ASSUME TypeOK, NEW p \in Procs, Creating(p), Creator(p), Return(p) \/ Goto(p, "again"),
           HeldByPod', PodHasClaim'
    PROVE  CellInv'
<1>1. pc'[p] \notin {"claim", "pod", "undo"}
      /\ \A q \in Procs \ {p} : pc'[q] = pc[q]
    BY DEF Return, Goto, Moves, TypeOK
<1> QED BY <1>1 DEF CellInv, Sound, Creator, Creating

\* Who finds no Pod and nobody at work starts from a sound cell.
LEMMA CreateCell ==
    ASSUME TypeOK, CellInv, NEW p \in Procs, pod = "none", Create(p), UNCHANGED kube
    PROVE  CellInv'
<1>1. HeldByPod'
    BY DEF CellInv, HeldByPod, kube
<1>2. ASSUME ~spoiled'
      PROVE  Sound'
    <2>1. /\ \A q \in Procs \ {p} : ~Creating(q)
          /\ pc'[p] = "claim" /\ \A q \in Procs \ {p} : pc'[q] = pc[q]
        BY <1>2 DEF Create, Moves, TypeOK
    <2> QED BY <2>1 DEF Sound, PodHasClaim, Creator, Creating, kube
<1> QED BY <1>1, <1>2 DEF CellInv

LEMMA GetCell ==
    ASSUME TypeOK, CellInv, NEW p \in Procs, Get(p)
    PROVE  CellInv'
<1>1. CASE \E c : Told(p, c)
    <2>1. /\ pc'[p] \in {"idle", "ask"} /\ UNCHANGED kube
          /\ (~spoiled' => ~spoiled)
          /\ \A q \in Procs \ {p} : pc'[q] = pc[q]
        BY <1>1 DEF Get, Told, Return, Goto, Moves, TypeOK
    <2>2. \A q \in Procs : Creating(q)' => pc'[q] = pc[q]
        BY <2>1 DEF Creating
    <2> QED BY <2>1, <2>2, CellKept
<1>2. CASE Goto(p, "get") /\ UNCHANGED kube
    <2>1. /\ pc'[p] = "get"
          /\ (~spoiled' => ~spoiled)
          /\ \A q \in Procs \ {p} : pc'[q] = pc[q]
        BY <1>2 DEF Goto, Moves, TypeOK
    <2>2. \A q \in Procs : Creating(q)' => pc'[q] = pc[q]
        BY <2>1 DEF Creating
    <2> QED BY <1>2, <2>1, <2>2, CellKept
<1>3. CASE pod = "none" /\ Create(p) /\ UNCHANGED kube
    BY <1>3, CreateCell
<1> QED BY <1>1, <1>2, <1>3 DEF Get

\* The three requests of p that create the cell, where it is sound.
LEMMA CreatingCell ==
    ASSUME TypeOK, CellInv, ~spoiled, NEW p \in Procs, PostClaim(p) \/ PostPod(p) \/ Undo(p)
    PROVE  CellInv'
<1>1. Creating(p) /\ Creator(p) /\ HeldByPod /\ PodHasClaim
    BY DEF CellInv, Sound, Creating, PostClaim, PostPod, Undo
<1>2. claim \in {"none", "free"}
    BY <1>1 DEF Creator, HeldByPod, TypeOK
<1>3. CASE PostClaim(p)
    <2>1. /\ pc'[p] = "pod" /\ \A q \in Procs \ {p} : pc'[q] = pc[q]
          /\ claim' = "free" /\ pod' = "none"
        BY <1>1, <1>2, <1>3 DEF PostClaim, Goto, Moves, TypeOK, Creator
    <2> QED BY <1>1, <2>1 DEF CellInv, HeldByPod, Sound, PodHasClaim, Creator, Creating
<1>4. CASE PostPod(p) /\ Goto(p, "again")
    <2>1. claim' = "free"
        BY <1>1, <1>4 DEF PostPod, Creator
    <2> QED BY <1>1, <1>4, <2>1, CreatorGone DEF HeldByPod, PodHasClaim
<1>5. CASE PostPod(p) /\ Moves(p, "undo") /\ spoiled' = (spoiled \/ pod' # "none")
    <2>1. /\ pc'[p] = "undo" /\ \A q \in Procs \ {p} : pc'[q] = pc[q]
          /\ UNCHANGED claim
        BY <1>5 DEF PostPod, Moves, TypeOK
    <2>2. HeldByPod'
        BY <1>2, <2>1 DEF HeldByPod
    <2>3. ASSUME ~spoiled'
          PROVE  Sound'
        BY <1>1, <1>5, <2>1, <2>3 DEF Sound, PodHasClaim, Creator, Creating
    <2> QED BY <2>2, <2>3 DEF CellInv
<1>6. CASE Undo(p)
    <2>1. HeldByPod' /\ PodHasClaim'
        BY <1>1, <1>2, <1>6 DEF Undo, HeldByPod, PodHasClaim, Creator
    <2> QED BY <1>1, <1>6, <2>1, CreatorGone DEF Undo
<1> QED BY <1>3, <1>4, <1>5, <1>6 DEF PostPod

\* Whatever happens to a spoiled cell, its claim is held by its Pod.
LEMMA SpoiledCell ==
    ASSUME TypeOK, CellInv, spoiled, NEW p \in Procs, PostClaim(p) \/ PostPod(p) \/ Undo(p)
    PROVE  CellInv'
<1>1. spoiled'
    BY DEF PostClaim, PostPod, Undo, Goto, Return
<1>2. HeldByPod'
    BY DEF CellInv, HeldByPod, PostClaim, PostPod, Posted, Undo, TypeOK
<1> QED BY <1>1, <1>2 DEF CellInv

LEMMA WorkCell ==
    ASSUME TypeOK, CellInv, NEW p \in Procs, Work(p)
    PROVE  CellInv'
<1>1. CASE AskManager(p)
    BY <1>1, CellKept DEF AskManager, Return, TypeOK, Creating
<1> QED BY <1>1, GetCell, CreatingCell, SpoiledCell DEF Work

LEMMA RaiseCell ==
    ASSUME TypeOK, CellInv, NEW p \in Procs, Raise(p)
    PROVE  CellInv'
<1>1. HeldByPod'
    BY DEF CellInv, HeldByPod, Raise, Posted, TypeOK
<1>2. CASE spoiled
    BY <1>1, <1>2 DEF CellInv, Raise, Return
<1>3. CASE ~spoiled /\ Creating(p)
    <2>1. Creator(p) /\ HeldByPod
        BY <1>3 DEF CellInv, Sound
    <2>2. PodHasClaim'
        BY <1>3, <2>1 DEF Raise, PodHasClaim, Creator, Creating
    <2> QED BY <1>1, <1>3, <2>1, <2>2, CreatorGone DEF Raise
<1>4. CASE ~spoiled /\ ~Creating(p)
    BY <1>4, CellKept DEF Raise, Return, Creating, kube, TypeOK
<1> QED BY <1>2, <1>3, <1>4

LEMMA KubernetesCell ==
    ASSUME TypeOK, CellInv, Kubernetes
    PROVE  CellInv'
<1>1. HeldByPod'
    BY DEF Kubernetes, Released, CellInv, HeldByPod, TypeOK
<1>2. ASSUME ~spoiled'
      PROVE  Sound'
    BY <1>2 DEF Kubernetes, Released, CellInv, Sound, PodHasClaim, Creator, Creating, local, TypeOK
<1> QED BY <1>1, <1>2 DEF CellInv

LEMMA NextCell == TypeOK /\ CellInv /\ [Next]_vars => CellInv'
<1> SUFFICES ASSUME TypeOK, CellInv, [Next]_vars
             PROVE  CellInv'
    OBVIOUS
<1>1. ASSUME NEW p \in Procs, NEW u \in Instances, Begin(p, u)
      PROVE  CellInv'
    BY <1>1, CellKept DEF Begin, TypeOK, Creating
<1>2. CASE UNCHANGED vars
    BY <1>2, CellKept DEF vars, kube, Creating
<1> QED BY <1>1, <1>2, KubernetesCell, WorkCell, RaiseCell DEF Next

\* No rollback, crash or lost Pod costs a Pod its claim but in the two cases that
\* spoil the cell, and what is created after such a Pod is gone is sound again.
THEOREM PodKeepsClaim == Spec => []PodHasClaim
<1>1. Init => CellInv
    BY DEF Init, CellInv, HeldByPod, Sound, PodHasClaim, Creating
<1>2. CellInv => PodHasClaim
    BY DEF CellInv, Sound, PodHasClaim
<1> QED BY <1>1, <1>2, NextCell, TypeCorrect, PTL DEF Spec
=============================================================================
