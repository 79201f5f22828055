-------------------------- MODULE OfferingsProofs --------------------------
(***************************************************************************)
(* Proofs about Offerings, for every set of offerings and instances and    *)
(* whatever an operator writes into the file, however often.               *)
(***************************************************************************)
EXTENDS Offerings, TLAPS

USE OfferingsTypes

LEMMA InitTypeOK == Init => TypeOK
BY DEF Init, TypeOK, States, Procs

LEMMA StepTypeOK ==
    ASSUME TypeOK, [Next]_vars
    PROVE  TypeOK'
<1> USE DEF TypeOK
<1>1. ASSUME NEW c \in Contents, Edit(c)
      PROVE  TypeOK'
    BY <1>1 DEF Edit
<1>2. ASSUME NEW p \in Procs, Killed(p) \/ Starts(p)
      PROVE  TypeOK'
    BY <1>2 DEF Killed, Starts
<1>3. CASE Sync
    BY <1>3 DEF Sync, Content
<1>4. ASSUME NEW u \in Instances, NovaBuilds(u) \/ NovaDeletes(u)
      PROVE  TypeOK'
    BY <1>4 DEF NovaBuilds, NovaDeletes
<1>5. ASSUME NEW p \in Procs, NEW u \in Instances, NEW f \in Offerings, EnsureCell(runs[p], f),
             runs[p] # NotRunning
      PROVE  pods' \subseteq CellProfiles
    BY <1>5 DEF EnsureCell, Content
<1>6. ASSUME NEW u \in Instances, NEW s \in States, state[u] # "ABSENT",
             state' = [state EXCEPT ![u] = s]
      PROVE  /\ state' \in [Instances -> States]
             /\ \A v \in Instances : under[v] = NotRunning => state'[v] = "ABSENT"
    BY <1>6
<1>7. /\ Serving \subseteq States /\ {"RESERVED", "STARTING", "DELETED"} \subseteq States
      /\ "ABSENT" \notin Startable /\ "ABSENT" \in Admittable
    BY DEF Serving, Startable, Admittable, States, Persisted
<1>8. ASSUME NEW p \in Procs, NEW u \in Instances, AdmitBuild(p, u)
      PROVE  TypeOK'
    <2>1. runs[p] \in Contents /\ runs[p] # NotRunning
        BY <1>8 DEF AdmitBuild
    <2>2. /\ state' \in [Instances -> States] /\ under' \in [Instances -> Contents \union {NotRunning}]
          /\ \A v \in Instances : under'[v] = NotRunning => state'[v] = "ABSENT"
        BY <1>7, <1>8, <2>1 DEF AdmitBuild
    <2> QED BY <1>8, <2>2 DEF AdmitBuild
<1>9. ASSUME NEW p \in Procs, NEW u \in Instances, InstanceActive(p, u)
      PROVE  TypeOK'
    <2>1. pods' \subseteq CellProfiles
        BY <1>5, <1>9 DEF InstanceActive
    <2>2. /\ state' \in [Instances -> States]
          /\ \A v \in Instances : under[v] = NotRunning => state'[v] = "ABSENT"
        BY <1>6, <1>7, <1>9 DEF InstanceActive
    <2>3. runs' \in [Procs -> Contents \union {NotRunning}]
        BY <1>9 DEF InstanceActive
    <2> QED BY <1>9, <2>1, <2>2, <2>3 DEF InstanceActive
<1>10. ASSUME NEW p \in Procs, NEW u \in Instances, RefreshSession(p, u)
      PROVE  TypeOK'
    <2>1. pods' \subseteq CellProfiles
        BY <1>5, <1>10 DEF RefreshSession
    <2>2. /\ state' \in [Instances -> States]
          /\ \A v \in Instances : under[v] = NotRunning => state'[v] = "ABSENT"
        BY <1>6, <1>7, <1>10 DEF RefreshSession
    <2> QED BY <1>10, <2>1, <2>2 DEF RefreshSession
<1>11. ASSUME NEW p \in Procs, NEW u \in Instances, DeleteInstance(p, u)
      PROVE  TypeOK'
    <2>1. /\ state' \in [Instances -> States]
          /\ \A v \in Instances : under[v] = NotRunning => state'[v] = "ABSENT"
        BY <1>6, <1>7, <1>11 DEF DeleteInstance
    <2> QED BY <1>11, <2>1 DEF DeleteInstance
<1>12. CASE UNCHANGED vars
    BY <1>12 DEF vars
<1> QED BY <1>1, <1>2, <1>3, <1>4, <1>8, <1>9, <1>10, <1>11, <1>12 DEF Next

\* Whatever the files and the sessions, the values are of their types.
THEOREM TypeCorrect == Spec => []TypeOK
BY InitTypeOK, StepTypeOK, PTL DEF Spec

-----------------------------------------------------------------------------
(***************************************************************************)
(* The comparisons that load makes are enough: what has a quota has a      *)
(* size, a mapping and a cell.                                             *)
(***************************************************************************)
THEOREM AcceptedCatalogIsConsistent ==
    ASSUME NEW c \in Content, Accepted(c), c.cells, NEW f \in c.limited
    PROVE  Creatable(c, f)
BY DEF Accepted, Creatable, GetsCell

\* A container runs a file that was accepted, and a session that has not been
\* created was admitted by one, for an offering that had a quota in its file.
AdmittedByAccepted ==
    /\ \A p \in Procs : runs[p] # NotRunning => Accepted(runs[p])
    /\ \A u \in Instances : state[u] \in Startable =>
          Accepted(under[u]) /\ OfferingOf[u] \in under[u].limited

LEMMA StepAdmitted ==
    ASSUME TypeOK, AdmittedByAccepted, [Next]_vars
    PROVE  AdmittedByAccepted'
<1> USE DEF TypeOK, AdmittedByAccepted
<1>1. ASSUME NEW c, Edit(c)
      PROVE  AdmittedByAccepted'
    BY <1>1 DEF Edit
<1>2. ASSUME NEW p \in Procs, Killed(p) \/ Starts(p)
      PROVE  AdmittedByAccepted'
    BY <1>2 DEF Killed, Starts
<1>3. CASE Sync
    BY <1>3 DEF Sync
<1>4. ASSUME NEW u \in Instances, NovaBuilds(u) \/ NovaDeletes(u)
      PROVE  AdmittedByAccepted'
    BY <1>4 DEF NovaBuilds, NovaDeletes
<1>5. ASSUME NEW p \in Procs, NEW u \in Instances, AdmitBuild(p, u)
      PROVE  AdmittedByAccepted'
    BY <1>5 DEF AdmitBuild
<1>6. ASSUME NEW p \in Procs, NEW u \in Instances, InstanceActive(p, u)
      PROVE  AdmittedByAccepted'
    BY <1>6 DEF InstanceActive
<1>7. ASSUME NEW p \in Procs, NEW u \in Instances, RefreshSession(p, u)
      PROVE  AdmittedByAccepted'
    BY <1>7 DEF RefreshSession, Serving, Startable
<1>8. ASSUME NEW p \in Procs, NEW u \in Instances, DeleteInstance(p, u)
      PROVE  AdmittedByAccepted'
    BY <1>8 DEF DeleteInstance, Startable
<1>9. CASE UNCHANGED vars
    BY <1>9 DEF vars
<1> QED BY <1>1, <1>2, <1>3, <1>4, <1>5, <1>6, <1>7, <1>8, <1>9 DEF Next

\* Nothing is admitted that could not be created, whatever was in the file
\* before and whatever Placement still has of it.
THEOREM AdmittedIsCreatable == Spec => []AdmittedCanBeCreated
<1>1. Init => AdmittedByAccepted
    BY DEF Init, AdmittedByAccepted, Startable
<1>2. TypeOK /\ AdmittedByAccepted => AdmittedCanBeCreated
    <2> SUFFICES ASSUME TypeOK, AdmittedByAccepted, NEW u \in Instances,
                        state[u] \in Startable, under[u].cells
                 PROVE  Creatable(under[u], OfferingOf[u])
        BY DEF AdmittedCanBeCreated
    <2>1. under[u] \in Content
        BY DEF TypeOK, Startable
    <2> QED BY <2>1, AcceptedCatalogIsConsistent DEF AdmittedByAccepted
<1> QED BY <1>1, <1>2, StepAdmitted, TypeCorrect, PTL DEF Spec
=============================================================================
