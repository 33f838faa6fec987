------------------------- MODULE Application_proofs -------------------------
(***************************************************************************)
(* Every part of Application keeps its promise, whatever the others do.     *)
(*                                                                         *)
(* Each part has an inductive invariant of its own: a step of the          *)
(* application is a step of one part, which leaves what the others have.    *)
(* Sums and orders that the modules compute with folds are followed one     *)
(* element at a time: a set of subsets that has {} and, with what a fold    *)
(* leaves of a subset, that subset, has every subset (SubsetsAreReached).   *)
(***************************************************************************)
EXTENDS Application, Sequences, FiniteSetTheorems, WellFoundedInduction, TLAPS

-----------------------------------------------------------------------------
(* Induction, on sets of numbers and of subsets *)

\* A set with 0 and the successors of its numbers has all of them.
LEMMA NaturalsAreReached ==
  ASSUME NEW T, 0 \in T, \A n \in Nat : n \in T => n + 1 \in T
  PROVE  \A n \in Nat : n \in T
<1> DEFINE H == {n \in Nat : n \notin T}
<1> SUFFICES ASSUME H # {} PROVE FALSE
  OBVIOUS
<1> DEFINE Less == OpToRel(<, Nat)
<1>1. PICK n \in H : \A m \in H : <<m, n>> \notin Less
  <2>1. IsWellFoundedOn(Less, Nat)
    BY NatLessThanWellFounded
  <2>2. H \subseteq Nat
    OBVIOUS
  <2> HIDE DEF H, Less
  <2>3. \E n \in H : \A m \in H : ~(<<m, n>> \in Less)
    BY <2>1, <2>2, WFMin, ZenonT(20)
  <2> QED
    BY <2>3, Zenon
<1>2. n # 0 /\ n - 1 \in Nat
  OBVIOUS
<1>3. <<n - 1, n>> \in Less
  BY <1>2 DEF OpToRel
<1>4. n - 1 \notin H
  BY <1>1, <1>3
<1> QED
  BY <1>2, <1>4

\* The element that a fold takes next.
Pick(s) == CHOOSE x \in s : TRUE

\* What Pick takes was there, and one element less is left.
LEMMA PickTakes ==
  ASSUME NEW Z, IsFiniteSet(Z), NEW s \in SUBSET Z, s # {}
  PROVE  /\ Pick(s) \in s /\ s \ {Pick(s)} \in SUBSET Z
         /\ Cardinality(s) \in Nat /\ Cardinality(s \ {Pick(s)}) = Cardinality(s) - 1
<1>1. Pick(s) \in s
  BY DEF Pick
<1>2. IsFiniteSet(s)
  BY FS_Subset
<1> QED
  BY <1>1, <1>2, FS_RemoveElement, FS_CardinalityType

\* A set with {} and, with what a fold leaves of a subset, that subset, has all of them.
LEMMA SubsetsAreReached ==
  ASSUME NEW Z, IsFiniteSet(Z), NEW T, {} \in T,
         \A s \in SUBSET Z : s # {} /\ s \ {Pick(s)} \in T => s \in T
  PROVE  \A s \in SUBSET Z : s \in T
<1> DEFINE W == {n \in Nat : \A s \in SUBSET Z : Cardinality(s) = n => s \in T}
<1>0. \A s \in SUBSET Z : IsFiniteSet(s) /\ Cardinality(s) \in Nat
  BY FS_Subset, FS_CardinalityType
<1>1. 0 \in W
  BY <1>0, FS_EmptySet
<1>2. ASSUME NEW n \in Nat, n \in W PROVE n + 1 \in W
  <2> SUFFICES ASSUME NEW s \in SUBSET Z, Cardinality(s) = n + 1 PROVE s \in T
    OBVIOUS
  <2>1. s # {}
    BY FS_EmptySet
  <2>2. s \ {Pick(s)} \in SUBSET Z /\ Cardinality(s \ {Pick(s)}) = n
    BY <2>1, PickTakes
  <2> QED
    BY <1>2, <2>1, <2>2
<1>3. \A n \in Nat : n \in W
  <2> HIDE DEF W
  <2> QED
    BY <1>1, <1>2, NaturalsAreReached
<1> QED
  BY <1>0, <1>3

-----------------------------------------------------------------------------
(* Sums *)

\* What a fold adds up over the subsets of Z, one element after the other.
Adds(Z, w, h) ==
  h = [s \in SUBSET Z |-> IF s = {} THEN 0 ELSE LET x == CHOOSE x \in s : TRUE IN w[x] + h[s \ {x}]]

SumUpTo(Z, w) == CHOOSE h : Adds(Z, w, h)

Sum(Z, w) == SumUpTo(Z, w)[Z]

LEMMA AddsPointwise ==
  ASSUME NEW Z, NEW w, NEW h
  PROVE  Adds(Z, w, h) <=>
           /\ h = [s \in SUBSET Z |-> h[s]]
           /\ \A s \in SUBSET Z : h[s] = IF s = {} THEN 0 ELSE w[Pick(s)] + h[s \ {Pick(s)}]
<1>1. Adds(Z, w, h) <=>
        h = [s \in SUBSET Z |-> IF s = {} THEN 0 ELSE w[Pick(s)] + h[s \ {Pick(s)}]]
  BY Zenon DEF Adds, Pick
<1> QED
  BY <1>1

\* There is such a function: the equation holds for ever larger subsets.
LEMMA SumsExist ==
  ASSUME NEW Z, IsFiniteSet(Z), NEW w
  PROVE  Adds(Z, w, SumUpTo(Z, w))
<1> DEFINE Right(h, s) == h[s] = IF s = {} THEN 0 ELSE w[Pick(s)] + h[s \ {Pick(s)}]
           Next_(h) == [s \in SUBSET Z |-> IF s = {} THEN 0 ELSE w[Pick(s)] + h[s \ {Pick(s)}]]
           UpTo(n, h) == \A s \in SUBSET Z : Cardinality(s) <= n => Right(h, s)
           W == {n \in Nat : \E h : h = [s \in SUBSET Z |-> h[s]] /\ UpTo(n, h)}
<1>0. \A s \in SUBSET Z : IsFiniteSet(s) /\ Cardinality(s) \in Nat /\ (Cardinality(s) = 0 <=> s = {})
  BY FS_Subset, FS_CardinalityType, FS_EmptySet
<1>1. 0 \in W
  <2> DEFINE h == [s \in SUBSET Z |-> 0]
  <2>1. h = [s \in SUBSET Z |-> h[s]] /\ UpTo(0, h)
    BY <1>0
  <2> QED
    BY <2>1
<1>2. ASSUME NEW n \in Nat, n \in W PROVE n + 1 \in W
  <2>1. PICK h : h = [s \in SUBSET Z |-> h[s]] /\ UpTo(n, h)
    BY <1>2
  <2> DEFINE g == Next_(h)
  <2>2. ASSUME NEW s \in SUBSET Z, Cardinality(s) <= n + 1 PROVE Right(g, s)
    <3>1. CASE s = {}
      BY <3>1
    <3>2. CASE s # {}
      <4> DEFINE r == s \ {Pick(s)}
      <4>1. r \in SUBSET Z /\ Cardinality(r) <= n
        BY <2>2, <3>2, PickTakes
      <4>2. h[r] = g[r]
        BY <2>1, <4>1
      <4>3. g[s] = w[Pick(s)] + h[r]
        BY <3>2
      <4> QED
        BY <3>2, <4>2, <4>3
    <3> QED
      BY <3>1, <3>2
  <2>3. g = [s \in SUBSET Z |-> g[s]] /\ UpTo(n + 1, g)
    BY <2>2
  <2> HIDE DEF g, UpTo
  <2>4. \E h_1 : h_1 = [s \in SUBSET Z |-> h_1[s]] /\ UpTo(n + 1, h_1)
    BY <2>3, Zenon
  <2> QED
    BY <2>4
<1>3. Cardinality(Z) \in W
  <2>1. \A n \in Nat : n \in W
    <3> HIDE DEF W
    <3> QED
      BY <1>1, <1>2, NaturalsAreReached
  <2> QED
    BY <1>0, <2>1
<1>4. PICK h : h = [s \in SUBSET Z |-> h[s]] /\ UpTo(Cardinality(Z), h)
  BY <1>3
<1>5. \A s \in SUBSET Z : Cardinality(s) <= Cardinality(Z)
  BY FS_Subset
<1>6. \A s \in SUBSET Z : Right(h, s)
  BY <1>4, <1>5
<1>7. Adds(Z, w, h)
  BY <1>4, <1>6, AddsPointwise
<1> QED
  BY <1>7 DEF SumUpTo

\* The sum over nothing is 0, and over something that of what the fold takes and the rest.
Totals(Z, w, h) ==
  /\ h[{}] = 0
  /\ \A s \in SUBSET Z : s # {} =>
       Pick(s) \in s /\ Pick(s) \in Z /\ h[s] = w[Pick(s)] + h[s \ {Pick(s)}]

\* A sum is its next term and the sum of the rest.
LEMMA SumStep ==
  ASSUME NEW Z, IsFiniteSet(Z), NEW w
  PROVE  Totals(Z, w, SumUpTo(Z, w))
<1> DEFINE h == SumUpTo(Z, w)
<1>1. Adds(Z, w, h)
  BY SumsExist
<1> HIDE DEF h
<1>2. \A s \in SUBSET Z : h[s] = IF s = {} THEN 0 ELSE w[Pick(s)] + h[s \ {Pick(s)}]
  BY <1>1, AddsPointwise
<1>3. {} \in SUBSET Z
  OBVIOUS
<1>4. h[{}] = 0
  BY <1>2, <1>3
<1>5. ASSUME NEW s \in SUBSET Z, s # {}
      PROVE  Pick(s) \in s /\ Pick(s) \in Z /\ h[s] = w[Pick(s)] + h[s \ {Pick(s)}]
  BY <1>2, <1>5, PickTakes
<1> QED
  BY <1>4, <1>5 DEF h, Totals

\* The equation has one solution.
LEMMA SumsAreOne ==
  ASSUME NEW Z, IsFiniteSet(Z), NEW w, NEW h, Adds(Z, w, h)
  PROVE  h = SumUpTo(Z, w)
<1> DEFINE g == SumUpTo(Z, w)
           T == {s \in SUBSET Z : h[s] = g[s]}
<1>1. Adds(Z, w, g)
  BY SumsExist
<1> HIDE DEF g
<1>2. \A s \in SUBSET Z : s \in T
  <2>1. {} \in T
    BY <1>1, AddsPointwise
  <2>2. ASSUME NEW s \in SUBSET Z, s # {}, s \ {Pick(s)} \in T PROVE s \in T
    BY <1>1, <2>2, AddsPointwise
  <2> HIDE DEF T
  <2> QED
    BY <2>1, <2>2, SubsetsAreReached
<1>3. h = [s \in SUBSET Z |-> h[s]] /\ g = [s \in SUBSET Z |-> g[s]]
  BY <1>1, AddsPointwise
<1>4. h = g
  BY <1>2, <1>3
<1> QED
  BY <1>4 DEF g

\* Sums of integers are integers, of numbers numbers, and of zeros 0.
LEMMA SumTyped ==
  ASSUME NEW Z, IsFiniteSet(Z), NEW w
  PROVE  /\ (\A x \in Z : w[x] \in Int) => Sum(Z, w) \in Int
         /\ (\A x \in Z : w[x] \in Nat) => Sum(Z, w) \in Nat
         /\ (\A x \in Z : w[x] = 0) => Sum(Z, w) = 0
<1> DEFINE h == SumUpTo(Z, w)
<1>0. Totals(Z, w, h)
  BY SumStep
<1> HIDE DEF h
<1> USE DEF Totals
<1>1. ASSUME \A x \in Z : w[x] \in Int PROVE h[Z] \in Int
  <2> DEFINE T == {s \in SUBSET Z : h[s] \in Int}
  <2>1. {} \in T
    BY <1>0
  <2>2. ASSUME NEW s \in SUBSET Z, s # {}, s \ {Pick(s)} \in T PROVE s \in T
    BY <1>0, <1>1, <2>2
  <2>3. \A s \in SUBSET Z : s \in T
    <3> HIDE DEF T
    <3> QED
      BY <2>1, <2>2, SubsetsAreReached
  <2> QED
    BY <2>3
<1>2. ASSUME \A x \in Z : w[x] \in Nat PROVE h[Z] \in Nat
  <2> DEFINE T == {s \in SUBSET Z : h[s] \in Nat}
  <2>1. {} \in T
    BY <1>0
  <2>2. ASSUME NEW s \in SUBSET Z, s # {}, s \ {Pick(s)} \in T PROVE s \in T
    BY <1>0, <1>2, <2>2
  <2>3. \A s \in SUBSET Z : s \in T
    <3> HIDE DEF T
    <3> QED
      BY <2>1, <2>2, SubsetsAreReached
  <2> QED
    BY <2>3
<1>3. ASSUME \A x \in Z : w[x] = 0 PROVE h[Z] = 0
  <2> DEFINE T == {s \in SUBSET Z : h[s] = 0}
  <2>1. {} \in T
    BY <1>0
  <2>2. ASSUME NEW s \in SUBSET Z, s # {}, s \ {Pick(s)} \in T PROVE s \in T
    <3>1. w[Pick(s)] = 0 /\ h[s \ {Pick(s)}] = 0 /\ h[s] = w[Pick(s)] + h[s \ {Pick(s)}]
      BY <1>0, <1>3, <2>2, Zenon
    <3> QED
      BY <3>1
  <2>3. \A s \in SUBSET Z : s \in T
    <3> HIDE DEF T
    <3> QED
      BY <2>1, <2>2, SubsetsAreReached
  <2> QED
    BY <2>3
<1> QED
  BY <1>1, <1>2, <1>3 DEF h, Sum

\* A sum grows by what one of its terms grows by.
LEMMA SumOfOneChange ==
  ASSUME NEW Z, IsFiniteSet(Z), NEW w, NEW v, NEW i \in Z,
         \A x \in Z : w[x] \in Int /\ v[x] \in Int, \A x \in Z \ {i} : v[x] = w[x]
  PROVE  Sum(Z, v) = Sum(Z, w) + v[i] - w[i]
<1> DEFINE h == SumUpTo(Z, w)
           g == SumUpTo(Z, v)
<1>0. Totals(Z, w, h)
  BY SumStep
<1>00. Totals(Z, v, g)
  BY SumStep
<1> USE DEF Totals
<1> HIDE DEF h, g
<1> DEFINE T == {s \in SUBSET Z : h[s] \in Int /\ g[s] = h[s] + IF i \in s THEN v[i] - w[i] ELSE 0}
<1>1. {} \in T
  BY <1>0, <1>00
<1>2. ASSUME NEW s \in SUBSET Z, s # {}, s \ {Pick(s)} \in T PROVE s \in T
  <2> DEFINE r == s \ {Pick(s)}
  <2>0. Pick(s) \in s /\ Pick(s) \in Z
    BY <1>0, <1>2, Zenon
  <2>1. h[s] = w[Pick(s)] + h[r] /\ g[s] = v[Pick(s)] + g[r]
    BY <1>0, <1>00, <1>2, Zenon
  <2>2. w[Pick(s)] \in Int /\ v[Pick(s)] \in Int /\ w[i] \in Int /\ v[i] \in Int
    BY <2>0
  <2>3. h[r] \in Int /\ g[r] = h[r] + IF i \in r THEN v[i] - w[i] ELSE 0
    BY <1>2
  <2>4. CASE Pick(s) = i
    <3>1. i \in s /\ i \notin r
      BY <2>0, <2>4
    <3> HIDE DEF r
    <3> QED
      BY <2>1, <2>2, <2>3, <2>4, <3>1
  <2>5. CASE Pick(s) # i
    <3>1. (i \in s <=> i \in r) /\ v[Pick(s)] = w[Pick(s)]
      BY <2>0, <2>5
    <3> HIDE DEF r
    <3> QED
      BY <2>1, <2>2, <2>3, <3>1
  <2> QED
    BY <2>4, <2>5
<1>3. \A s \in SUBSET Z : s \in T
  <2> HIDE DEF T
  <2> QED
    BY <1>1, <1>2, SubsetsAreReached
<1> QED
  BY <1>3 DEF h, g, Sum

\* A sum is monotone.
LEMMA SumMonotone ==
  ASSUME NEW Z, IsFiniteSet(Z), NEW w, NEW v,
         \A x \in Z : w[x] \in Int /\ v[x] \in Int /\ w[x] <= v[x]
  PROVE  Sum(Z, w) <= Sum(Z, v)
<1> DEFINE h == SumUpTo(Z, w)
           g == SumUpTo(Z, v)
<1>0. Totals(Z, w, h)
  BY SumStep
<1>00. Totals(Z, v, g)
  BY SumStep
<1> USE DEF Totals
<1> HIDE DEF h, g
<1> DEFINE T == {s \in SUBSET Z : h[s] \in Int /\ g[s] \in Int /\ h[s] <= g[s]}
<1>1. {} \in T
  BY <1>0, <1>00
<1>2. ASSUME NEW s \in SUBSET Z, s # {}, s \ {Pick(s)} \in T PROVE s \in T
  <2> DEFINE r == s \ {Pick(s)}
  <2>1. h[s] = w[Pick(s)] + h[r] /\ g[s] = v[Pick(s)] + g[r]
    BY <1>0, <1>00, <1>2, Zenon
  <2>2. w[Pick(s)] \in Int /\ v[Pick(s)] \in Int /\ w[Pick(s)] <= v[Pick(s)]
    BY <1>0, <1>2, Zenon
  <2>3. h[r] \in Int /\ g[r] \in Int /\ h[r] <= g[r]
    BY <1>2
  <2> HIDE DEF r
  <2> QED
    BY <2>1, <2>2, <2>3
<1>3. \A s \in SUBSET Z : s \in T
  <2> HIDE DEF T
  <2> QED
    BY <1>1, <1>2, SubsetsAreReached
<1> QED
  BY <1>3 DEF h, g, Sum

\* A factor that all terms have is one of their sum.
LEMMA SumOfMultiples ==
  ASSUME NEW Z, IsFiniteSet(Z), NEW w, NEW v, NEW k \in Int,
         \A x \in Z : w[x] \in Int /\ v[x] = k * w[x]
  PROVE  Sum(Z, v) = k * Sum(Z, w)
<1> DEFINE h == SumUpTo(Z, w)
           g == SumUpTo(Z, v)
<1>0. Totals(Z, w, h)
  BY SumStep
<1>00. Totals(Z, v, g)
  BY SumStep
<1> USE DEF Totals
<1> HIDE DEF h, g
<1> DEFINE T == {s \in SUBSET Z : h[s] \in Int /\ g[s] = k * h[s]}
<1>1. {} \in T
  BY <1>0, <1>00
<1>2. ASSUME NEW s \in SUBSET Z, s # {}, s \ {Pick(s)} \in T PROVE s \in T
  <2>1. h[s] = w[Pick(s)] + h[s \ {Pick(s)}] /\ g[s] = k * w[Pick(s)] + k * h[s \ {Pick(s)}]
    BY <1>0, <1>00, <1>2
  <2>2. \A a, b \in Int : k * (a + b) = k * a + k * b
    OBVIOUS
  <2>3. w[Pick(s)] \in Int /\ h[s \ {Pick(s)}] \in Int
    BY <1>0, <1>00, <1>2
  <2> QED
    BY <2>1, <2>2, <2>3
<1>3. \A s \in SUBSET Z : s \in T
  <2> HIDE DEF T
  <2> QED
    BY <1>1, <1>2, SubsetsAreReached
<1> QED
  BY <1>3 DEF h, g, Sum

-----------------------------------------------------------------------------
(* A step is one of the part in focus, and the other parts rest. *)

USE DEF Next, vars, reporting, gate, context, identity, gateway, server, reading, decisions,
        notices, profile, Organize, Report, StoreFile, DecideApproval, Synchronize, LinkContext,
        Identify, PassGateway, Serve, Read, KeepAudit, ApplyPolicy, Automate, Predict, Meet,
        Converse, Notify, PlanCapacity

\* Whoever moves, a part makes a step of its own or rests.
LEMMA OrganizationSteps == ASSUME [Next]_vars PROVE [O!Next]_organization
  OBVIOUS

LEMMA ReportingSteps == ASSUME [Next]_vars PROVE [R!Next]_<<report, submissions>>
  OBVIOUS

LEMMA FileSteps == ASSUME [Next]_vars PROVE [F!Next]_file
  OBVIOUS

LEMMA ApprovalSteps == ASSUME [Next]_vars PROVE [A!Next]_<<approval, openedIn>>
  OBVIOUS

LEMMA SynchronizationSteps == ASSUME [Next]_vars PROVE [S!Next]_synchronization
  OBVIOUS

LEMMA ContextLinkSteps == ASSUME [Next]_vars PROVE [L!Next]_<<owner, link, request>>
  OBVIOUS

LEMMA IdentitySteps == ASSUME [Next]_vars PROVE [I!Next]_<<user, command>>
  OBVIOUS

LEMMA GatewaySteps == ASSUME [Next]_vars PROVE [G!Next]_<<now, auth, pending>>
  OBVIOUS

LEMMA ServerSteps ==
  ASSUME [Next]_vars
  PROVE  [V!Next]_<<phase, connection, worker, stopping, shuttingDown, handled, deadline, closed, exited>>
  OBVIOUS

LEMMA ReadingSteps == ASSUME [Next]_vars PROVE [P!Next]_<<holder, version, walk>>
  OBVIOUS

LEMMA AuditSteps == ASSUME [Next]_vars PROVE [D!Next]_partition
  OBVIOUS

LEMMA PolicySteps == ASSUME [Next]_vars PROVE [Y!Next]_<<policy, under>>
  OBVIOUS

LEMMA AutomationSteps == ASSUME [Next]_vars PROVE [U!Next]_rule
  OBVIOUS

LEMMA ForecastSteps == ASSUME [Next]_vars PROVE [C!Next]_forecast
  OBVIOUS

LEMMA MeetingSteps == ASSUME [Next]_vars PROVE [M!Next]_meeting
  OBVIOUS

LEMMA ConversationSteps == ASSUME [Next]_vars PROVE [B!Next]_conversation
  OBVIOUS

LEMMA NotificationSteps == ASSUME [Next]_vars PROVE [N!Next]_<<notification, late>>
  OBVIOUS

LEMMA CapacitySteps == ASSUME [Next]_vars PROVE [K!Next]_<<capacity, captured>>
  OBVIOUS

HIDE DEF Next, vars, reporting, gate, context, identity, gateway, server, reading, decisions,
        notices, profile, Organize, Report, StoreFile, DecideApproval, Synchronize, LinkContext,
        Identify, PassGateway, Serve, Read, KeepAudit, ApplyPolicy, Automate, Predict, Meet,
        Converse, Notify, PlanCapacity

-----------------------------------------------------------------------------
(* Organization *)

OrganizationIInv ==
  /\ O!TypeOK /\ O!HierarchySound
  /\ organization.status # "ARCHIVED" => organization.lifecycleEpoch = 0

\* In the order in which departments were created a new one comes last, and no
\* department that is there has it for its parent.
LEMMA OrganizationInductive ==
  /\ O!Init => OrganizationIInv
  /\ OrganizationIInv /\ [Next]_vars => OrganizationIInv'
<1> USE ApplicationAssumption DEF O!OrganizationAssumption
<1>1. O!Init => OrganizationIInv
  BY DEF O!Init, OrganizationIInv, O!TypeOK, O!OrganizationStructure, O!HierarchySound, O!Exists,
         O!activeDepartment
<1>2. ASSUME OrganizationIInv, [Next]_vars PROVE OrganizationIInv'
  <2> USE DEF OrganizationIInv, O!TypeOK, O!OrganizationStructure, O!Exists, O!activeDepartment,
              O!Loadable
  <2>0. [O!Next]_organization
    BY <1>2, OrganizationSteps
  <2>1. CASE UNCHANGED organization
    BY <1>2, <2>1 DEF O!HierarchySound
  <2>2. CASE O!CreateOrganization
    BY <1>2, <2>2 DEF O!CreateOrganization, O!HierarchySound
  <2>3. ASSUME NEW w \in Workspace, O!CreateWorkspace(w) PROVE OrganizationIInv'
    BY <1>2, <2>3 DEF O!CreateWorkspace, O!HierarchySound
  <2>4. ASSUME NEW d \in Department, NEW p \in Department \cup {NoDepartment}, O!CreateDepartment(d, p)
        PROVE  OrganizationIInv'
    <3>1. /\ organization.departments[d].status = "ABSENT"
          /\ organization' = [organization EXCEPT
               !.departments = [@ EXCEPT ![d] = [status |-> "ACTIVE", parent |-> p]]]
          /\ p # NoDepartment => organization.departments[p].status # "ABSENT"
      BY <2>4 DEF O!CreateDepartment
    <3>2. O!TypeOK' /\ organization'.status = organization.status
          /\ organization'.lifecycleEpoch = organization.lifecycleEpoch
      BY <1>2, <3>1
    <3>3. \A e \in Department \ {d} : organization'.departments[e] = organization.departments[e]
      BY <1>2, <3>1
    <3>4. organization'.departments[d].status = "ACTIVE" /\ organization'.departments[d].parent = p
      BY <1>2, <3>1
    <3>5. \A t \in Team :
            organization'.teams[t] # NoDepartment =>
              organization'.departments[organization'.teams[t]].status = "ACTIVE"
      BY <1>2, <3>1, <3>3, <3>4 DEF O!HierarchySound
    <3>6. \A e \in Department :
            organization'.departments[e].parent \in
              {NoDepartment} \cup {q \in Department : organization'.departments[q].status # "ABSENT"}
      BY <1>2, <3>1, <3>3, <3>4 DEF O!HierarchySound
    <3>7. ASSUME NEW T \in SUBSET {e \in Department : organization'.departments[e].status # "ABSENT"},
                 T # {}
          PROVE  \E e \in T : organization'.departments[e].parent \notin T
      <4>1. \A e \in Department \ {d} : organization.departments[e].parent # d
        BY <1>2, <3>1 DEF O!HierarchySound
      <4>2. CASE T \subseteq {d}
        BY <3>1, <3>4, <3>7, <4>2
      <4>3. CASE ~(T \subseteq {d})
        <5> DEFINE J == T \ {d}
        <5>1. J \in SUBSET {e \in Department : organization.departments[e].status # "ABSENT"}
          BY <3>3, <3>7
        <5>2. PICK e \in J : organization.departments[e].parent \notin J
          BY <1>2, <4>3, <5>1 DEF O!HierarchySound
        <5>3. organization'.departments[e].parent = organization.departments[e].parent
          BY <3>3, <3>7
        <5> QED
          BY <3>7, <4>1, <5>2, <5>3
      <4> QED
        BY <4>2, <4>3
    <3> QED
      BY <1>2, <3>2, <3>5, <3>6, <3>7 DEF O!HierarchySound
  <2>5. ASSUME NEW t \in Team, NEW d \in Department, O!CreateTeam(t, d) \/ O!MoveTeam(t, d)
        PROVE  OrganizationIInv'
    <3>1. /\ organization.departments[d].status = "ACTIVE"
          /\ organization' = [organization EXCEPT !.teams = [@ EXCEPT ![t] = d]]
      BY <2>5 DEF O!CreateTeam, O!MoveTeam
    <3> QED
      BY <1>2, <3>1 DEF O!HierarchySound
  <2>6. ASSUME NEW g \in Group, O!CreateGroup(g) PROVE OrganizationIInv'
    BY <1>2, <2>6 DEF O!CreateGroup, O!HierarchySound
  <2>7. ASSUME NEW d \in Department, O!ArchiveDepartment(d) PROVE OrganizationIInv'
    <3>1. /\ organization.departments[d].status = "ACTIVE"
          /\ \A t \in Team : organization.teams[t] # d
          /\ organization' = [organization EXCEPT !.departments[d].status = "ARCHIVED"]
      BY <2>7 DEF O!ArchiveDepartment
    <3>2. O!TypeOK' /\ organization'.status = organization.status
          /\ organization'.lifecycleEpoch = organization.lifecycleEpoch
      BY <1>2, <3>1
    <3>3. /\ organization'.teams = organization.teams
          /\ \A e \in Department :
               /\ organization'.departments[e].parent = organization.departments[e].parent
               /\ organization'.departments[e].status = "ABSENT" <=> organization.departments[e].status = "ABSENT"
               /\ e # d => organization'.departments[e].status = organization.departments[e].status
      BY <1>2, <3>1
    <3>4. \A t \in Team :
            organization'.teams[t] # NoDepartment =>
              organization'.departments[organization'.teams[t]].status = "ACTIVE"
      BY <1>2, <3>1, <3>3 DEF O!HierarchySound
    <3>5. \A e \in Department :
            organization'.departments[e].parent \in
              {NoDepartment} \cup {q \in Department : organization'.departments[q].status # "ABSENT"}
      BY <1>2, <3>3 DEF O!HierarchySound
    <3>6. ASSUME NEW T \in SUBSET {e \in Department : organization'.departments[e].status # "ABSENT"},
                 T # {}
          PROVE  \E e \in T : organization'.departments[e].parent \notin T
      <4>1. T \in SUBSET {e \in Department : organization.departments[e].status # "ABSENT"}
        BY <3>3
      <4>2. PICK e \in T : organization.departments[e].parent \notin T
        BY <1>2, <3>6, <4>1 DEF O!HierarchySound
      <4> QED
        BY <3>3, <4>1, <4>2
    <3> QED
      BY <1>2, <3>2, <3>4, <3>5, <3>6 DEF O!HierarchySound
  <2>8. CASE O!ArchiveOrganization
    <3>0. organization.lifecycleEpoch = 0 /\ 0 + 1 \in 0 .. 1
      BY <1>2, <2>8 DEF O!ArchiveOrganization
    <3>1. organization' = [organization EXCEPT !.status = "ARCHIVED", !.lifecycleEpoch = @ + 1]
      BY <2>8 DEF O!ArchiveOrganization
    <3>2. O!TypeOK' /\ organization'.status = "ARCHIVED"
      BY <1>2, <3>0, <3>1
    <3>3. organization'.departments = organization.departments /\ organization'.teams = organization.teams
      BY <1>2, <3>1
    <3>4. O!HierarchySound'
      BY <1>2, <3>3 DEF O!HierarchySound
    <3> QED
      BY <3>2, <3>4
  <2> QED
    BY <2>0, <2>1, <2>2, <2>3, <2>4, <2>5, <2>6, <2>7, <2>8 DEF O!Next
<1> QED
  BY <1>1, <1>2

-----------------------------------------------------------------------------
(* Reporting *)

\* No submission has an epoch of the future; one that can still come has an
\* epoch of its own, because a rejection ends the epoch.
ReportingIInv ==
  /\ R!TypeOK /\ R!ReviewedAsSubmitted
  /\ R!normalized.status \in {"ABSENT", "DRAFT"} => submissions = {}
  /\ R!normalized.status \in {"SUBMITTED", "APPROVED"} =>
       \A s \in submissions : s.epoch <= R!normalized.lifecycleEpoch
  /\ R!normalized.status = "REJECTED" =>
       \A s \in submissions : s.epoch < R!normalized.lifecycleEpoch
  /\ R!normalized.status # "ARCHIVED" => R!normalized.lifecycleEpoch <= MaxEpoch

\* What a command loads is a report, and what it stores is what the next one loads.
LEMMA ReportsNormalized ==
  ASSUME R!TypeOK
  PROVE  /\ R!normalized \in R!Report
         /\ report' \in R!Report => R!normalized' = report'
<1> USE ApplicationAssumption DEF R!ReportingAssumption, R!TypeOK, R!normalized, R!Report,
        R!EvidenceRecords, R!NoEvidence, R!CreatedEarlier
<1>1. R!CreatedEarlier \notin R!Report
  OBVIOUS
<1>2. R!normalized \in R!Report
  BY <1>1
<1>3. report' \in R!Report => R!normalized' = report'
  BY <1>1
<1> QED
  BY <1>2, <1>3

\* A review ends the epoch of its submission, so the next submission has another.
LEMMA ReportingInductive ==
  /\ R!Init => ReportingIInv
  /\ ReportingIInv /\ [Next]_vars => ReportingIInv'
<1>0. MaxEpoch \in Nat /\ Unset \notin Nat
  BY ApplicationAssumption DEF R!ReportingAssumption
<1>1. R!Init => ReportingIInv
  <2> HAVE R!Init
  <2>1. R!Absent \in R!Report /\ R!Absent # R!CreatedEarlier
    BY <1>0 DEF R!Absent, R!Report, R!CreatedEarlier, R!EvidenceRecords, R!NoEvidence
  <2>2. R!normalized = R!Absent /\ submissions = {} /\ R!TypeOK
    BY <2>1 DEF R!Init, R!normalized, R!TypeOK
  <2> QED
    BY <1>0, <2>2 DEF ReportingIInv, R!ReviewedAsSubmitted, R!Absent
<1>2. ASSUME ReportingIInv, [Next]_vars PROVE ReportingIInv'
  <2>0. [R!Next]_<<report, submissions>>
    BY <1>2, ReportingSteps
  <2> DEFINE n == R!normalized
             m == R!normalized'
  <2>t. R!TypeOK
    BY <1>2 DEF ReportingIInv
  <2>n. n \in R!Report
    BY <2>t, ReportsNormalized
  <2>m. report' \in R!Report => m = report'
    BY <2>t, ReportsNormalized
  <2>r. n \in [status: {"ABSENT", "DRAFT", "SUBMITTED", "APPROVED", "REJECTED", "ARCHIVED"},
               lifecycleEpoch: 0 .. MaxEpoch + 1, evidence: R!EvidenceRecords]
    BY <2>n DEF R!Report
  <2>s. submissions \subseteq [epoch: 0 .. MaxEpoch, evidence: R!EvidenceRecords]
    BY <2>t DEF R!TypeOK
  <2>i. /\ \A s, t \in submissions : s.epoch = t.epoch => s = t
        /\ n.status \in {"SUBMITTED", "APPROVED"} =>
             /\ [epoch |-> n.lifecycleEpoch, evidence |-> n.evidence] \in submissions
             /\ \E e \in Evidence : n.evidence[e] = "VERIFIED"
             /\ \A s \in submissions : s.epoch <= n.lifecycleEpoch
        /\ n.status \in {"ABSENT", "DRAFT"} => submissions = {}
        /\ n.status = "REJECTED" => \A s \in submissions : s.epoch < n.lifecycleEpoch
        /\ n.status # "ARCHIVED" => n.lifecycleEpoch <= MaxEpoch
    BY <1>2 DEF ReportingIInv, R!ReviewedAsSubmitted
  <2> DEFINE Kept ==
          /\ report' \in R!Report \cup {R!CreatedEarlier}
          /\ submissions' \subseteq [epoch: 0 .. MaxEpoch, evidence: R!EvidenceRecords]
          /\ \A s, t \in submissions' : s.epoch = t.epoch => s = t
          /\ m.status \in {"SUBMITTED", "APPROVED"} =>
               /\ [epoch |-> m.lifecycleEpoch, evidence |-> m.evidence] \in submissions'
               /\ \E e \in Evidence : m.evidence[e] = "VERIFIED"
               /\ \A s \in submissions' : s.epoch <= m.lifecycleEpoch
          /\ m.status \in {"ABSENT", "DRAFT"} => submissions' = {}
          /\ m.status = "REJECTED" => \A s \in submissions' : s.epoch < m.lifecycleEpoch
          /\ m.status # "ARCHIVED" => m.lifecycleEpoch <= MaxEpoch
  <2>g. SUFFICES Kept
    BY DEF ReportingIInv, R!TypeOK, R!ReviewedAsSubmitted
  <2>1. CASE UNCHANGED <<report, submissions>>
    <3>1. m = n /\ report' \in R!Report \cup {R!CreatedEarlier}
      BY <2>1, <2>t DEF R!normalized, R!TypeOK
    <3> HIDE DEF n, m
    <3> QED
      BY <2>1, <2>i, <2>s, <3>1
  <2>2. CASE R!CreateReport
    <3>1. /\ report' = [R!Absent EXCEPT !.status = "DRAFT"] /\ submissions' = submissions
          /\ n.status = "ABSENT" /\ m = report' /\ report' \in R!Report
      BY <1>0, <2>2, <2>m DEF R!CreateReport, R!Absent, R!Report, R!normalized, R!CreatedEarlier,
         R!EvidenceRecords, R!NoEvidence
    <3>2. m.status = "DRAFT" /\ m.lifecycleEpoch = 0
      BY <3>1 DEF R!Absent
    <3> HIDE DEF n, m
    <3> QED
      BY <1>0, <2>i, <2>s, <3>1, <3>2
  <2>3. CASE R!CreateReportEarlier
    <3>1. /\ report' = R!CreatedEarlier /\ submissions' = submissions /\ n.status = "ABSENT"
          /\ m.status = "DRAFT" /\ m.lifecycleEpoch = 0
      BY <1>0, <2>3 DEF R!CreateReportEarlier, R!Absent, R!normalized, R!CreatedEarlier
    <3> HIDE DEF n, m
    <3> QED
      BY <1>0, <2>i, <2>s, <3>1
  <2>4. ASSUME NEW e \in Evidence, R!AddEvidence(e) \/ R!VerifyEvidence(e) \/ R!RejectEvidence(e)
        PROVE  /\ n.status \in {"DRAFT", "REJECTED"} /\ submissions' = submissions
               /\ \E s \in {"ADDED", "VERIFIED", "REJECTED"} :
                    report' = [n EXCEPT !.evidence[e] = s]
    BY <2>4 DEF R!AddEvidence, R!VerifyEvidence, R!RejectEvidence, R!mutate, R!Editable
  <2>5. ASSUME NEW e \in Evidence, R!AddEvidence(e) \/ R!VerifyEvidence(e) \/ R!RejectEvidence(e)
        PROVE  Kept
    <3>1. /\ report' \in R!Report /\ submissions' = submissions
          /\ report'.status = n.status /\ report'.lifecycleEpoch = n.lifecycleEpoch
      BY <2>4, <2>5, <2>r DEF R!Report, R!EvidenceRecords
    <3>2. m = report' /\ n.status \in {"DRAFT", "REJECTED"}
      BY <2>4, <2>5, <2>m, <3>1
    <3> HIDE DEF n, m
    <3> QED
      BY <1>0, <2>i, <2>s, <3>1, <3>2
  <2>6. CASE R!SubmitReport
    <3> DEFINE new == [epoch |-> n.lifecycleEpoch, evidence |-> n.evidence]
    <3>1. /\ n.status \in {"DRAFT", "REJECTED"} /\ report' = [n EXCEPT !.status = "SUBMITTED"]
          /\ submissions' = submissions \cup {new}
          /\ \E e \in Evidence : n.evidence[e] = "VERIFIED"
      BY <2>6 DEF R!SubmitReport, R!mutate, R!Editable
    <3>2. /\ report' \in R!Report /\ report'.status = "SUBMITTED"
          /\ report'.lifecycleEpoch = n.lifecycleEpoch /\ report'.evidence = n.evidence
      BY <2>r, <3>1 DEF R!Report
    <3>3. m = report'
      BY <2>m, <3>2
    <3>4. new \in [epoch: 0 .. MaxEpoch, evidence: R!EvidenceRecords] /\ new.epoch = n.lifecycleEpoch
      BY <1>0, <2>i, <2>r, <3>1
    <3>5. \A s \in submissions : s.epoch < new.epoch
      BY <2>i, <3>1, <3>4
    <3>6. \A s \in submissions : s.epoch \in Int
      BY <2>s
    <3>7. n.lifecycleEpoch \in Int
      BY <2>r
    <3>8. new = [epoch |-> report'.lifecycleEpoch, evidence |-> report'.evidence]
      BY <3>2
    <3> HIDE DEF n, m, new
    <3>9. \A s, t \in submissions' : s.epoch = t.epoch => s = t
      BY <2>i, <3>1, <3>4, <3>5, <3>6, <3>7
    <3>10. \A s \in submissions' : s.epoch <= report'.lifecycleEpoch
      BY <3>1, <3>2, <3>4, <3>5, <3>6, <3>7
    <3> QED
      BY <2>i, <2>s, <3>1, <3>2, <3>3, <3>4, <3>8, <3>9, <3>10
  <2>7. CASE R!ApproveReport
    <3>1. /\ n.status = "SUBMITTED" /\ report' = [n EXCEPT !.status = "APPROVED"]
          /\ submissions' = submissions
      BY <2>7 DEF R!ApproveReport, R!mutate
    <3>2. /\ report' \in R!Report /\ report'.status = "APPROVED"
          /\ report'.lifecycleEpoch = n.lifecycleEpoch /\ report'.evidence = n.evidence
      BY <2>r, <3>1 DEF R!Report
    <3>3. m = report'
      BY <2>m, <3>2
    <3> HIDE DEF n, m
    <3> QED
      BY <2>i, <2>s, <3>1, <3>2, <3>3
  <2>8. CASE R!RejectReport \/ R!ArchiveReport
    <3>1. /\ submissions' = submissions
          /\ \/ /\ n.status = "SUBMITTED" /\ n.lifecycleEpoch < MaxEpoch
                /\ report' = [n EXCEPT !.status = "REJECTED", !.lifecycleEpoch = @ + 1]
             \/ /\ n.status \in {"APPROVED", "REJECTED"}
                /\ report' = [n EXCEPT !.status = "ARCHIVED", !.lifecycleEpoch = @ + 1]
      BY <2>8 DEF R!RejectReport, R!ArchiveReport, R!mutate
    <3>2. /\ report' \in R!Report /\ report'.lifecycleEpoch = n.lifecycleEpoch + 1
          /\ \/ report'.status = "REJECTED" /\ n.status = "SUBMITTED" /\ n.lifecycleEpoch < MaxEpoch
             \/ report'.status = "ARCHIVED"
      <4>1. n.lifecycleEpoch \in 0 .. MaxEpoch
        BY <1>0, <2>i, <2>r, <3>1
      <4>2. n.lifecycleEpoch + 1 \in 0 .. MaxEpoch + 1
        BY <1>0, <4>1
      <4> HIDE DEF n, m
      <4> QED
        BY <2>r, <3>1, <4>1, <4>2 DEF R!Report
    <3>3. m = report'
      BY <2>m, <3>2
    <3>4. /\ \A s \in submissions : s.epoch \in Int
          /\ n.lifecycleEpoch \in Int
      BY <2>s, <2>r
    <3> HIDE DEF n, m
    <3> QED
      BY <1>0, <2>i, <2>s, <3>1, <3>2, <3>3, <3>4
  <2> QED
    BY <2>0, <2>1, <2>2, <2>3, <2>5, <2>6, <2>7, <2>8 DEF R!Next
<1> QED
  BY <1>1, <1>2

-----------------------------------------------------------------------------
(* Audit *)

Verifications == UNION {[Q -> [expected: Seq(Entry), actual: Seq(Entry), valid: BOOLEAN]] :
                        Q \in SUBSET Verification}

AuditPartition ==
  [status: {"ABSENT", "OPEN", "SEALED", "ARCHIVED"}, lifecycleEpoch: 0 .. 2,
   entries: Seq(Entry), rootDigest: Seq(Entry), exports: [Export -> [from: Nat, to: Nat]],
   verifications: Verifications]

\* Until it is sealed a partition has neither exports nor verifications, and
\* afterwards its entries stay what they are.
AuditIInv ==
  /\ partition \in AuditPartition /\ D!LedgerIsEvidence
  /\ partition.status \in {"ABSENT", "OPEN"} =>
       /\ DOMAIN partition.verifications = {}
       /\ \A x \in Export : partition.exports[x] = D!NoExport
       /\ partition.lifecycleEpoch = 0
  /\ partition.status = "SEALED" => partition.lifecycleEpoch = 1

\* In the module's words.
LEMMA AuditTyped == AuditIInv => D!TypeOK
  BY DEF AuditIInv, AuditPartition, Verifications, D!TypeOK

\* Contents of a ledger are sequences of entries.
LEMMA ContentsAreEntries == D!Contents \subseteq Seq(Entry)
<1> SUFFICES ASSUME NEW n \in 0 .. 2, NEW s \in [1 .. n -> Entry] PROVE s \in Seq(Entry)
  BY DEF D!Contents
<1> QED
  OBVIOUS

\* Nothing is appended to a sealed ledger, so what was read of it stays true.
LEMMA AuditInductive ==
  /\ D!Init => AuditIInv
  /\ AuditIInv /\ [Next]_vars => AuditIInv'
<1>1. D!Init => AuditIInv
  <2>1. <<>> \in Verifications /\ DOMAIN <<>> = {}
    BY DEF Verifications
  <2>2. <<>> \in Seq(Entry) /\ Len(<<>>) = 0
    OBVIOUS
  <2> HIDE DEF Verifications
  <2> QED
    BY <2>1, <2>2 DEF D!Init, AuditIInv, AuditPartition, D!LedgerIsEvidence, D!NoExport
<1>2. ASSUME AuditIInv, [Next]_vars PROVE AuditIInv'
  <2> USE DEF AuditIInv, AuditPartition
  <2>0. [D!Next]_partition
    BY <1>2, AuditSteps
  <2>1. CASE UNCHANGED partition
    BY <1>2, <2>1 DEF D!LedgerIsEvidence
  <2>2. ASSUME NEW e \in Entry, D!AppendAuditEntry(e) PROVE AuditIInv'
    <3>1. /\ partition.status \in {"ABSENT", "OPEN"}
          /\ partition' = [partition EXCEPT !.status = "OPEN", !.entries = Append(@, e),
                                            !.rootDigest = Append(@, e)]
      BY <2>2 DEF D!AppendAuditEntry, D!digest
    <3>2. Append(partition.entries, e) \in Seq(Entry)
          /\ Len(Append(partition.entries, e)) = Len(partition.entries) + 1
          /\ Len(partition.entries) \in Nat
          /\ partition.rootDigest = partition.entries
      BY <1>2 DEF D!LedgerIsEvidence
    <3>3. partition' \in AuditPartition
      BY <1>2, <3>1, <3>2
    <3> QED
      BY <1>2, <3>1, <3>2, <3>3 DEF D!LedgerIsEvidence, D!NoExport
  <2>3. ASSUME NEW n \in 1 .. 3, D!SealAuditPartition(n) PROVE AuditIInv'
    <3>1. /\ partition.status = "OPEN" /\ partition.lifecycleEpoch = 0
          /\ partition' = [partition EXCEPT !.status = "SEALED", !.lifecycleEpoch = @ + 1]
      BY <1>2, <2>3 DEF D!SealAuditPartition
    <3>0. partition.lifecycleEpoch + 1 = 1 /\ 1 \in 0 .. 2
      BY <3>1
    <3>2. /\ partition' \in AuditPartition /\ partition'.status = "SEALED"
          /\ partition'.lifecycleEpoch = 1 /\ partition'.entries = partition.entries
          /\ partition'.rootDigest = partition.rootDigest /\ partition'.exports = partition.exports
          /\ partition'.verifications = partition.verifications
      BY <1>2, <3>0, <3>1
    <3> QED
      BY <1>2, <3>2 DEF D!LedgerIsEvidence
  <2>4. ASSUME NEW x \in Export, NEW from \in 1 .. 3, NEW to \in 1 .. 3, D!CreateAuditExport(x, from, to)
        PROVE  AuditIInv'
    <3>1. /\ partition.status = "SEALED" /\ to <= Len(partition.entries)
          /\ partition' = [partition EXCEPT !.exports[x] = [from |-> from, to |-> to]]
      BY <2>4 DEF D!CreateAuditExport
    <3>0. [from |-> from, to |-> to] \in [from: Nat, to: Nat]
      OBVIOUS
    <3>2. /\ partition' \in AuditPartition /\ partition'.status = "SEALED"
          /\ partition'.entries = partition.entries
          /\ partition'.rootDigest = partition.rootDigest
          /\ partition'.lifecycleEpoch = partition.lifecycleEpoch
          /\ partition'.exports = [partition.exports EXCEPT ![x] = [from |-> from, to |-> to]]
          /\ partition'.verifications = partition.verifications
      BY <1>2, <3>0, <3>1
    <3> QED
      BY <1>2, <3>1, <3>2 DEF D!LedgerIsEvidence
  <2>5. ASSUME NEW v \in Verification, NEW expected \in D!Contents, D!VerifyIntegrity(v, expected)
        PROVE  AuditIInv'
    <3> DEFINE old == partition.verifications
               record == [expected |-> expected, actual |-> partition.rootDigest,
                          valid |-> expected = partition.rootDigest]
               new == [w \in DOMAIN old \cup {v} |-> IF w = v THEN record ELSE old[w]]
    <3>1. partition.status = "SEALED" /\ partition' = [partition EXCEPT !.verifications = new]
      BY <2>5 DEF D!VerifyIntegrity
    <3>2. record \in [expected: Seq(Entry), actual: Seq(Entry), valid: BOOLEAN]
      BY <1>2, ContentsAreEntries
    <3>3. new \in Verifications
      <4>1. PICK Q \in SUBSET Verification :
              old \in [Q -> [expected: Seq(Entry), actual: Seq(Entry), valid: BOOLEAN]]
        BY <1>2 DEF Verifications
      <4>2. new \in [Q \cup {v} -> [expected: Seq(Entry), actual: Seq(Entry), valid: BOOLEAN]]
        BY <3>2, <4>1
      <4>3. Q \cup {v} \in SUBSET Verification
        OBVIOUS
      <4> HIDE DEF new
      <4> QED
        BY <4>2, <4>3 DEF Verifications
    <3>4. \A w \in DOMAIN new : new[w].valid <=> new[w].expected = partition.entries
      BY <1>2 DEF D!LedgerIsEvidence
    <3> HIDE DEF new
    <3>5. partition' \in AuditPartition /\ partition'.verifications = new
          /\ partition'.entries = partition.entries /\ partition'.rootDigest = partition.rootDigest
          /\ partition'.exports = partition.exports /\ partition'.status = "SEALED"
          /\ partition'.lifecycleEpoch = partition.lifecycleEpoch
      BY <1>2, <3>1, <3>3
    <3> QED
      BY <1>2, <3>1, <3>4, <3>5 DEF D!LedgerIsEvidence
  <2>6. CASE D!ArchiveAuditPartition
    <3>1. /\ partition.status = "SEALED" /\ partition.lifecycleEpoch = 1
          /\ partition' = [partition EXCEPT !.status = "ARCHIVED", !.lifecycleEpoch = @ + 1]
      BY <1>2, <2>6 DEF D!ArchiveAuditPartition
    <3>0. partition.lifecycleEpoch + 1 = 2 /\ 2 \in 0 .. 2
      BY <3>1
    <3>2. /\ partition' \in AuditPartition /\ partition'.status = "ARCHIVED"
          /\ partition'.entries = partition.entries
          /\ partition'.rootDigest = partition.rootDigest /\ partition'.exports = partition.exports
          /\ partition'.verifications = partition.verifications
      BY <1>2, <3>0, <3>1
    <3> QED
      BY <1>2, <3>2 DEF D!LedgerIsEvidence
  <2> QED
    BY <2>0, <2>1, <2>2, <2>3, <2>4, <2>5, <2>6 DEF D!Next
<1> QED
  BY <1>1, <1>2

-----------------------------------------------------------------------------
(* Automation *)

AutomationIInv ==
  /\ U!TypeOK
  /\ rule.status # "ARCHIVED" => rule.lifecycleEpoch <= MaxEpoch
  /\ \A x \in Execution :
       IF rule.executions[x].status = "ABSENT" THEN rule.executions[x].retryAttempt = 0
       ELSE rule.executions[x].evaluation \in rule.evaluations

\* An execution is of an evaluation, and evaluations are never taken back.
LEMMA AutomationInductive ==
  /\ U!Init => AutomationIInv
  /\ AutomationIInv /\ [Next]_vars => AutomationIInv'
<1> USE ApplicationAssumption DEF U!AutomationAssumption, AutomationIInv, U!TypeOK
<1>1. U!Init => AutomationIInv
  BY DEF U!Init
<1>2. ASSUME AutomationIInv, [Next]_vars PROVE AutomationIInv'
  <2> USE DEF U!Loadable, U!enabled, U!execution
  <2>0. [U!Next]_rule
    BY <1>2, AutomationSteps
  <2>1. CASE UNCHANGED rule
    BY <1>2, <2>1
  <2>2. CASE U!CreateAutomationRule
    BY <1>2, <2>2 DEF U!CreateAutomationRule
  <2>3. CASE U!EnableRule \/ U!DisableRule
    <3>1. PICK to \in {"DISABLED", "ENABLED"} :
            /\ rule.lifecycleEpoch < MaxEpoch
            /\ rule' = [rule EXCEPT !.status = to, !.lifecycleEpoch = @ + 1]
      BY <2>3 DEF U!EnableRule, U!DisableRule, U!Turns
    <3>2. rule.lifecycleEpoch + 1 \in 0 .. MaxEpoch + 1 /\ rule.lifecycleEpoch + 1 <= MaxEpoch
      BY <1>2, <3>1
    <3> QED
      BY <1>2, <3>1, <3>2
  <2>4. ASSUME NEW e \in Evaluation, U!EvaluateRule(e) PROVE AutomationIInv'
    BY <1>2, <2>4 DEF U!EvaluateRule
  <2>5. ASSUME NEW e \in Evaluation, NEW x \in Execution, U!ExecuteAction(x, e) PROVE AutomationIInv'
    BY <1>2, <2>5 DEF U!ExecuteAction
  <2>6. ASSUME NEW x \in Execution, NEW a \in 1 .. MaxAttempt, U!RetryExecution(x, a)
        PROVE  AutomationIInv'
    <3> DEFINE new == [rule.executions[x] EXCEPT !.status = "FAILED", !.retryAttempt = a]
    <3>1. /\ rule.executions[x].status # "ABSENT"
          /\ rule' = [rule EXCEPT !.executions = [@ EXCEPT ![x] = new]]
      BY <2>6 DEF U!RetryExecution
    <3>2. /\ new \in [status: {"ABSENT", "EXECUTED", "FAILED", "COMPENSATED"},
                      evaluation: Evaluation \cup {NoEvaluation}, retryAttempt: 0 .. MaxAttempt]
          /\ new.status = "FAILED" /\ new.evaluation = rule.executions[x].evaluation
      <4>1. a \in 0 .. MaxAttempt
        OBVIOUS
      <4> HIDE ApplicationAssumption
      <4> QED
        BY <1>2, <4>1
    <3> HIDE DEF new
    <3> QED
      BY <1>2, <3>1, <3>2
  <2>7. ASSUME NEW x \in Execution, U!CompensateExecution(x) PROVE AutomationIInv'
    BY <1>2, <2>7 DEF U!CompensateExecution
  <2>8. CASE U!ArchiveRule
    <3>1. /\ rule.status # "ARCHIVED"
          /\ rule' = [rule EXCEPT !.status = "ARCHIVED", !.lifecycleEpoch = @ + 1]
      BY <2>8 DEF U!ArchiveRule
    <3>2. rule.lifecycleEpoch + 1 \in 0 .. MaxEpoch + 1
      BY <1>2, <3>1
    <3> QED
      BY <1>2, <3>1, <3>2
  <2> QED
    BY <2>0, <2>1, <2>2, <2>3, <2>4, <2>5, <2>6, <2>7, <2>8 DEF U!Next
<1> QED
  BY <1>1, <1>2

-----------------------------------------------------------------------------
(* Meeting *)

\* Before it begins nothing is on record.
MeetingIInv ==
  /\ M!TypeOK /\ M!RecordsOfParticipants
  /\ meeting.status \in {"ABSENT", "SCHEDULED"} =>
       /\ \A d \in DecisionId : meeting.decisions[d] = Nobody
       /\ \A a \in ActionItem : meeting.actionItems[a] = Nobody
  /\ meeting.status = "IN_PROGRESS" => meeting.startedAt # 0

\* Only those who take part are recorded, and nobody is removed once that can happen.
LEMMA MeetingInductive ==
  /\ M!Init => MeetingIInv
  /\ MeetingIInv /\ [Next]_vars => MeetingIInv'
<1> USE ApplicationAssumption DEF M!MeetingAssumption, MeetingIInv, M!TypeOK, M!Instant
<1>1. M!Init => MeetingIInv
  BY DEF M!Init, M!RecordsOfParticipants
<1>2. ASSUME MeetingIInv, [Next]_vars PROVE MeetingIInv'
  <2> USE DEF M!scheduled, M!inProgress, M!RecordsOfParticipants
  <2>0. [M!Next]_meeting
    BY <1>2, MeetingSteps
  <2>1. CASE UNCHANGED meeting
    BY <1>2, <2>1, SMTT(20)
  <2>2. ASSUME NEW u \in Person, M!CreateMeeting(u) PROVE MeetingIInv'
    BY <1>2, <2>2, ZenonT(60) DEF M!CreateMeeting
  <2>3. ASSUME NEW u \in Person, M!InviteParticipant(u) PROVE MeetingIInv'
    BY <1>2, <2>3 DEF M!InviteParticipant
  <2>4. ASSUME NEW u \in Person, M!RemoveParticipant(u) PROVE MeetingIInv'
    BY <1>2, <2>4 DEF M!RemoveParticipant
  <2>5. ASSUME NEW u \in Person, NEW d \in DecisionId, M!RecordDecision(d, u) PROVE MeetingIInv'
    BY <1>2, <2>5 DEF M!RecordDecision
  <2>6. ASSUME NEW u \in Person, NEW a \in ActionItem, M!ProposeActionItem(a, u) PROVE MeetingIInv'
    BY <1>2, <2>6 DEF M!ProposeActionItem
  <2>7. ASSUME NEW at \in M!Instant, M!StartMeeting(at) PROVE MeetingIInv'
    <3>1. /\ meeting.status = "SCHEDULED" /\ at # 0
          /\ meeting' = [meeting EXCEPT !.status = "IN_PROGRESS", !.startedAt = at]
      BY <2>7 DEF M!StartMeeting
    <3>2. M!TypeOK' /\ meeting'.status = "IN_PROGRESS" /\ meeting'.startedAt = at
          /\ meeting'.lifecycleEpoch = meeting.lifecycleEpoch /\ meeting'.organizer = meeting.organizer
          /\ meeting'.participants = meeting.participants /\ meeting'.decisions = meeting.decisions
          /\ meeting'.actionItems = meeting.actionItems
      BY <1>2, <3>1
    <3> QED
      BY <1>2, <3>1, <3>2
  <2>8. ASSUME NEW at \in M!Instant, M!EndMeeting(at) PROVE MeetingIInv'
    <3>0. meeting.lifecycleEpoch + 1 = 1 /\ 1 \in 0 .. 1
      BY <1>2, <2>8 DEF M!EndMeeting
    <3>1. /\ meeting.status = "IN_PROGRESS"
          /\ M!millisecond(at) >= M!millisecond(meeting.startedAt)
          /\ meeting' = [meeting EXCEPT !.status = "ENDED", !.endedAt = at, !.lifecycleEpoch = @ + 1]
      BY <2>8 DEF M!EndMeeting
    <3>2. M!TypeOK' /\ meeting'.status = "ENDED" /\ meeting'.startedAt = meeting.startedAt
          /\ meeting'.endedAt = at /\ meeting'.lifecycleEpoch = 1
          /\ meeting'.organizer = meeting.organizer
          /\ meeting'.participants = meeting.participants /\ meeting'.decisions = meeting.decisions
          /\ meeting'.actionItems = meeting.actionItems
      BY <1>2, <3>0, <3>1
    <3>3. meeting.startedAt # 0 /\ M!millisecond(meeting.startedAt) <= M!millisecond(at)
      <4>1. meeting.startedAt \in Int /\ at \in Int
        BY <1>2
      <4>2. M!millisecond(meeting.startedAt) \in Int /\ M!millisecond(at) \in Int
        BY <4>1 DEF M!millisecond
      <4> QED
        BY <1>2, <3>1, <4>2
    <3> QED
      BY <1>2, <3>1, <3>2, <3>3
  <2>9. CASE M!CancelMeeting
    <3>0. meeting.lifecycleEpoch + 1 = 1 /\ 1 \in 0 .. 1
      BY <1>2, <2>9 DEF M!CancelMeeting
    <3>1. /\ meeting.status \in {"SCHEDULED", "IN_PROGRESS"}
          /\ meeting' = [meeting EXCEPT !.status = "CANCELLED", !.lifecycleEpoch = @ + 1]
      BY <2>9 DEF M!CancelMeeting
    <3>2. M!TypeOK' /\ meeting'.status = "CANCELLED" /\ meeting'.startedAt = meeting.startedAt
          /\ meeting'.lifecycleEpoch = 1 /\ meeting'.organizer = meeting.organizer
          /\ meeting'.participants = meeting.participants /\ meeting'.decisions = meeting.decisions
          /\ meeting'.actionItems = meeting.actionItems
      BY <1>2, <3>0, <3>1
    <3> QED
      BY <1>2, <3>1, <3>2
  <2> QED
    BY <2>0, <2>1, <2>2, <2>3, <2>4, <2>5, <2>6, <2>7, <2>8, <2>9 DEF M!Next
<1> QED
  BY <1>1, <1>2

-----------------------------------------------------------------------------
(* Conversation *)

\* A message that is not there has nothing that one could bring back.
ConversationIInv ==
  /\ B!TypeOK /\ B!MessagesHold
  /\ conversation.status # "ARCHIVED" => conversation.lifecycleEpoch = 0
  /\ conversation.status = "ABSENT" => \A m \in Message : conversation.messages[m] = B!NoMessage

\* Members only join, and a redacted body is not written again.
LEMMA ConversationInductive ==
  /\ B!Init => ConversationIInv
  /\ ConversationIInv /\ [Next]_vars => ConversationIInv'
<1> USE ApplicationAssumption DEF B!ConversationAssumption, ConversationIInv, B!TypeOK, B!NoMessage
<1>1. B!Init => ConversationIInv
  BY DEF B!Init, B!MessagesHold
<1>2. ASSUME ConversationIInv, [Next]_vars PROVE ConversationIInv'
  <2> USE DEF B!Loadable, B!member, B!message, B!MessagesHold
  <2>0. [B!Next]_conversation
    BY <1>2, ConversationSteps
  <2>1. CASE UNCHANGED conversation
    BY <1>2, <2>1
  <2>2. ASSUME NEW p \in Person, B!CreateConversation(p) PROVE ConversationIInv'
    <3>1. /\ conversation.status = "ABSENT"
          /\ conversation' = [conversation EXCEPT !.status = "ACTIVE", !.creator = p, !.members = {p}]
      BY <2>2 DEF B!CreateConversation
    <3>2. B!TypeOK' /\ conversation'.status = "ACTIVE" /\ conversation'.lifecycleEpoch = 0
          /\ conversation'.messages = conversation.messages
      BY <1>2, <3>1
    <3> QED
      BY <1>2, <3>1, <3>2
  <2>3. ASSUME NEW p \in Person, B!AddMember(p) PROVE ConversationIInv'
    BY <1>2, <2>3 DEF B!AddMember
  <2>4. ASSUME NEW p \in Person, NEW m \in Message, B!PostMessage(p, m) PROVE ConversationIInv'
    BY <1>2, <2>4 DEF B!PostMessage
  <2>5. ASSUME NEW p \in Person, NEW m \in Message, B!EditMessage(p, m) PROVE ConversationIInv'
    <3> DEFINE new == [conversation.messages[m] EXCEPT !.body = p, !.editCount = @ + 1]
    <3>1. /\ conversation.status = "ACTIVE" /\ p \in conversation.members
          /\ conversation.messages[m].status = "ACTIVE"
          /\ p = conversation.messages[m].author /\ conversation.messages[m].editCount < MaxEdits
          /\ conversation' = [conversation EXCEPT !.messages = [@ EXCEPT ![m] = new]]
      BY <2>5 DEF B!EditMessage
    <3>2. /\ new \in [status: {"ABSENT", "ACTIVE", "REDACTED"}, author: Person \cup {Nobody},
                      body: Person \cup {Nobody, Redacted}, editCount: 0 .. MaxEdits,
                      reactions: SUBSET Person]
          /\ new.author = conversation.messages[m].author
          /\ new.status = "ACTIVE" /\ new.body = new.author
          /\ new.reactions = conversation.messages[m].reactions
      <4>1. conversation.messages[m].editCount + 1 \in 0 .. MaxEdits
        BY <1>2, <3>1
      <4> HIDE ApplicationAssumption
      <4> QED
        BY <1>2, <3>1, <4>1
    <3> HIDE DEF new
    <3>3. B!TypeOK' /\ conversation'.status = "ACTIVE"
          /\ conversation'.lifecycleEpoch = conversation.lifecycleEpoch
          /\ conversation'.members = conversation.members
          /\ conversation'.messages = [conversation.messages EXCEPT ![m] = new]
      BY <1>2, <3>1, <3>2, SMTT(20)
    <3> QED
      BY <1>2, <3>1, <3>2, <3>3, ZenonT(60)
  <2>6. ASSUME NEW p \in Person, NEW m \in Message, B!RedactMessage(p, m) PROVE ConversationIInv'
    <3> DEFINE new == [conversation.messages[m] EXCEPT !.status = "REDACTED", !.body = Redacted,
                                                       !.reactions = {}]
    <3>1. /\ conversation.status = "ACTIVE" /\ p \in conversation.members
          /\ conversation.messages[m].status = "ACTIVE"
          /\ conversation' = [conversation EXCEPT !.messages = [@ EXCEPT ![m] = new]]
      BY <2>6 DEF B!RedactMessage
    <3>2. /\ new \in [status: {"ABSENT", "ACTIVE", "REDACTED"}, author: Person \cup {Nobody},
                      body: Person \cup {Nobody, Redacted}, editCount: 0 .. MaxEdits,
                      reactions: SUBSET Person]
          /\ new.author = conversation.messages[m].author
          /\ new.status = "REDACTED" /\ new.body = Redacted /\ new.reactions = {}
      <4> HIDE ApplicationAssumption
      <4> QED
        BY <1>2
    <3> HIDE DEF new
    <3>3. B!TypeOK' /\ conversation'.status = "ACTIVE"
          /\ conversation'.lifecycleEpoch = conversation.lifecycleEpoch
          /\ conversation'.members = conversation.members
          /\ conversation'.messages = [conversation.messages EXCEPT ![m] = new]
      BY <1>2, <3>1, <3>2, SMTT(20)
    <3> QED
      BY <1>2, <3>1, <3>2, <3>3, ZenonT(60)
  <2>7. ASSUME NEW p \in Person, NEW m \in Message, B!AddReaction(p, m) PROVE ConversationIInv'
    <3> DEFINE new == [conversation.messages[m] EXCEPT !.reactions = @ \cup {p}]
    <3>1. /\ conversation.status = "ACTIVE" /\ p \in conversation.members
          /\ conversation.messages[m].status = "ACTIVE"
          /\ conversation' = [conversation EXCEPT !.messages = [@ EXCEPT ![m] = new]]
      BY <2>7 DEF B!AddReaction
    <3>2. /\ new \in [status: {"ABSENT", "ACTIVE", "REDACTED"}, author: Person \cup {Nobody},
                      body: Person \cup {Nobody, Redacted}, editCount: 0 .. MaxEdits,
                      reactions: SUBSET Person]
          /\ new.author = conversation.messages[m].author
          /\ new.status = "ACTIVE" /\ new.body = conversation.messages[m].body
          /\ new.reactions = conversation.messages[m].reactions \cup {p}
      BY <1>2, <3>1
    <3> HIDE DEF new
    <3>3. B!TypeOK' /\ conversation'.status = "ACTIVE"
          /\ conversation'.lifecycleEpoch = conversation.lifecycleEpoch
          /\ conversation'.members = conversation.members
          /\ conversation'.messages = [conversation.messages EXCEPT ![m] = new]
      BY <1>2, <3>1, <3>2, SMTT(20)
    <3> QED
      BY <1>2, <3>1, <3>2, <3>3, ZenonT(60)
  <2>8. ASSUME NEW p \in Person, NEW m \in Message, B!RemoveReaction(p, m) PROVE ConversationIInv'
    <3> DEFINE new == [conversation.messages[m] EXCEPT !.reactions = @ \ {p}]
    <3>1. /\ conversation.status = "ACTIVE" /\ p \in conversation.members
          /\ conversation.messages[m].status = "ACTIVE"
          /\ conversation' = [conversation EXCEPT !.messages = [@ EXCEPT ![m] = new]]
      BY <2>8 DEF B!RemoveReaction
    <3>2. /\ new \in [status: {"ABSENT", "ACTIVE", "REDACTED"}, author: Person \cup {Nobody},
                      body: Person \cup {Nobody, Redacted}, editCount: 0 .. MaxEdits,
                      reactions: SUBSET Person]
          /\ new.author = conversation.messages[m].author
          /\ new.status = "ACTIVE" /\ new.body = conversation.messages[m].body
          /\ new.reactions = conversation.messages[m].reactions \ {p}
      BY <1>2, <3>1
    <3> HIDE DEF new
    <3>3. B!TypeOK' /\ conversation'.status = "ACTIVE"
          /\ conversation'.lifecycleEpoch = conversation.lifecycleEpoch
          /\ conversation'.members = conversation.members
          /\ conversation'.messages = [conversation.messages EXCEPT ![m] = new]
      BY <1>2, <3>1, <3>2, SMTT(20)
    <3> QED
      BY <1>2, <3>1, <3>2, <3>3, ZenonT(60)
  <2>9. CASE B!ArchiveConversation
    <3>0. conversation.lifecycleEpoch + 1 = 1 /\ 1 \in 0 .. 1
      BY <1>2, <2>9 DEF B!ArchiveConversation
    <3>1. conversation' = [conversation EXCEPT !.status = "ARCHIVED", !.lifecycleEpoch = @ + 1]
      BY <2>9 DEF B!ArchiveConversation
    <3>2. B!TypeOK' /\ conversation'.status = "ARCHIVED"
          /\ conversation'.members = conversation.members
          /\ conversation'.messages = conversation.messages
      BY <1>2, <3>0, <3>1
    <3> QED
      BY <1>2, <3>2
  <2> QED
    BY <2>0, <2>1, <2>2, <2>3, <2>4, <2>5, <2>6, <2>7, <2>8, <2>9 DEF B!Next
<1> QED
  BY <1>1, <1>2

-----------------------------------------------------------------------------
(* Notification *)

\* Before a notification is sent there is no delivery, and nobody is late
\* before its recipients are resolved.
NotificationIInv ==
  /\ N!TypeOK /\ N!SentOnceToRecipients
  /\ notification.status \in {"ABSENT", "DRAFT", "READY"} =>
       /\ \A b \in Batch : notification.deliveries[b] = N!NoDelivery
       /\ notification.lifecycleEpoch = 0
  /\ notification.status = "SENT" => notification.lifecycleEpoch = 1
  /\ notification.status \in {"ABSENT", "DRAFT"} => late = {}

\* The same, delivery by delivery.
SentInFull(n, l) ==
  /\ \A b, c \in Batch : n.deliveries[b] # N!NoDelivery /\ n.deliveries[c] # N!NoDelivery => b = c
  /\ n.status = "SENT" => \E b \in Batch : n.deliveries[b] # N!NoDelivery
  /\ n.status \in {"READY", "SENT"} => n.recipients # {}
  /\ (\A b \in Batch : n.deliveries[b] = N!NoDelivery) => n.acknowledged = {}
  /\ n.acknowledged \cup l \subseteq n.recipients
  /\ \A b \in Batch : n.deliveries[b] # N!NoDelivery =>
       (n.deliveries[b].status = "FAILED" <=> n.deliveries[b].retryAttempt > 0)
  /\ n.status \in {"ABSENT", "DRAFT", "READY"} =>
       /\ \A b \in Batch : n.deliveries[b] = N!NoDelivery
       /\ n.lifecycleEpoch = 0
  /\ n.status = "SENT" => n.lifecycleEpoch = 1
  /\ n.status \in {"ABSENT", "DRAFT"} => l = {}

LEMMA NotificationExpanded ==
  /\ NotificationIInv <=> N!TypeOK /\ SentInFull(notification, late)
  /\ NotificationIInv' <=> N!TypeOK' /\ SentInFull(notification', late')
<1>1. NotificationIInv <=> N!TypeOK /\ SentInFull(notification, late)
  BY DEF NotificationIInv, SentInFull, N!SentOnceToRecipients, N!status
<1>2. NotificationIInv' <=> N!TypeOK' /\ SentInFull(notification', late')
  BY DEF NotificationIInv, SentInFull, N!SentOnceToRecipients, N!status
<1> QED
  BY <1>1, <1>2

\* Recipients are fixed before the one sending, and acknowledgements are theirs.
LEMMA NotificationInductive ==
  /\ N!Init => NotificationIInv
  /\ NotificationIInv /\ [Next]_vars => NotificationIInv'
<1>0. MaxAttempt \in Nat
  BY ApplicationAssumption DEF N!NotificationAssumption
<1>1. N!Init => NotificationIInv
  <2> HAVE N!Init
  <2>1. N!TypeOK
    BY <1>0 DEF N!Init, N!TypeOK, N!NoDelivery
  <2>2. SentInFull(notification, late)
    BY DEF N!Init, SentInFull
  <2> QED
    BY <2>1, <2>2, NotificationExpanded
<1>2. ASSUME NotificationIInv, [Next]_vars PROVE NotificationIInv'
  <2> USE DEF N!status, N!Stores
  <2>0. [N!Next]_<<notification, late>>
    BY <1>2, NotificationSteps
  <2>t. /\ notification \in
            [status: {"ABSENT", "DRAFT", "READY", "SENT", "ARCHIVED"}, lifecycleEpoch: 0 .. 2,
             recipients: SUBSET Person, acknowledged: SUBSET Person, escalations: SUBSET Person,
             deliveries: [Batch -> [status: {"ABSENT", "SENT", "FAILED"}, retryAttempt: 0 .. MaxAttempt]]]
        /\ late \subseteq Person
    BY <1>2, NotificationExpanded DEF N!TypeOK
  <2>i. SentInFull(notification, late)
    BY <1>2, NotificationExpanded
  <2>k. SUFFICES N!TypeOK' /\ SentInFull(notification', late')
    BY NotificationExpanded
  <2>1. CASE UNCHANGED <<notification, late>>
    BY <2>1, <2>i, <2>t DEF N!TypeOK
  <2>2. CASE N!CreateNotification
    BY <2>2, <2>i, <2>t DEF N!CreateNotification, SentInFull, N!TypeOK
  <2>3. ASSUME NEW r \in SUBSET Person, r # {}, N!ResolveRecipients(r)
        PROVE  N!TypeOK' /\ SentInFull(notification', late')
    BY <2>3, <2>i, <2>t DEF N!ResolveRecipients, SentInFull, N!TypeOK
  <2>4. ASSUME NEW b \in Batch, N!SendNotification(b)
        PROVE  N!TypeOK' /\ SentInFull(notification', late')
    <3> DEFINE new == [status |-> "SENT", retryAttempt |-> 0]
    <3>0. /\ notification.status = "READY" /\ late' = late
          /\ \A c \in Batch : notification.deliveries[c] = N!NoDelivery
          /\ notification.lifecycleEpoch + 1 = 1 /\ 1 \in 0 .. 2
      BY <2>4, <2>i DEF N!SendNotification, SentInFull
    <3>1. new \in [status: {"ABSENT", "SENT", "FAILED"}, retryAttempt: 0 .. MaxAttempt]
      BY <1>0
    <3>2. notification' = [notification EXCEPT !.status = "SENT", !.lifecycleEpoch = @ + 1,
                                               !.deliveries[b].status = "SENT"]
      BY <2>4 DEF N!SendNotification
    <3>3. [notification.deliveries EXCEPT ![b].status = "SENT"] = [notification.deliveries EXCEPT ![b] = new]
      BY <3>0, <2>t DEF N!NoDelivery
    <3>4. new # N!NoDelivery /\ new.status = "SENT" /\ new.retryAttempt = 0
      BY DEF N!NoDelivery
    <3> HIDE DEF new
    <3>5. /\ N!TypeOK' /\ notification'.status = "SENT" /\ notification'.lifecycleEpoch = 1
          /\ notification'.recipients = notification.recipients
          /\ notification'.acknowledged = notification.acknowledged
          /\ notification'.deliveries = [notification.deliveries EXCEPT ![b] = new]
      BY <2>t, <3>0, <3>1, <3>2, <3>3 DEF N!TypeOK
    <3> QED
      BY <2>i, <2>t, <3>0, <3>4, <3>5 DEF SentInFull
  <2>5. ASSUME NEW b \in Batch, NEW a \in 1 .. MaxAttempt, N!RetryDelivery(b, a)
        PROVE  N!TypeOK' /\ SentInFull(notification', late')
    <3> DEFINE new == [status |-> "FAILED", retryAttempt |-> a]
    <3>0. /\ new \in [status: {"ABSENT", "SENT", "FAILED"}, retryAttempt: 0 .. MaxAttempt]
          /\ new # N!NoDelivery /\ new.status = "FAILED" /\ new.retryAttempt > 0
      BY <1>0 DEF N!NoDelivery
    <3>1. /\ notification.status = "SENT" /\ late' = late
          /\ notification.deliveries[b] # N!NoDelivery
          /\ notification' = [notification EXCEPT !.deliveries = [@ EXCEPT ![b] = new]]
      BY <2>5 DEF N!RetryDelivery
    <3> HIDE DEF new
    <3>2. /\ N!TypeOK' /\ notification'.status = "SENT"
          /\ notification'.lifecycleEpoch = notification.lifecycleEpoch
          /\ notification'.recipients = notification.recipients
          /\ notification'.acknowledged = notification.acknowledged
          /\ notification'.deliveries = [notification.deliveries EXCEPT ![b] = new]
      BY <2>t, <3>0, <3>1 DEF N!TypeOK
    <3> QED
      BY <2>i, <2>t, <3>0, <3>1, <3>2 DEF SentInFull
  <2>6. ASSUME NEW p \in Person, N!EscalateNotification(p)
        PROVE  N!TypeOK' /\ SentInFull(notification', late')
    BY <2>6, <2>i, <2>t DEF N!EscalateNotification, SentInFull, N!TypeOK
  <2>7. ASSUME NEW p \in Person, N!AcknowledgeNotification(p)
        PROVE  N!TypeOK' /\ SentInFull(notification', late')
    BY <2>7, <2>i, <2>t DEF N!AcknowledgeNotification, SentInFull, N!TypeOK
  <2>8. CASE N!ArchiveNotification
    <3>0. notification.lifecycleEpoch + 1 \in 0 .. 2
      BY <2>8, <2>i, <2>t DEF N!ArchiveNotification, SentInFull
    <3>1. /\ late' = late
          /\ notification' = [notification EXCEPT !.status = "ARCHIVED", !.lifecycleEpoch = @ + 1]
      BY <2>8 DEF N!ArchiveNotification
    <3>2. /\ N!TypeOK' /\ notification'.status = "ARCHIVED"
          /\ notification'.recipients = notification.recipients
          /\ notification'.acknowledged = notification.acknowledged
          /\ notification'.deliveries = notification.deliveries
      BY <2>t, <3>0, <3>1 DEF N!TypeOK
    <3> QED
      BY <2>i, <3>1, <3>2 DEF SentInFull
  <2>9. \A r \in (SUBSET Person) \ {{}} : r \in SUBSET Person /\ r # {}
    OBVIOUS
  <2> QED
    BY <2>0, <2>1, <2>2, <2>3, <2>4, <2>5, <2>6, <2>7, <2>8, <2>9 DEF N!Next
<1> QED
  BY <1>1, <1>2

-----------------------------------------------------------------------------
(* Policy *)

\* The version a decision was taken under, and the one in force, are versions
\* of the policy.
PolicyIInv ==
  /\ Y!TypeOK /\ Y!DecisionsAccountedFor
  /\ \A e \in Evaluation : policy.evaluations[e].decision # "NONE" => under[e] \in PolicyVersion
  /\ policy.status = "ACTIVE" => policy.activeVersion \in PolicyVersion

\* The rules of a version never change, so what followed from them still does.
LEMMA PolicyInductive ==
  /\ Y!Init => PolicyIInv
  /\ PolicyIInv /\ [Next]_vars => PolicyIInv'
<1>0. /\ Denying \subseteq Rule /\ Matching \in [Action -> SUBSET Rule]
      /\ NoVersion \notin PolicyVersion /\ Action # {}
  BY ApplicationAssumption DEF Y!PolicyAssumption
<1> DEFINE Version_ == [status: {"ABSENT", "DRAFT", "PUBLISHED"}, rules: SUBSET Rule]
           Taken == [decision: {"NONE", "ALLOW", "DENY"}, matched: SUBSET Rule,
                     action: Action, signal: Y!Signal]
<1>1. Y!Init => PolicyIInv
  <2> HAVE Y!Init
  <2>1. (CHOOSE a \in Action : TRUE) \in Action
    BY <1>0
  <2> QED
    BY <1>0, <2>1 DEF Y!Init, PolicyIInv, Y!TypeOK, Y!DecisionsAccountedFor, Y!Signal
<1>2. ASSUME PolicyIInv, [Next]_vars PROVE PolicyIInv'
  <2> USE DEF PolicyIInv, Y!TypeOK
  <2>0. [Y!Next]_<<policy, under>>
    BY <1>2, PolicySteps
  <2>1. CASE UNCHANGED <<policy, under>>
    BY <1>2, <2>1 DEF Y!DecisionsAccountedFor
  <2>2. ASSUME NEW r \in BOOLEAN, Y!CreatePolicy(r) PROVE PolicyIInv'
    BY <1>2, <2>2 DEF Y!CreatePolicy, Y!DecisionsAccountedFor
  <2>3. ASSUME NEW v \in PolicyVersion, NEW rules \in SUBSET Rule, Y!CreatePolicyVersion(v, rules)
        PROVE  PolicyIInv'
    <3> DEFINE new == [status |-> "DRAFT", rules |-> rules]
    <3>1. /\ policy.versions[v].status = "ABSENT" /\ under' = under
          /\ policy' = [policy EXCEPT !.versions = [@ EXCEPT ![v] = new]]
      BY <2>3 DEF Y!CreatePolicyVersion, Y!Stores
    <3>2. new \in Version_
      OBVIOUS
    <3> HIDE DEF new
    <3>3. /\ Y!TypeOK' /\ policy'.versions = [policy.versions EXCEPT ![v] = new]
          /\ policy'.status = policy.status /\ policy'.activeVersion = policy.activeVersion
          /\ policy'.evaluations = policy.evaluations /\ policy'.violations = policy.violations
          /\ policy'.holds = policy.holds
      BY <1>2, <3>1, <3>2
    <3>4. \A e \in Evaluation : policy.evaluations[e].decision # "NONE" =>
            policy'.versions[under[e]] = policy.versions[under[e]]
      BY <1>2, <3>1, <3>3 DEF Y!DecisionsAccountedFor
    <3>5. policy'.status = "ACTIVE" =>
            policy'.versions[policy'.activeVersion] = policy.versions[policy.activeVersion]
      BY <1>2, <3>1, <3>3 DEF Y!DecisionsAccountedFor
    <3>6. Y!DecisionsAccountedFor'
      <4> HIDE DEF Y!TypeOK
      <4> QED
        BY <1>2, <3>1, <3>3, <3>4, <3>5 DEF Y!DecisionsAccountedFor
    <3> QED
      BY <1>2, <3>1, <3>3, <3>6
  <2>4. ASSUME NEW v \in PolicyVersion, Y!PublishPolicyVersion(v) PROVE PolicyIInv'
    <3> DEFINE new == [policy.versions[v] EXCEPT !.status = "PUBLISHED"]
    <3>1. /\ policy.versions[v].status = "DRAFT" /\ under' = under
          /\ policy' = [policy EXCEPT !.versions = [@ EXCEPT ![v] = new], !.activeVersion = v,
                           !.status = "ACTIVE", !.lifecycleEpoch = @ + 1]
      BY <2>4 DEF Y!PublishPolicyVersion, Y!Stores
    <3>2. new \in Version_ /\ new.status = "PUBLISHED" /\ new.rules = policy.versions[v].rules
      BY <1>2
    <3>4. policy.lifecycleEpoch + 1 \in Nat
      BY <1>2
    <3> HIDE DEF new
    <3>3. /\ Y!TypeOK' /\ policy'.versions = [policy.versions EXCEPT ![v] = new]
          /\ policy'.status = "ACTIVE" /\ policy'.activeVersion = v
          /\ policy'.evaluations = policy.evaluations /\ policy'.violations = policy.violations
          /\ policy'.holds = policy.holds
      BY <1>2, <3>1, <3>2, <3>4
    <3> QED
      BY <1>2, <3>1, <3>2, <3>3 DEF Y!DecisionsAccountedFor
  <2>5. ASSUME NEW e \in Evaluation, NEW a \in Action, NEW signal \in Y!Signal,
               Y!EvaluatePolicy(e, a, signal)
        PROVE  PolicyIInv'
    <3> DEFINE rules == policy.versions[policy.activeVersion].rules
               new == [decision |-> Y!Decision(rules \cap Matching[a]), matched |-> rules \cap Matching[a],
                       action |-> a, signal |-> signal]
    <3>1. /\ policy.status = "ACTIVE" /\ policy.evaluations[e].decision = "NONE"
          /\ policy' = [policy EXCEPT !.evaluations = [@ EXCEPT ![e] = new]]
          /\ under' = [under EXCEPT ![e] = policy.activeVersion]
      BY <2>5 DEF Y!EvaluatePolicy
    <3>2. /\ policy.activeVersion \in PolicyVersion /\ rules \subseteq Rule
          /\ policy.versions[policy.activeVersion].status = "PUBLISHED"
      BY <1>2, <3>1 DEF Y!DecisionsAccountedFor
    <3>3. new \in Taken /\ new.decision # "NONE" /\ new.matched = rules \cap Matching[new.action]
      BY <1>0, <3>2 DEF Y!Decision
    <3>4. new.decision = "DENY" <=> \E r \in Denying : r \in rules /\ r \in Matching[new.action]
      BY <1>0 DEF Y!Decision
    <3> HIDE DEF new
    <3>5. /\ Y!TypeOK' /\ policy'.evaluations = [policy.evaluations EXCEPT ![e] = new]
          /\ policy'.status = policy.status /\ policy'.activeVersion = policy.activeVersion
          /\ policy'.versions = policy.versions /\ policy'.violations = policy.violations
          /\ policy'.holds = policy.holds
      BY <1>2, <3>1, <3>2, <3>3
    <3>6. /\ policy'.evaluations[e] = new /\ under'[e] = policy.activeVersion
          /\ \A f \in Evaluation \ {e} :
               policy'.evaluations[f] = policy.evaluations[f] /\ under'[f] = under[f]
      BY <1>2, <3>1, <3>5
    <3>7. Y!DecisionsAccountedFor'
      <4> HIDE DEF Y!TypeOK
      <4> QED
        BY <1>2, <3>1, <3>2, <3>3, <3>4, <3>5, <3>6, SMTT(20) DEF Y!DecisionsAccountedFor
    <3> QED
      BY <1>2, <3>1, <3>2, <3>5, <3>6, <3>7, ZenonT(60)
  <2>6. ASSUME NEW e \in Evaluation, NEW i \in Violation, Y!RegisterViolation(i, e) PROVE PolicyIInv'
    BY <1>2, <2>6 DEF Y!RegisterViolation, Y!Stores, Y!DecisionsAccountedFor
  <2>7. ASSUME NEW h \in Hold, Y!ApplyLegalHold(h) \/ Y!ReleaseLegalHold(h) PROVE PolicyIInv'
    BY <1>2, <2>7 DEF Y!ApplyLegalHold, Y!ReleaseLegalHold, Y!Stores, Y!Loadable, Y!DecisionsAccountedFor
  <2>8. CASE Y!RetirePolicy
    <3>1. /\ \A h \in Hold : policy.holds[h] # "ACTIVE"
          /\ under' = under
          /\ policy' = [policy EXCEPT !.status = "RETIRED", !.lifecycleEpoch = @ + 1]
      BY <2>8 DEF Y!RetirePolicy, Y!Stores
    <3>2. policy.lifecycleEpoch + 1 \in Nat
      BY <1>2
    <3>3. /\ Y!TypeOK' /\ policy'.evaluations = policy.evaluations
          /\ policy'.status = "RETIRED"
          /\ policy'.versions = policy.versions /\ policy'.violations = policy.violations
          /\ policy'.holds = policy.holds
      BY <1>2, <3>1, <3>2
    <3> QED
      BY <1>2, <3>1, <3>3 DEF Y!DecisionsAccountedFor
  <2>9. ASSUME NEW l \in RateLimit, Y!DefineRateLimitPolicy(l) PROVE PolicyIInv'
    BY <1>2, <2>9 DEF Y!DefineRateLimitPolicy, Y!Stores, Y!DecisionsAccountedFor
  <2>10. \A r \in (SUBSET Rule) \ {{}} : r \in SUBSET Rule
    OBVIOUS
  <2> QED
    BY <2>0, <2>1, <2>2, <2>3, <2>4, <2>5, <2>6, <2>7, <2>8, <2>9, <2>10 DEF Y!Next
<1> QED
  BY <1>1, <1>2

-----------------------------------------------------------------------------
(* Approval *)

\* A request asks for one approval at least, and the epochs of a gate come in
\* the order of its life.
ApprovalIInv ==
  /\ A!TypeOK /\ A!DecisionsAddUp
  /\ approval.status = "ABSENT" =>
       /\ \A u \in User : approval.approvers[u] = A!Unassigned
       /\ approval.lifecycleEpoch = 0 /\ openedIn = 0
  /\ approval.status # "ABSENT" => approval.requiredApprovals >= 1
  /\ openedIn <= approval.lifecycleEpoch
  /\ approval.status = "PENDING" => approval.lifecycleEpoch <= MaxEpoch + 1
  /\ approval.status # "REVERSED" => approval.lifecycleEpoch <= MaxEpoch + 2

\* A module that is instantiated has its own copies of what it extends.
LEMMA ApprovalFiniteSets ==
  /\ \A T : A!IsFiniteSet(T) <=> IsFiniteSet(T)
  /\ \A T : A!Cardinality(T) = Cardinality(T)
<1>1. \A T : A!IsFiniteSet(T) <=> IsFiniteSet(T)
  BY DEF A!IsFiniteSet, IsFiniteSet
<1>2. \A T : A!Cardinality(T) = Cardinality(T)
  BY DEF A!Cardinality, Cardinality
<1> QED
  BY <1>1, <1>2

\* What the gate promises of its approvers, whatever decisions they have taken.
Delegations(approvers) ==
  LET delegators == A!Decided(approvers, "DELEGATED") IN
  /\ \A u \in delegators :
       /\ approvers[u].delegatedTo \in User /\ approvers[approvers[u].delegatedTo].decision # "NONE"
  /\ \A u, v \in delegators : approvers[u].delegatedTo = approvers[v].delegatedTo => u = v
  /\ \A S_1 \in SUBSET delegators : S_1 # {} => \E u \in S_1 : approvers[u].delegatedTo \notin S_1

\* What it promises of their decisions.
Counts(status, required, approvers, opened) ==
  /\ status \in {"APPROVED", "REVERSED"} => Cardinality(A!Decided(approvers, "APPROVED")) = required
  /\ status \in {"PENDING", "CHANGES_REQUESTED", "CANCELLED", "REJECTED"} =>
       Cardinality(A!Decided(approvers, "APPROVED")) < required
  /\ Cardinality(A!Decided(approvers, "REJECTED")) = IF status = "REJECTED" THEN 1 ELSE 0
  /\ \A u \in User : approvers[u].decision \in {"APPROVED", "REJECTED"} => approvers[u].decidedIn >= opened

LEMMA DecisionsExpanded ==
  ASSUME A!TypeOK
  PROVE  A!DecisionsAddUp <=>
           /\ Counts(approval.status, approval.requiredApprovals, approval.approvers, openedIn)
           /\ Delegations(approval.approvers)
  BY ApplicationAssumption, ApprovalFiniteSets
     DEF A!DecisionsAddUp, Counts, Delegations, A!granting, A!decision, A!Decided, A!TypeOK, A!Approver,
         A!ApprovalAssumption

\* Approvers are finitely many wherever the code counts them.
LEMMA DecidedFinite ==
  ASSUME NEW a, NEW d
  PROVE  /\ IsFiniteSet(A!Decided(a, d)) /\ Cardinality(A!Decided(a, d)) \in Nat
         /\ Cardinality(A!Decided(a, d)) = 0 <=> A!Decided(a, d) = {}
<1>1. IsFiniteSet(User) /\ A!Decided(a, d) \subseteq User
  BY ApplicationAssumption, ApprovalFiniteSets DEF A!ApprovalAssumption, A!Decided
<1>2. IsFiniteSet(A!Decided(a, d))
  BY <1>1, FS_Subset
<1> QED
  BY <1>2, FS_CardinalityType, FS_EmptySet

\* Decisions that do not delegate leave the delegations what they are.
LEMMA DelegationsKept ==
  ASSUME NEW a, NEW b, Delegations(a),
         \A u \in User : /\ b[u].decision = "DELEGATED" <=> a[u].decision = "DELEGATED"
                         /\ a[u].decision = "DELEGATED" => b[u].delegatedTo = a[u].delegatedTo
                         /\ a[u].decision # "NONE" => b[u].decision # "NONE"
  PROVE  Delegations(b)
<1>1. A!Decided(b, "DELEGATED") = A!Decided(a, "DELEGATED")
  BY DEF A!Decided
<1>2. \A u \in A!Decided(a, "DELEGATED") : b[u].delegatedTo = a[u].delegatedTo
  BY DEF A!Decided
<1>3. \A u \in A!Decided(b, "DELEGATED") :
        b[u].delegatedTo \in User /\ b[b[u].delegatedTo].decision # "NONE"
  BY <1>1, <1>2 DEF Delegations
<1>4. \A u, v \in A!Decided(b, "DELEGATED") : b[u].delegatedTo = b[v].delegatedTo => u = v
  BY <1>1, <1>2 DEF Delegations
<1>5. ASSUME NEW T \in SUBSET A!Decided(b, "DELEGATED"), T # {}
      PROVE  \E u \in T : b[u].delegatedTo \notin T
  <2>1. PICK u \in T : a[u].delegatedTo \notin T
    BY <1>1, <1>5 DEF Delegations
  <2> QED
    BY <1>1, <1>2, <2>1
<1> QED
  BY <1>3, <1>4, <1>5 DEF Delegations

\* Reopening forgets the decisions and begins an epoch that none of them has.
LEMMA ApprovalInductive ==
  /\ A!Init => ApprovalIInv
  /\ ApprovalIInv /\ [Next]_vars => ApprovalIInv'
<1>0. /\ IsFiniteSet(User) /\ Nobody \notin User /\ MaxRequired \in Nat /\ MaxEpoch \in Nat
  BY ApplicationAssumption, ApprovalFiniteSets DEF A!ApprovalAssumption
<1>1. A!Init => ApprovalIInv
  <2> HAVE A!Init
  <2>1. A!TypeOK
    BY <1>0 DEF A!Init, A!TypeOK, A!Approver, A!Unassigned
  <2>2. \A d \in {"APPROVED", "REJECTED", "DELEGATED"} : A!Decided(approval.approvers, d) = {}
    BY DEF A!Init, A!Decided, A!Unassigned
  <2>3. Delegations(approval.approvers)
    BY <2>2 DEF Delegations
  <2>4. Counts(approval.status, approval.requiredApprovals, approval.approvers, openedIn)
    BY <2>2, FS_EmptySet DEF A!Init, Counts, A!Unassigned
  <2>5. A!DecisionsAddUp
    BY <2>1, <2>3, <2>4, DecisionsExpanded
  <2> QED
    BY <1>0, <2>1, <2>5 DEF A!Init, ApprovalIInv
<1>2. ASSUME ApprovalIInv, [Next]_vars PROVE ApprovalIInv'
  <2>0. [A!Next]_<<approval, openedIn>>
    BY <1>2, ApprovalSteps
  <2> DEFINE Gate == [status: {"ABSENT", "PENDING", "APPROVED", "REJECTED", "CHANGES_REQUESTED",
                               "CANCELLED", "REVERSED"},
                      requiredApprovals: 0 .. MaxRequired, lifecycleEpoch: 0 .. MaxEpoch + 3,
                      approvers: [User -> A!Approver], escalations: SUBSET User]
             Held(g, o) ==
               /\ Counts(g.status, g.requiredApprovals, g.approvers, o)
               /\ Delegations(g.approvers)
               /\ g.status = "ABSENT" =>
                    /\ \A u \in User : g.approvers[u] = A!Unassigned
                    /\ g.lifecycleEpoch = 0 /\ o = 0
               /\ g.status # "ABSENT" => g.requiredApprovals >= 1
               /\ o <= g.lifecycleEpoch
               /\ g.status = "PENDING" => g.lifecycleEpoch <= MaxEpoch + 1
               /\ g.status # "REVERSED" => g.lifecycleEpoch <= MaxEpoch + 2
  <2>t. approval \in Gate /\ openedIn \in 0 .. MaxEpoch + 1
    BY <1>2 DEF ApprovalIInv, A!TypeOK
  <2>i. Held(approval, openedIn)
    BY <1>2, DecisionsExpanded DEF ApprovalIInv
  <2>k. SUFFICES approval' \in Gate /\ openedIn' \in 0 .. MaxEpoch + 1 /\ Held(approval', openedIn')
    <3>1. ASSUME approval' \in Gate, openedIn' \in 0 .. MaxEpoch + 1 PROVE A!TypeOK'
      BY <3>1 DEF A!TypeOK
    <3>2. A!TypeOK' =>
            (A!DecisionsAddUp' <=>
              /\ Counts(approval.status, approval.requiredApprovals, approval.approvers, openedIn)'
              /\ Delegations(approval.approvers)')
      BY DecisionsExpanded, PTL
    <3> QED
      BY <3>1, <3>2 DEF ApprovalIInv, Counts, Delegations
  <2> DEFINE a == approval.approvers
             e == approval.lifecycleEpoch
  <2>a. /\ a \in [User -> A!Approver] /\ e \in Int /\ approval.requiredApprovals \in Int /\ openedIn \in Int
        /\ \A u \in User : a[u] \in A!Approver /\ a[u].decidedIn \in Int
    BY <1>0, <2>t DEF A!Approver
  <2>1. CASE UNCHANGED <<approval, openedIn>>
    BY <2>1, <2>i, <2>t
  <2>2. ASSUME NEW required \in 1 .. MaxRequired, A!CreateApproval(required)
        PROVE  approval' \in Gate /\ openedIn' \in 0 .. MaxEpoch + 1 /\ Held(approval', openedIn')
    <3>1. /\ approval.status = "ABSENT" /\ openedIn' = openedIn
          /\ approval' = [approval EXCEPT !.status = "PENDING", !.requiredApprovals = required]
      BY <2>2 DEF A!CreateApproval
    <3>2. required \in 0 .. MaxRequired /\ required > 0 /\ required \in Int
      BY <1>0
    <3>3. /\ approval' \in Gate /\ approval'.status = "PENDING"
          /\ approval'.requiredApprovals = required
          /\ approval'.lifecycleEpoch = e /\ approval'.approvers = a
      BY <2>t, <3>1, <3>2
    <3>4. \A d \in {"APPROVED", "REJECTED"} : A!Decided(a, d) = {}
      BY <2>i, <3>1 DEF A!Decided, A!Unassigned
    <3>5. Counts("PENDING", required, a, openedIn)
      BY <3>2, <3>4, FS_EmptySet DEF Counts, A!Decided
    <3> QED
      BY <1>0, <2>i, <2>t, <3>1, <3>2, <3>3, <3>5
  <2>3. ASSUME NEW u \in User, A!AssignApprover(u) \/ A!EscalateApproval(u)
        PROVE  approval' \in Gate /\ openedIn' \in 0 .. MaxEpoch + 1 /\ Held(approval', openedIn')
    <3>1. PICK b : /\ b = [a EXCEPT ![u] = IF @.decision = "NONE" THEN A!Assigned ELSE @]
                   /\ approval.status = "PENDING" /\ openedIn' = openedIn
                   /\ \E x \in SUBSET User : approval' = [approval EXCEPT !.approvers = b, !.escalations = x]
      <4>1. CASE A!AssignApprover(u)
        <5>1. /\ approval' = [approval EXCEPT !.approvers[u] = A!Assigned]
              /\ a[u].decision = "NONE" /\ approval.status = "PENDING" /\ openedIn' = openedIn
          BY <4>1 DEF A!AssignApprover, A!decision, A!pending
        <5>2. approval' = [approval EXCEPT !.approvers =
                             [a EXCEPT ![u] = IF @.decision = "NONE" THEN A!Assigned ELSE @],
                             !.escalations = approval.escalations]
          BY <2>t, <5>1
        <5> QED
          BY <2>t, <5>1, <5>2
      <4>2. CASE A!EscalateApproval(u)
        <5>1. /\ approval' = [approval EXCEPT !.escalations = @ \cup {u},
                                !.approvers[u] = IF @.decision = "NONE" THEN A!Assigned ELSE @]
              /\ approval.status = "PENDING" /\ openedIn' = openedIn
          BY <4>2 DEF A!EscalateApproval, A!pending
        <5>2. approval' = [approval EXCEPT !.approvers =
                             [a EXCEPT ![u] = IF @.decision = "NONE" THEN A!Assigned ELSE @],
                             !.escalations = approval.escalations \cup {u}]
          BY <2>t, <5>1
        <5>3. approval.escalations \cup {u} \in SUBSET User
          BY <2>t
        <5> QED
          BY <5>1, <5>2, <5>3
      <4> QED
        BY <2>3, <4>1, <4>2
    <3>2. A!Assigned \in A!Approver /\ A!Assigned.decision = "PENDING"
      BY <1>0 DEF A!Assigned, A!Unassigned, A!Approver
    <3>3. /\ b \in [User -> A!Approver]
          /\ \A v \in User : b[v] = a[v] \/ (a[v].decision = "NONE" /\ b[v].decision = "PENDING")
      BY <2>a, <3>1, <3>2
    <3> HIDE DEF a, e
    <3>4. \A d \in {"APPROVED", "REJECTED"} : A!Decided(b, d) = A!Decided(a, d)
      BY <3>3 DEF A!Decided
    <3>5. Delegations(b)
      <4>1. Delegations(a)
        BY <2>i DEF a
      <4>2. \A v \in User : /\ b[v].decision = "DELEGATED" <=> a[v].decision = "DELEGATED"
                            /\ a[v].decision = "DELEGATED" => b[v].delegatedTo = a[v].delegatedTo
                            /\ a[v].decision # "NONE" => b[v].decision # "NONE"
        BY <3>3
      <4> QED
        BY <4>1, <4>2, DelegationsKept
    <3>6. Counts("PENDING", approval.requiredApprovals, b, openedIn)
      <4>1. Counts("PENDING", approval.requiredApprovals, a, openedIn)
        BY <2>i, <3>1 DEF a
      <4>2. \A v \in User : b[v].decision \in {"APPROVED", "REJECTED"} => b[v] = a[v]
        BY <3>3
      <4> QED
        BY <3>4, <4>1, <4>2 DEF Counts
    <3>7. /\ approval' \in Gate /\ approval'.status = "PENDING" /\ approval'.approvers = b
          /\ approval'.requiredApprovals = approval.requiredApprovals
          /\ approval'.lifecycleEpoch = approval.lifecycleEpoch
      BY <2>t, <3>1, <3>3
    <3> QED
      BY <2>i, <2>t, <3>1, <3>5, <3>6, <3>7
  <2>d. ASSUME NEW u \in User, NEW d \in {"APPROVED", "REJECTED"}, NEW b, b = A!decides(u, d),
               approval.status = "PENDING", a[u].decision = "PENDING"
        PROVE  /\ b \in [User -> A!Approver] /\ Delegations(b)
               /\ b[u].decision = d /\ b[u].decidedIn = e
               /\ \A v \in User \ {u} : b[v] = a[v]
               /\ A!Decided(b, d) = A!Decided(a, d) \cup {u} /\ u \notin A!Decided(a, d)
               /\ \A c \in {"APPROVED", "REJECTED"} \ {d} : A!Decided(b, c) = A!Decided(a, c)
    <3>1. e \in 0 .. MaxEpoch + 2
      BY <1>0, <2>d, <2>i, <2>t
    <3>2. a[u] \in A!Approver /\ b = [a EXCEPT ![u] = [@ EXCEPT !.decision = d, !.decidedIn = e]]
      BY <2>a, <2>d DEF A!decides
    <3>3. [a[u] EXCEPT !.decision = d, !.decidedIn = e] \in A!Approver
      BY <3>1, <3>2 DEF A!Approver
    <3>4. /\ b \in [User -> A!Approver] /\ b[u].decision = d /\ b[u].decidedIn = e
          /\ \A v \in User \ {u} : b[v] = a[v]
      BY <2>a, <3>2, <3>3 DEF A!Approver
    <3> HIDE DEF a, e
    <3>5. Delegations(b)
      <4>1. Delegations(a)
        BY <2>i DEF a
      <4>2. \A v \in User : /\ b[v].decision = "DELEGATED" <=> a[v].decision = "DELEGATED"
                            /\ a[v].decision = "DELEGATED" => b[v].delegatedTo = a[v].delegatedTo
                            /\ a[v].decision # "NONE" => b[v].decision # "NONE"
        BY <2>d, <3>4
      <4> QED
        BY <4>1, <4>2, DelegationsKept
    <3>6. A!Decided(b, d) = A!Decided(a, d) \cup {u} /\ u \notin A!Decided(a, d)
      BY <2>d, <3>4 DEF A!Decided
    <3>7. \A c \in {"APPROVED", "REJECTED"} \ {d} : A!Decided(b, c) = A!Decided(a, c)
      BY <2>d, <3>4 DEF A!Decided
    <3> QED
      BY <3>4, <3>5, <3>6, <3>7
  <2>4. ASSUME NEW u \in User, A!Approve(u)
        PROVE  approval' \in Gate /\ openedIn' \in 0 .. MaxEpoch + 1 /\ Held(approval', openedIn')
    <3> DEFINE b == A!decides(u, "APPROVED")
               granted == Cardinality(A!Decided(b, "APPROVED")) >= approval.requiredApprovals
    <3>1. /\ approval.status = "PENDING" /\ a[u].decision = "PENDING" /\ openedIn' = openedIn
          /\ approval' = [approval EXCEPT !.approvers = b,
                            !.status = IF granted THEN "APPROVED" ELSE @,
                            !.lifecycleEpoch = IF granted THEN @ + 1 ELSE @]
      BY <2>4, ApprovalFiniteSets DEF A!Approve, A!pending, A!decision
    <3>2. /\ b \in [User -> A!Approver] /\ Delegations(b)
          /\ b[u].decision = "APPROVED" /\ b[u].decidedIn = e
          /\ \A v \in User \ {u} : b[v] = a[v]
          /\ A!Decided(b, "APPROVED") = A!Decided(a, "APPROVED") \cup {u}
          /\ u \notin A!Decided(a, "APPROVED")
          /\ A!Decided(b, "REJECTED") = A!Decided(a, "REJECTED")
      BY <2>d, <3>1
    <3>3. e + 1 \in 0 .. MaxEpoch + 3 /\ e + 1 <= MaxEpoch + 2
      BY <1>0, <2>i, <2>t, <3>1
    <3>4. Cardinality(A!Decided(b, "APPROVED")) = Cardinality(A!Decided(a, "APPROVED")) + 1
      BY <3>2, DecidedFinite, FS_AddElement
    <3>5. Cardinality(A!Decided(a, "APPROVED")) \in Nat
      BY DecidedFinite
    <3> HIDE DEF b
    <3>6. /\ approval' \in Gate /\ approval'.approvers = b
          /\ approval'.requiredApprovals = approval.requiredApprovals
          /\ approval'.status = IF granted THEN "APPROVED" ELSE "PENDING"
          /\ approval'.lifecycleEpoch = IF granted THEN e + 1 ELSE e
      BY <2>t, <3>1, <3>2, <3>3
    <3>7. Counts("PENDING", approval.requiredApprovals, a, openedIn)
      BY <2>i, <3>1
    <3> HIDE DEF a, e
    <3>8. Counts(approval'.status, approval.requiredApprovals, b, openedIn)
      <4>1. \A v \in User : b[v].decision \in {"APPROVED", "REJECTED"} => b[v].decidedIn >= openedIn
        BY <2>a, <2>i, <3>2, <3>7 DEF Counts, e
      <4>2. CASE granted
        BY <2>a, <3>2, <3>4, <3>5, <3>6, <3>7, <4>1, <4>2 DEF Counts
      <4>3. CASE ~granted
        BY <2>a, <3>2, <3>4, <3>5, <3>6, <3>7, <4>1, <4>3 DEF Counts
      <4> QED
        BY <4>2, <4>3
    <3> QED
      BY <1>0, <2>a, <2>i, <2>t, <3>1, <3>2, <3>3, <3>6, <3>8 DEF e
  <2>5. ASSUME NEW u \in User, A!Reject(u)
        PROVE  approval' \in Gate /\ openedIn' \in 0 .. MaxEpoch + 1 /\ Held(approval', openedIn')
    <3> DEFINE b == A!decides(u, "REJECTED")
    <3>1. /\ approval.status = "PENDING" /\ a[u].decision = "PENDING" /\ openedIn' = openedIn
          /\ approval' = [approval EXCEPT !.approvers = b, !.status = "REJECTED", !.lifecycleEpoch = @ + 1]
      BY <2>5 DEF A!Reject, A!pending, A!decision
    <3>2. /\ b \in [User -> A!Approver] /\ Delegations(b)
          /\ b[u].decision = "REJECTED" /\ b[u].decidedIn = e
          /\ \A v \in User \ {u} : b[v] = a[v]
          /\ A!Decided(b, "REJECTED") = A!Decided(a, "REJECTED") \cup {u}
          /\ A!Decided(b, "APPROVED") = A!Decided(a, "APPROVED")
      BY <2>d, <3>1
    <3>3. e + 1 \in 0 .. MaxEpoch + 3 /\ e + 1 <= MaxEpoch + 2
      BY <1>0, <2>i, <2>t, <3>1
    <3>4. Counts("PENDING", approval.requiredApprovals, a, openedIn)
      BY <2>i, <3>1
    <3>5. Cardinality(A!Decided(b, "REJECTED")) = 1
      <4>1. A!Decided(a, "REJECTED") = {}
        BY <3>4, DecidedFinite DEF Counts
      <4> QED
        BY <3>2, <4>1, FS_Singleton
    <3> HIDE DEF b
    <3>6. /\ approval' \in Gate /\ approval'.approvers = b
          /\ approval'.requiredApprovals = approval.requiredApprovals
          /\ approval'.status = "REJECTED" /\ approval'.lifecycleEpoch = e + 1
      BY <2>t, <3>1, <3>2, <3>3
    <3>7. \A v \in User : b[v].decision \in {"APPROVED", "REJECTED"} => b[v].decidedIn >= openedIn
      BY <2>a, <2>i, <3>2, <3>4 DEF Counts
    <3> HIDE DEF a, e
    <3>8. Counts("REJECTED", approval.requiredApprovals, b, openedIn)
      BY <3>2, <3>4, <3>5, <3>7 DEF Counts
    <3> QED
      BY <1>0, <2>a, <2>i, <2>t, <3>1, <3>2, <3>3, <3>6, <3>8 DEF e
  <2>6. CASE \/ \E u \in User : A!RequestChanges(u)
             \/ A!CancelApproval \/ A!ReverseApproval
    <3>1. PICK s \in {"CHANGES_REQUESTED", "CANCELLED", "REVERSED"} :
            /\ approval' = [approval EXCEPT !.status = s, !.lifecycleEpoch = @ + 1]
            /\ openedIn' = openedIn
            /\ approval.status = IF s = "REVERSED" THEN "APPROVED" ELSE "PENDING"
      BY <2>6 DEF A!RequestChanges, A!CancelApproval, A!ReverseApproval, A!pending
    <3>2. e + 1 \in 0 .. MaxEpoch + 3 /\ (s # "REVERSED" => e + 1 <= MaxEpoch + 2)
      BY <1>0, <2>i, <2>t, <3>1
    <3>3. /\ approval' \in Gate /\ approval'.approvers = a
          /\ approval'.requiredApprovals = approval.requiredApprovals
          /\ approval'.status = s /\ approval'.lifecycleEpoch = e + 1
      BY <2>t, <3>1, <3>2
    <3>4. Counts(s, approval.requiredApprovals, a, openedIn)
      BY <2>i, <3>1 DEF Counts
    <3> HIDE DEF a
    <3> QED
      BY <1>0, <2>a, <2>i, <2>t, <3>1, <3>2, <3>3, <3>4 DEF a
  <2>7. ASSUME NEW u \in User, NEW to \in User \ {u}, A!DelegateApproval(u, to)
        PROVE  approval' \in Gate /\ openedIn' \in 0 .. MaxEpoch + 1 /\ Held(approval', openedIn')
    <3> DEFINE b == [a EXCEPT ![u].decision = "DELEGATED", ![u].delegatedTo = to, ![to] = A!Assigned]
    <3>1. /\ approval.status = "PENDING" /\ a[u].decision = "PENDING" /\ a[to].decision = "NONE"
          /\ openedIn' = openedIn /\ approval' = [approval EXCEPT !.approvers = b]
      BY <2>7 DEF A!DelegateApproval, A!pending, A!decision
    <3>2. A!Assigned \in A!Approver /\ A!Assigned.decision = "PENDING"
      BY <1>0 DEF A!Assigned, A!Unassigned, A!Approver
    <3>3. /\ b \in [User -> A!Approver]
          /\ b[u].decision = "DELEGATED" /\ b[u].delegatedTo = to /\ b[to].decision = "PENDING"
          /\ \A v \in User \ {u, to} : b[v] = a[v]
      <4> DEFINE new == [a[u] EXCEPT !.decision = "DELEGATED", !.delegatedTo = to]
      <4>1. new \in A!Approver /\ new.decision = "DELEGATED" /\ new.delegatedTo = to
        BY <2>a DEF A!Approver
      <4>2. b = [a EXCEPT ![u] = new, ![to] = A!Assigned]
        BY <2>a
      <4> HIDE DEF new, b, a
      <4> QED
        BY <2>a, <3>2, <4>1, <4>2
    <3> HIDE DEF b
    <3>4. approval' \in Gate /\ approval' = [approval EXCEPT !.approvers = b]
      BY <2>t, <3>1, <3>3
    <3>5. /\ approval'.status = "PENDING" /\ approval'.approvers = b
          /\ approval'.requiredApprovals = approval.requiredApprovals
          /\ approval'.lifecycleEpoch = e
      BY <2>t, <3>1, <3>3
    <3>6. Delegations(a) /\ Counts("PENDING", approval.requiredApprovals, a, openedIn)
      BY <2>i, <3>1
    <3> HIDE DEF a, e
    <3>7. \A d \in {"APPROVED", "REJECTED"} : A!Decided(b, d) = A!Decided(a, d)
      BY <3>1, <3>3 DEF A!Decided
    <3>8. Counts("PENDING", approval.requiredApprovals, b, openedIn)
      <4>1. \A v \in User : b[v].decision \in {"APPROVED", "REJECTED"} => b[v] = a[v]
        BY <3>3
      <4> QED
        BY <3>6, <3>7, <4>1 DEF Counts
    <3>9. Delegations(b)
      <4> DEFINE old == A!Decided(a, "DELEGATED")
                 new == A!Decided(b, "DELEGATED")
      <4>1. /\ new = old \cup {u} /\ u \notin old /\ to \notin new /\ to \notin old
            /\ \A v \in old : b[v] = a[v] /\ a[v].delegatedTo \in User
                              /\ a[a[v].delegatedTo].decision # "NONE"
        BY <3>1, <3>3, <3>6 DEF A!Decided, Delegations
      <4>2. \A v \in old : a[v].delegatedTo # to /\ b[a[v].delegatedTo].decision # "NONE"
        BY <3>1, <3>3, <4>1
      <4>3. \A v \in new : b[v].delegatedTo \in User /\ b[b[v].delegatedTo].decision # "NONE"
        BY <3>3, <4>1, <4>2
      <4>4. \A v, w \in new : b[v].delegatedTo = b[w].delegatedTo => v = w
        BY <3>3, <3>6, <4>1, <4>2 DEF Delegations
      <4>5. ASSUME NEW T \in SUBSET new, T # {} PROVE \E v \in T : b[v].delegatedTo \notin T
        <5>1. CASE u \in T
          BY <3>3, <4>1, <5>1
        <5>2. CASE u \notin T
          <6>1. T \in SUBSET old
            BY <4>1, <5>2
          <6>2. PICK v \in T : a[v].delegatedTo \notin T
            BY <3>6, <4>5, <6>1 DEF Delegations
          <6> QED
            BY <4>1, <6>1, <6>2
        <5> QED
          BY <5>1, <5>2
      <4> QED
        BY <4>3, <4>4, <4>5 DEF Delegations
    <3> QED
      BY <1>0, <2>a, <2>i, <2>t, <3>1, <3>4, <3>5, <3>8, <3>9 DEF e
  <2>8. CASE A!ReopenApproval
    <3> DEFINE b == [u \in User |-> IF a[u].decision \in {"APPROVED", "REJECTED"}
                                    THEN [a[u] EXCEPT !.decision = "PENDING"] ELSE a[u]]
    <3>1. /\ approval.status \in {"REJECTED", "CHANGES_REQUESTED", "CANCELLED", "REVERSED"}
          /\ e <= MaxEpoch
          /\ openedIn' = e + 1
          /\ approval' = [approval EXCEPT !.status = "PENDING", !.lifecycleEpoch = @ + 1, !.approvers = b]
      BY <2>8 DEF A!ReopenApproval, A!Reopenable
    <3>2. e + 1 \in 0 .. MaxEpoch + 3 /\ e + 1 \in 0 .. MaxEpoch + 1
      BY <1>0, <2>t, <3>1
    <3>3. /\ b \in [User -> A!Approver]
          /\ \A u \in User : /\ b[u].decision \notin {"APPROVED", "REJECTED"}
                             /\ b[u].decision = "DELEGATED" <=> a[u].decision = "DELEGATED"
                             /\ a[u].decision = "DELEGATED" => b[u].delegatedTo = a[u].delegatedTo
                             /\ a[u].decision # "NONE" => b[u].decision # "NONE"
      BY <2>a DEF A!Approver
    <3> HIDE DEF b
    <3>4. /\ approval' \in Gate /\ approval'.status = "PENDING" /\ approval'.approvers = b
          /\ approval'.requiredApprovals = approval.requiredApprovals
          /\ approval'.lifecycleEpoch = e + 1
      BY <2>t, <3>1, <3>2, <3>3
    <3>5. approval.requiredApprovals >= 1 /\ Delegations(a)
      BY <2>i, <3>1
    <3> HIDE DEF a, e
    <3>6. Delegations(b)
      BY <3>3, <3>5, DelegationsKept
    <3>7. \A d \in {"APPROVED", "REJECTED"} : A!Decided(b, d) = {}
      BY <3>3 DEF A!Decided
    <3>8. Counts("PENDING", approval.requiredApprovals, b, e + 1)
      <4>1. \A d \in {"APPROVED", "REJECTED"} : Cardinality(A!Decided(b, d)) = 0
        BY <3>7, FS_EmptySet
      <4>2. approval.requiredApprovals \in Int
        BY <2>a
      <4> QED
        BY <3>3, <3>5, <4>1, <4>2 DEF Counts
    <3> QED
      BY <1>0, <2>a, <3>1, <3>2, <3>4, <3>5, <3>6, <3>8
  <2> QED
    BY <2>0, <2>1, <2>2, <2>3, <2>4, <2>5, <2>6, <2>7, <2>8 DEF A!Next
<1> QED
  BY <1>1, <1>2

-----------------------------------------------------------------------------
(* Synchronization *)

\* Nobody is heard before the start, the lifecycle ends once, and a conflict
\* that is there has a batch.
SynchronizationIInv ==
  /\ S!TypeOK /\ S!ConvergenceSound
  /\ synchronization.status = "ABSENT" => \A r \in Replica : synchronization.acknowledgements[r] = NoClock
  /\ synchronization.status # "CLOSED" => synchronization.lifecycleEpoch = 0
  /\ \A c \in Conflict :
       synchronization.conflicts[c].status # "ABSENT" => synchronization.conflicts[c].batch \in Batch

\* Merging clocks is an upper bound of both.
LEMMA ClocksMerge ==
  ASSUME NEW a \in S!Clock, NEW b \in S!Clock
  PROVE  /\ S!mergeClock(a, b) \in S!Clock
         /\ \A r \in Replica : a[r] <= S!mergeClock(a, b)[r] /\ b[r] <= S!mergeClock(a, b)[r]
<1>0. MaxClock \in Nat
  BY ApplicationAssumption DEF S!SynchronizationAssumption
<1> QED
  BY <1>0 DEF S!Clock, S!mergeClock

\* What a replica has acknowledged only grows, and conflicts hold the status back.
LEMMA SynchronizationInductive ==
  /\ S!Init => SynchronizationIInv
  /\ SynchronizationIInv /\ [Next]_vars => SynchronizationIInv'
<1>0. MaxClock \in Nat /\ NoBatch \notin Batch /\ NoClock \notin S!Clock
  BY ApplicationAssumption DEF S!SynchronizationAssumption
<1> DEFINE Batches == [Batch -> [status: {"ABSENT", "OFFERED", "ACCEPTED", "MERGED"},
                                 operations: SUBSET Operation, accepted: SUBSET Operation]]
           Conflicts == [Conflict -> [status: {"ABSENT", "OPEN", "ESCALATED", "RESOLVED"},
                                      batch: Batch \cup {NoBatch}]]
           Statuses == {"ABSENT", "ACTIVE", "CONFLICTED", "SYNCHRONIZED", "CLOSED"}
           Snapshots == [status: Statuses, lifecycleEpoch: 0 .. 1, vectorClock: S!Clock,
                         acknowledgements: [Replica -> S!Clock \cup {NoClock}],
                         batches: Batches, conflicts: Conflicts]
<1> DEFINE Held(s, clock, acks, batches, conflicts) ==
             /\ s = "CONFLICTED" <=> S!Unresolved(conflicts) # {}
             /\ s = "SYNCHRONIZED" => \A r \in Replica : acks[r] # NoClock
             /\ \A r, t \in Replica : acks[r] # NoClock => acks[r][t] <= clock[t]
             /\ \A c \in Conflict : conflicts[c].status # "ABSENT" =>
                  conflicts[c].batch \in Batch /\ batches[conflicts[c].batch].status = "MERGED"
             /\ \A b \in Batch : batches[b].accepted \subseteq batches[b].operations
             /\ s = "ABSENT" => \A r \in Replica : acks[r] = NoClock
<1>a. SynchronizationIInv <=>
        /\ synchronization \in Snapshots
        /\ synchronization.status # "CLOSED" => synchronization.lifecycleEpoch = 0
        /\ Held(synchronization.status, synchronization.vectorClock, synchronization.acknowledgements,
                synchronization.batches, synchronization.conflicts)
  BY DEF SynchronizationIInv, S!TypeOK, S!ConvergenceSound, S!conflict, S!batch
<1>b. SynchronizationIInv' <=>
        /\ synchronization' \in Snapshots
        /\ synchronization'.status # "CLOSED" => synchronization'.lifecycleEpoch = 0
        /\ Held(synchronization'.status, synchronization'.vectorClock, synchronization'.acknowledgements,
                synchronization'.batches, synchronization'.conflicts)
  BY DEF SynchronizationIInv, S!TypeOK, S!ConvergenceSound, S!conflict, S!batch
<1>1. S!Init => SynchronizationIInv
  <2> SUFFICES ASSUME S!Init PROVE SynchronizationIInv
    OBVIOUS
  <2>1. /\ synchronization \in Snapshots /\ synchronization.status = "ABSENT"
        /\ synchronization.lifecycleEpoch = 0
        /\ \A r \in Replica : synchronization.acknowledgements[r] = NoClock
        /\ \A b \in Batch : synchronization.batches[b].accepted = {}
        /\ \A c \in Conflict : synchronization.conflicts[c].status = "ABSENT"
    BY <1>0 DEF S!Init, S!Clock
  <2> QED
    BY <1>a, <2>1 DEF S!Unresolved
<1>2. ASSUME SynchronizationIInv, [Next]_vars PROVE SynchronizationIInv'
  <2> DEFINE s == synchronization.status
             clock_ == synchronization.vectorClock
             acks == synchronization.acknowledgements
             batches == synchronization.batches
             conflicts_ == synchronization.conflicts
  <2>t. /\ synchronization \in Snapshots
        /\ s \in Statuses /\ clock_ \in S!Clock /\ acks \in [Replica -> S!Clock \cup {NoClock}]
        /\ batches \in Batches /\ conflicts_ \in Conflicts
    BY <1>2, <1>a
  <2>i. /\ Held(s, clock_, acks, batches, conflicts_)
        /\ s # "CLOSED" => synchronization.lifecycleEpoch = 0
    BY <1>2, <1>a
  <2>q. \A d \in S!Clock, r, t \in Replica : acks[r] # NoClock => acks[r][t] <= S!mergeClock(clock_, d)[t]
    <3>1. SUFFICES ASSUME NEW d \in S!Clock, NEW r \in Replica, NEW t \in Replica, acks[r] # NoClock
                   PROVE  acks[r][t] <= S!mergeClock(clock_, d)[t]
      OBVIOUS
    <3>2. acks[r][t] <= clock_[t] /\ clock_[t] <= S!mergeClock(clock_, d)[t]
      BY <2>i, <2>t, <3>1, ClocksMerge
    <3>3. acks[r][t] \in Int /\ clock_[t] \in Int /\ S!mergeClock(clock_, d)[t] \in Int
      BY <1>0, <2>t, <3>1, ClocksMerge DEF S!Clock
    <3> QED
      BY <3>2, <3>3
  <2>0. [S!Next]_synchronization
    BY <1>2, SynchronizationSteps
  <2>1. CASE UNCHANGED synchronization
    BY <1>2, <1>a, <1>b, <2>1
  <2>2. ASSUME NEW base \in S!Clock, S!StartSynchronization(base) PROVE SynchronizationIInv'
    <3>1. /\ s = "ABSENT"
          /\ synchronization' = [synchronization EXCEPT !.status = "ACTIVE", !.vectorClock = base]
      BY <2>2 DEF S!StartSynchronization
    <3>2. /\ synchronization' \in Snapshots /\ synchronization'.status = "ACTIVE"
          /\ synchronization'.lifecycleEpoch = synchronization.lifecycleEpoch
          /\ synchronization'.vectorClock = base /\ synchronization'.acknowledgements = acks
          /\ synchronization'.batches = batches /\ synchronization'.conflicts = conflicts_
      BY <2>t, <3>1
    <3> HIDE DEF s, clock_, acks, batches, conflicts_
    <3>3. Held("ACTIVE", base, acks, batches, conflicts_)
      BY <2>i, <3>1
    <3> QED
      BY <1>b, <2>i, <3>1, <3>2, <3>3 DEF s
  <2>3. ASSUME NEW b \in Batch, NEW operations \in SUBSET Operation, NEW clock \in S!Clock,
               S!OfferOperationBatch(b, operations, clock)
        PROVE  SynchronizationIInv'
    <3> DEFINE new == [status |-> "OFFERED", operations |-> operations, accepted |-> {}]
               after == [batches EXCEPT ![b] = new]
    <3>1. /\ s \notin {"ABSENT", "CLOSED"} /\ batches[b].status = "ABSENT"
          /\ synchronization' = [synchronization EXCEPT !.batches = after,
                                   !.vectorClock = S!mergeClock(clock_, clock)]
      BY <2>3, <2>t DEF S!OfferOperationBatch, S!Loadable, S!batch
    <3>2. after \in Batches /\ S!mergeClock(clock_, clock) \in S!Clock
      BY <2>t, ClocksMerge
    <3>3. /\ synchronization' \in Snapshots /\ synchronization'.status = s
          /\ synchronization'.lifecycleEpoch = synchronization.lifecycleEpoch
          /\ synchronization'.vectorClock = S!mergeClock(clock_, clock)
          /\ synchronization'.acknowledgements = acks
          /\ synchronization'.batches = after /\ synchronization'.conflicts = conflicts_
      BY <2>t, <3>1, <3>2
    <3>4. /\ after[b] = new /\ new.accepted = {}
          /\ \A d \in Batch \ {b} : after[d] = batches[d]
      BY <2>t
    <3> HIDE DEF s, clock_, acks, batches, conflicts_, after, new
    <3>5. Held(s, S!mergeClock(clock_, clock), acks, after, conflicts_)
      BY <2>i, <2>q, <3>1, <3>4
    <3> QED
      BY <1>b, <2>i, <3>3, <3>5
  <2>4. ASSUME NEW b \in Batch, NEW operations \in SUBSET Operation, S!AcceptOperationBatch(b, operations)
        PROVE  SynchronizationIInv'
    <3> DEFINE new == [batches[b] EXCEPT !.status = "ACCEPTED", !.accepted = operations]
               after == [batches EXCEPT ![b] = new]
    <3>1. /\ s \notin {"ABSENT", "CLOSED"} /\ batches[b].status = "OFFERED"
          /\ operations \subseteq batches[b].operations
          /\ synchronization' = [synchronization EXCEPT !.batches = after]
      BY <2>4, <2>t DEF S!AcceptOperationBatch, S!Loadable, S!batch
    <3>2. /\ new \in [status: {"ABSENT", "OFFERED", "ACCEPTED", "MERGED"},
                      operations: SUBSET Operation, accepted: SUBSET Operation]
          /\ new.accepted = operations /\ new.operations = batches[b].operations
      BY <2>t
    <3>3. after \in Batches /\ after[b] = new /\ \A d \in Batch \ {b} : after[d] = batches[d]
      BY <2>t, <3>2
    <3>4. /\ synchronization' \in Snapshots /\ synchronization'.status = s
          /\ synchronization'.lifecycleEpoch = synchronization.lifecycleEpoch
          /\ synchronization'.vectorClock = clock_ /\ synchronization'.acknowledgements = acks
          /\ synchronization'.batches = after /\ synchronization'.conflicts = conflicts_
      BY <2>t, <3>1, <3>3
    <3> HIDE DEF s, clock_, acks, batches, conflicts_, after, new
    <3>5. Held(s, clock_, acks, after, conflicts_)
      BY <2>i, <3>1, <3>2, <3>3
    <3> QED
      BY <1>b, <2>i, <3>4, <3>5
  <2>5. ASSUME NEW b \in Batch, NEW clock \in S!Clock, NEW conflicts \in SUBSET Conflict,
               S!MergeOperationBatch(b, clock, conflicts)
        PROVE  SynchronizationIInv'
    <3> DEFINE new == [batches[b] EXCEPT !.status = "MERGED"]
               after == [batches EXCEPT ![b] = new]
               open == [c \in Conflict |-> IF c \in conflicts THEN [status |-> "OPEN", batch |-> b]
                                           ELSE conflicts_[c]]
               status == IF conflicts # {} THEN "CONFLICTED" ELSE s
    <3>1. /\ s \notin {"ABSENT", "CLOSED"} /\ batches[b].status = "ACCEPTED"
          /\ synchronization' = [synchronization EXCEPT !.batches = after,
                                   !.vectorClock = S!mergeClock(clock_, clock),
                                   !.conflicts = open, !.status = status]
      BY <2>5, <2>t DEF S!MergeOperationBatch, S!Loadable, S!batch
    <3>2. /\ new \in [status: {"ABSENT", "OFFERED", "ACCEPTED", "MERGED"},
                      operations: SUBSET Operation, accepted: SUBSET Operation]
          /\ new.status = "MERGED"
          /\ new.accepted = batches[b].accepted /\ new.operations = batches[b].operations
      BY <2>t
    <3>3. after \in Batches /\ after[b] = new /\ \A d \in Batch \ {b} : after[d] = batches[d]
      BY <2>t, <3>2
    <3>4. /\ open \in Conflicts
          /\ \A c \in conflicts : open[c].status = "OPEN" /\ open[c].batch = b
          /\ \A c \in Conflict \ conflicts : open[c] = conflicts_[c]
      BY <2>t
    <3>5. S!mergeClock(clock_, clock) \in S!Clock /\ status \in Statuses
      BY <2>t, ClocksMerge
    <3> HIDE DEF after, new, open, status
    <3>6. /\ synchronization' \in Snapshots /\ synchronization'.status = status
          /\ synchronization'.lifecycleEpoch = synchronization.lifecycleEpoch
          /\ synchronization'.vectorClock = S!mergeClock(clock_, clock)
          /\ synchronization'.acknowledgements = acks
          /\ synchronization'.batches = after /\ synchronization'.conflicts = open
      BY <2>t, <3>1, <3>3, <3>4, <3>5
    <3> HIDE DEF s, clock_, acks, batches, conflicts_
    <3>7. status = "CONFLICTED" <=> S!Unresolved(open) # {}
      <4>1. CASE conflicts # {}
        BY <3>4, <4>1 DEF S!Unresolved, status
      <4>2. CASE conflicts = {}
        <5>1. S!Unresolved(open) = S!Unresolved(conflicts_)
          BY <3>4, <4>2 DEF S!Unresolved
        <5> QED
          BY <2>i, <4>2, <5>1 DEF status
      <4> QED
        BY <4>1, <4>2
    <3>8. \A c \in Conflict : open[c].status # "ABSENT" =>
            open[c].batch \in Batch /\ after[open[c].batch].status = "MERGED"
      BY <2>i, <3>2, <3>3, <3>4
    <3>9. \A d \in Batch : after[d].accepted \subseteq after[d].operations
      BY <2>i, <3>2, <3>3
    <3>10. /\ status \in {"CONFLICTED", s} /\ status \notin {"ABSENT", "CLOSED"}
           /\ status = "SYNCHRONIZED" => s = "SYNCHRONIZED"
      BY <3>1 DEF status
    <3>11. Held(status, S!mergeClock(clock_, clock), acks, after, open)
      BY <2>i, <2>q, <3>7, <3>8, <3>9, <3>10
    <3> QED
      BY <1>b, <2>i, <3>1, <3>6, <3>10, <3>11
  <2>6. ASSUME NEW c \in Conflict, S!ResolveConflict(c) PROVE SynchronizationIInv'
    <3> DEFINE new == [conflicts_[c] EXCEPT !.status = "RESOLVED"]
               after == [conflicts_ EXCEPT ![c] = new]
               status == IF S!Unresolved(conflicts_) = {c} THEN "ACTIVE" ELSE s
    <3>1. /\ s \notin {"ABSENT", "CLOSED"} /\ conflicts_[c].status \in {"OPEN", "ESCALATED"}
          /\ synchronization' = [synchronization EXCEPT !.conflicts = after, !.status = status]
      BY <2>6, <2>t DEF S!ResolveConflict, S!Loadable, S!conflict
    <3>2. /\ new \in [status: {"ABSENT", "OPEN", "ESCALATED", "RESOLVED"}, batch: Batch \cup {NoBatch}]
          /\ new.status = "RESOLVED" /\ new.batch = conflicts_[c].batch
      BY <2>t
    <3>3. after \in Conflicts /\ after[c] = new /\ \A d \in Conflict \ {c} : after[d] = conflicts_[d]
      BY <2>t, <3>2
    <3>4. status \in Statuses
      BY <2>t
    <3> HIDE DEF after, new, status
    <3>5. /\ synchronization' \in Snapshots /\ synchronization'.status = status
          /\ synchronization'.lifecycleEpoch = synchronization.lifecycleEpoch
          /\ synchronization'.vectorClock = clock_ /\ synchronization'.acknowledgements = acks
          /\ synchronization'.batches = batches /\ synchronization'.conflicts = after
      BY <2>t, <3>1, <3>3, <3>4
    <3> HIDE DEF s, clock_, acks, batches, conflicts_
    <3>6. S!Unresolved(after) = S!Unresolved(conflicts_) \ {c} /\ c \in S!Unresolved(conflicts_)
      BY <3>1, <3>2, <3>3 DEF S!Unresolved
    <3>7. s = "CONFLICTED"
      BY <2>i, <3>6
    <3>8. status = "CONFLICTED" <=> S!Unresolved(after) # {}
      BY <3>6, <3>7 DEF status
    <3>9. status \in {"ACTIVE", "CONFLICTED"}
      BY <3>7 DEF status
    <3>10. \A d \in Conflict : after[d].status # "ABSENT" =>
             after[d].batch \in Batch /\ batches[after[d].batch].status = "MERGED"
      BY <2>i, <3>1, <3>2, <3>3
    <3>11. Held(status, clock_, acks, batches, after)
      BY <2>i, <3>8, <3>9, <3>10
    <3> QED
      BY <1>b, <2>i, <3>5, <3>7, <3>11
  <2>7. ASSUME NEW c \in Conflict, S!EscalateConflict(c) PROVE SynchronizationIInv'
    <3> DEFINE new == [conflicts_[c] EXCEPT !.status = "ESCALATED"]
               after == [conflicts_ EXCEPT ![c] = new]
    <3>1. /\ s \notin {"ABSENT", "CLOSED"} /\ conflicts_[c].status = "OPEN"
          /\ synchronization' = [synchronization EXCEPT !.conflicts = after]
      BY <2>7, <2>t DEF S!EscalateConflict, S!Loadable, S!conflict
    <3>2. /\ new \in [status: {"ABSENT", "OPEN", "ESCALATED", "RESOLVED"}, batch: Batch \cup {NoBatch}]
          /\ new.status = "ESCALATED" /\ new.batch = conflicts_[c].batch
      BY <2>t
    <3>3. after \in Conflicts /\ after[c] = new /\ \A d \in Conflict \ {c} : after[d] = conflicts_[d]
      BY <2>t, <3>2
    <3> HIDE DEF after, new
    <3>5. /\ synchronization' \in Snapshots /\ synchronization'.status = s
          /\ synchronization'.lifecycleEpoch = synchronization.lifecycleEpoch
          /\ synchronization'.vectorClock = clock_ /\ synchronization'.acknowledgements = acks
          /\ synchronization'.batches = batches /\ synchronization'.conflicts = after
      BY <2>t, <3>1, <3>3
    <3> HIDE DEF s, clock_, acks, batches, conflicts_
    <3>6. S!Unresolved(after) = S!Unresolved(conflicts_)
      BY <3>1, <3>2, <3>3 DEF S!Unresolved
    <3>7. \A d \in Conflict : after[d].status # "ABSENT" =>
             after[d].batch \in Batch /\ batches[after[d].batch].status = "MERGED"
      BY <2>i, <3>1, <3>2, <3>3
    <3>8. Held(s, clock_, acks, batches, after)
      BY <2>i, <3>6, <3>7
    <3> QED
      BY <1>b, <2>i, <3>5, <3>8
  <2>8. ASSUME NEW r \in Replica, NEW clock \in S!Clock, S!AcknowledgeSynchronization(r, clock)
        PROVE  SynchronizationIInv'
    <3> DEFINE after == [acks EXCEPT ![r] = clock]
               status == IF (\A t \in Replica : after[t] # NoClock) /\ S!Unresolved(conflicts_) = {}
                         THEN "SYNCHRONIZED" ELSE s
    <3>1. /\ s \notin {"ABSENT", "CLOSED"}
          /\ synchronization' = [synchronization EXCEPT !.acknowledgements = after,
                                   !.vectorClock = S!mergeClock(clock_, clock), !.status = status]
      BY <2>8, <2>t DEF S!AcknowledgeSynchronization, S!Loadable
    <3>2. /\ after \in [Replica -> S!Clock \cup {NoClock}]
          /\ after[r] = clock /\ \A t \in Replica \ {r} : after[t] = acks[t]
      BY <2>t
    <3>3. S!mergeClock(clock_, clock) \in S!Clock /\ status \in Statuses
      BY <2>t, ClocksMerge
    <3>4. \A t \in Replica : clock[t] <= S!mergeClock(clock_, clock)[t]
      BY <2>t, ClocksMerge
    <3> HIDE DEF after, status
    <3>5. /\ synchronization' \in Snapshots /\ synchronization'.status = status
          /\ synchronization'.lifecycleEpoch = synchronization.lifecycleEpoch
          /\ synchronization'.vectorClock = S!mergeClock(clock_, clock)
          /\ synchronization'.acknowledgements = after
          /\ synchronization'.batches = batches /\ synchronization'.conflicts = conflicts_
      BY <2>t, <3>1, <3>2, <3>3
    <3> HIDE DEF s, clock_, acks, batches, conflicts_
    <3>6. \A p, t \in Replica : after[p] # NoClock => after[p][t] <= S!mergeClock(clock_, clock)[t]
      BY <2>q, <3>2, <3>4
    <3>7. /\ status \in {"SYNCHRONIZED", s} /\ status \notin {"ABSENT", "CLOSED"}
          /\ status = "CONFLICTED" <=> S!Unresolved(conflicts_) # {}
          /\ status = "SYNCHRONIZED" => \A t \in Replica : after[t] # NoClock
      <4>1. \A t \in Replica : acks[t] # NoClock => after[t] # NoClock
        BY <1>0, <3>2
      <4> QED
        BY <2>i, <3>1, <4>1 DEF status
    <3>8. Held(status, S!mergeClock(clock_, clock), after, batches, conflicts_)
      BY <2>i, <3>6, <3>7
    <3> QED
      BY <1>b, <2>i, <3>1, <3>5, <3>7, <3>8
  <2>9. CASE S!CloseSynchronization
    <3>1. /\ s \notin {"ABSENT", "CLOSED"} /\ S!Unresolved(conflicts_) = {}
          /\ synchronization' = [synchronization EXCEPT !.status = "CLOSED", !.lifecycleEpoch = @ + 1]
      BY <2>9 DEF S!CloseSynchronization, S!Loadable
    <3>2. synchronization.lifecycleEpoch + 1 = 1 /\ 1 \in 0 .. 1
      BY <2>i, <3>1
    <3> HIDE DEF Batches, Conflicts
    <3>3. /\ synchronization' \in Snapshots /\ synchronization'.status = "CLOSED"
          /\ synchronization'.vectorClock = clock_ /\ synchronization'.acknowledgements = acks
          /\ synchronization'.batches = batches /\ synchronization'.conflicts = conflicts_
      BY <2>t, <3>1, <3>2
    <3> HIDE DEF s, clock_, acks, batches, conflicts_
    <3>4. Held("CLOSED", clock_, acks, batches, conflicts_)
      BY <2>i, <3>1
    <3> QED
      BY <1>b, <3>3, <3>4
  <2> QED
    BY <2>0, <2>1, <2>2, <2>3, <2>4, <2>5, <2>6, <2>7, <2>8, <2>9 DEF S!Next
<1> QED
  BY <1>1, <1>2

-----------------------------------------------------------------------------
(* Identity *)

\* Storing c after u, on a proof of epoch e, takes nothing back that u has revoked.
Succeeds(u, c, e) ==
  /\ c.status # "ABSENT"
  /\ c.lifecycleEpoch <= c.version
  /\ u.status # "ABSENT" => e = u.authorityEpoch
  /\ c.authorityEpoch >= u.authorityEpoch
  /\ \A d \in Device : u.devices[d] = "REVOKED" => c.devices[d] = "REVOKED"
  /\ \A d \in Delegation : u.delegations[d] = "REVOKED" => c.delegations[d] = "REVOKED"
  /\ u.roles \ c.roles # {} => c.authorityEpoch > u.authorityEpoch

\* What a command in flight would store comes after a version that the user has
\* had; when that is the user's version still, it may succeed it.
IdentityIInv ==
  /\ I!TypeOK
  /\ user.lifecycleEpoch <= user.version
  /\ user.status = "ABSENT" => user.authorityEpoch = 0
  /\ \A q \in Request : command[q] # NoCommand =>
       /\ command[q].copy.version \in 1 .. user.version + 1
       /\ command[q].copy.version = user.version + 1 =>
            Succeeds(user, command[q].copy, command[q].epoch)

\* Of the commands in flight the first to commit outdates all others.
LEMMA IdentityInductive ==
  /\ I!Init => IdentityIInv
  /\ IdentityIInv /\ [Next]_vars => IdentityIInv'
<1>0. MaxEpoch \in Nat /\ MaxVersion \in Nat
  BY ApplicationAssumption DEF I!IdentityAssumption
<1>1. I!Init => IdentityIInv
  BY <1>0 DEF I!Init, IdentityIInv, I!TypeOK, I!UserIdentity
<1>2. ASSUME IdentityIInv, [Next]_vars PROVE IdentityIInv'
  <2>0. [I!Next]_<<user, command>>
    BY <1>2, IdentitySteps
  <2>1. CASE UNCHANGED <<user, command>>
    BY <1>2, <2>1 DEF IdentityIInv, I!TypeOK
  <2>t. /\ user \in I!UserIdentity
        /\ command \in [Request -> [copy: I!UserIdentity, epoch: 0 .. MaxEpoch] \cup {NoCommand}]
        /\ user.lifecycleEpoch <= user.version
        /\ user.status = "ABSENT" => user.authorityEpoch = 0
    BY <1>2 DEF IdentityIInv, I!TypeOK
  <2>f. /\ user.status \in {"ABSENT", "ACTIVE", "DISABLED"}
        /\ user.version \in 0 .. MaxVersion /\ user.lifecycleEpoch \in 0 .. MaxVersion
        /\ user.authorityEpoch \in 0 .. MaxEpoch /\ user.roles \in SUBSET Role
        /\ user.devices \in [Device -> {"ABSENT", "ACTIVE", "REVOKED"}]
        /\ user.delegations \in [Delegation -> {"ABSENT", "ACTIVE", "REVOKED"}]
    BY <2>t DEF I!UserIdentity
  <2>p. ASSUME NEW q \in Request, NEW e \in 0 .. MaxEpoch, NEW next, I!Proceeds(q, e, next),
               user.version < MaxVersion =>
                 /\ next \in I!UserIdentity /\ next.version = user.version
                 /\ Succeeds(user, [next EXCEPT !.version = @ + 1], e)
        PROVE  IdentityIInv'
    <3> DEFINE c == [next EXCEPT !.version = @ + 1]
    <3>1. /\ command' = [command EXCEPT ![q] = [copy |-> c, epoch |-> e]]
          /\ user.version < MaxVersion /\ user' = user
      BY <2>p DEF I!Proceeds
    <3>2. next.version + 1 \in 0 .. MaxVersion /\ next.version + 1 = user.version + 1
      BY <1>0, <2>f, <2>p, <3>1
    <3>3. c \in I!UserIdentity /\ c.version = user.version + 1
      BY <2>p, <3>1, <3>2 DEF I!UserIdentity
    <3>4. Succeeds(user, c, e)
      BY <2>p, <3>1
    <3> HIDE DEF c
    <3>5. I!TypeOK'
      BY <2>t, <3>1, <3>3 DEF I!TypeOK
    <3>6. \A r \in Request : r # q => command'[r] = command[r]
      BY <2>t, <3>1
    <3>7. command'[q].copy = c /\ command'[q].epoch = e
      BY <2>t, <3>1
    <3>8. c.version \in 1 .. user.version + 1
      BY <2>f, <3>3
    <3> QED
      BY <1>2, <2>t, <3>1, <3>4, <3>5, <3>6, <3>7, <3>8 DEF IdentityIInv
  <2>2. ASSUME NEW q \in Request, NEW e \in 0 .. MaxEpoch, I!CreateUser(q, e) PROVE IdentityIInv'
    <3> DEFINE next == [user EXCEPT !.status = "ACTIVE", !.authorityEpoch = e]
    <3>1. user.status = "ABSENT" /\ I!Proceeds(q, e, next)
      BY <2>2 DEF I!CreateUser
    <3>2. next \in I!UserIdentity /\ next.version = user.version
      BY <2>t DEF I!UserIdentity
    <3>3. Succeeds(user, [next EXCEPT !.version = @ + 1], e)
      BY <2>f, <2>t, <3>1 DEF Succeeds, I!UserIdentity
    <3> QED
      BY <2>p, <3>1, <3>2, <3>3
  <2>3. ASSUME NEW q \in Request, NEW e \in 0 .. MaxEpoch, NEW r \in Role,
               I!AssignRole(q, e, r) \/ I!RevokeRole(q, e, r)
        PROVE  IdentityIInv'
    <3> DEFINE given == [user EXCEPT !.roles = @ \cup {r}]
               taken == [user EXCEPT !.roles = user.roles \ {r}, !.authorityEpoch = user.authorityEpoch + 1]
    <3>1. CASE I!AssignRole(q, e, r)
      <4>1. user.status = "ACTIVE" /\ e = user.authorityEpoch /\ I!Proceeds(q, e, given)
        BY <3>1 DEF I!AssignRole, I!Loadable
      <4>2. given \in I!UserIdentity /\ given.version = user.version
        BY <2>t DEF I!UserIdentity
      <4>3. Succeeds(user, [given EXCEPT !.version = @ + 1], e)
        BY <2>f, <2>t, <4>1 DEF Succeeds, I!UserIdentity
      <4> QED
        BY <2>p, <4>1, <4>2, <4>3
    <3>2. CASE I!RevokeRole(q, e, r)
      <4>1. /\ user.status = "ACTIVE" /\ e = user.authorityEpoch /\ user.authorityEpoch < MaxEpoch
            /\ I!Proceeds(q, e, I!Advanced([user EXCEPT !.roles = @ \ {r}]))
        BY <3>2 DEF I!RevokeRole, I!Loadable, I!CanAdvance
      <4>2. I!Advanced([user EXCEPT !.roles = @ \ {r}]) = taken
        BY <2>t DEF I!Advanced, I!UserIdentity
      <4>3. user.authorityEpoch + 1 \in 0 .. MaxEpoch
        BY <1>0, <2>f, <4>1
      <4>4. taken \in I!UserIdentity /\ taken.version = user.version
        BY <2>t, <4>3 DEF I!UserIdentity
      <4>5. Succeeds(user, [taken EXCEPT !.version = @ + 1], e)
        BY <2>f, <2>t, <4>1 DEF Succeeds, I!UserIdentity
      <4> QED
        BY <2>p, <4>1, <4>2, <4>4, <4>5
    <3> QED
      BY <2>3, <3>1, <3>2
  <2>4. ASSUME NEW q \in Request, NEW e \in 0 .. MaxEpoch, NEW d \in Device,
               I!RegisterDevice(q, e, d) \/ I!RevokeDevice(q, e, d)
        PROVE  IdentityIInv'
    <3> DEFINE given == [user EXCEPT !.devices = [user.devices EXCEPT ![d] = "ACTIVE"]]
               taken == [user EXCEPT !.devices = [user.devices EXCEPT ![d] = "REVOKED"],
                                     !.authorityEpoch = user.authorityEpoch + 1]
    <3>1. CASE I!RegisterDevice(q, e, d)
      <4>1. /\ user.status = "ACTIVE" /\ e = user.authorityEpoch /\ I!Proceeds(q, e, given)
            /\ user.devices[d] = "ABSENT"
        BY <3>1 DEF I!RegisterDevice, I!Loadable
      <4>2. given \in I!UserIdentity /\ given.version = user.version
        BY <2>t DEF I!UserIdentity
      <4>3. Succeeds(user, [given EXCEPT !.version = @ + 1], e)
        BY <2>f, <2>t, <4>1 DEF Succeeds, I!UserIdentity
      <4> QED
        BY <2>p, <4>1, <4>2, <4>3
    <3>2. CASE I!RevokeDevice(q, e, d)
      <4>1. /\ user.status = "ACTIVE" /\ e = user.authorityEpoch /\ user.authorityEpoch < MaxEpoch
            /\ I!Proceeds(q, e, I!Advanced([user EXCEPT !.devices[d] = "REVOKED"]))
        BY <3>2 DEF I!RevokeDevice, I!Loadable, I!CanAdvance
      <4>2. I!Advanced([user EXCEPT !.devices[d] = "REVOKED"]) = taken
        BY <2>t DEF I!Advanced, I!UserIdentity
      <4>3. user.authorityEpoch + 1 \in 0 .. MaxEpoch
        BY <1>0, <2>f, <4>1
      <4>4. taken \in I!UserIdentity /\ taken.version = user.version
        BY <2>t, <4>3 DEF I!UserIdentity
      <4>5. Succeeds(user, [taken EXCEPT !.version = @ + 1], e)
        BY <2>f, <2>t, <4>1 DEF Succeeds, I!UserIdentity
      <4> QED
        BY <2>p, <4>1, <4>2, <4>4, <4>5
    <3> QED
      BY <2>4, <3>1, <3>2
  <2>5. ASSUME NEW q \in Request, NEW e \in 0 .. MaxEpoch, NEW d \in Delegation,
               I!DelegateAuthority(q, e, d) \/ I!RevokeDelegation(q, e, d)
        PROVE  IdentityIInv'
    <3> DEFINE given == [user EXCEPT !.delegations = [user.delegations EXCEPT ![d] = "ACTIVE"]]
               taken == [user EXCEPT !.delegations = [user.delegations EXCEPT ![d] = "REVOKED"],
                                     !.authorityEpoch = user.authorityEpoch + 1]
    <3>1. CASE I!DelegateAuthority(q, e, d)
      <4>1. /\ user.status = "ACTIVE" /\ e = user.authorityEpoch /\ I!Proceeds(q, e, given)
            /\ user.delegations[d] = "ABSENT"
        BY <3>1 DEF I!DelegateAuthority, I!Loadable
      <4>2. given \in I!UserIdentity /\ given.version = user.version
        BY <2>t DEF I!UserIdentity
      <4>3. Succeeds(user, [given EXCEPT !.version = @ + 1], e)
        BY <2>f, <2>t, <4>1 DEF Succeeds, I!UserIdentity
      <4> QED
        BY <2>p, <4>1, <4>2, <4>3
    <3>2. CASE I!RevokeDelegation(q, e, d)
      <4>1. /\ user.status = "ACTIVE" /\ e = user.authorityEpoch /\ user.authorityEpoch < MaxEpoch
            /\ I!Proceeds(q, e, I!Advanced([user EXCEPT !.delegations[d] = "REVOKED"]))
        BY <3>2 DEF I!RevokeDelegation, I!Loadable, I!CanAdvance
      <4>2. I!Advanced([user EXCEPT !.delegations[d] = "REVOKED"]) = taken
        BY <2>t DEF I!Advanced, I!UserIdentity
      <4>3. user.authorityEpoch + 1 \in 0 .. MaxEpoch
        BY <1>0, <2>f, <4>1
      <4>4. taken \in I!UserIdentity /\ taken.version = user.version
        BY <2>t, <4>3 DEF I!UserIdentity
      <4>5. Succeeds(user, [taken EXCEPT !.version = @ + 1], e)
        BY <2>f, <2>t, <4>1 DEF Succeeds, I!UserIdentity
      <4> QED
        BY <2>p, <4>1, <4>2, <4>4, <4>5
    <3> QED
      BY <2>5, <3>1, <3>2
  <2>6. ASSUME NEW q \in Request, NEW e \in 0 .. MaxEpoch, I!DisableUser(q, e) \/ I!EnableUser(q, e)
        PROVE  IdentityIInv'
    <3>1. PICK s \in {"DISABLED", "ACTIVE"} :
            /\ user.status # "ABSENT" /\ e = user.authorityEpoch /\ user.authorityEpoch < MaxEpoch
            /\ I!Proceeds(q, e, I!Advanced([user EXCEPT !.status = s, !.lifecycleEpoch = @ + 1]))
      BY <2>6 DEF I!DisableUser, I!EnableUser, I!Loadable, I!CanAdvance
    <3> DEFINE next == [user EXCEPT !.status = s, !.lifecycleEpoch = user.lifecycleEpoch + 1,
                                    !.authorityEpoch = user.authorityEpoch + 1]
    <3>2. I!Advanced([user EXCEPT !.status = s, !.lifecycleEpoch = @ + 1]) = next
      BY <2>t DEF I!Advanced, I!UserIdentity
    <3>3. user.authorityEpoch + 1 \in 0 .. MaxEpoch
      BY <1>0, <2>f, <3>1
    <3>4. ASSUME user.version < MaxVersion
          PROVE  next \in I!UserIdentity /\ next.version = user.version
      <4>1. user.lifecycleEpoch + 1 \in 0 .. MaxVersion
        BY <1>0, <2>f, <2>t, <3>4
      <4> QED
        BY <2>t, <3>3, <4>1 DEF I!UserIdentity
    <3>5. Succeeds(user, [next EXCEPT !.version = @ + 1], e)
      BY <2>f, <2>t, <3>1 DEF Succeeds, I!UserIdentity
    <3> QED
      BY <2>p, <3>1, <3>2, <3>4, <3>5
  <2>7. ASSUME NEW q \in Request, I!Commit(q) PROVE IdentityIInv'
    <3>1. /\ command[q] # NoCommand /\ user.version = command[q].copy.version - 1
          /\ user' = command[q].copy /\ command' = [command EXCEPT ![q] = NoCommand]
      BY <2>7 DEF I!Commit
    <3>2. command[q].copy \in I!UserIdentity
      BY <2>t, <3>1
    <3>3. I!TypeOK'
      BY <2>t, <3>1, <3>2 DEF I!TypeOK
    <3>4. user'.version = user.version + 1
      BY <2>f, <3>1, <3>2 DEF I!UserIdentity
    <3>5. Succeeds(user, user', command[q].epoch)
      BY <1>2, <3>1, <3>4 DEF IdentityIInv
    <3>6. \A r \in Request : command'[r] # NoCommand => r # q /\ command'[r] = command[r]
      BY <2>t, <3>1
    <3>7. ASSUME NEW r \in Request, command'[r] # NoCommand
          PROVE  /\ command'[r].copy.version \in 1 .. user'.version + 1
                 /\ command'[r].copy.version # user'.version + 1
      <4>1. command[r].copy.version \in 1 .. user.version + 1
        BY <1>2, <3>6, <3>7 DEF IdentityIInv
      <4> QED
        BY <2>f, <3>4, <3>6, <3>7, <4>1
    <3> QED
      BY <3>3, <3>5, <3>7 DEF IdentityIInv, Succeeds
  <2>8. ASSUME NEW q \in Request, I!Refuse(q) PROVE IdentityIInv'
    <3>1. command' = [command EXCEPT ![q] = NoCommand] /\ user' = user
      BY <2>8 DEF I!Refuse
    <3>2. \A r \in Request : command'[r] # NoCommand => command'[r] = command[r]
      BY <2>t, <3>1
    <3>3. I!TypeOK'
      BY <2>t, <3>1 DEF I!TypeOK
    <3> QED
      BY <1>2, <3>1, <3>2, <3>3 DEF IdentityIInv
  <2> QED
    BY <2>0, <2>1, <2>2, <2>3, <2>4, <2>5, <2>6, <2>7, <2>8 DEF I!Next
<1> QED
  BY <1>1, <1>2

-----------------------------------------------------------------------------
(* Context link *)

\* Two objects of a tenant, each of which is that tenant's or yet to be looked up.
Joins(c, lookups, owners) ==
  /\ c.status # "ABSENT" /\ c.organization \in Tenant
  /\ \E o, p \in Object : o # p /\ c.ends = {o, p}
  /\ \A o \in c.ends : o \in lookups \/ owners[o] = c.organization

\* What a command in flight would store joins two objects as well; an owner,
\* once there, stays.
ContextLinkIInv ==
  /\ L!TypeOK
  /\ link.lifecycleEpoch <= link.version
  /\ link.status # "ABSENT" => Joins(link, {}, owner)
  /\ \A q \in Request : request[q] # NoCommand =>
       /\ Joins(request[q].copy, request[q].lookups, owner)
       /\ request[q].copy.lifecycleEpoch <= request[q].copy.version

\* Objects stay whose they are, so what a lookup has found is still true at the commit.
LEMMA ContextLinkInductive ==
  /\ L!Init => ContextLinkIInv
  /\ ContextLinkIInv /\ [Next]_vars => ContextLinkIInv'
<1>0. NoOrganization \notin Tenant /\ Strength # {} /\ MaxVersion \in Nat
  BY ApplicationAssumption DEF L!ContextLinkAssumption
<1>1. L!Init => ContextLinkIInv
  BY <1>0 DEF L!Init, ContextLinkIInv, L!TypeOK, L!Link
<1>2. ASSUME ContextLinkIInv, [Next]_vars PROVE ContextLinkIInv'
  <2>0. [L!Next]_<<owner, link, request>>
    BY <1>2, ContextLinkSteps
  <2>1. CASE UNCHANGED <<owner, link, request>>
    BY <1>2, <2>1 DEF ContextLinkIInv, L!TypeOK, Joins
  <2>t. /\ owner \in [Object -> Tenant \cup {NoOrganization}] /\ link \in L!Link
        /\ request \in [Request -> [copy: L!Link, lookups: SUBSET Object] \cup {NoCommand}]
        /\ link.lifecycleEpoch <= link.version
        /\ link.status # "ABSENT" => Joins(link, {}, owner)
    BY <1>2 DEF ContextLinkIInv, L!TypeOK
  <2>f. /\ link.status \in {"ABSENT", "ACTIVE", "ARCHIVED"}
        /\ link.version \in 0 .. MaxVersion /\ link.lifecycleEpoch \in 0 .. MaxVersion
        /\ link.ends \in SUBSET Object
    BY <2>t DEF L!Link
  <2>i. \A q \in Request : request[q] # NoCommand =>
          /\ Joins(request[q].copy, request[q].lookups, owner)
          /\ request[q].copy.lifecycleEpoch <= request[q].copy.version
          /\ request[q] \in [copy: L!Link, lookups: SUBSET Object]
    BY <1>2, <2>t DEF ContextLinkIInv
  <2>2. ASSUME NEW o \in Object, NEW org \in Tenant, L!CreateObject(o, org) PROVE ContextLinkIInv'
    <3>1. /\ owner[o] = NoOrganization /\ owner' = [owner EXCEPT ![o] = org]
          /\ link' = link /\ request' = request
      BY <2>2 DEF L!CreateObject
    <3>2. owner' \in [Object -> Tenant \cup {NoOrganization}]
      BY <2>t, <3>1
    <3>3. \A p \in Object : owner[p] \in Tenant => owner'[p] = owner[p]
      BY <1>0, <2>t, <3>1
    <3>4. ASSUME NEW c, NEW lookups, Joins(c, lookups, owner) PROVE Joins(c, lookups, owner')
      BY <3>3, <3>4 DEF Joins
    <3>5. link.status # "ABSENT" => Joins(link', {}, owner')
      BY <2>t, <3>1, <3>4
    <3>6. \A q \in Request : request'[q] # NoCommand => Joins(request'[q].copy, request'[q].lookups, owner')
      BY <2>i, <3>1, <3>4
    <3> QED
      BY <2>i, <2>t, <3>1, <3>2, <3>5, <3>6 DEF ContextLinkIInv, L!TypeOK
  <2>p. ASSUME NEW q \in Request, NEW next, NEW lookups \in SUBSET Object, L!Loaded(q, next, lookups),
               link.version < MaxVersion =>
                 /\ next \in L!Link /\ next.version = link.version
                 /\ next.lifecycleEpoch <= link.version + 1
                 /\ Joins(next, lookups, owner)
        PROVE  ContextLinkIInv'
    <3> DEFINE c == [next EXCEPT !.version = @ + 1]
    <3>1. /\ request' = [request EXCEPT ![q] = [copy |-> c, lookups |-> lookups]]
          /\ link.version < MaxVersion /\ link' = link /\ owner' = owner
      BY <2>p DEF L!Loaded
    <3>2. next.version + 1 \in 0 .. MaxVersion /\ next.version + 1 = link.version + 1
      BY <1>0, <2>f, <2>p, <3>1
    <3>3. /\ c \in L!Link /\ c.version = link.version + 1 /\ c.lifecycleEpoch = next.lifecycleEpoch
          /\ c.status = next.status /\ c.organization = next.organization /\ c.ends = next.ends
      BY <2>p, <3>1, <3>2 DEF L!Link
    <3> HIDE DEF c
    <3>4. Joins(c, lookups, owner)
      BY <2>p, <3>1, <3>3 DEF Joins
    <3>5. L!TypeOK'
      BY <2>t, <3>1, <3>3 DEF L!TypeOK
    <3>6. \A r \in Request : r # q => request'[r] = request[r]
      BY <2>t, <3>1
    <3>7. request'[q].copy = c /\ request'[q].lookups = lookups
      BY <2>t, <3>1
    <3>8. c.lifecycleEpoch <= c.version
      BY <2>p, <3>1, <3>3
    <3>9. \A r \in Request : request'[r] # NoCommand =>
            /\ Joins(request'[r].copy, request'[r].lookups, owner)
            /\ request'[r].copy.lifecycleEpoch <= request'[r].copy.version
      BY <2>i, <3>4, <3>6, <3>7, <3>8
    <3> QED
      BY <2>t, <3>1, <3>5, <3>9 DEF ContextLinkIInv, Joins
  <2>3. ASSUME NEW q \in Request, NEW org \in Tenant, NEW source \in Object, NEW target \in Object,
               NEW strength \in Strength, L!CreateContextLink(q, org, source, target, strength)
        PROVE  ContextLinkIInv'
    <3> DEFINE next == [link EXCEPT !.status = "ACTIVE", !.organization = org,
                                    !.ends = {source, target}, !.strength = strength]
    <3>1. source # target /\ L!Loaded(q, next, {source, target})
      BY <2>3 DEF L!CreateContextLink
    <3>2. /\ next \in L!Link /\ next.version = link.version
          /\ next.lifecycleEpoch = link.lifecycleEpoch
          /\ next.status = "ACTIVE" /\ next.organization = org /\ next.ends = {source, target}
      BY <2>t DEF L!Link
    <3> HIDE DEF next
    <3>3. Joins(next, {source, target}, owner)
      BY <3>1, <3>2 DEF Joins
    <3>4. next.lifecycleEpoch <= link.version + 1
      BY <2>f, <2>t, <3>2
    <3> QED
      BY <2>p, <3>1, <3>2, <3>3, <3>4
  <2>4. ASSUME NEW q \in Request,
               L!UpdateContextMetadata(q) \/ \E strength \in Strength : L!ChangeContextStrength(q, strength)
        PROVE  ContextLinkIInv'
    <3>1. PICK next : /\ L!Loaded(q, next, {}) /\ link.status = "ACTIVE"
                      /\ next = link \/ \E strength \in Strength : next = [link EXCEPT !.strength = strength]
      BY <2>4 DEF L!UpdateContextMetadata, L!ChangeContextStrength
    <3>2. /\ next \in L!Link /\ next.version = link.version
          /\ next.lifecycleEpoch = link.lifecycleEpoch
          /\ next.status = link.status /\ next.organization = link.organization /\ next.ends = link.ends
      BY <2>t, <3>1 DEF L!Link
    <3>3. Joins(next, {}, owner)
      BY <2>t, <3>1, <3>2 DEF Joins
    <3>4. next.lifecycleEpoch <= link.version + 1
      BY <2>f, <2>t, <3>2
    <3> QED
      BY <2>p, <3>1, <3>2, <3>3, <3>4
  <2>5. ASSUME NEW q \in Request, L!ArchiveContextLink(q) \/ L!RestoreContextLink(q)
        PROVE  ContextLinkIInv'
    <3>1. PICK s \in {"ACTIVE", "ARCHIVED"}, lookups \in {{}, link.ends} :
            /\ link.status # "ABSENT"
            /\ L!Loaded(q, [link EXCEPT !.status = s, !.lifecycleEpoch = @ + 1], lookups)
      BY <2>5 DEF L!ArchiveContextLink, L!RestoreContextLink
    <3> DEFINE next == [link EXCEPT !.status = s, !.lifecycleEpoch = @ + 1]
    <3>2. ASSUME link.version < MaxVersion
          PROVE  /\ next \in L!Link /\ next.version = link.version
                 /\ next.lifecycleEpoch = link.lifecycleEpoch + 1
                 /\ next.status = s /\ next.organization = link.organization /\ next.ends = link.ends
      <4>1. link.lifecycleEpoch + 1 \in 0 .. MaxVersion
        BY <1>0, <2>f, <2>t, <3>2
      <4> QED
        BY <2>t, <4>1 DEF L!Link
    <3> HIDE DEF next
    <3>3. link.version < MaxVersion => Joins(next, lookups, owner)
      BY <2>t, <3>1, <3>2 DEF Joins
    <3>4. link.version < MaxVersion => next.lifecycleEpoch <= link.version + 1
      BY <2>f, <2>t, <3>2
    <3>5. lookups \in SUBSET Object
      BY <2>f, <3>1
    <3>6. L!Loaded(q, next, lookups)
      BY <3>1 DEF next
    <3> QED
      BY <2>p, <3>2, <3>3, <3>4, <3>5, <3>6
  <2>6. ASSUME NEW q \in Request, NEW o \in Object, L!requireObject(q, o) PROVE ContextLinkIInv'
    <3> DEFINE new == [request[q] EXCEPT !.lookups = request[q].lookups \ {o}]
    <3>1. /\ request[q] # NoCommand /\ owner[o] = request[q].copy.organization
          /\ request' = [request EXCEPT ![q] = new] /\ link' = link /\ owner' = owner
      BY <2>6, <2>t DEF L!requireObject
    <3>2. /\ new \in [copy: L!Link, lookups: SUBSET Object]
          /\ new.copy = request[q].copy /\ new.lookups = request[q].lookups \ {o}
      BY <2>i, <3>1
    <3> HIDE DEF new
    <3>3. Joins(new.copy, new.lookups, owner)
      BY <2>i, <3>1, <3>2 DEF Joins
    <3>4. /\ request' \in [Request -> [copy: L!Link, lookups: SUBSET Object] \cup {NoCommand}]
          /\ request'[q] = new /\ \A r \in Request \ {q} : request'[r] = request[r]
      BY <2>t, <3>1, <3>2
    <3>5. \A r \in Request : request'[r] # NoCommand =>
            /\ Joins(request'[r].copy, request'[r].lookups, owner)
            /\ request'[r].copy.lifecycleEpoch <= request'[r].copy.version
      BY <2>i, <3>1, <3>2, <3>3, <3>4
    <3> QED
      BY <2>t, <3>1, <3>4, <3>5 DEF ContextLinkIInv, L!TypeOK, Joins
  <2>7. ASSUME NEW q \in Request, L!Commit(q) PROVE ContextLinkIInv'
    <3>1. /\ request[q] # NoCommand /\ request[q].lookups = {}
          /\ link' = request[q].copy /\ request' = [request EXCEPT ![q] = NoCommand] /\ owner' = owner
      BY <2>7 DEF L!Commit
    <3>2. /\ link' \in L!Link /\ link'.lifecycleEpoch <= link'.version
          /\ Joins(request[q].copy, {}, owner)
      BY <2>i, <3>1
    <3>3. request' \in [Request -> [copy: L!Link, lookups: SUBSET Object] \cup {NoCommand}]
      BY <2>t, <3>1
    <3>4. \A r \in Request : request'[r] # NoCommand => request'[r] = request[r]
      BY <2>t, <3>1
    <3>5. Joins(link', {}, owner')
      BY <3>1, <3>2 DEF Joins
    <3>6. \A r \in Request : request'[r] # NoCommand =>
            /\ Joins(request'[r].copy, request'[r].lookups, owner')
            /\ request'[r].copy.lifecycleEpoch <= request'[r].copy.version
      BY <2>i, <3>1, <3>4 DEF Joins
    <3> QED
      BY <2>t, <3>1, <3>2, <3>3, <3>5, <3>6 DEF ContextLinkIInv, L!TypeOK
  <2>8. ASSUME NEW q \in Request, L!Refuse(q) PROVE ContextLinkIInv'
    <3>1. request' = [request EXCEPT ![q] = NoCommand] /\ link' = link /\ owner' = owner
      BY <2>8 DEF L!Refuse
    <3>2. \A r \in Request : request'[r] # NoCommand => request'[r] = request[r]
      BY <2>t, <3>1
    <3>3. L!TypeOK'
      BY <2>t, <3>1 DEF L!TypeOK
    <3>4. \A r \in Request : request'[r] # NoCommand =>
            /\ Joins(request'[r].copy, request'[r].lookups, owner)
            /\ request'[r].copy.lifecycleEpoch <= request'[r].copy.version
      BY <2>i, <3>2
    <3> QED
      BY <2>t, <3>1, <3>3, <3>4 DEF ContextLinkIInv, Joins
  <2> QED
    BY <2>0, <2>1, <2>2, <2>3, <2>4, <2>5, <2>6, <2>7, <2>8 DEF L!Next
<1> QED
  BY <1>1, <1>2

-----------------------------------------------------------------------------
(* Gateway *)

\* What a token covers of the call c: all that Admit looks at and, of a call that
\* has come to act, the proof that it was given before then.
Covered(t, c, keys) ==
  /\ t \in Token /\ t.kid \in DOMAIN keys /\ keys[t.kid] = t.signer /\ c.org = t.org
  /\ c.route = "COMMAND" =>
       /\ c.actor = t.sub /\ c.proof.epoch = t.epoch
       /\ c.proof.scope \subseteq t.scope /\ c.proof.expires <= t.exp
  /\ c.route # "COMMAND" => c.required \in t.scope

\* The keys change only with a restart, and a restart leaves no call behind.
GatewayIInv ==
  /\ G!TypeOK
  /\ pending # NoCall =>
       /\ pending \in [call: Call, token: Token \cup {NoToken}, stage: {"ADMITTED", "ACTING"},
                       since: 0 .. MaxTime]
       /\ auth.required => Covered(pending.token, pending.call, auth.keys)
       /\ pending.stage = "ACTING" /\ pending.call.route = "COMMAND" =>
            /\ pending.call.required \in pending.call.proof.scope
            /\ pending.call.proof.expires > pending.since

\* A configuration trusts signers only.
LEMMA ConfigurationsTyped ==
  ASSUME NEW a \in G!Configurations
  PROVE  a.required \in BOOLEAN /\ \A k \in DOMAIN a.keys : a.keys[k] \in Signer
<1>1. CASE a = [required |-> FALSE, keys |-> <<>>]
  BY <1>1
<1>2. CASE \E s \in Signer : a = [required |-> TRUE, keys |-> [k \in {NoKeyId} |-> s]]
  BY <1>2
<1>3. CASE \E d \in G!Document : a = [required |-> TRUE, keys |-> G!KeyRing(d)]
  <2>1. PICK d \in G!Document : a = [required |-> TRUE, keys |-> G!KeyRing(d)]
    BY <1>3
  <2>2. PICK n \in 0 .. 2 : d \in [1 .. n -> [kid: KeyId, signer: Signer, sound: BOOLEAN]]
    BY <2>1 DEF G!Document
  <2>3. \A i \in DOMAIN d : d[i].signer \in Signer
    BY <2>2
  <2>4. ASSUME NEW k \in DOMAIN a.keys PROVE a.keys[k] \in Signer
    <3>1. a.keys = G!KeyRing(d)
      BY <2>1
    <3>2. k \in {d[i].kid : i \in DOMAIN d} /\ a.keys[k] = d[CHOOSE i \in DOMAIN d : d[i].kid = k].signer
      BY <2>4, <3>1 DEF G!KeyRing
    <3>3. (CHOOSE i \in DOMAIN d : d[i].kid = k) \in DOMAIN d
      BY <3>2
    <3> QED
      BY <2>3, <3>2, <3>3
  <2> QED
    BY <2>1, <2>4
<1> QED
  BY <1>1, <1>2, <1>3 DEF G!Configurations

\* A call that waits has what its token covers, however long it waits.
LEMMA GatewayInductive ==
  /\ G!Init => GatewayIInv
  /\ GatewayIInv /\ [Next]_vars => GatewayIInv'
<1>0. MaxTime \in Nat /\ NoToken \notin Token /\ NoCall \notin Call
  BY ApplicationAssumption DEF G!GatewayAssumption
<1>1. G!Init => GatewayIInv
  BY <1>0 DEF G!Init, GatewayIInv, G!TypeOK
<1>2. ASSUME GatewayIInv, [Next]_vars PROVE GatewayIInv'
  <2>0. [G!Next]_<<now, auth, pending>>
    BY <1>2, GatewaySteps
  <2>1. CASE UNCHANGED <<now, auth, pending>>
    BY <1>2, <2>1 DEF GatewayIInv, G!TypeOK, Covered
  <2>2. ASSUME NEW c \in Call, NEW t \in Token \cup {NoToken}, G!Admit(c, t) PROVE GatewayIInv'
    <3>1. /\ pending' = [call |-> c, token |-> t, stage |-> "ADMITTED", since |-> now]
          /\ now' = now /\ auth' = auth
          /\ auth.required => /\ t \in Token /\ G!authenticate(t)
                              /\ IF c.route = "COMMAND" THEN G!authorizeCommand(t, c)
                                                        ELSE G!authorizeRead(t, c)
      BY <2>2 DEF G!Admit
    <3>2. auth.required => Covered(t, c, auth.keys)
      BY <3>1 DEF Covered, G!authenticate, G!selectKey, G!authorizeCommand, G!authorizeRead
    <3>3. now \in 0 .. MaxTime /\ now \in 0 .. now
      BY <1>0, <1>2 DEF GatewayIInv, G!TypeOK
    <3>4. /\ pending' \in [call: Call, token: Token \cup {NoToken}, stage: {"ADMITTED", "ACTING"},
                           since: 0 .. MaxTime]
          /\ pending'.call = c /\ pending'.token = t /\ pending'.stage = "ADMITTED" /\ pending'.since = now
      BY <3>1, <3>3
    <3> QED
      BY <1>2, <3>1, <3>2, <3>3, <3>4 DEF GatewayIInv, G!TypeOK
  <2>3. CASE G!Act
    <3>1. /\ pending # NoCall /\ pending' = [pending EXCEPT !.stage = "ACTING", !.since = now]
          /\ pending.call.route = "COMMAND" => G!Authorized(pending.call)
          /\ now' = now /\ auth' = auth
      BY <2>3 DEF G!Act
    <3>2. now \in 0 .. MaxTime /\ now \in 0 .. now
      BY <1>0, <1>2 DEF GatewayIInv, G!TypeOK
    <3>3. /\ pending' \in [call: Call, token: Token \cup {NoToken}, stage: {"ADMITTED", "ACTING"},
                           since: 0 .. MaxTime]
          /\ pending'.call = pending.call /\ pending'.token = pending.token
          /\ pending'.stage = "ACTING" /\ pending'.since = now
      BY <1>2, <3>1, <3>2 DEF GatewayIInv
    <3>4. pending.call \in Call /\ pending.token \in Token \cup {NoToken}
      BY <1>2, <3>1 DEF GatewayIInv
    <3> QED
      BY <1>2, <3>1, <3>2, <3>3, <3>4 DEF GatewayIInv, G!TypeOK, G!Authorized
  <2>4. CASE G!Respond
    BY <1>2, <2>4 DEF G!Respond, GatewayIInv, G!TypeOK
  <2>5. CASE G!Tick
    <3>1. now < MaxTime /\ now' = now + 1 /\ auth' = auth /\ pending' = pending
      BY <2>5 DEF G!Tick
    <3>2. now' \in 0 .. MaxTime /\ \A s \in 0 .. now : s \in 0 .. now'
      BY <1>0, <1>2, <3>1 DEF GatewayIInv, G!TypeOK
    <3> QED
      BY <1>2, <3>1, <3>2 DEF GatewayIInv, G!TypeOK
  <2>6. CASE G!Restart
    BY <1>2, <2>6, ConfigurationsTyped DEF G!Restart, GatewayIInv, G!TypeOK
  <2> QED
    BY <2>0, <2>1, <2>2, <2>3, <2>4, <2>5, <2>6 DEF G!Next
<1> QED
  BY <1>1, <1>2

\* What is covered when it is admitted is within its token when it comes to act.
LEMMA GatewayWithinItsToken == GatewayIInv => G!WithinItsToken
<1> SUFFICES ASSUME GatewayIInv, pending # NoCall, pending.stage = "ACTING", auth.required
             PROVE  /\ pending.token.kid \in DOMAIN auth.keys
                    /\ auth.keys[pending.token.kid] = pending.token.signer
                    /\ pending.call.org = pending.token.org /\ pending.call.required \in pending.token.scope
                    /\ pending.call.route = "COMMAND" =>
                         /\ pending.call.actor = pending.token.sub
                         /\ pending.call.proof.epoch = pending.token.epoch
                         /\ pending.since < pending.token.exp
  BY DEF G!WithinItsToken
<1>1. Covered(pending.token, pending.call, auth.keys)
  BY DEF GatewayIInv
<1>2. /\ pending.call.route = "COMMAND" =>
           /\ pending.call.required \in pending.call.proof.scope
           /\ pending.call.proof.expires > pending.since
      /\ pending.call \in Call /\ pending.since \in 0 .. MaxTime
  BY DEF GatewayIInv
<1>3. /\ Token \subseteq
           [kid: KeyId \cup {NoKeyId}, signer: Signer, jti: TokenId, sub: Principal, org: Tenant,
            scope: SUBSET Scope, epoch: 0 .. MaxEpoch, nbf: 0 .. MaxTime, exp: 0 .. MaxTime]
      /\ Call \subseteq
           [route: {"COMMAND", "RESOURCE"}, method: {"GET", "HEAD", "POST", "PUT"}, org: Tenant,
            actor: Principal, required: Scope, proof: G!Proof]
      /\ MaxTime \in Nat
  BY ApplicationAssumption DEF G!GatewayAssumption
<1>4. pending.token.exp \in 0 .. MaxTime
  BY <1>1, <1>3 DEF Covered
<1>5. pending.call.proof.expires \in 0 .. MaxTime
  BY <1>2, <1>3 DEF G!Proof
<1> QED
  BY <1>1, <1>2, <1>3, <1>4, <1>5 DEF Covered

-----------------------------------------------------------------------------
(* Server *)

\* A server that is closed has no connection left, and only the end that a
\* shutdown completes closes the databases.
ServerIInv ==
  /\ V!TypeOK /\ V!DatabaseClosedLast
  /\ phase = "closed" => \A c \in Connection : connection[c] = "none"
  /\ closed # {} => exited = "0"

\* The end that closes the databases comes after the last connection and the worker.
LEMMA ServerInductive ==
  /\ V!Init => ServerIInv
  /\ ServerIInv /\ [Next]_vars => ServerIInv'
<1>1. V!Init => ServerIInv
  BY DEF V!Init, ServerIInv, V!TypeOK, V!DatabaseClosedLast
<1>2. ASSUME ServerIInv, [Next]_vars PROVE ServerIInv'
  <2> DEFINE Kept == /\ phase' = "closed" => \A c \in Connection : connection'[c] = "none"
                     /\ closed' # {} => /\ exited' = "0" /\ worker' = "off"
                                        /\ \A c \in Connection : connection'[c] = "none"
                     /\ exited' = "0" => closed' = {"application", "outbox"}
  <2>i. /\ phase = "closed" => \A c \in Connection : connection[c] = "none"
        /\ V!Running => closed = {}
        /\ closed # {} => exited = "0" /\ worker = "off" /\ \A c \in Connection : connection[c] = "none"
        /\ exited = "0" => closed = {"application", "outbox"}
    BY <1>2 DEF ServerIInv, V!DatabaseClosedLast, V!Running
  <2>t. /\ phase \in {"configuring", "starting", "listening", "closing", "closed", "failed"}
        /\ connection \in [Connection -> {"none", "idle", "body"}]
        /\ worker \in {"off", "ready", "waiting", "batch"}
        /\ stopping \in BOOLEAN /\ shuttingDown \in BOOLEAN /\ deadline \in BOOLEAN
        /\ handled \subseteq {"SIGINT", "SIGTERM"}
        /\ closed \subseteq {"application", "outbox"}
        /\ exited \in {"no", "0", "1", "signal"}
    BY <1>2 DEF ServerIInv, V!TypeOK
  <2>s. SUFFICES /\ phase' \in {"configuring", "starting", "listening", "closing", "closed", "failed"}
                 /\ connection' \in [Connection -> {"none", "idle", "body"}]
                 /\ worker' \in {"off", "ready", "waiting", "batch"}
                 /\ stopping' \in BOOLEAN /\ shuttingDown' \in BOOLEAN /\ deadline' \in BOOLEAN
                 /\ handled' \subseteq {"SIGINT", "SIGTERM"}
                 /\ closed' \subseteq {"application", "outbox"}
                 /\ exited' \in {"no", "0", "1", "signal"}
                 /\ Kept
    BY DEF ServerIInv, V!TypeOK, V!DatabaseClosedLast
  <2>0. [V!Next]_<<phase, connection, worker, stopping, shuttingDown, handled, deadline, closed, exited>>
    BY <1>2, ServerSteps
  <2>1. CASE UNCHANGED <<phase, connection, worker, stopping, shuttingDown, handled, deadline, closed, exited>>
    BY <2>1, <2>i, <2>t
  <2>2. CASE V!createOutboxRuntime \/ V!createOutboxRuntimeFails \/ V!Listen \/ V!ListenFails
    BY <2>2, <2>i, <2>t DEF V!createOutboxRuntime, V!createOutboxRuntimeFails, V!Listen, V!ListenFails,
                            V!Running
  <2>3. ASSUME NEW c \in Connection, V!Connect(c) \/ V!Receive(c) \/ V!Answer(c) \/ V!Disconnect(c)
        PROVE  /\ connection' \in [Connection -> {"none", "idle", "body"}] /\ Kept
               /\ UNCHANGED <<phase, worker, stopping, shuttingDown, handled, deadline, closed, exited>>
    <3>1. /\ V!Running
          /\ UNCHANGED <<phase, worker, stopping, shuttingDown, handled, deadline, closed, exited>>
          /\ connection[c] = "none" => phase = "listening"
          /\ \E to \in {"none", "idle", "body"} : connection' = [connection EXCEPT ![c] = to]
      BY <2>3 DEF V!Connect, V!Receive, V!Answer, V!Disconnect, V!Moves
    <3> QED
      BY <2>i, <2>t, <3>1 DEF V!Running
  <2>4. CASE V!BeginBatch \/ V!EndBatch \/ V!Woken
    BY <2>4, <2>i, <2>t DEF V!BeginBatch, V!EndBatch, V!Woken, V!WorkerMoves, V!Running
  <2>5. ASSUME NEW s \in {"SIGINT", "SIGTERM"}, V!Signal(s)
        PROVE  /\ phase' \in {"configuring", "starting", "listening", "closing", "closed", "failed"}
               /\ connection' \in [Connection -> {"none", "idle", "body"}]
               /\ stopping' \in BOOLEAN /\ shuttingDown' \in BOOLEAN /\ deadline' \in BOOLEAN
               /\ handled' \subseteq {"SIGINT", "SIGTERM"} /\ Kept
               /\ UNCHANGED <<worker, closed, exited>>
    <3>1. V!Running /\ handled' = handled \ {s} /\ UNCHANGED <<worker, closed, exited>>
      BY <2>5 DEF V!Signal
    <3>2. CASE UNCHANGED <<shuttingDown, deadline, stopping, phase, connection>>
      BY <2>i, <2>t, <3>1, <3>2
    <3>3. CASE V!shutdown
      <4>1. /\ phase' \in {"closing", "failed"} /\ shuttingDown' = TRUE /\ deadline' = TRUE
            /\ connection' = [c \in Connection |-> IF connection[c] = "idle" THEN "none" ELSE connection[c]]
        BY <3>3 DEF V!shutdown
      <4>2. stopping' \in BOOLEAN
        BY <3>3 DEF V!shutdown
      <4>3. connection' \in [Connection -> {"none", "idle", "body"}]
        BY <2>t, <4>1
      <4>4. Kept
        BY <2>i, <3>1, <4>1 DEF V!Running
      <4> QED
        BY <2>t, <3>1, <4>1, <4>2, <4>3, <4>4
    <3> QED
      BY <2>5, <3>2, <3>3 DEF V!Signal
  <2>6. ASSUME NEW s \in {"SIGINT", "SIGTERM"}, V!SignalUnhandled(s)
        PROVE  exited' = "signal" /\ Kept
               /\ UNCHANGED <<phase, connection, worker, stopping, shuttingDown, handled, deadline, closed>>
    BY <2>6, <2>i DEF V!SignalUnhandled, V!Running
  <2>7. CASE V!Closed
    BY <2>7, <2>i, <2>t DEF V!Closed, V!Running
  <2>8. CASE V!Complete
    BY <2>8, <2>i, <2>t DEF V!Complete, V!Settled, V!Running
  <2>9. CASE V!Abort
    BY <2>9, <2>i, <2>t DEF V!Abort, V!Running
  <2>10. CASE V!DeadlineFires
    BY <2>10, <2>i, <2>t DEF V!DeadlineFires, V!Running
  <2> QED
    BY <2>0, <2>1, <2>2, <2>3, <2>4, <2>5, <2>6, <2>7, <2>8, <2>9, <2>10, <2>t, ZenonT(60) DEF V!Next
<1> QED
  BY <1>1, <1>2

-----------------------------------------------------------------------------
(* File *)

\* Contents are whole, a final upload stays one, and no upload was started in an
\* epoch that has yet to come.
FileHeld(status, epoch, uploads, versions) ==
  /\ status # "ARCHIVED" => epoch <= MaxEpoch
  /\ \A u \in Upload :
       /\ uploads[u].status # "ABSENT" => uploads[u].openedIn <= epoch
       /\ Sum(Index, uploads[u].chunks) <= uploads[u].expected
       /\ uploads[u].status = "FINALIZED" => Sum(Index, uploads[u].chunks) = uploads[u].expected
  /\ \A v \in Version : versions[v] # NoUpload => uploads[versions[v]].status = "FINALIZED"
  /\ status = "AVAILABLE" => \E u \in Upload : uploads[u].status = "FINALIZED"
  /\ status = "QUARANTINED" =>
       \A u \in Upload : uploads[u].status # "ABSENT" => uploads[u].openedIn < epoch

FileIInv == F!TypeOK /\ FileHeld(file.status, file.lifecycleEpoch, file.uploads, file.versions)

\* What the assumptions say of the constants of files.
LEMMA FileConstants ==
  /\ IsFiniteSet(Index) /\ MaxSize \in Nat /\ MaxEpoch \in Nat /\ NoUpload \notin Upload
<1>1. \A T : F!IsFiniteSet(T) <=> IsFiniteSet(T)
  BY DEF F!IsFiniteSet, IsFiniteSet
<1> QED
  BY <1>1, ApplicationAssumption DEF F!FileAssumption

\* The bytes accepted so far are a sum over the chunks.
LEMMA AcceptedIsSum ==
  ASSUME file.uploads \in [Upload -> F!UploadState], NEW u \in Upload
  PROVE  F!accepted(u) = Sum(Index, file.uploads[u].chunks)
<1> DEFINE w == file.uploads[u].chunks
<1>1. DOMAIN w = Index
  BY DEF F!UploadState
<1>2. F!accepted(u) = F!FoldFunction(LAMBDA size, sum : size + sum, 0, w)
  BY DEF F!accepted
<1> HIDE DEF w
<1>3. F!accepted(u) = SumUpTo(DOMAIN w, w)[DOMAIN w]
  BY <1>2 DEF F!FoldFunction, F!FoldFunctionOnSet, F!MapThenFoldSet, SumUpTo, Adds
<1> QED
  BY <1>1, <1>3 DEF Sum, w

\* A final upload has every chunk, each counted once.
LEMMA FileInductive ==
  /\ F!Init => FileIInv
  /\ FileIInv /\ [Next]_vars => FileIInv'
<1>0. IsFiniteSet(Index) /\ MaxSize \in Nat /\ MaxEpoch \in Nat /\ NoUpload \notin Upload
  BY FileConstants
<1> DEFINE Typed(f) ==
      f \in [status: {"ABSENT", "DRAFT", "AVAILABLE", "QUARANTINED", "ARCHIVED"},
             lifecycleEpoch: 0 .. MaxEpoch + 1, uploads: [Upload -> F!UploadState],
             versions: [Version -> Upload \cup {NoUpload}], access: SUBSET Access]
<1>z. /\ F!NotStarted \in F!UploadState /\ F!NotStarted.status = "ABSENT"
      /\ F!NotStarted.expected = 0 /\ Sum(Index, F!NotStarted.chunks) = 0
      /\ F!NotStarted.chunks = [i \in Index |-> 0]
  <2>1. /\ F!NotStarted \in F!UploadState /\ F!NotStarted.status = "ABSENT"
        /\ F!NotStarted.expected = 0 /\ F!NotStarted.chunks = [i \in Index |-> 0]
    BY <1>0 DEF F!NotStarted, F!UploadState
  <2>2. Sum(Index, F!NotStarted.chunks) = 0
    BY <1>0, <2>1, SumTyped
  <2> QED
    BY <2>1, <2>2
<1>1. F!Init => FileIInv
  <2> SUFFICES ASSUME F!Init PROVE FileIInv
    OBVIOUS
  <2>1. /\ Typed(file) /\ file.status = "ABSENT" /\ file.lifecycleEpoch = 0
        /\ \A u \in Upload : file.uploads[u] = F!NotStarted
        /\ \A v \in Version : file.versions[v] = NoUpload
    BY <1>0, <1>z DEF F!Init
  <2> QED
    BY <1>0, <1>z, <2>1 DEF FileIInv, F!TypeOK, FileHeld
<1>2. ASSUME FileIInv, [Next]_vars PROVE FileIInv'
  <2> DEFINE s == file.status
             e == file.lifecycleEpoch
             ups == file.uploads
             vers == file.versions
  <2>t. /\ Typed(file) /\ e \in 0 .. MaxEpoch + 1 /\ ups \in [Upload -> F!UploadState]
        /\ vers \in [Version -> Upload \cup {NoUpload}] /\ file.access \in SUBSET Access
    BY <1>2 DEF FileIInv, F!TypeOK
  <2>h. FileHeld(s, e, ups, vers)
    BY <1>2 DEF FileIInv
  <2>u. \A u \in Upload :
          /\ ups[u] \in F!UploadState /\ ups[u].expected \in 0 .. MaxSize
          /\ ups[u].chunks \in [Index -> 0 .. MaxSize] /\ ups[u].openedIn \in 0 .. MaxEpoch
    BY <2>t DEF F!UploadState
  <2>a. \A u \in Upload : F!accepted(u) = Sum(Index, ups[u].chunks)
    BY <2>t, AcceptedIsSum
  <2>s. SUFFICES Typed(file') /\ FileHeld(file'.status, file'.lifecycleEpoch, file'.uploads, file'.versions)
    BY DEF FileIInv, F!TypeOK
  <2>0. [F!Next]_file
    BY <1>2, FileSteps
  <2>1. CASE UNCHANGED file
    BY <2>1, <2>t, <2>h
  <2>2. CASE F!CreateFileAsset
    <3>1. s = "ABSENT" /\ file' = [file EXCEPT !.status = "DRAFT"]
      BY <2>2 DEF F!CreateFileAsset
    <3>2. /\ Typed(file') /\ file'.status = "DRAFT" /\ file'.lifecycleEpoch = e
          /\ file'.uploads = ups /\ file'.versions = vers
      BY <2>t, <3>1
    <3> HIDE DEF s, e, ups, vers, Typed
    <3> QED
      BY <2>h, <3>1, <3>2 DEF FileHeld
  \* What one upload becomes, the others staying.
  <2>p. ASSUME NEW u \in Upload, NEW new \in F!UploadState, NEW status \in {s, "AVAILABLE"},
               file' = [file EXCEPT !.uploads = [ups EXCEPT ![u] = new], !.status = status],
               ups[u].status # "FINALIZED", new.status # "ABSENT", new.openedIn <= e,
               s = "QUARANTINED" => ups[u].status # "ABSENT" /\ new.openedIn = ups[u].openedIn,
               Sum(Index, new.chunks) <= new.expected,
               new.status = "FINALIZED" => Sum(Index, new.chunks) = new.expected,
               s \notin {"ABSENT", "ARCHIVED"},
               status = "AVAILABLE" => status = s \/ new.status = "FINALIZED"
        PROVE  Typed(file') /\ FileHeld(file'.status, file'.lifecycleEpoch, file'.uploads, file'.versions)
    <3>1. /\ Typed(file') /\ file'.status = status /\ file'.lifecycleEpoch = e
          /\ file'.uploads = [ups EXCEPT ![u] = new] /\ file'.versions = vers
      BY <2>t, <2>p
    <3>2. /\ [ups EXCEPT ![u] = new][u] = new
          /\ \A x \in Upload \ {u} : [ups EXCEPT ![u] = new][x] = ups[x]
      BY <2>t
    <3> DEFINE after == [ups EXCEPT ![u] = new]
    <3> HIDE DEF s, e, ups, vers, Typed, after
    <3>3. /\ after[u] = new /\ \A x \in Upload \ {u} : after[x] = ups[x]
      BY <3>2 DEF after
    <3>4. \A x \in Upload : ups[x].status = "FINALIZED" => after[x].status = "FINALIZED"
      BY <2>p, <3>3
    <3>5. s # "ARCHIVED" /\ (status = "QUARANTINED" => s = "QUARANTINED") /\ status # "ARCHIVED"
      BY <2>p
    <3>6. FileHeld(status, e, after, vers)
      <4>1. \A v \in Version : vers[v] # NoUpload => vers[v] \in Upload
        BY <2>t
      <4>2. \A v \in Version : vers[v] # NoUpload => after[vers[v]].status = "FINALIZED"
        BY <2>h, <3>4, <4>1 DEF FileHeld
      <4>3. status = "AVAILABLE" => \E x \in Upload : after[x].status = "FINALIZED"
        BY <2>h, <2>p, <3>3, <3>4 DEF FileHeld
      <4>4. \A x \in Upload :
              /\ after[x].status # "ABSENT" => after[x].openedIn <= e
              /\ Sum(Index, after[x].chunks) <= after[x].expected
              /\ after[x].status = "FINALIZED" => Sum(Index, after[x].chunks) = after[x].expected
        BY <2>h, <2>p, <3>3 DEF FileHeld
      <4>5. status = "QUARANTINED" =>
              \A x \in Upload : after[x].status # "ABSENT" => after[x].openedIn < e
        BY <2>h, <2>p, <3>3, <3>5 DEF FileHeld
      <4>6. e <= MaxEpoch
        BY <2>h, <3>5 DEF FileHeld
      <4> QED
        BY <4>2, <4>3, <4>4, <4>5, <4>6 DEF FileHeld
    <3> QED
      BY <3>1, <3>6 DEF after
  <2>3. ASSUME NEW u \in Upload, NEW expected \in 0 .. MaxSize, NEW chunkSize \in 1 .. MaxSize,
               F!StartUpload(u, expected, chunkSize)
        PROVE  Typed(file') /\ FileHeld(file'.status, file'.lifecycleEpoch, file'.uploads, file'.versions)
    <3> DEFINE new == [F!NotStarted EXCEPT !.status = "OPEN", !.expected = expected,
                                           !.chunkSize = chunkSize, !.openedIn = e]
    <3>1. /\ s \notin {"ABSENT", "ARCHIVED", "QUARANTINED"} /\ ups[u].status = "ABSENT"
          /\ file' = [file EXCEPT !.uploads = [ups EXCEPT ![u] = new], !.status = s]
      BY <2>3, <2>t DEF F!StartUpload, F!Loadable, F!upload
    <3>2. e \in 0 .. MaxEpoch /\ chunkSize \in 0 .. MaxSize
      BY <1>0, <2>h, <2>t, <3>1 DEF FileHeld
    <3>3. /\ new \in F!UploadState /\ new.status = "OPEN" /\ new.openedIn = e
          /\ new.expected = expected /\ new.chunks = F!NotStarted.chunks
      BY <1>z, <3>2 DEF F!UploadState
    <3>4. Sum(Index, new.chunks) <= new.expected
      BY <1>z, <3>3
    <3>5. new.openedIn <= e
      BY <3>2, <3>3
    <3> HIDE DEF new, s, e, ups
    <3> QED
      BY <2>p, <3>1, <3>3, <3>4, <3>5
  <2>4. ASSUME NEW u \in Upload, NEW i \in Index, NEW size \in 1 .. MaxSize, F!AppendChunk(u, i, size)
        PROVE  Typed(file') /\ FileHeld(file'.status, file'.lifecycleEpoch, file'.uploads, file'.versions)
    <3> DEFINE w == ups[u].chunks
               v == [w EXCEPT ![i] = size]
               new == [ups[u] EXCEPT !.chunks = v]
    <3>1. /\ s \notin {"ABSENT", "ARCHIVED"} /\ ups[u].status = "OPEN"
          /\ w[i] = 0 /\ Sum(Index, w) + size <= ups[u].expected
          /\ file' = [file EXCEPT !.uploads = [ups EXCEPT ![u] = new], !.status = s]
      BY <2>4, <2>a, <2>t DEF F!AppendChunk, F!Loadable, F!upload
    <3>2. w \in [Index -> 0 .. MaxSize] /\ v \in [Index -> 0 .. MaxSize] /\ v[i] = size
          /\ \A x \in Index \ {i} : v[x] = w[x]
      BY <1>0, <2>u
    <3>3. /\ new \in F!UploadState /\ new.status = "OPEN" /\ new.openedIn = ups[u].openedIn
          /\ new.expected = ups[u].expected /\ new.chunks = v
      BY <2>u, <3>1, <3>2 DEF F!UploadState
    <3> HIDE DEF new, w, v
    <3>4. Sum(Index, v) = Sum(Index, w) + v[i] - w[i]
      <4>1. \A x \in Index : w[x] \in Int /\ v[x] \in Int
        BY <1>0, <3>2
      <4> QED
        BY <1>0, <3>2, <4>1, SumOfOneChange
    <3>5. Sum(Index, w) \in Int
      BY <1>0, <3>2, SumTyped
    <3>6. Sum(Index, new.chunks) <= new.expected
      BY <3>1, <3>2, <3>3, <3>4, <3>5
    <3>7. ups[u].openedIn <= e
      BY <2>h, <3>1 DEF FileHeld
    <3> HIDE DEF s, e, ups
    <3> QED
      BY <2>p, <3>1, <3>3, <3>6, <3>7
  <2>5. ASSUME NEW u \in Upload, F!FinalizeUpload(u)
        PROVE  Typed(file') /\ FileHeld(file'.status, file'.lifecycleEpoch, file'.uploads, file'.versions)
    <3> DEFINE new == [ups[u] EXCEPT !.status = "FINALIZED"]
    <3>1. /\ s \notin {"ABSENT", "ARCHIVED"} /\ ups[u].status = "OPEN"
          /\ Sum(Index, ups[u].chunks) = ups[u].expected
          /\ file' = [file EXCEPT !.uploads = [ups EXCEPT ![u] = new], !.status = "AVAILABLE"]
      BY <2>5, <2>a, <2>t DEF F!FinalizeUpload, F!Loadable, F!upload
    <3>2. /\ new \in F!UploadState /\ new.status = "FINALIZED" /\ new.openedIn = ups[u].openedIn
          /\ new.expected = ups[u].expected /\ new.chunks = ups[u].chunks
      BY <2>u DEF F!UploadState
    <3>3. ups[u].openedIn <= e
      BY <2>h, <3>1 DEF FileHeld
    <3>4. Sum(Index, new.chunks) <= new.expected
      BY <2>u, <3>1, <3>2
    <3> HIDE DEF new, s, e, ups
    <3> QED
      BY <2>p, <3>1, <3>2, <3>3, <3>4
  <2>6. ASSUME NEW v \in Version, NEW u \in Upload, F!CreateVersion(v, u)
        PROVE  Typed(file') /\ FileHeld(file'.status, file'.lifecycleEpoch, file'.uploads, file'.versions)
    <3> DEFINE after == [vers EXCEPT ![v] = u]
    <3>1. ups[u].status = "FINALIZED" /\ file' = [file EXCEPT !.versions = after]
      BY <2>6, <2>t DEF F!CreateVersion, F!upload
    <3>2. /\ after \in [Version -> Upload \cup {NoUpload}]
          /\ after[v] = u /\ \A x \in Version \ {v} : after[x] = vers[x]
      BY <2>t
    <3> HIDE DEF after
    <3>3. /\ Typed(file') /\ file'.status = s /\ file'.lifecycleEpoch = e
          /\ file'.uploads = ups /\ file'.versions = after
      BY <2>t, <3>1, <3>2
    <3> HIDE DEF s, e, ups, vers, Typed
    <3> QED
      BY <2>h, <3>1, <3>2, <3>3 DEF FileHeld
  <2>7. ASSUME NEW a \in Access, F!GrantFileAccess(a) \/ F!RevokeFileAccess(a)
        PROVE  Typed(file') /\ FileHeld(file'.status, file'.lifecycleEpoch, file'.uploads, file'.versions)
    <3>1. PICK access \in SUBSET Access : file' = [file EXCEPT !.access = access]
      BY <2>7, <2>t DEF F!GrantFileAccess, F!RevokeFileAccess
    <3>2. /\ Typed(file') /\ file'.status = s /\ file'.lifecycleEpoch = e
          /\ file'.uploads = ups /\ file'.versions = vers
      BY <2>t, <3>1
    <3> QED
      BY <2>h, <3>2
  <2>8. CASE F!QuarantineFile
    <3>1. /\ s # "ARCHIVED" /\ e < MaxEpoch
          /\ file' = [file EXCEPT !.status = "QUARANTINED", !.lifecycleEpoch = @ + 1]
      BY <2>8 DEF F!QuarantineFile, F!Loadable
    <3>2. e + 1 \in 0 .. MaxEpoch + 1 /\ e + 1 <= MaxEpoch /\ e \in Int
      BY <1>0, <2>t, <3>1
    <3>3. /\ Typed(file') /\ file'.status = "QUARANTINED" /\ file'.lifecycleEpoch = e + 1
          /\ file'.uploads = ups /\ file'.versions = vers
      BY <2>t, <3>1, <3>2
    <3> HIDE DEF s, e, ups, vers, Typed
    <3>4. \A u \in Upload : ups[u].status # "ABSENT" => ups[u].openedIn < e + 1 /\ ups[u].openedIn <= e + 1
      BY <2>h, <2>u, <3>2 DEF FileHeld
    <3> QED
      BY <2>h, <3>2, <3>3, <3>4 DEF FileHeld
  <2>9. CASE F!ArchiveFile
    <3>1. s # "ARCHIVED" /\ file' = [file EXCEPT !.status = "ARCHIVED", !.lifecycleEpoch = @ + 1]
      BY <2>9 DEF F!ArchiveFile, F!Loadable
    <3>2. e + 1 \in 0 .. MaxEpoch + 1 /\ e \in Int
      BY <1>0, <2>h, <2>t, <3>1 DEF FileHeld
    <3>3. /\ Typed(file') /\ file'.status = "ARCHIVED" /\ file'.lifecycleEpoch = e + 1
          /\ file'.uploads = ups /\ file'.versions = vers
      BY <2>t, <3>1, <3>2
    <3> HIDE DEF s, e, ups, vers, Typed
    <3>4. \A u \in Upload : ups[u].status # "ABSENT" => ups[u].openedIn <= e + 1
      BY <2>h, <2>u, <3>2 DEF FileHeld
    <3> QED
      BY <2>h, <3>3, <3>4 DEF FileHeld
  <2> HIDE DEF Typed
  <2> QED
    BY <2>0, <2>1, <2>2, <2>3, <2>4, <2>5, <2>6, <2>7, <2>8, <2>9 DEF F!Next
<1> QED
  BY <1>1, <1>2

\* In the module's words.
LEMMA FileUploadsComplete == FileIInv => F!UploadsComplete
<1> SUFFICES ASSUME FileIInv PROVE F!UploadsComplete
  OBVIOUS
<1>1. file.uploads \in [Upload -> F!UploadState]
  BY DEF FileIInv, F!TypeOK
<1>2. \A u \in Upload : F!accepted(u) = Sum(Index, file.uploads[u].chunks)
  BY <1>1, AcceptedIsSum
<1> QED
  BY <1>2 DEF FileIInv, FileHeld, F!UploadsComplete, F!upload

-----------------------------------------------------------------------------
(* Capacity *)

Figures == [availableUnits: Int, allocatedUnits: Int, remainingUnits: Int]

Availability == [Period -> 0 .. MaxUnits]
Allocations  == [Allocation -> 0 .. MaxUnits]

FiguresTaken == UNION {[T -> Figures] : T \in SUBSET CapacitySnapshot}

UnitsTaken ==
  UNION {[T -> [availability: Availability, allocations: Allocations]] : T \in SUBSET CapacitySnapshot}

Profile ==
  [status: {"ABSENT", "ACTIVE", "ARCHIVED"}, lifecycleEpoch: 0 .. 1, availability: Availability,
   allocations: Allocations, totals: Figures, snapshots: FiguresTaken]

\* A snapshot keeps the totals of what was there when it was taken, and since
\* then allocations have only been added.
CapacityIInv ==
  /\ capacity \in Profile /\ captured \in UnitsTaken
  /\ DOMAIN captured = DOMAIN capacity.snapshots
  /\ capacity.totals = K!totals(capacity.availability, capacity.allocations)
  /\ capacity.status # "ARCHIVED" => capacity.lifecycleEpoch = 0
  /\ \A s \in DOMAIN captured :
       /\ capacity.snapshots[s] = K!totals(captured[s].availability, captured[s].allocations)
       /\ \A a \in Allocation : captured[s].allocations[a] <= capacity.allocations[a]

\* What the assumptions say of the constants of profiles.
LEMMA CapacityConstants ==
  IsFiniteSet(Period) /\ IsFiniteSet(Allocation) /\ MaxUnits \in Nat
<1>1. \A T : K!IsFiniteSet(T) <=> IsFiniteSet(T)
  BY DEF K!IsFiniteSet, IsFiniteSet
<1> QED
  BY <1>1, ApplicationAssumption DEF K!CapacityAssumption

\* The folds of the totals are sums over periods and allocations.
LEMMA TotalsAreSums ==
  ASSUME NEW v, NEW w
  PROVE  K!totals(v, w) = [availableUnits |-> Sum(Period, v), allocatedUnits |-> Sum(Allocation, w),
                           remainingUnits |-> Sum(Period, v) - Sum(Allocation, w)]
<1>1. K!MapThenSumSet(LAMBDA p : v[p], Period) = Sum(Period, v)
  BY DEF K!MapThenSumSet, K!MapThenFoldSet, Sum, SumUpTo, Adds
<1>2. K!MapThenSumSet(LAMBDA a : w[a], Allocation) = Sum(Allocation, w)
  BY DEF K!MapThenSumSet, K!MapThenFoldSet, Sum, SumUpTo, Adds
<1> QED
  BY <1>1, <1>2 DEF K!totals

\* Totals are numbers.
LEMMA TotalsTyped ==
  ASSUME NEW v \in Availability, NEW w \in Allocations
  PROVE  K!totals(v, w) \in Figures
<1>1. (\A p \in Period : v[p] \in Int) /\ (\A a \in Allocation : w[a] \in Int)
  BY CapacityConstants DEF Availability, Allocations
<1>2. Sum(Period, v) \in Int
  BY <1>1, CapacityConstants, SumTyped
<1>3. Sum(Allocation, w) \in Int
  BY <1>1, CapacityConstants, SumTyped
<1> QED
  BY <1>2, <1>3, TotalsAreSums DEF Figures

\* Every command that touches an allocation or a period renews the totals with it.
LEMMA CapacityInductive ==
  /\ K!Init => CapacityIInv
  /\ CapacityIInv /\ [Next]_vars => CapacityIInv'
<1>0. MaxUnits \in Nat /\ IsFiniteSet(Period) /\ IsFiniteSet(Allocation)
  BY CapacityConstants
<1>1. K!Init => CapacityIInv
  <2> SUFFICES ASSUME K!Init PROVE CapacityIInv
    OBVIOUS
  <2> DEFINE v == [p \in Period |-> 0]
             w == [a \in Allocation |-> 0]
  <2>1. capacity = [status |-> "ABSENT", lifecycleEpoch |-> 0, availability |-> v, allocations |-> w,
                    totals |-> K!Nothing, snapshots |-> <<>>] /\ captured = <<>>
    BY DEF K!Init
  <2>2. v \in Availability /\ w \in Allocations
    BY <1>0 DEF Availability, Allocations
  <2>3. (\A p \in Period : v[p] = 0) /\ (\A a \in Allocation : w[a] = 0)
    OBVIOUS
  <2>4. Sum(Period, v) = 0
    BY <1>0, <2>3, SumTyped
  <2>5. Sum(Allocation, w) = 0
    BY <1>0, <2>3, SumTyped
  <2> HIDE DEF v, w
  <2>6. K!totals(v, w) = K!Nothing
    BY <2>4, <2>5, TotalsAreSums DEF K!Nothing
  <2>7. K!Nothing \in Figures
    BY DEF K!Nothing, Figures
  <2>8. <<>> \in FiguresTaken /\ <<>> \in UnitsTaken /\ DOMAIN <<>> = {}
    <3>1. {} \in SUBSET CapacitySnapshot /\ \A X : <<>> \in [{} -> X]
      OBVIOUS
    <3> QED
      BY <3>1 DEF FiguresTaken, UnitsTaken
  <2>9. capacity \in Profile
    BY <2>1, <2>2, <2>7, <2>8 DEF Profile
  <2> QED
    BY <2>1, <2>6, <2>8, <2>9 DEF CapacityIInv
<1>2. ASSUME CapacityIInv, [Next]_vars PROVE CapacityIInv'
  <2> DEFINE av == capacity.availability
             al == capacity.allocations
             shots == capacity.snapshots
  <2>t. /\ capacity \in Profile /\ av \in Availability /\ al \in Allocations
        /\ capacity.totals \in Figures /\ shots \in FiguresTaken /\ captured \in UnitsTaken
    BY <1>2 DEF CapacityIInv, Profile
  <2>i. /\ DOMAIN captured = DOMAIN shots
        /\ capacity.totals = K!totals(av, al)
        /\ capacity.status # "ARCHIVED" => capacity.lifecycleEpoch = 0
        /\ \A s \in DOMAIN captured :
             /\ shots[s] = K!totals(captured[s].availability, captured[s].allocations)
             /\ \A a \in Allocation : captured[s].allocations[a] <= al[a]
    BY <1>2 DEF CapacityIInv
  <2>c. \A s \in DOMAIN captured : captured[s].allocations \in Allocations
    BY <2>t DEF UnitsTaken
  <2>0. [K!Next]_<<capacity, captured>>
    BY <1>2, CapacitySteps
  <2>1. CASE UNCHANGED <<capacity, captured>>
    BY <1>2, <2>1 DEF CapacityIInv
  <2>2. CASE K!CreateCapacityProfile
    <3>1. /\ capacity.status = "ABSENT" /\ capacity' = [capacity EXCEPT !.status = "ACTIVE"]
          /\ captured' = captured
      BY <2>2 DEF K!CreateCapacityProfile, K!Stores
    <3>2. /\ capacity' \in Profile /\ capacity'.status = "ACTIVE"
          /\ capacity'.lifecycleEpoch = capacity.lifecycleEpoch
          /\ capacity'.availability = av /\ capacity'.allocations = al
          /\ capacity'.totals = capacity.totals /\ capacity'.snapshots = shots
      BY <2>t, <3>1 DEF Profile
    <3> HIDE DEF av, al, shots
    <3> QED
      BY <2>i, <2>t, <3>1, <3>2 DEF CapacityIInv
  <2>p. ASSUME NEW v \in Availability, NEW w \in Allocations, \A a \in Allocation : al[a] <= w[a],
               capacity' = K!calculate([capacity EXCEPT !.availability = v, !.allocations = w]),
               captured' = captured, K!Loadable
        PROVE  CapacityIInv'
    <3>1. capacity' = [capacity EXCEPT !.availability = v, !.allocations = w, !.totals = K!totals(v, w)]
      BY <2>p, <2>t DEF K!calculate, Profile
    <3>2. K!totals(v, w) \in Figures
      BY TotalsTyped
    <3>3. /\ capacity' \in Profile /\ capacity'.status = capacity.status
          /\ capacity'.lifecycleEpoch = capacity.lifecycleEpoch
          /\ capacity'.availability = v /\ capacity'.allocations = w
          /\ capacity'.totals = K!totals(v, w) /\ capacity'.snapshots = shots
      BY <2>t, <3>1, <3>2 DEF Profile
    <3> HIDE DEF av, al, shots
    <3>4. \A s \in DOMAIN captured, a \in Allocation : captured[s].allocations[a] <= w[a]
      <4> SUFFICES ASSUME NEW s \in DOMAIN captured, NEW a \in Allocation
                   PROVE  captured[s].allocations[a] <= w[a]
        OBVIOUS
      <4>1. captured[s].allocations[a] <= al[a] /\ al[a] <= w[a]
        BY <2>i, <2>p
      <4>2. captured[s].allocations[a] \in Int /\ al[a] \in Int /\ w[a] \in Int
        BY <1>0, <2>c, <2>t DEF Allocations
      <4> QED
        BY <4>1, <4>2
    <3> QED
      BY <2>i, <2>p, <2>t, <3>3, <3>4 DEF CapacityIInv
  <2>3. ASSUME NEW p \in Period, NEW units \in 0 .. MaxUnits, K!UpdateAvailability(p, units)
        PROVE  CapacityIInv'
    <3> DEFINE v == [av EXCEPT ![p] = units]
    <3>1. v \in Availability
      BY <2>t DEF Availability
    <3>2. [capacity EXCEPT !.availability[p] = units] = [capacity EXCEPT !.availability = v, !.allocations = al]
      BY <2>t DEF Profile
    <3>3. capacity' = K!calculate([capacity EXCEPT !.availability = v, !.allocations = al])
      BY <2>3, <3>2 DEF K!UpdateAvailability, K!Stores
    <3>4. captured' = captured /\ K!Loadable
      BY <2>3 DEF K!UpdateAvailability, K!Stores
    <3>5. \A a \in Allocation : al[a] <= al[a]
      BY <1>0, <2>t DEF Allocations
    <3> HIDE DEF v
    <3> QED
      BY <2>p, <2>t, <3>1, <3>3, <3>4, <3>5
  <2>4. ASSUME NEW a \in Allocation, NEW units \in 1 .. MaxUnits, K!AllocateWorkload(a, units)
        PROVE  CapacityIInv'
    <3> DEFINE w == [al EXCEPT ![a] = units]
    <3>1. w \in Allocations /\ \A b \in Allocation : al[b] <= w[b]
      BY <1>0, <2>4, <2>t DEF Allocations, K!AllocateWorkload
    <3>2. [capacity EXCEPT !.allocations[a] = units] = [capacity EXCEPT !.availability = av, !.allocations = w]
      BY <2>t DEF Profile
    <3>3. capacity' = K!calculate([capacity EXCEPT !.availability = av, !.allocations = w])
      BY <2>4, <3>2 DEF K!AllocateWorkload, K!Stores
    <3>4. captured' = captured /\ K!Loadable
      BY <2>4 DEF K!AllocateWorkload, K!Stores
    <3> HIDE DEF w
    <3> QED
      BY <2>p, <2>t, <3>1, <3>3, <3>4
  <2>z. K!calculate(capacity) = capacity
    BY <2>i, <2>t DEF K!calculate, Profile
  <2>5. ASSUME NEW s \in CapacitySnapshot, K!CaptureCapacitySnapshot(s) PROVE CapacityIInv'
    <3> DEFINE later == [t \in DOMAIN shots \cup {s} |-> IF t = s THEN capacity.totals ELSE shots[t]]
               now_ == [availability |-> av, allocations |-> al]
               units == [t \in DOMAIN captured \cup {s} |-> IF t = s THEN now_ ELSE captured[t]]
    <3>1. /\ capacity' = [capacity EXCEPT !.snapshots = later] /\ captured' = units
          /\ s \notin DOMAIN shots
      BY <2>5, <2>t, <2>z DEF K!CaptureCapacitySnapshot, Profile
    <3>2. /\ later \in FiguresTaken /\ DOMAIN later = DOMAIN shots \cup {s}
          /\ later[s] = capacity.totals /\ \A t \in DOMAIN shots : t # s => later[t] = shots[t]
      BY <2>t DEF FiguresTaken
    <3>3. /\ units \in UnitsTaken /\ DOMAIN units = DOMAIN captured \cup {s}
          /\ units[s].availability = av /\ units[s].allocations = al
          /\ \A t \in DOMAIN captured : t # s => units[t] = captured[t]
      <4> DEFINE Entry_ == [availability: Availability, allocations: Allocations]
      <4>1. now_ \in Entry_ /\ now_.availability = av /\ now_.allocations = al
        BY <2>t
      <4>2. PICK T \in SUBSET CapacitySnapshot : captured \in [T -> Entry_]
        BY <2>t DEF UnitsTaken
      <4> HIDE DEF now_, Entry_
      <4>3. units \in [T \cup {s} -> Entry_]
        BY <4>1, <4>2
      <4>4. units \in UnitsTaken
        BY <4>3 DEF UnitsTaken, Entry_
      <4> QED
        BY <4>1, <4>2, <4>4
    <3> HIDE DEF later, units
    <3>4. /\ capacity' \in Profile /\ capacity'.status = capacity.status
          /\ capacity'.lifecycleEpoch = capacity.lifecycleEpoch
          /\ capacity'.availability = av /\ capacity'.allocations = al
          /\ capacity'.totals = capacity.totals /\ capacity'.snapshots = later
      BY <2>t, <3>1, <3>2 DEF Profile
    <3>5. \A a \in Allocation : al[a] <= al[a]
      BY <1>0, <2>t DEF Allocations
    <3> HIDE DEF av, al, shots
    <3>6. \A t \in DOMAIN units :
            /\ later[t] = K!totals(units[t].availability, units[t].allocations)
            /\ \A a \in Allocation : units[t].allocations[a] <= al[a]
      BY <2>i, <3>2, <3>3, <3>5
    <3> QED
      BY <2>i, <2>t, <3>1, <3>2, <3>3, <3>4, <3>6 DEF CapacityIInv
  <2>6. CASE K!RecalculateCapacity
    <3>1. capacity' = capacity /\ captured' = captured
      BY <2>6, <2>z DEF K!RecalculateCapacity, K!Stores
    <3> QED
      BY <1>2, <3>1 DEF CapacityIInv
  <2>7. CASE K!ArchiveCapacityProfile
    <3>0. capacity.lifecycleEpoch + 1 = 1 /\ 1 \in 0 .. 1
      BY <2>7, <2>i DEF K!ArchiveCapacityProfile, K!Loadable
    <3>1. /\ capacity' = [capacity EXCEPT !.status = "ARCHIVED", !.lifecycleEpoch = @ + 1]
          /\ captured' = captured
      BY <2>7 DEF K!ArchiveCapacityProfile, K!Stores
    <3>2. /\ capacity' \in Profile /\ capacity'.status = "ARCHIVED"
          /\ capacity'.availability = av /\ capacity'.allocations = al
          /\ capacity'.totals = capacity.totals /\ capacity'.snapshots = shots
      BY <2>t, <3>0, <3>1 DEF Profile
    <3> HIDE DEF av, al, shots
    <3> QED
      BY <2>i, <2>t, <3>1, <3>2 DEF CapacityIInv
  <2> QED
    BY <2>0, <2>1, <2>2, <2>3, <2>4, <2>5, <2>6, <2>7 DEF K!Next
<1> QED
  BY <1>1, <1>2

\* What a snapshot has of the totals: sums grow with their terms.
LEMMA CapacityTotalsFollow == CapacityIInv => K!TypeOK /\ K!TotalsFollow
<1> SUFFICES ASSUME CapacityIInv PROVE K!TypeOK /\ K!TotalsFollow
  OBVIOUS
<1>1. K!TypeOK
  BY DEF CapacityIInv, Profile, FiguresTaken, Availability, Allocations, K!TypeOK
<1>2. K!calculate(capacity) = capacity
  BY DEF CapacityIInv, Profile, K!calculate
<1>3. ASSUME NEW s \in DOMAIN captured
      PROVE  /\ capacity.snapshots[s] = K!totals(captured[s].availability, captured[s].allocations)
             /\ capacity.snapshots[s].allocatedUnits <= capacity.totals.allocatedUnits
  <2> DEFINE v == captured[s].availability
             w == captured[s].allocations
             av == capacity.availability
             al == capacity.allocations
  <2>1. /\ capacity.snapshots[s] = K!totals(v, w) /\ capacity.totals = K!totals(av, al)
        /\ \A a \in Allocation : w[a] <= al[a]
    BY DEF CapacityIInv
  <2>2. w \in Allocations /\ al \in Allocations
    BY DEF CapacityIInv, UnitsTaken, Profile
  <2> HIDE DEF v, w, av, al
  <2>3. Sum(Allocation, w) <= Sum(Allocation, al)
    <3>1. \A a \in Allocation : w[a] \in Int /\ al[a] \in Int /\ w[a] <= al[a]
      BY <2>1, <2>2, CapacityConstants DEF Allocations
    <3> QED
      BY <3>1, CapacityConstants, SumMonotone
  <2>4. /\ capacity.snapshots[s].allocatedUnits = Sum(Allocation, w)
        /\ capacity.totals.allocatedUnits = Sum(Allocation, al)
    BY <2>1, TotalsAreSums
  <2> QED
    BY <2>1, <2>3, <2>4 DEF v, w
<1> QED
  BY <1>1, <1>2, <1>3 DEF K!TotalsFollow

-----------------------------------------------------------------------------
(* Forecast *)

Scenarios ==
  [Scenario -> [there: BOOLEAN, probability: 0 .. MaxPart, projectedValue: -2 * MaxValue .. 2 * MaxValue]]

ForecastSnapshot ==
  [status: {"ABSENT", "DRAFT", "PUBLISHED", "ARCHIVED"}, lifecycleEpoch: 0 .. 2,
   baselineValue: -MaxValue .. MaxValue, scenarios: Scenarios, projection: [sum: Int, weight: Nat \ {0}],
   calculated: BOOLEAN]

\* A projection that counts as calculated is what would be calculated now, and a
\* scenario that is not there weighs nothing.
ForecastIInv ==
  /\ forecast \in ForecastSnapshot
  /\ forecast.status \in {"ABSENT", "DRAFT"} => forecast.lifecycleEpoch = 0
  /\ forecast.status = "PUBLISHED" => forecast.lifecycleEpoch = 1
  /\ forecast.status = "ABSENT" => ~forecast.calculated
  /\ forecast.calculated => forecast.projection = C!calculate(forecast)
  /\ forecast.status = "PUBLISHED" =>
       forecast.calculated /\ \E s \in Scenario : forecast.scenarios[s].there
  /\ \A s \in Scenario : ~forecast.scenarios[s].there => forecast.scenarios[s].probability = 0

\* In the module's words.
LEMMA ForecastTyped == ForecastIInv => C!TypeOK
  BY DEF ForecastIInv, ForecastSnapshot, Scenarios, C!TypeOK

\* What the assumptions say of the constants of forecasts.
LEMMA ForecastConstants == IsFiniteSet(Scenario) /\ MaxPart \in Nat /\ MaxValue \in Nat
<1>1. \A T : C!IsFiniteSet(T) <=> IsFiniteSet(T)
  BY DEF C!IsFiniteSet, IsFiniteSet
<1> QED
  BY <1>1, ApplicationAssumption DEF C!ForecastAssumption

Parts(scenarios) == [s \in Scenario |-> scenarios[s].probability]

Shares(scenarios) == [s \in Scenario |-> scenarios[s].probability * scenarios[s].projectedValue]

\* Both folds of a calculation are sums over the scenarios.
LEMMA WeightIsSum ==
  ASSUME NEW f
  PROVE  C!MapThenSumSet(LAMBDA s : f.scenarios[s].probability, Scenario)
           = Sum(Scenario, Parts(f.scenarios))
<1> DEFINE Folds_(h) == h = [s \in SUBSET Scenario |->
                              IF s = {} THEN 0
                              ELSE LET x == CHOOSE x \in s : TRUE
                                   IN f.scenarios[x].probability + h[s \ {x}]]
           w == Parts(f.scenarios)
<1>1. \A h : Folds_(h) <=> Adds(Scenario, w, h)
  <2> SUFFICES ASSUME NEW h PROVE Folds_(h) <=> Adds(Scenario, w, h)
    OBVIOUS
  <2>1. \A s \in SUBSET Scenario :
          s # {} => w[CHOOSE x \in s : TRUE] = f.scenarios[CHOOSE x \in s : TRUE].probability
    BY DEF Parts
  <2>2. [s \in SUBSET Scenario |-> IF s = {} THEN 0
                                   ELSE LET x == CHOOSE x \in s : TRUE
                                        IN f.scenarios[x].probability + h[s \ {x}]]
          = [s \in SUBSET Scenario |-> IF s = {} THEN 0
                                       ELSE LET x == CHOOSE x \in s : TRUE IN w[x] + h[s \ {x}]]
    BY <2>1
  <2> QED
    BY <2>2 DEF Adds
<1>2. C!MapThenSumSet(LAMBDA s : f.scenarios[s].probability, Scenario) = (CHOOSE h : Folds_(h))[Scenario]
  BY DEF C!MapThenSumSet, C!MapThenFoldSet
<1> HIDE DEF Folds_, w
<1>3. Adds(Scenario, w, SumUpTo(Scenario, w))
  BY ForecastConstants, SumsExist
<1>4. Folds_(CHOOSE h : Folds_(h))
  BY <1>1, <1>3
<1>5. (CHOOSE h : Folds_(h)) = SumUpTo(Scenario, w)
  BY <1>1, <1>4, ForecastConstants, SumsAreOne
<1> QED
  BY <1>2, <1>5 DEF Sum, w

LEMMA ValueIsSum ==
  ASSUME NEW f
  PROVE  C!MapThenSumSet(LAMBDA s : f.scenarios[s].probability * f.scenarios[s].projectedValue, Scenario)
           = Sum(Scenario, Shares(f.scenarios))
<1> DEFINE Folds_(h) == h = [s \in SUBSET Scenario |->
                              IF s = {} THEN 0
                              ELSE LET x == CHOOSE x \in s : TRUE
                                   IN f.scenarios[x].probability * f.scenarios[x].projectedValue + h[s \ {x}]]
           w == Shares(f.scenarios)
<1>1. \A h : Folds_(h) <=> Adds(Scenario, w, h)
  <2> SUFFICES ASSUME NEW h PROVE Folds_(h) <=> Adds(Scenario, w, h)
    OBVIOUS
  <2>1. \A s \in SUBSET Scenario :
          s # {} => w[CHOOSE x \in s : TRUE] = f.scenarios[CHOOSE x \in s : TRUE].probability
                                                 * f.scenarios[CHOOSE x \in s : TRUE].projectedValue
    BY DEF Shares
  <2>2. [s \in SUBSET Scenario |-> IF s = {} THEN 0
                                   ELSE LET x == CHOOSE x \in s : TRUE
                                        IN f.scenarios[x].probability * f.scenarios[x].projectedValue + h[s \ {x}]]
          = [s \in SUBSET Scenario |-> IF s = {} THEN 0
                                       ELSE LET x == CHOOSE x \in s : TRUE IN w[x] + h[s \ {x}]]
    BY <2>1
  <2> QED
    BY <2>2 DEF Adds
<1>2. C!MapThenSumSet(LAMBDA s : f.scenarios[s].probability * f.scenarios[s].projectedValue, Scenario)
        = (CHOOSE h : Folds_(h))[Scenario]
  BY DEF C!MapThenSumSet, C!MapThenFoldSet
<1> HIDE DEF Folds_, w
<1>3. Adds(Scenario, w, SumUpTo(Scenario, w))
  BY ForecastConstants, SumsExist
<1>4. Folds_(CHOOSE h : Folds_(h))
  BY <1>1, <1>3
<1>5. (CHOOSE h : Folds_(h)) = SumUpTo(Scenario, w)
  BY <1>1, <1>4, ForecastConstants, SumsAreOne
<1> QED
  BY <1>2, <1>5 DEF Sum, w

Weight(scenarios) == Sum(Scenario, Parts(scenarios))
Value(scenarios) == Sum(Scenario, Shares(scenarios))

\* A calculation is the two sums.
LEMMA CalculatedFromSums ==
  ASSUME NEW f
  PROVE  C!calculate(f) = IF Weight(f.scenarios) = 0 THEN [sum |-> f.baselineValue, weight |-> 1]
                          ELSE [sum |-> Value(f.scenarios), weight |-> Weight(f.scenarios)]
  BY WeightIsSum, ValueIsSum DEF C!calculate, Weight, Value

\* A calculation is a pair of numbers.
LEMMA CalculatedTyped ==
  ASSUME NEW f, f.scenarios \in Scenarios, f.baselineValue \in -MaxValue .. MaxValue
  PROVE  C!calculate(f) \in [sum: Int, weight: Nat \ {0}]
<1> DEFINE p == Parts(f.scenarios)
           v == Shares(f.scenarios)
<1>1. (\A s \in Scenario : p[s] \in Nat) /\ (\A s \in Scenario : v[s] \in Int)
  BY ForecastConstants DEF Parts, Shares, Scenarios
<1> HIDE DEF p, v
<1>2. Sum(Scenario, p) \in Nat
  BY <1>1, ForecastConstants, SumTyped
<1>3. Sum(Scenario, v) \in Int
  BY <1>1, ForecastConstants, SumTyped
<1>4. f.baselineValue \in Int
  BY ForecastConstants
<1> QED
  BY <1>2, <1>3, <1>4, CalculatedFromSums DEF p, v, Weight, Value

\* Whatever changes a scenario takes the calculation back.
LEMMA ForecastInductive ==
  /\ C!Init => ForecastIInv
  /\ ForecastIInv /\ [Next]_vars => ForecastIInv'
<1>0. MaxPart \in Nat /\ MaxValue \in Nat
  BY ForecastConstants
<1>1. C!Init => ForecastIInv
  BY <1>0 DEF C!Init, C!NoScenario, ForecastIInv, ForecastSnapshot, Scenarios
<1>2. ASSUME ForecastIInv, [Next]_vars PROVE ForecastIInv'
  <2>t. /\ forecast \in ForecastSnapshot /\ forecast.scenarios \in Scenarios
        /\ forecast.baselineValue \in -MaxValue .. MaxValue
    BY <1>2 DEF ForecastIInv, ForecastSnapshot
  <2>0. [C!Next]_forecast
    BY <1>2, ForecastSteps
  <2>c. ASSUME NEW f, NEW g, f.scenarios = g.scenarios, f.baselineValue = g.baselineValue
        PROVE  C!calculate(f) = C!calculate(g)
    BY <2>c, CalculatedFromSums
  <2>1. CASE UNCHANGED forecast
    BY <1>2, <2>1, <2>c DEF ForecastIInv
  <2>2. ASSUME NEW baseline \in -MaxValue .. MaxValue, C!GenerateForecast(baseline) PROVE ForecastIInv'
    <3>1. /\ forecast.status = "ABSENT"
          /\ forecast' = [forecast EXCEPT !.status = "DRAFT", !.baselineValue = baseline,
                            !.projection = [sum |-> baseline, weight |-> 1]]
      BY <2>2 DEF C!GenerateForecast
    <3>2. [sum |-> baseline, weight |-> 1] \in [sum: Int, weight: Nat \ {0}]
      BY <1>0
    <3>3. /\ forecast' \in ForecastSnapshot /\ forecast'.status = "DRAFT"
          /\ forecast'.lifecycleEpoch = forecast.lifecycleEpoch
          /\ forecast'.calculated = forecast.calculated /\ forecast'.scenarios = forecast.scenarios
      BY <2>t, <3>1, <3>2 DEF ForecastSnapshot
    <3> QED
      BY <1>2, <3>1, <3>3 DEF ForecastIInv
  <2>3. ASSUME NEW s \in Scenario, NEW p \in 0 .. MaxPart, NEW a \in -MaxValue .. MaxValue,
               C!CreateScenario(s, p, a)
        PROVE  ForecastIInv'
    <3> DEFINE new == [there |-> TRUE, probability |-> p, projectedValue |-> forecast.baselineValue + a]
               after == [forecast.scenarios EXCEPT ![s] = new]
    <3>1. /\ forecast.status = "DRAFT"
          /\ forecast' = [forecast EXCEPT !.scenarios = after, !.calculated = FALSE]
      BY <2>3, <2>t DEF C!CreateScenario, ForecastSnapshot
    <3>2. forecast.baselineValue + a \in -2 * MaxValue .. 2 * MaxValue
      BY <1>0, <2>t
    <3>3. new \in [there: BOOLEAN, probability: 0 .. MaxPart, projectedValue: -2 * MaxValue .. 2 * MaxValue]
          /\ new.there = TRUE
      BY <3>2
    <3> HIDE DEF new
    <3>4. /\ after \in Scenarios /\ after[s] = new
          /\ \A t \in Scenario \ {s} : after[t] = forecast.scenarios[t]
      BY <2>t, <3>3 DEF Scenarios
    <3> HIDE DEF after
    <3>5. /\ forecast' \in ForecastSnapshot /\ forecast'.status = "DRAFT"
          /\ forecast'.lifecycleEpoch = forecast.lifecycleEpoch
          /\ forecast'.calculated = FALSE /\ forecast'.scenarios = after
      BY <2>t, <3>1, <3>4 DEF ForecastSnapshot
    <3> QED
      BY <1>2, <3>1, <3>3, <3>4, <3>5 DEF ForecastIInv
  <2>4. CASE C!RecalculateForecast
    <3>1. /\ forecast.status = "DRAFT"
          /\ forecast' = [forecast EXCEPT !.projection = C!calculate(forecast), !.calculated = TRUE]
      BY <2>4 DEF C!RecalculateForecast
    <3>2. C!calculate(forecast) \in [sum: Int, weight: Nat \ {0}]
      BY <2>t, CalculatedTyped
    <3>3. /\ forecast' \in ForecastSnapshot /\ forecast'.status = "DRAFT"
          /\ forecast'.lifecycleEpoch = forecast.lifecycleEpoch
          /\ forecast'.calculated = TRUE /\ forecast'.scenarios = forecast.scenarios
          /\ forecast'.baselineValue = forecast.baselineValue
          /\ forecast'.projection = C!calculate(forecast)
      BY <2>t, <3>1, <3>2 DEF ForecastSnapshot
    <3>4. C!calculate(forecast') = C!calculate(forecast)
      BY <2>c, <3>3
    <3> QED
      BY <1>2, <3>1, <3>3, <3>4 DEF ForecastIInv
  <2>5. CASE C!PublishForecast \/ C!ArchiveForecast
    <3>1. PICK status \in {"PUBLISHED", "ARCHIVED"} :
            /\ forecast.status \in {"DRAFT", "PUBLISHED"}
            /\ status = "PUBLISHED" =>
                 /\ forecast.status = "DRAFT" /\ forecast.calculated
                 /\ \E s \in Scenario : forecast.scenarios[s].there
            /\ forecast' = [forecast EXCEPT !.status = status, !.lifecycleEpoch = @ + 1]
      BY <2>5 DEF C!PublishForecast, C!ArchiveForecast
    <3>2. /\ forecast.lifecycleEpoch + 1 \in 0 .. 2
          /\ status = "PUBLISHED" => forecast.lifecycleEpoch + 1 = 1
      BY <1>2, <3>1 DEF ForecastIInv
    <3>3. /\ forecast' \in ForecastSnapshot /\ forecast'.status = status
          /\ forecast'.lifecycleEpoch = forecast.lifecycleEpoch + 1
          /\ forecast'.calculated = forecast.calculated /\ forecast'.scenarios = forecast.scenarios
          /\ forecast'.baselineValue = forecast.baselineValue
          /\ forecast'.projection = forecast.projection
      BY <2>t, <3>1, <3>2 DEF ForecastSnapshot
    <3>4. C!calculate(forecast') = C!calculate(forecast)
      BY <2>c, <3>3
    <3> QED
      BY <1>2, <3>1, <3>2, <3>3, <3>4 DEF ForecastIInv
  <2> QED
    BY <2>0, <2>1, <2>2, <2>3, <2>4, <2>5 DEF C!Next
<1> QED
  BY <1>1, <1>2

-----------------------------------------------------------------------------

\* A finite set of integers has a least and a greatest element.
LEMMA BoundsExist ==
  ASSUME NEW Q \in SUBSET Int, IsFiniteSet(Q), Q # {}
  PROVE  /\ C!Min(Q) \in Q /\ \A y \in Q : C!Min(Q) <= y
         /\ C!Max(Q) \in Q /\ \A y \in Q : C!Max(Q) >= y
<1> DEFINE T == {s \in SUBSET Q : s # {} => /\ \E x \in s : \A y \in s : x <= y
                                            /\ \E x \in s : \A y \in s : x >= y}
<1>1. {} \in T
  OBVIOUS
<1>2. ASSUME NEW s \in SUBSET Q, s # {}, s \ {Pick(s)} \in T PROVE s \in T
  <2> DEFINE p == Pick(s)
             r == s \ {p}
  <2>1. p \in s /\ s \in SUBSET Int
    BY <1>2, PickTakes
  <2> HIDE DEF p
  <2>2. CASE r = {}
    <3>1. s = {p} /\ p \in Int
      BY <2>1, <2>2
    <3> QED
      BY <3>1
  <2>3. CASE r # {}
    <3>1. PICK x \in r : \A y \in r : x <= y
      BY <1>2, <2>3 DEF p
    <3>2. PICK z \in r : \A y \in r : z >= y
      BY <1>2, <2>3 DEF p
    <3>3. \E a \in s : \A y \in s : a <= y
      <4>1. CASE x <= p
        BY <2>1, <3>1, <4>1
      <4>2. CASE ~(x <= p)
        <5>1. \A y \in s : p <= y
          BY <2>1, <3>1, <4>2
        <5> QED
          BY <2>1, <5>1
      <4> QED
        BY <4>1, <4>2
    <3>4. \E a \in s : \A y \in s : a >= y
      <4>1. CASE z >= p
        BY <2>1, <3>2, <4>1
      <4>2. CASE ~(z >= p)
        <5>1. \A y \in s : p >= y
          BY <2>1, <3>2, <4>2
        <5> QED
          BY <2>1, <5>1
      <4> QED
        BY <4>1, <4>2
    <3> QED
      BY <3>3, <3>4
  <2> QED
    BY <2>2, <2>3
<1> HIDE DEF T
<1>3. \A s \in SUBSET Q : s \in T
  BY <1>1, <1>2, SubsetsAreReached
<1>4. (\E x \in Q : \A y \in Q : x <= y) /\ (\E x \in Q : \A y \in Q : x >= y)
  BY <1>3 DEF T
<1> QED
  BY <1>4 DEF C!Min, C!Max

\* Weighing keeps the order.
LEMMA WeighedOrder ==
  ASSUME NEW p \in Nat, NEW a \in Int, NEW b \in Int, a <= b
  PROVE  a * p <= p * b /\ p * a <= b * p
<1>1. PICK d \in Nat : b = a + d
  BY b - a \in Nat /\ b = a + (b - a)
<1>2. p * d \in Nat
  OBVIOUS
<1>3. p * b = a * p + p * d
  BY <1>1
<1>4. a * p \in Int /\ p * b = b * p /\ p * a = a * p
  OBVIOUS
<1> QED
  BY <1>2, <1>3, <1>4

\* A weighted average lies between the bounds of what it averages.
LEMMA AverageBetweenBounds ==
  ASSUME NEW scenarios \in Scenarios,
         \A s \in Scenario : ~scenarios[s].there => scenarios[s].probability = 0,
         NEW lo \in Int, NEW hi \in Int,
         \A s \in Scenario : scenarios[s].there =>
           lo <= scenarios[s].projectedValue /\ scenarios[s].projectedValue <= hi
  PROVE  lo * Weight(scenarios) <= Value(scenarios) /\ Value(scenarios) <= hi * Weight(scenarios)
<1> DEFINE p == Parts(scenarios)
           v == Shares(scenarios)
           low == [s \in Scenario |-> lo * p[s]]
           high == [s \in Scenario |-> hi * p[s]]
<1>1. ASSUME NEW s \in Scenario
      PROVE  /\ p[s] \in Nat /\ p[s] \in Int /\ v[s] \in Int /\ low[s] \in Int /\ high[s] \in Int
             /\ low[s] = lo * p[s] /\ high[s] = hi * p[s]
             /\ low[s] <= v[s] /\ v[s] <= high[s]
  <2> DEFINE q == scenarios[s].probability
             x == scenarios[s].projectedValue
  <2>1. q \in Nat /\ x \in Int
    BY ForecastConstants DEF Scenarios
  <2>2. p[s] = q /\ v[s] = q * x /\ low[s] = lo * q /\ high[s] = hi * q
    BY DEF Parts, Shares
  <2>3. lo * q <= q * x /\ q * x <= hi * q
    <3>1. CASE scenarios[s].there
      BY <2>1, <3>1, WeighedOrder
    <3>2. CASE ~scenarios[s].there
      <4>1. q = 0
        BY <3>2
      <4> HIDE DEF q, x
      <4> QED
        BY <2>1, <4>1
    <3> QED
      BY <3>1, <3>2
  <2> HIDE DEF q, x
  <2>4. q * x \in Int /\ lo * q \in Int /\ hi * q \in Int
    BY <2>1
  <2> QED
    BY <2>1, <2>2, <2>3, <2>4
<1> HIDE DEF p, v, low, high
<1>2. Sum(Scenario, low) = lo * Sum(Scenario, p)
  BY <1>1, ForecastConstants, SumOfMultiples
<1>3. Sum(Scenario, high) = hi * Sum(Scenario, p)
  BY <1>1, ForecastConstants, SumOfMultiples
<1>4. Sum(Scenario, low) <= Sum(Scenario, v)
  BY <1>1, ForecastConstants, SumMonotone
<1>5. Sum(Scenario, v) <= Sum(Scenario, high)
  BY <1>1, ForecastConstants, SumMonotone
<1> QED
  BY <1>2, <1>3, <1>4, <1>5 DEF Weight, Value, p, v

\* In the module's words: its projection lies between the least and the greatest value.
LEMMA ForecastPublished == ForecastIInv => C!PublishedIsCalculated
<1> DEFINE scenarios == forecast.scenarios
           there == {s \in Scenario : scenarios[s].there}
           values == {scenarios[s].projectedValue : s \in there}
           projection == forecast.projection
<1> SUFFICES ASSUME ForecastIInv, forecast.status = "PUBLISHED"
             PROVE  /\ there # {}
                    /\ projection = C!calculate(forecast)
                    /\ \/ projection = [sum |-> forecast.baselineValue, weight |-> 1]
                       \/ /\ C!Min(values) * projection.weight <= projection.sum
                          /\ projection.sum <= C!Max(values) * projection.weight
  BY DEF C!PublishedIsCalculated
<1>1. there # {} /\ projection = C!calculate(forecast)
  BY DEF ForecastIInv
<1>2. /\ scenarios \in Scenarios
      /\ \A s \in Scenario : ~scenarios[s].there => scenarios[s].probability = 0
  BY DEF ForecastIInv, ForecastSnapshot
<1>3. values \in SUBSET Int /\ values # {}
  <2>1. \A s \in Scenario : scenarios[s].projectedValue \in Int
    BY <1>2, ForecastConstants DEF Scenarios
  <2> HIDE DEF scenarios
  <2> QED
    BY <1>1, <2>1
<1>4. IsFiniteSet(values)
  <2>1. IsFiniteSet(there)
    BY ForecastConstants, FS_Subset
  <2> DEFINE f == [s \in there |-> scenarios[s].projectedValue]
  <2>2. f \in Surjection(there, values)
    BY DEF Surjection
  <2> HIDE DEF there, values, f
  <2> QED
    BY <2>1, <2>2, FS_Surjection
<1>5. /\ C!Min(values) \in Int /\ C!Max(values) \in Int
      /\ \A y \in values : C!Min(values) <= y /\ y <= C!Max(values)
  <2> HIDE DEF values
  <2>1. /\ C!Min(values) \in values /\ \A y \in values : C!Min(values) <= y
        /\ C!Max(values) \in values /\ \A y \in values : C!Max(values) >= y
    BY <1>3, <1>4, BoundsExist
  <2> QED
    BY <1>3, <2>1
<1>6. \A s \in Scenario : scenarios[s].there =>
        C!Min(values) <= scenarios[s].projectedValue /\ scenarios[s].projectedValue <= C!Max(values)
  BY <1>5
<1>7. /\ C!Min(values) * Weight(scenarios) <= Value(scenarios)
      /\ Value(scenarios) <= C!Max(values) * Weight(scenarios)
  <2> HIDE DEF values, scenarios
  <2> QED
    BY <1>2, <1>5, <1>6, AverageBetweenBounds
<1>8. \/ projection = [sum |-> forecast.baselineValue, weight |-> 1]
      \/ projection = [sum |-> Value(scenarios), weight |-> Weight(scenarios)]
  BY <1>1, CalculatedFromSums
<1> QED
  <2> HIDE DEF values, there, scenarios, projection
  <2> QED
    BY <1>1, <1>7, <1>8

-----------------------------------------------------------------------------
(* Reading *)

\* What the assumptions say of the constants of readers.
LEMMA ReadingConstants ==
  /\ IsFiniteSet(Id) /\ Id \subseteq Nat \ {0} /\ NoOrganization \notin Tenant
  /\ MaxVersion \in Nat \ {0} /\ MaxLimit \in Nat \ {0}
<1>1. \A T : P!IsFiniteSet(T) <=> IsFiniteSet(T)
  BY DEF P!IsFiniteSet, IsFiniteSet
<1> QED
  BY <1>1, ApplicationAssumption DEF P!ReadingAssumption

Increasing(rows) == \A j, k \in DOMAIN rows : j < k => rows[j] < rows[k]

\* A finite set of integers can be put in order: its greatest element goes last.
LEMMA OrdersExist ==
  ASSUME NEW Q \in SUBSET Int, IsFiniteSet(Q)
  PROVE  \E rows \in [1 .. Cardinality(Q) -> Q] : Increasing(rows)
<1> DEFINE W == {n \in Nat : \A s \in SUBSET Q : Cardinality(s) = n =>
                               \E rows \in [1 .. n -> s] : Increasing(rows)}
<1>0. \A s \in SUBSET Q : IsFiniteSet(s) /\ Cardinality(s) \in Nat
  BY FS_Subset, FS_CardinalityType
<1>1. 0 \in W
  <2> SUFFICES ASSUME NEW s \in SUBSET Q PROVE \E rows \in [1 .. 0 -> s] : Increasing(rows)
    OBVIOUS
  <2>1. <<>> \in [1 .. 0 -> s] /\ DOMAIN <<>> = {}
    OBVIOUS
  <2> QED
    BY <2>1 DEF Increasing
<1>2. ASSUME NEW n \in Nat, n \in W PROVE n + 1 \in W
  <2> SUFFICES ASSUME NEW s \in SUBSET Q, Cardinality(s) = n + 1
               PROVE  \E rows \in [1 .. n + 1 -> s] : Increasing(rows)
    OBVIOUS
  <2>1. s # {}
    BY FS_EmptySet
  <2>2. PICK m \in s : \A y \in s : m >= y
    BY <1>0, <2>1, BoundsExist
  <2>3. s \ {m} \in SUBSET Q /\ Cardinality(s \ {m}) = n
    BY <1>0, <2>2, FS_RemoveElement
  <2>4. PICK rows \in [1 .. n -> s \ {m}] : Increasing(rows)
    BY <1>2, <2>3
  <2> DEFINE more == [k \in 1 .. n + 1 |-> IF k = n + 1 THEN m ELSE rows[k]]
  <2>5. /\ more \in [1 .. n + 1 -> s] /\ more[n + 1] = m
        /\ \A k \in 1 .. n : more[k] = rows[k] /\ rows[k] \in s \ {m}
    BY <2>2, <2>4
  <2> HIDE DEF more
  <2>6. ASSUME NEW j \in 1 .. n + 1, NEW k \in 1 .. n + 1, j < k PROVE more[j] < more[k]
    <3>1. j \in 1 .. n
      BY <2>6
    <3>2. CASE k = n + 1
      <4>1. rows[j] \in s /\ rows[j] # m /\ rows[j] <= m
        BY <2>2, <2>5, <3>1
      <4>2. more[j] = rows[j] /\ more[k] = m /\ rows[j] \in Int /\ m \in Int
        BY <2>5, <3>1, <3>2, <4>1
      <4> QED
        BY <4>1, <4>2
    <3>3. CASE k # n + 1
      <4>1. k \in 1 .. n
        BY <3>3
      <4> QED
        BY <2>4, <2>5, <2>6, <3>1, <4>1 DEF Increasing
    <3> QED
      BY <3>2, <3>3
  <2> QED
    BY <2>5, <2>6 DEF Increasing
<1> HIDE DEF W
<1>3. \A n \in Nat : n \in W
  BY <1>1, <1>2, NaturalsAreReached
<1> QED
  BY <1>0, <1>3 DEF W

\* The rows of a query are all of its ids, in order.
LEMMA RowsOrdered ==
  ASSUME NEW Q \in SUBSET Id
  PROVE  /\ P!Ordered(Q) \in Seq(Q) /\ Increasing(P!Ordered(Q))
         /\ \A v \in Q : \E k \in 1 .. Len(P!Ordered(Q)) : P!Ordered(Q)[k] = v
<1> DEFINE rows == P!Ordered(Q)
           n == Cardinality(Q)
<1>1. \A T : P!Cardinality(T) = Cardinality(T)
  BY DEF P!Cardinality, Cardinality
<1>2. IsFiniteSet(Q) /\ Q \in SUBSET Int /\ n \in Nat
  <2>1. IsFiniteSet(Q)
    BY ReadingConstants, FS_Subset
  <2>2. n \in Nat
    BY <2>1, FS_CardinalityType
  <2> HIDE DEF n
  <2> QED
    BY <2>1, <2>2, ReadingConstants
<1>3. \E r \in [1 .. n -> Q] : Increasing(r)
  BY <1>2, OrdersExist
<1>4. rows \in [1 .. n -> Q] /\ Increasing(rows)
  BY <1>1, <1>3 DEF P!Ordered, Increasing
<1> HIDE DEF rows, n
<1>5. rows \in Seq(Q) /\ Len(rows) = n
  BY <1>2, <1>4
<1>6. IsFiniteSet(1 .. n) /\ Cardinality(1 .. n) = n
  BY <1>2, FS_Interval
<1>7. rows \in Injection(1 .. n, Q)
  <2> SUFFICES ASSUME NEW j \in 1 .. n, NEW k \in 1 .. n, rows[j] = rows[k] PROVE j = k
    BY <1>4 DEF Injection, IsInjective
  <2>1. rows[j] \in Int /\ rows[k] \in Int
    BY <1>2, <1>4
  <2>2. DOMAIN rows = 1 .. n
    BY <1>4
  <2>3. ~(j < k) /\ ~(k < j)
    BY <1>4, <2>1, <2>2 DEF Increasing
  <2> QED
    BY <1>2, <2>3
<1>8. rows \in Surjection(1 .. n, Q)
  BY <1>2, <1>6, <1>7, FS_Injection DEF n
<1> QED
  BY <1>4, <1>5, <1>8 DEF Surjection, rows

\* What a prefix of a sequence has.
LEMMA Prefixes ==
  ASSUME NEW Q, NEW r \in Seq(Q), NEW n \in 0 .. Len(r)
  PROVE  /\ SubSeq(r, 1, n) \in Seq(Q) /\ Len(SubSeq(r, 1, n)) = n
         /\ \A k \in 1 .. n : SubSeq(r, 1, n)[k] = r[k]
  OBVIOUS

LEMMA WholePrefix ==
  ASSUME NEW Q, NEW r \in Seq(Q)
  PROVE  SubSeq(r, 1, Len(r)) = r
  OBVIOUS

\* A sequence over a set is one over a larger set.
LEMMA Widened ==
  ASSUME NEW W, NEW T, W \subseteq T, NEW r \in Seq(W)
  PROVE  r \in Seq(T) /\ DOMAIN r = 1 .. Len(r)
<1>1. r \in [1 .. Len(r) -> W] /\ Len(r) \in Nat
  OBVIOUS
<1>2. r \in [1 .. Len(r) -> T]
  BY <1>1
<1> QED
  BY <1>1, <1>2

\* What a sequence has that is appended to another.
LEMMA Concatenations ==
  ASSUME NEW Q, NEW r \in Seq(Q), NEW s \in Seq(Q)
  PROVE  /\ r \o s \in Seq(Q) /\ Len(r \o s) = Len(r) + Len(s)
         /\ \A k \in 1 .. Len(r) : (r \o s)[k] = r[k]
         /\ \A k \in 1 .. Len(s) : (r \o s)[Len(r) + k] = s[k]
  OBVIOUS

-----------------------------------------------------------------------------

\* What an organization has.
Present(tenant) == {i \in Id : version[i] > 0 /\ holder[i] = tenant}

\* What a page shows of it: all there is after the cursor or, if there is more,
\* all there is up to the next cursor.
PageShows(tenant, after, limit, items, visible) ==
  /\ visible \in Seq(Nat) /\ Increasing(visible)
  /\ \A k \in 1 .. Len(visible) : visible[k] \in Present(tenant) /\ visible[k] > after
  /\ Len(items) <= limit =>
       \A i \in Present(tenant) : i > after => \E k \in 1 .. Len(visible) : visible[k] = i
  /\ Len(items) > limit =>
       /\ P!Last(visible) \in Nat /\ P!Last(visible) > after
       /\ \A k \in 1 .. Len(visible) : visible[k] <= P!Last(visible)
       /\ \A i \in Present(tenant) : i > after /\ i <= P!Last(visible) =>
            \E k \in 1 .. Len(visible) : visible[k] = i
  /\ Len(items) \in Nat

\* What the page shows decides the row that is fetched beyond it.
LEMMA PageComplete ==
  ASSUME NEW tenant \in Tenant, NEW after \in Nat, NEW limit \in Nat \ {0},
         NEW items, items = P!Fetched(tenant, after, limit),
         NEW visible, visible = IF Len(items) > limit THEN SubSeq(items, 1, limit) ELSE items
  PROVE  PageShows(tenant, after, limit, items, visible)
<1> DEFINE ids == {i \in Id : version[i] > 0 /\ holder[i] = tenant /\ i > after}
           rows == P!Ordered(ids)
<1>1. /\ rows \in Seq(ids) /\ Increasing(rows)
      /\ \A v \in ids : \E k \in 1 .. Len(rows) : rows[k] = v
  <2>1. ids \in SUBSET Id
    OBVIOUS
  <2> HIDE DEF ids
  <2> QED
    BY <2>1, RowsOrdered
<1>2. items = SubSeq(rows, 1, IF Len(rows) < limit + 1 THEN Len(rows) ELSE limit + 1)
  BY DEF P!Fetched, P!listStates
<1>3. /\ \A i : i \in ids <=> i \in Present(tenant) /\ i > after
      /\ ids \subseteq Nat
  BY ReadingConstants DEF Present
<1> HIDE DEF ids, rows
<1>4. Len(rows) \in Nat /\ DOMAIN rows = 1 .. Len(rows) /\ \A k \in 1 .. Len(rows) : rows[k] \in ids
  BY <1>1
<1>5. ASSUME NEW n \in 0 .. Len(rows), visible = SubSeq(rows, 1, n)
      PROVE  /\ visible \in Seq(Nat) /\ Increasing(visible) /\ Len(visible) = n
             /\ \A k \in 1 .. n : visible[k] = rows[k]
             /\ \A k \in 1 .. n : visible[k] \in Present(tenant) /\ visible[k] > after
  <2>1. /\ visible \in Seq(ids) /\ Len(visible) = n /\ \A k \in 1 .. n : visible[k] = rows[k]
    BY <1>1, <1>5, Prefixes, ZenonT(60)
  <2>2. visible \in Seq(Nat) /\ DOMAIN visible = 1 .. n
    <3>1. ids \subseteq Nat /\ visible \in Seq(ids) /\ Len(visible) = n
      BY <1>3, <2>1
    <3> QED
      BY <3>1, Widened
  <2>3. Increasing(visible)
    <3> SUFFICES ASSUME NEW j \in 1 .. n, NEW k \in 1 .. n, j < k PROVE visible[j] < visible[k]
      BY <2>2 DEF Increasing
    <3>1. j \in 1 .. Len(rows) /\ k \in 1 .. Len(rows)
      BY <1>4, <1>5
    <3>2. rows[j] < rows[k]
      BY <1>1, <1>4, <3>1 DEF Increasing
    <3> QED
      BY <2>1, <3>2
  <2> QED
    BY <1>3, <1>4, <2>1, <2>2, <2>3
<1>6. CASE Len(rows) <= limit
  <2>0. SubSeq(rows, 1, Len(rows)) = rows
    BY <1>1, WholePrefix
  <2>1. items = rows
    <3>1. Len(rows) < limit + 1
      BY <1>4, <1>6
    <3>2. items = SubSeq(rows, 1, Len(rows))
      BY <1>2, <3>1
    <3> QED
      BY <2>0, <3>2
  <2>2. ~(Len(items) > limit) /\ visible = SubSeq(rows, 1, Len(rows)) /\ Len(rows) \in 0 .. Len(rows)
    BY <1>4, <1>6, <2>0, <2>1
  <2>3. /\ visible \in Seq(Nat) /\ Increasing(visible) /\ Len(visible) = Len(rows)
        /\ \A k \in 1 .. Len(rows) : visible[k] = rows[k]
        /\ \A k \in 1 .. Len(rows) : visible[k] \in Present(tenant) /\ visible[k] > after
    BY <1>5, <2>2
  <2>4. \A i \in Present(tenant) : i > after => \E k \in 1 .. Len(visible) : visible[k] = i
    BY <1>1, <1>3, <2>3
  <2> QED
    BY <1>4, <2>1, <2>2, <2>3, <2>4 DEF PageShows
<1>7. CASE Len(rows) > limit
  <2>1. limit + 1 \in 0 .. Len(rows) /\ limit \in 0 .. Len(rows) /\ limit \in 0 .. limit + 1
    BY <1>4, <1>7
  <2>2. items = SubSeq(rows, 1, limit + 1)
    BY <1>2, <1>4, <1>7
  <2>3. items \in Seq(ids) /\ Len(items) = limit + 1 /\ \A k \in 1 .. limit + 1 : items[k] = rows[k]
    BY <1>1, <2>1, <2>2, Prefixes
  <2>4. Len(items) > limit /\ visible = SubSeq(items, 1, limit)
    BY <2>3
  <2>5. visible = SubSeq(rows, 1, limit)
    <3>1. /\ visible \in Seq(ids) /\ Len(visible) = limit /\ \A k \in 1 .. limit : visible[k] = items[k]
      BY <2>1, <2>3, <2>4, Prefixes
    <3>2. /\ SubSeq(rows, 1, limit) \in Seq(ids) /\ Len(SubSeq(rows, 1, limit)) = limit
          /\ \A k \in 1 .. limit : SubSeq(rows, 1, limit)[k] = rows[k]
      BY <1>1, <2>1, Prefixes
    <3>3. ASSUME NEW k \in 1 .. limit PROVE visible[k] = SubSeq(rows, 1, limit)[k]
      <4>1. k \in 1 .. limit + 1
        OBVIOUS
      <4> QED
        BY <2>3, <3>1, <3>2, <4>1
    <3> QED
      BY <3>1, <3>2, <3>3
  <2>6. /\ visible \in Seq(Nat) /\ Increasing(visible) /\ Len(visible) = limit
        /\ \A k \in 1 .. limit : visible[k] = rows[k]
        /\ \A k \in 1 .. limit : visible[k] \in Present(tenant) /\ visible[k] > after
    BY <1>5, <2>1, <2>5
  <2>7. P!Last(visible) = rows[limit] /\ limit \in 1 .. limit /\ limit \in 1 .. Len(rows)
    BY <1>4, <1>7, <2>6 DEF P!Last
  <2>8. rows[limit] \in Nat /\ rows[limit] > after
    BY <1>3, <1>4, <2>7
  <2>9. \A k \in 1 .. limit : rows[k] <= rows[limit]
    <3> SUFFICES ASSUME NEW k \in 1 .. limit PROVE rows[k] <= rows[limit]
      OBVIOUS
    <3>1. k \in 1 .. Len(rows)
      BY <1>4, <1>7
    <3>0. rows[k] \in Nat
      BY <1>3, <1>4, <3>1
    <3>2. k = limit \/ k < limit
      OBVIOUS
    <3> QED
      BY <1>1, <1>4, <2>7, <2>8, <3>0, <3>1, <3>2, SMTT(20) DEF Increasing
  <2>10. ASSUME NEW i \in Present(tenant), i > after, i <= rows[limit]
         PROVE  \E k \in 1 .. limit : visible[k] = i
    <3>1. PICK k \in 1 .. Len(rows) : rows[k] = i
      BY <1>1, <1>3, <2>10
    <3>2. k <= limit
      <4>1. rows[k] \in Nat
        BY <1>3, <1>4
      <4>2. ~(limit < k)
        BY <1>1, <1>4, <2>7, <2>8, <2>10, <3>1, <4>1, SMTT(20) DEF Increasing
      <4> QED
        BY <1>4, <4>2
    <3>3. k \in 1 .. limit
      BY <3>2
    <3> QED
      BY <2>6, <3>1, <3>3
  <2> QED
    BY <2>3, <2>6, <2>7, <2>8, <2>9, <2>10 DEF PageShows
<1> QED
  BY <1>4, <1>6, <1>7

-----------------------------------------------------------------------------

CollectionWalk ==
  [kind: {"collection"}, tenant: Tenant, limit: P!Limit, after: Nat, items: Seq(Nat),
   done: BOOLEAN, start: SUBSET Id]

HistoryWalk ==
  [kind: {"history"}, tenant: Tenant, limit: P!Limit, after: Nat, items: Seq(Nat),
   done: BOOLEAN, id: Id, start: Nat]

\* The client has been shown what its organization has, in order, and up to its
\* cursor nothing was left out of what there was at the start.
Shown(tenant, items, after, done, start, present) ==
  /\ Increasing(items)
  /\ \A j \in 1 .. Len(items) : items[j] \in present
  /\ start \subseteq present
  /\ ~done => \A j \in 1 .. Len(items) : items[j] <= after
  /\ \A i \in start : done \/ i <= after => \E j \in 1 .. Len(items) : items[j] = i

ReadingIInv ==
  /\ holder \in [Id -> Tenant \cup {NoOrganization}]
  /\ version \in [Id -> 0 .. MaxVersion]
  /\ \/ walk = P!Idle
     \/ /\ walk \in CollectionWalk
        /\ Shown(walk.tenant, walk.items, walk.after, walk.done, walk.start, Present(walk.tenant))
     \/ /\ walk \in HistoryWalk
        /\ walk.start <= version[walk.id] /\ walk.after = Len(walk.items)
        /\ Len(walk.items) <= version[walk.id]
        /\ \A j \in 1 .. Len(walk.items) : walk.items[j] = j
        /\ walk.done => Len(walk.items) >= walk.start

\* The lesser of two numbers.
LEMMA LeastOfTwo ==
  ASSUME NEW a \in Int, NEW b \in Int
  PROVE  P!Min({a, b}) = IF a <= b THEN a ELSE b
<1>1. \A m \in {a, b} : (\A y \in {a, b} : m <= y) => m = IF a <= b THEN a ELSE b
  OBVIOUS
<1>2. \E m \in {a, b} : \A y \in {a, b} : m <= y
  OBVIOUS
<1> QED
  BY <1>1, <1>2 DEF P!Min

\* Ids that come later than the cursor are still to be shown; those before it were.
LEMMA ReadingInductive ==
  /\ P!Init => ReadingIInv
  /\ ReadingIInv /\ [Next]_vars => ReadingIInv'
<1>0. /\ Id \subseteq Nat \ {0} /\ NoOrganization \notin Tenant
      /\ MaxVersion \in Nat \ {0} /\ MaxLimit \in Nat \ {0}
  BY ReadingConstants
<1>l. P!Limit \subseteq Nat \ {0}
  BY <1>0 DEF P!Limit
<1>1. P!Init => ReadingIInv
  BY <1>0 DEF P!Init, ReadingIInv
<1>2. ASSUME ReadingIInv, [Next]_vars PROVE ReadingIInv'
  <2>t. holder \in [Id -> Tenant \cup {NoOrganization}] /\ version \in [Id -> 0 .. MaxVersion]
    BY <1>2 DEF ReadingIInv
  <2>0. [P!Next]_<<holder, version, walk>>
    BY <1>2, ReadingSteps
  <2>1. CASE UNCHANGED <<holder, version, walk>>
    BY <1>2, <2>1 DEF ReadingIInv, Present
  \* Commands only add to what organizations have.
  <2>g. ASSUME holder' \in [Id -> Tenant \cup {NoOrganization}], version' \in [Id -> 0 .. MaxVersion],
               \A i \in Id : version[i] <= version'[i] /\ (version[i] > 0 => holder'[i] = holder[i]),
               walk' = walk
        PROVE  ReadingIInv'
    <3>1. CASE walk = P!Idle
      BY <2>g, <3>1 DEF ReadingIInv
    <3>2. CASE /\ walk \in CollectionWalk
               /\ Shown(walk.tenant, walk.items, walk.after, walk.done, walk.start, Present(walk.tenant))
      <4>1. Present(walk.tenant) \subseteq {i \in Id : version'[i] > 0 /\ holder'[i] = walk.tenant}
        <5> SUFFICES ASSUME NEW i \in Id, version[i] > 0, holder[i] = walk.tenant
                     PROVE  version'[i] > 0 /\ holder'[i] = walk.tenant
          BY DEF Present
        <5>1. version[i] <= version'[i] /\ version[i] \in Int /\ version'[i] \in Int
          BY <1>0, <2>g, <2>t
        <5> QED
          BY <2>g, <5>1
      <4>2. Shown(walk.tenant, walk.items, walk.after, walk.done, walk.start,
                  {i \in Id : version'[i] > 0 /\ holder'[i] = walk.tenant})
        BY <3>2, <4>1 DEF Shown
      <4> QED
        BY <2>g, <3>2, <4>2 DEF ReadingIInv, Present
    <3>3. CASE /\ walk \in HistoryWalk
               /\ walk.start <= version[walk.id] /\ walk.after = Len(walk.items)
               /\ Len(walk.items) <= version[walk.id]
               /\ \A j \in 1 .. Len(walk.items) : walk.items[j] = j
               /\ walk.done => Len(walk.items) >= walk.start
      <4>1. walk.id \in Id /\ walk.start \in Nat /\ Len(walk.items) \in Nat
        BY <3>3 DEF HistoryWalk
      <4>2. version[walk.id] \in Int /\ version'[walk.id] \in Int /\ version[walk.id] <= version'[walk.id]
        BY <1>0, <2>g, <2>t, <4>1, SMTT(20)
      <4>3. walk.start <= version'[walk.id] /\ Len(walk.items) <= version'[walk.id]
        BY <3>3, <4>1, <4>2, SMTT(20)
      <4> QED
        BY <2>g, <3>3, <4>3, SMTT(20) DEF ReadingIInv
    <3> QED
      BY <1>2, <3>1, <3>2, <3>3 DEF ReadingIInv
  <2>2. ASSUME NEW i \in Id, NEW tenant \in Tenant, P!Create(i, tenant) PROVE ReadingIInv'
    <3>1. /\ version[i] = 0 /\ holder' = [holder EXCEPT ![i] = tenant]
          /\ version' = [version EXCEPT ![i] = 1] /\ walk' = walk
      BY <2>2 DEF P!Create
    <3>2. 1 \in 0 .. MaxVersion
      BY <1>0
    <3> QED
      BY <1>0, <2>g, <2>t, <3>1, <3>2
  <2>3. ASSUME NEW i \in Id, P!Change(i) PROVE ReadingIInv'
    <3>1. /\ version[i] \in 1 .. MaxVersion - 1 /\ version' = [version EXCEPT ![i] = @ + 1]
          /\ holder' = holder /\ walk' = walk
      BY <2>3 DEF P!Change
    <3>2. version[i] + 1 \in 0 .. MaxVersion
      BY <1>0, <3>1
    <3> QED
      BY <1>0, <2>g, <2>t, <3>1, <3>2
  <2>4. ASSUME NEW tenant \in Tenant, NEW limit \in P!Limit, P!BeginCollection(tenant, limit)
        PROVE  ReadingIInv'
    <3>1. /\ walk' = [kind |-> "collection", tenant |-> tenant, limit |-> limit, after |-> 0,
                      items |-> <<>>, done |-> FALSE, start |-> Present(tenant)]
          /\ holder' = holder /\ version' = version
      BY <2>4 DEF P!BeginCollection, Present
    <3>2. <<>> \in Seq(Nat) /\ Len(<<>>) = 0 /\ DOMAIN <<>> = {} /\ Present(tenant) \in SUBSET Id
      BY DEF Present
    <3>3. walk' \in CollectionWalk
      BY <3>1, <3>2 DEF CollectionWalk
    <3>4. \A i \in Present(tenant) : ~(i <= 0)
      BY <1>0 DEF Present
    <3>5. Shown(tenant, <<>>, 0, FALSE, Present(tenant), Present(tenant))
      <4>1. 1 .. Len(<<>>) = {} /\ Increasing(<<>>)
        BY <3>2 DEF Increasing
      <4> QED
        BY <3>4, <4>1 DEF Shown
    <3>6. {i \in Id : version'[i] > 0 /\ holder'[i] = tenant} = Present(tenant)
      BY <3>1 DEF Present
    <3>7. /\ walk'.tenant = tenant /\ walk'.items = <<>> /\ walk'.after = 0
          /\ walk'.done = FALSE /\ walk'.start = Present(tenant)
      BY <3>1
    <3> QED
      BY <2>t, <3>1, <3>3, <3>5, <3>6, <3>7 DEF ReadingIInv, Present
  <2>5. ASSUME NEW tenant \in Tenant, NEW i \in Id, NEW limit \in P!Limit, P!BeginHistory(tenant, i, limit)
        PROVE  ReadingIInv'
    <3>1. /\ walk' = [kind |-> "history", tenant |-> tenant, limit |-> limit, after |-> 0,
                      items |-> <<>>, done |-> FALSE, id |-> i, start |-> version[i]]
          /\ holder' = holder /\ version' = version
      BY <2>5 DEF P!BeginHistory
    <3>2. <<>> \in Seq(Nat) /\ Len(<<>>) = 0 /\ version[i] \in Nat
      BY <1>0, <2>t
    <3>3. /\ walk' \in HistoryWalk /\ walk'.start = version[i] /\ walk'.id = i
          /\ walk'.after = 0 /\ walk'.items = <<>> /\ walk'.done = FALSE
      BY <3>1, <3>2 DEF HistoryWalk
    <3>4. 1 .. Len(<<>>) = {} /\ 0 <= version[i] /\ version[i] <= version[i]
      BY <3>2
    <3> QED
      BY <2>t, <3>1, <3>2, <3>3, <3>4 DEF ReadingIInv
  <2>6. CASE P!NextPage
    <3> DEFINE items == P!Fetched(walk.tenant, walk.after, walk.limit)
               hasMore == Len(items) > walk.limit
               visible == IF hasMore THEN SubSeq(items, 1, walk.limit) ELSE items
               after == IF hasMore THEN P!Last(visible) ELSE walk.after
               present == Present(walk.tenant)
               all == walk.items \o visible
    <3>1. /\ walk.kind = "collection" /\ ~walk.done
          /\ walk' = [walk EXCEPT !.items = all, !.done = ~hasMore, !.after = after]
          /\ holder' = holder /\ version' = version
      BY <2>6 DEF P!NextPage
    <3>2. /\ walk \in CollectionWalk
          /\ Shown(walk.tenant, walk.items, walk.after, walk.done, walk.start, present)
      BY <1>2, <3>1 DEF ReadingIInv, P!Idle, HistoryWalk
    <3>3. /\ walk.tenant \in Tenant /\ walk.after \in Nat /\ walk.limit \in Nat \ {0}
          /\ walk.items \in Seq(Nat) /\ walk.start \in SUBSET Id
      BY <1>l, <3>2 DEF CollectionWalk
    <3>4. /\ visible \in Seq(Nat) /\ Increasing(visible)
          /\ \A k \in 1 .. Len(visible) : visible[k] \in present /\ visible[k] > walk.after
          /\ Len(items) <= walk.limit =>
               \A i \in present : i > walk.after => \E k \in 1 .. Len(visible) : visible[k] = i
          /\ Len(items) > walk.limit =>
               /\ P!Last(visible) \in Nat /\ P!Last(visible) > walk.after
               /\ \A k \in 1 .. Len(visible) : visible[k] <= P!Last(visible)
               /\ \A i \in present : i > walk.after /\ i <= P!Last(visible) =>
                    \E k \in 1 .. Len(visible) : visible[k] = i
          /\ Len(items) \in Nat
      <4> HIDE DEF items, visible, present
      <4>1. /\ items = P!Fetched(walk.tenant, walk.after, walk.limit)
            /\ visible = IF Len(items) > walk.limit THEN SubSeq(items, 1, walk.limit) ELSE items
            /\ present = Present(walk.tenant)
        BY DEF items, visible, present
      <4>2. PageShows(walk.tenant, walk.after, walk.limit, items, visible)
        BY <3>3, <4>1, PageComplete
      <4> QED
        BY <4>1, <4>2 DEF PageShows
    <3>5. hasMore <=> ~(Len(items) <= walk.limit)
      BY <3>3, <3>4
    <3>6. /\ hasMore => after = P!Last(visible)
          /\ ~hasMore => after = walk.after
      OBVIOUS
    <3>7. (hasMore <=> Len(items) > walk.limit) /\ all = walk.items \o visible
          /\ present = Present(walk.tenant)
      OBVIOUS
    <3> HIDE DEF items, visible, hasMore, after, all, present
    <3>8. after \in Nat
      BY <3>3, <3>4, <3>6, <3>7
    <3>9. /\ all \in Seq(Nat) /\ Len(all) = Len(walk.items) + Len(visible)
          /\ \A k \in 1 .. Len(walk.items) : all[k] = walk.items[k]
          /\ \A k \in 1 .. Len(visible) : all[Len(walk.items) + k] = visible[k]
      BY <3>3, <3>4, <3>7, Concatenations
    <3>10. Len(walk.items) \in Nat /\ Len(visible) \in Nat /\ DOMAIN all = 1 .. Len(all)
      BY <3>3, <3>4, <3>9
    <3>11. /\ walk' \in CollectionWalk /\ walk'.tenant = walk.tenant /\ walk'.items = all
           /\ walk'.after = after /\ walk'.done = ~hasMore /\ walk'.start = walk.start
      BY <3>1, <3>2, <3>8, <3>9 DEF CollectionWalk
    <3>12. ASSUME NEW k \in 1 .. Len(all)
           PROVE  \/ k \in 1 .. Len(walk.items) /\ all[k] = walk.items[k]
                  \/ /\ k - Len(walk.items) \in 1 .. Len(visible)
                     /\ all[k] = visible[k - Len(walk.items)]
      <4>1. k \in Nat /\ (k \in 1 .. Len(walk.items) \/ k - Len(walk.items) \in 1 .. Len(visible))
        BY <3>9, <3>10
      <4>2. CASE k \in 1 .. Len(walk.items)
        BY <3>9, <4>2
      <4>3. CASE k - Len(walk.items) \in 1 .. Len(visible)
        <5>1. k = Len(walk.items) + (k - Len(walk.items))
          BY <3>10, <4>1
        <5> QED
          BY <3>9, <4>3, <5>1
      <4> QED
        BY <4>1, <4>2, <4>3
    <3>13. /\ \A j \in 1 .. Len(walk.items) : walk.items[j] \in Nat /\ walk.items[j] <= walk.after
           /\ \A j \in 1 .. Len(visible) : visible[j] \in Nat
      BY <3>1, <3>2, <3>3, <3>4 DEF Shown
    <3>14. Increasing(all)
      <4> SUFFICES ASSUME NEW j \in 1 .. Len(all), NEW k \in 1 .. Len(all), j < k PROVE all[j] < all[k]
        BY <3>10 DEF Increasing
      <4>1. CASE j \in 1 .. Len(walk.items) /\ k \in 1 .. Len(walk.items)
        <5>1. Increasing(walk.items) /\ DOMAIN walk.items = 1 .. Len(walk.items)
          BY <3>2, <3>3 DEF Shown
        <5>2. walk.items[j] < walk.items[k]
          BY <4>1, <5>1 DEF Increasing
        <5> QED
          BY <3>9, <4>1, <5>2
      <4>2. CASE j \in 1 .. Len(walk.items) /\ k \notin 1 .. Len(walk.items)
        <5>1. all[j] \in Nat /\ all[j] <= walk.after
          BY <3>9, <3>13, <4>2
        <5>2. all[k] \in Nat /\ all[k] > walk.after
          BY <3>4, <3>12, <3>13, <4>2
        <5> QED
          BY <3>3, <5>1, <5>2
      <4>3. CASE j \notin 1 .. Len(walk.items)
        <5>1. /\ j - Len(walk.items) \in 1 .. Len(visible) /\ all[j] = visible[j - Len(walk.items)]
          BY <3>12, <4>3
        <5>2. k \notin 1 .. Len(walk.items)
          BY <3>10, <4>3
        <5>3. /\ k - Len(walk.items) \in 1 .. Len(visible) /\ all[k] = visible[k - Len(walk.items)]
          BY <3>12, <5>2
        <5>4. j - Len(walk.items) < k - Len(walk.items) /\ DOMAIN visible = 1 .. Len(visible)
          BY <3>4, <3>10
        <5> QED
          BY <3>4, <5>1, <5>3, <5>4 DEF Increasing
      <4> QED
        BY <4>1, <4>2, <4>3
    <3>15. \A k \in 1 .. Len(all) : all[k] \in present
      BY <3>2, <3>4, <3>12 DEF Shown
    <3>16. ASSUME hasMore PROVE \A k \in 1 .. Len(all) : all[k] <= after
      <4>1. after \in Nat /\ after > walk.after /\ \A k \in 1 .. Len(visible) : visible[k] <= after
        BY <3>4, <3>6, <3>7, <3>16
      <4>2. \A k \in 1 .. Len(walk.items) : walk.items[k] <= after
        BY <3>3, <3>13, <4>1
      <4> QED
        BY <3>12, <4>1, <4>2
    <3>17. ASSUME NEW i \in walk.start, ~hasMore \/ i <= after
           PROVE  \E k \in 1 .. Len(all) : all[k] = i
      <4>0. i \in Nat /\ i \in present
        BY <1>0, <3>2, <3>3 DEF Shown
      <4>1. CASE i <= walk.after
        <5>1. PICK k \in 1 .. Len(walk.items) : walk.items[k] = i
          BY <3>2, <4>1 DEF Shown
        <5>2. k \in 1 .. Len(all)
          BY <3>9, <3>10
        <5> QED
          BY <3>9, <5>1, <5>2
      <4>2. CASE i > walk.after
        <5>1. PICK k \in 1 .. Len(visible) : visible[k] = i
          BY <3>4, <3>5, <3>6, <3>7, <3>17, <4>0, <4>2
        <5>2. Len(walk.items) + k \in 1 .. Len(all)
          BY <3>9, <3>10
        <5> QED
          BY <3>9, <5>1, <5>2
      <4> QED
        BY <3>3, <4>0, <4>1, <4>2
    <3>18. Shown(walk.tenant, all, after, ~hasMore, walk.start, present)
      BY <3>2, <3>14, <3>15, <3>16, <3>17 DEF Shown
    <3>19. {i \in Id : version'[i] > 0 /\ holder'[i] = walk'.tenant} = present
      BY <3>1, <3>7, <3>11 DEF Present
    <3> QED
      BY <2>t, <3>1, <3>11, <3>18, <3>19 DEF ReadingIInv, Present
  <2>7. CASE P!NextEvents
    <3> DEFINE v == version[walk.id]
               items == P!getEvents(walk.id, walk.after, walk.limit)
               n == P!Min({walk.limit, v - walk.after})
               after == IF items = <<>> THEN walk.after ELSE P!Last(items)
               all == walk.items \o items
    <3>1. /\ walk.kind = "history" /\ ~walk.done
          /\ walk' = [walk EXCEPT !.items = all, !.done = Len(items) < walk.limit, !.after = after]
          /\ holder' = holder /\ version' = version
      BY <2>7 DEF P!NextEvents
    <3>2. /\ walk \in HistoryWalk /\ walk.start <= v /\ walk.after = Len(walk.items)
          /\ Len(walk.items) <= v /\ \A j \in 1 .. Len(walk.items) : walk.items[j] = j
      BY <1>2, <3>1 DEF ReadingIInv, P!Idle, CollectionWalk
    <3>3. /\ walk.limit \in Nat \ {0} /\ walk.items \in Seq(Nat) /\ walk.id \in Id
          /\ walk.start \in Nat /\ Len(walk.items) \in Nat
      BY <1>l, <3>2 DEF HistoryWalk
    <3>4. v \in Nat /\ v - walk.after \in Nat
      <4>1. v \in 0 .. MaxVersion
        BY <2>t, <3>3
      <4> HIDE DEF v
      <4>2. v \in Nat
        BY <1>0, <4>1
      <4> QED
        BY <3>2, <3>3, <4>2
    <3>5. n = IF walk.limit <= v - walk.after THEN walk.limit ELSE v - walk.after
      BY <3>3, <3>4, LeastOfTwo
    <3>6. items = [k \in 1 .. n |-> walk.after + k]
      BY DEF P!getEvents
    <3>a. all = walk.items \o items
      OBVIOUS
    <3> HIDE DEF n, v, all
    <3>7. n \in Nat /\ (n < walk.limit => n = v - walk.after) /\ Len(walk.items) + n <= v
      BY <3>2, <3>3, <3>4, <3>5
    <3>8. items \in Seq(Nat) /\ Len(items) = n /\ \A k \in 1 .. n : items[k] = walk.after + k
      BY <3>2, <3>3, <3>6, <3>7
    <3>9. after = Len(walk.items) + n
      <4>1. CASE n = 0
        <5>1. items = <<>>
          BY <3>8, <4>1
        <5> QED
          BY <3>2, <3>3, <4>1, <5>1
      <4>2. CASE n # 0
        <5>1. items # <<>> /\ P!Last(items) = walk.after + n
          BY <3>7, <3>8, <4>2 DEF P!Last
        <5> QED
          BY <3>2, <5>1
      <4> QED
        BY <4>1, <4>2
    <3> HIDE DEF items, after
    <3>10. /\ all \in Seq(Nat) /\ Len(all) = Len(walk.items) + n
           /\ \A k \in 1 .. Len(walk.items) : all[k] = walk.items[k]
           /\ \A k \in 1 .. n : all[Len(walk.items) + k] = items[k]
      <4>1. /\ walk.items \o items \in Seq(Nat) /\ Len(walk.items \o items) = Len(walk.items) + Len(items)
            /\ \A k \in 1 .. Len(walk.items) : (walk.items \o items)[k] = walk.items[k]
            /\ \A k \in 1 .. Len(items) : (walk.items \o items)[Len(walk.items) + k] = items[k]
        <5>1. walk.items \in Seq(Nat) /\ items \in Seq(Nat)
          BY <3>3, <3>8
        <5> QED
          BY <5>1, Concatenations
      <4> QED
        BY <3>8, <3>a, <4>1
    <3>11. ASSUME NEW j \in 1 .. Len(all) PROVE all[j] = j
      <4>1. CASE j \in 1 .. Len(walk.items)
        BY <3>2, <3>10, <4>1
      <4>2. CASE j \notin 1 .. Len(walk.items)
        <5>1. j - Len(walk.items) \in 1 .. n /\ j = Len(walk.items) + (j - Len(walk.items))
          BY <3>3, <3>7, <3>10, <4>2
        <5>2. all[j] = walk.after + (j - Len(walk.items))
          BY <3>8, <3>10, <5>1
        <5> QED
          BY <3>2, <3>3, <5>1, <5>2
      <4> QED
        BY <4>1, <4>2
    <3>12. after \in Nat
      BY <3>3, <3>7, <3>9
    <3>13. /\ walk' \in HistoryWalk /\ walk'.id = walk.id /\ walk'.items = all
           /\ walk'.after = after /\ walk'.start = walk.start
           /\ walk'.done = (Len(items) < walk.limit)
      <4> DEFINE short == Len(items) < walk.limit
      <4>1. short \in BOOLEAN /\ walk' = [walk EXCEPT !.items = all, !.done = short, !.after = after]
        BY <3>1
      <4> HIDE DEF short
      <4>2. /\ walk' \in HistoryWalk /\ walk'.id = walk.id /\ walk'.items = all
            /\ walk'.after = after /\ walk'.start = walk.start /\ walk'.done = short
        BY <3>2, <3>10, <3>12, <4>1 DEF HistoryWalk
      <4> QED
        BY <4>2 DEF short
    <3>14. Len(items) < walk.limit => Len(all) >= walk.start
      BY <3>2, <3>3, <3>4, <3>7, <3>8, <3>10
    <3>15. version'[walk'.id] = v
      BY <3>1, <3>13 DEF v
    <3> QED
      BY <2>t, <3>1, <3>2, <3>7, <3>9, <3>10, <3>11, <3>13, <3>14, <3>15 DEF ReadingIInv
  <2>8. CASE P!Finish
    BY <2>8, <2>t DEF P!Finish, ReadingIInv
  <2> QED
    BY <2>0, <2>1, <2>2, <2>3, <2>4, <2>5, <2>6, <2>7, <2>8 DEF P!Next
<1> QED
  BY <1>1, <1>2

\* In the module's words.
LEMMA ReadingShowsAll == ReadingIInv => P!TypeOK /\ P!ReadsComplete
<1> SUFFICES ASSUME ReadingIInv PROVE P!TypeOK /\ P!ReadsComplete
  OBVIOUS
<1>1. CASE walk = P!Idle
  BY <1>1 DEF ReadingIInv, P!Idle, P!TypeOK, P!ReadsComplete
<1>2. CASE /\ walk \in CollectionWalk
           /\ Shown(walk.tenant, walk.items, walk.after, walk.done, walk.start, Present(walk.tenant))
  <2>1. P!TypeOK
    BY <1>2 DEF ReadingIInv, CollectionWalk, P!TypeOK
  <2>2. walk.kind = "collection" /\ walk.items \in Seq(Nat) /\ DOMAIN walk.items = 1 .. Len(walk.items)
    BY <1>2 DEF CollectionWalk
  <2>3. \A j, k \in DOMAIN walk.items : j < k => walk.items[j] < walk.items[k]
    BY <1>2 DEF Shown, Increasing
  <2>4. \A j \in DOMAIN walk.items : holder[walk.items[j]] = walk.tenant
    BY <1>2, <2>2 DEF Shown, Present
  <2>5. walk.done => walk.start \subseteq P!ToSet(walk.items)
    BY <1>2, <2>2 DEF Shown, P!ToSet
  <2> QED
    BY <2>1, <2>2, <2>3, <2>4, <2>5 DEF P!ReadsComplete
<1>3. CASE /\ walk \in HistoryWalk
           /\ walk.start <= version[walk.id] /\ walk.after = Len(walk.items)
           /\ Len(walk.items) <= version[walk.id]
           /\ \A j \in 1 .. Len(walk.items) : walk.items[j] = j
           /\ walk.done => Len(walk.items) >= walk.start
  <2>1. P!TypeOK
    BY <1>3 DEF ReadingIInv, HistoryWalk, P!TypeOK
  <2>2. walk.kind = "history" /\ DOMAIN walk.items = 1 .. Len(walk.items)
    BY <1>3 DEF HistoryWalk
  <2> QED
    BY <1>3, <2>1, <2>2 DEF P!ReadsComplete
<1> QED
  BY <1>1, <1>2, <1>3 DEF ReadingIInv

-----------------------------------------------------------------------------
(* Of the whole application *)

IInv ==
  /\ OrganizationIInv /\ ReportingIInv /\ FileIInv /\ ApprovalIInv /\ SynchronizationIInv
  /\ ContextLinkIInv /\ IdentityIInv /\ GatewayIInv /\ ServerIInv /\ ReadingIInv /\ AuditIInv
  /\ PolicyIInv /\ AutomationIInv /\ ForecastIInv /\ MeetingIInv /\ ConversationIInv
  /\ NotificationIInv /\ CapacityIInv

\* Every part begins in its invariant.
LEMMA InvariantInit == Init => IInv
  BY OrganizationInductive, ReportingInductive, FileInductive, ApprovalInductive,
     SynchronizationInductive, ContextLinkInductive, IdentityInductive, GatewayInductive,
     ServerInductive, ReadingInductive, AuditInductive, PolicyInductive, AutomationInductive,
     ForecastInductive, MeetingInductive, ConversationInductive, NotificationInductive,
     CapacityInductive
  DEF Init, IInv

\* Every step is a step of one part at most, so every part keeps its invariant.
LEMMA InvariantStep == IInv /\ [Next]_vars => IInv'
  BY OrganizationInductive, ReportingInductive, FileInductive, ApprovalInductive,
     SynchronizationInductive, ContextLinkInductive, IdentityInductive, GatewayInductive,
     ServerInductive, ReadingInductive, AuditInductive, PolicyInductive, AutomationInductive,
     ForecastInductive, MeetingInductive, ConversationInductive, NotificationInductive,
     CapacityInductive
  DEF IInv

\* The inductive invariant of the whole application.
LEMMA Inductive == Spec => []IInv
  BY InvariantInit, InvariantStep, PTL DEF Spec

\* In what is stored and in flight, every part keeps to the values that the code
\* can produce.
THEOREM PartsAreTyped == Spec => []TypeOK
<1>1. IInv => TypeOK
  <2> SUFFICES ASSUME IInv PROVE TypeOK
    OBVIOUS
  <2>1. O!TypeOK /\ R!TypeOK /\ A!TypeOK /\ S!TypeOK /\ L!TypeOK /\ I!TypeOK
    BY DEF IInv, OrganizationIInv, ReportingIInv, ApprovalIInv, SynchronizationIInv,
           ContextLinkIInv, IdentityIInv
  <2>2. G!TypeOK /\ V!TypeOK /\ Y!TypeOK /\ U!TypeOK /\ M!TypeOK /\ B!TypeOK /\ N!TypeOK /\ F!TypeOK
    BY DEF IInv, GatewayIInv, ServerIInv, PolicyIInv, AutomationIInv, MeetingIInv,
           ConversationIInv, NotificationIInv, FileIInv
  <2>3. P!TypeOK /\ D!TypeOK /\ C!TypeOK /\ K!TypeOK
    BY ReadingShowsAll, AuditTyped, ForecastTyped, CapacityTotalsFollow DEF IInv
  <2> QED
    BY <2>1, <2>2, <2>3 DEF TypeOK
<1> QED
  BY <1>1, Inductive, PTL

\* Whatever is added, moved and archived, in any order: teams belong to active
\* departments, and departments form a forest (src/organization).
THEOREM HierarchiesAreSound == Spec => []HierarchySound
<1>1. IInv => HierarchySound
  BY DEF IInv, OrganizationIInv, HierarchySound
<1> QED
  BY <1>1, Inductive, PTL

\* A report under review holds the evidence it was submitted with, through
\* rejections and further submissions, and a sealed ledger the entries that its
\* exports and verifications were made of (src/reporting-evidence, src/audit).
THEOREM EvidenceStays == Spec => []EvidenceHolds
<1>1. IInv => EvidenceHolds
  BY DEF IInv, ReportingIInv, AuditIInv, EvidenceHolds
<1> QED
  BY <1>1, Inductive, PTL

\* An upload is final only with every one of its chunks, their sizes adding up,
\* and a quarantined file gets no new version (src/file).
THEOREM UploadsAreWhole == Spec => []UploadsComplete
<1>1. IInv => UploadsComplete
  BY FileUploadsComplete DEF IInv, UploadsComplete
<1> QED
  BY <1>1, Inductive, PTL

\* The outcome of a gate is the sum of decisions given since it was opened, none
\* of them from before a reversal (src/approval).
THEOREM GatesAreDecided == Spec => []DecisionsAddUp
<1>1. IInv => DecisionsAddUp
  BY DEF IInv, ApprovalIInv, DecisionsAddUp
<1> QED
  BY <1>1, Inductive, PTL

\* The status of a synchronization tells how far its replicas have converged
\* (src/synchronization).
THEOREM StatusTellsConvergence == Spec => []ConvergenceSound
<1>1. IInv => ConvergenceSound
  BY DEF IInv, SynchronizationIInv, ConvergenceSound
<1> QED
  BY <1>1, Inductive, PTL

\* A link joins two objects of its own organization, also when it is stored long
\* after the two were looked up (src/context-link).
THEOREM LinksJoinTheirOwn == Spec => []LinksResolve
<1>1. IInv => LinksResolve
  BY DEF IInv, ContextLinkIInv, Joins, LinksResolve, L!LinksResolve
<1> QED
  BY <1>1, Inductive, PTL

\* No request acts beyond the token it came with, whatever happens to keys, time
\* and revocations while it waits (src/api/application.ts, src/auth).
THEOREM RequestsStayCovered == Spec => []WithinItsToken
<1>1. IInv => WithinItsToken
  BY GatewayWithinItsToken DEF IInv, WithinItsToken
<1> QED
  BY <1>1, Inductive, PTL

\* Databases are closed when the connections and the worker are done with them,
\* and not before (src/mission/server.ts).
THEOREM DatabasesOutliveTheirUsers == Spec => []DatabaseClosedLast
<1>1. IInv => DatabaseClosedLast
  BY DEF IInv, ServerIInv, DatabaseClosedLast
<1> QED
  BY <1>1, Inductive, PTL

\* Whatever is written meanwhile, a finished walk over pages has shown all that
\* was there when it began, each once and in order, and a finished walk over a
\* history every version (src/api/query.ts).
THEOREM WalksShowAll == Spec => []ReadsComplete
<1>1. IInv => ReadsComplete
  BY ReadingShowsAll DEF IInv, ReadsComplete
<1> QED
  BY <1>1, Inductive, PTL

\* Every decision of a policy follows from the version it was taken under, also
\* after later versions were activated (src/policy).
THEOREM DecisionsFollow == Spec => []DecisionsAccountedFor
<1>1. IInv => DecisionsAccountedFor
  BY DEF IInv, PolicyIInv, DecisionsAccountedFor
<1> QED
  BY <1>1, Inductive, PTL

\* A published forecast is what its scenarios compute to, and the totals of a
\* capacity profile and of its snapshots what availability and allocations add up
\* to (src/forecast, src/capacity).
THEOREM FiguresAreComputed == Spec => []FiguresFollow
<1>1. IInv => FiguresFollow
  BY ForecastPublished, CapacityTotalsFollow DEF IInv, FiguresFollow
<1> QED
  BY <1>1, Inductive, PTL

\* Who is on record with a decision, a message, a reaction or an acknowledgement
\* takes part, and what a redaction or a sending has ended does not come back
\* (src/meeting, src/conversation, src/notification).
THEOREM RecordsArePartakers == Spec => []CommunicationHolds
<1>1. IInv => CommunicationHolds
  BY DEF IInv, MeetingIInv, ConversationIInv, NotificationIInv, CommunicationHolds
<1> QED
  BY <1>1, Inductive, PTL

\* No command whose proof dates from before a revocation changes the user after
\* it, not even one that had passed every check by then (src/identity-authority).
THEOREM RevocationsAreFinal == Spec => RevocationIsFinal
<1> DEFINE Change ==
      /\ user.status # "ABSENT" /\ user' # user =>
           \E q \in Request : command[q] # NoCommand /\ command'[q] = NoCommand
                               /\ command[q].epoch = user.authorityEpoch
      /\ user'.authorityEpoch >= user.authorityEpoch
      /\ \A d \in Device : user.devices[d] = "REVOKED" => user'.devices[d] = "REVOKED"
      /\ \A d \in Delegation : user.delegations[d] = "REVOKED" => user'.delegations[d] = "REVOKED"
      /\ user.roles \ user'.roles # {} => user'.authorityEpoch > user.authorityEpoch
<1>1. IInv /\ [Next]_vars => [Change]_<<user, command>>
  <2> SUFFICES ASSUME IdentityIInv, [Next]_vars PROVE [Change]_<<user, command>>
    BY DEF IInv
  <2>0. [I!Next]_<<user, command>>
    BY IdentitySteps
  <2>1. /\ user.authorityEpoch \in 0 .. MaxEpoch /\ MaxEpoch \in Nat
        /\ user.version \in 0 .. MaxVersion /\ MaxVersion \in Nat
        /\ command \in [Request -> [copy: I!UserIdentity, epoch: 0 .. MaxEpoch] \cup {NoCommand}]
    BY ApplicationAssumption DEF IdentityIInv, I!TypeOK, I!UserIdentity, I!IdentityAssumption
  <2>2. CASE user' = user
    BY <2>1, <2>2
  <2>3. ASSUME NEW q \in Request, I!Commit(q) PROVE Change
    <3>1. /\ command[q] # NoCommand /\ user.version = command[q].copy.version - 1
          /\ user' = command[q].copy /\ command'[q] = NoCommand
      BY <2>1, <2>3 DEF I!Commit
    <3>2. command[q].copy \in I!UserIdentity /\ command[q].epoch \in 0 .. MaxEpoch
      BY <2>1, <3>1
    <3>3. command[q].copy.version = user.version + 1
      BY <2>1, <3>1, <3>2 DEF I!UserIdentity
    <3>4. Succeeds(user, user', command[q].epoch)
      BY <3>1, <3>3 DEF IdentityIInv
    <3> QED
      BY <3>1, <3>4 DEF Succeeds
  <2> QED
    BY <2>0, <2>2, <2>3, ZenonT(60) DEF I!Next, I!CreateUser, I!AssignRole, I!RevokeRole, I!RegisterDevice,
       I!RevokeDevice, I!DelegateAuthority, I!RevokeDelegation, I!DisableUser, I!EnableUser,
       I!Proceeds, I!Refuse
<1> QED
  BY <1>1, Inductive, PTL DEF Spec, RevocationIsFinal, I!RevocationIsFinal

\* Receipts of executions are kept in order: an execution stays with the
\* evaluation it came from, its attempts only grow, and a rule that is disabled
\* or archived executes nothing (src/automation).
THEOREM ReceiptsStayInOrder == Spec => ReceiptsInOrder
<1> DEFINE InOrder(before, after) ==
      /\ after.status # "ABSENT" => after.evaluation \in rule'.evaluations
      /\ before.status # "ABSENT" => after.evaluation = before.evaluation
      /\ after.retryAttempt >= before.retryAttempt
      /\ after.status = "FAILED" /\ before # after => after.retryAttempt > before.retryAttempt
      /\ rule.status # "ENABLED" /\ before # after =>
           rule.status = "DISABLED" /\ after.status = "COMPENSATED"
<1>1. IInv /\ [Next]_vars => [\A x \in Execution : InOrder(rule.executions[x], rule'.executions[x])]_rule
  <2> SUFFICES ASSUME AutomationIInv, [Next]_vars, NEW x \in Execution, rule' # rule
               PROVE  InOrder(rule.executions[x], rule'.executions[x])
    BY DEF IInv
  <2>0. U!Next
    BY AutomationSteps
  <2>1. IF rule.executions[x].status = "ABSENT" THEN rule.executions[x].retryAttempt = 0
        ELSE rule.executions[x].evaluation \in rule.evaluations
    BY DEF AutomationIInv
  <2> DEFINE receipt == rule.executions[x]
             after == rule'.executions[x]
  <2>t. /\ rule \in [status: {"ABSENT", "DISABLED", "ENABLED", "ARCHIVED"},
                     lifecycleEpoch: 0 .. MaxEpoch + 1, evaluations: SUBSET Evaluation,
                     executions: [Execution -> [status: {"ABSENT", "EXECUTED", "FAILED", "COMPENSATED"},
                                                evaluation: Evaluation \cup {NoEvaluation},
                                                retryAttempt: 0 .. MaxAttempt]]]
        /\ receipt.retryAttempt \in Nat
    BY DEF AutomationIInv, U!TypeOK
  <2>2. CASE after = receipt /\ rule.evaluations \subseteq rule'.evaluations
    BY <2>1, <2>2, <2>t
  <2>3. CASE U!CreateAutomationRule \/ U!EnableRule \/ U!DisableRule \/ U!ArchiveRule
    BY <2>2, <2>3, <2>t DEF U!CreateAutomationRule, U!EnableRule, U!DisableRule, U!Turns, U!ArchiveRule
  <2>4. ASSUME NEW e \in Evaluation, U!EvaluateRule(e) PROVE InOrder(receipt, after)
    BY <2>2, <2>4, <2>t DEF U!EvaluateRule
  <2>5. ASSUME NEW e \in Evaluation, NEW y \in Execution, U!ExecuteAction(y, e)
        PROVE  InOrder(receipt, after)
    BY <2>1, <2>2, <2>5, <2>t DEF U!ExecuteAction, U!enabled, U!execution
  <2>6. ASSUME NEW y \in Execution, NEW a \in 1 .. MaxAttempt, U!RetryExecution(y, a)
        PROVE  InOrder(receipt, after)
    BY <2>1, <2>2, <2>6, <2>t DEF U!RetryExecution, U!enabled, U!execution
  <2>7. ASSUME NEW y \in Execution, U!CompensateExecution(y) PROVE InOrder(receipt, after)
    BY <2>1, <2>2, <2>7, <2>t DEF U!CompensateExecution, U!Loadable, U!execution
  <2> QED
    BY <2>0, <2>2, <2>3, <2>4, <2>5, <2>6, <2>7 DEF U!Next
<1> QED
  BY <1>1, Inductive, PTL DEF Spec, ReceiptsInOrder, U!ReceiptsInOrder
=============================================================================
