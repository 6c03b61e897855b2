---------------------------- MODULE RolloutProofs ----------------------------
(***************************************************************************)
(* What Rollout guarantees for every number of replicas, releases, migrations *)
(* and failures: the database goes through the migrations as SchemaContract    *)
(* says, and a replica serves only over the schema its release needs; and for   *)
(* every setting of the retries whose doubling fits into a duration, the       *)
(* consumer waits as configured and parks only after its whole patience.       *)
(*                                                                         *)
(* The argument: a file is run by one open transaction at a time, so whoever   *)
(* has inserted its version is the only one that will commit it, and all files *)
(* before it were recorded when this replica passed them.                     *)
(* For the consumer, the loop of retryBackoff is a recursive function. That it  *)
(* unfolds is shown once, from well-foundedness (Recursion); then the wait it   *)
(* computes and the one the settings ask for are compared step by step.        *)
(***************************************************************************)
EXTENDS Rollout, WellFoundedInduction, TLAPS

\* The kinds of the variables the migrations depend on.
ApiTypes ==
  /\ installed \subseteq Versions /\ recorded \subseteq Versions
  /\ stage \in [Replicas -> Stages]
  /\ at \in [Replicas -> 1..N + 1]
  /\ tx \in [Replicas -> [ran : SUBSET Versions, noted : SUBSET Versions]]

\* The changes of a file and its row are there together, for the first k files.
InOrder == installed = recorded /\ \E k \in 0..N : recorded = 1..k

\* A transaction is open between a file and its commit, and holds this file.
OpenTx(r) ==
  tx[r] = [ran |-> IF stage[r] \in {"record", "commit"} THEN {at[r]} ELSE {},
           noted |-> IF stage[r] = "commit" THEN {at[r]} ELSE {}]

\* What a replica has passed, is applying and may insert.
Progress(r) ==
  /\ \A v \in Versions : v < at[r] => v \in recorded
  /\ stage[r] \in {"exec", "record", "commit"} => at[r] <= Files[r]
  /\ stage[r] \in {"redis", "serve"} => at[r] > Files[r]
  /\ stage[r] = "commit" => at[r] \notin recorded

\* No two replicas have run one file and not ended the transaction.
Alone ==
  \A r, q \in Replicas :
    stage[r] \in {"record", "commit"} /\ stage[q] \in {"record", "commit"} /\ at[r] = at[q]
      => r = q

IInv ==
  /\ ApiTypes /\ InOrder /\ Alone
  /\ \A r \in Replicas : OpenTx(r) /\ Progress(r)

-----------------------------------------------------------------------------
\* Nothing is installed and every replica is down.
LEMMA InitIInv == Init => IInv
<1> SUFFICES ASSUME Init PROVE IInv
  OBVIOUS
<1>1. N \in Nat /\ 1 \in 1..N + 1 /\ 1..0 = {} /\ 0 \in 0..N
  BY FilesAssumption
<1>2. ApiTypes
  BY <1>1 DEF Init, ApiTypes, Stages, NoTx
<1>3. InOrder
  BY <1>1 DEF Init, InOrder
<1>4. Alone
  BY DEF Init, Alone
<1>5. ASSUME NEW r \in Replicas PROVE OpenTx(r) /\ Progress(r)
  <2>1. \A v \in Versions : ~(v < 1)
    BY <1>1 DEF Versions
  <2>2. QED BY <1>5, <2>1 DEF Init, OpenTx, Progress, NoTx
<1>6. QED BY <1>2, <1>3, <1>4, <1>5 DEF IInv

\* A step that leaves the database alone and moves r only, to a stage outside a
\* transaction.
LEMMA OutsideStep ==
  ASSUME IInv, NEW r \in Replicas, UNCHANGED <<installed, recorded>>,
         NEW s \in Stages \ {"record", "commit"}, NEW v \in 1..N + 1,
         stage' = [stage EXCEPT ![r] = s], at' = [at EXCEPT ![r] = v],
         tx' = [tx EXCEPT ![r] = NoTx],
         \A w \in Versions : w < v => w \in recorded,
         s = "exec" => v <= Files[r],
         s \in {"redis", "serve"} => v > Files[r]
  PROVE  IInv'
<1>1. ApiTypes'
  BY DEF IInv, ApiTypes, NoTx
<1>2. InOrder'
  BY DEF IInv, InOrder
<1>3. Alone'
  BY DEF IInv, Alone, ApiTypes
<1>4. ASSUME NEW q \in Replicas PROVE OpenTx(q)' /\ Progress(q)'
  <2>1. CASE q = r
    BY <2>1 DEF IInv, ApiTypes, OpenTx, Progress, NoTx
  <2>2. CASE q # r
    BY <2>2 DEF IInv, ApiTypes, OpenTx, Progress
  <2>3. QED BY <2>1, <2>2
<1>5. QED BY <1>1, <1>2, <1>3, <1>4 DEF IInv

\* An error or the end of the process.
LEMMA ExitStep ==
  ASSUME IInv, NEW r \in Replicas, Exit(r), UNCHANGED <<installed, recorded>>
  PROVE  IInv'
<1>1. /\ N \in Nat /\ 1 \in 1..N + 1 /\ \A w \in Versions : ~(w < 1)
      /\ "down" \in Stages \ {"record", "commit"}
  BY FilesAssumption DEF Versions, Stages
<1>2. QED BY <1>1, OutsideStep DEF Exit

\* A step between two stages without a transaction.
LEMMA GotoStep ==
  ASSUME IInv, NEW r \in Replicas, stage[r] \notin {"record", "commit"},
         NEW s \in Stages \ {"record", "commit"}, Goto(r, s), UNCHANGED <<installed, recorded>>,
         s = "exec" => at[r] <= Files[r],
         s \in {"redis", "serve"} => at[r] > Files[r]
  PROVE  IInv'
<1>1. tx[r] = NoTx
  BY DEF IInv, OpenTx, NoTx
<1>2. tx' = [tx EXCEPT ![r] = NoTx] /\ at' = [at EXCEPT ![r] = at[r]] /\ at[r] \in 1..N + 1
  BY <1>1 DEF Goto, IInv, ApiTypes
<1>3. \A w \in Versions : w < at[r] => w \in recorded
  BY DEF IInv, Progress
<1>4. stage' = [stage EXCEPT ![r] = s]
  BY DEF Goto
<1>5. QED BY <1>2, <1>3, <1>4, OutsideStep

\* The steps before the loop over the files and after it.
LEMMA EdgeStep ==
  ASSUME IInv, NEW r \in Replicas, Start(r) \/ Ensure(r) \/ Create(r) \/ Listen(r)
  PROVE  IInv'
<1>1. UNCHANGED <<installed, recorded>>
  BY DEF Start, Ensure, Create, Listen, schema
<1>2. CASE Exit(r)
  BY <1>1, <1>2, ExitStep
<1>3. CASE ~Exit(r) /\ ~Listen(r)
  <2>1. PICK s \in {"ensure", "create", "check"} :
          Goto(r, s) /\ stage[r] \notin {"record", "commit"}
    BY <1>3 DEF Start, Ensure, Create
  <2>2. s \in Stages \ {"record", "commit"} /\ s # "exec" /\ s \notin {"redis", "serve"}
    BY DEF Stages
  <2>3. QED BY <1>1, <2>1, <2>2, GotoStep
<1>4. CASE Listen(r)
  <2>1. Goto(r, "serve") /\ stage[r] = "redis" /\ at[r] > Files[r]
    BY <1>4 DEF Listen, IInv, Progress
  <2>2. "serve" \in Stages \ {"record", "commit"}
    BY DEF Stages
  <2>3. QED BY <1>1, <2>1, <2>2, GotoStep
<1>5. QED BY <1>2, <1>3, <1>4

\* A recorded file is passed; one that is not is to be applied.
LEMMA CheckStep ==
  ASSUME IInv, NEW r \in Replicas, Check(r) PROVE IInv'
<1>1. stage[r] = "check" /\ UNCHANGED <<installed, recorded>>
  BY DEF Check, schema
<1>2. /\ N \in Nat /\ Files[r] \in 0..N /\ at[r] \in 1..N + 1
      /\ \A w \in Versions : w < at[r] => w \in recorded
  BY FilesAssumption DEF IInv, ApiTypes, Progress
<1>3. CASE at[r] \in recorded /\ at[r] <= Files[r]
  <2>1. /\ tx' = [tx EXCEPT ![r] = NoTx] /\ stage' = [stage EXCEPT ![r] = "check"]
        /\ at' = [at EXCEPT ![r] = at[r] + 1]
    BY <1>1, <1>3 DEF Check, IInv, OpenTx, NoTx, ApiTypes
  <2>2. at[r] + 1 \in 1..N + 1 /\ \A w \in Versions : w < at[r] + 1 => w \in recorded
    BY <1>2, <1>3 DEF Versions
  <2>3. "check" \in Stages \ {"record", "commit"}
    BY DEF Stages
  <2>4. QED BY <1>1, <2>1, <2>2, <2>3, OutsideStep
<1>4. CASE at[r] > Files[r]
  <2>1. Goto(r, "redis") /\ "redis" \in Stages \ {"record", "commit"}
    BY <1>2, <1>4 DEF Check, Stages
  <2>2. QED BY <1>1, <1>4, <2>1, GotoStep
<1>5. CASE at[r] \notin recorded /\ at[r] <= Files[r]
  <2>1. Goto(r, "exec") /\ "exec" \in Stages \ {"record", "commit"}
    BY <1>2, <1>5 DEF Check, Stages
  <2>2. QED BY <1>1, <1>5, <2>1, GotoStep
<1>6. QED BY <1>2, <1>3, <1>4, <1>5

\* The file runs in a transaction that no other one runs at the same time.
LEMMA ExecStep ==
  ASSUME IInv, NEW r \in Replicas, Exec(r) PROVE IInv'
<1>1. stage[r] = "exec" /\ UNCHANGED <<installed, recorded>>
  BY DEF Exec, schema
<1>2. CASE Exit(r)
  BY <1>1, <1>2, ExitStep
<1>3. CASE ~Exit(r)
  <2>1. /\ stage' = [stage EXCEPT ![r] = "record"] /\ at' = at
        /\ tx' = [tx EXCEPT ![r].ran = {at[r]}]
        /\ \A q \in Replicas \ {r} : at[r] \notin tx[q].ran
    BY <1>3 DEF Exec
  <2>2. /\ N \in Nat /\ at[r] \in Versions
        /\ tx' = [tx EXCEPT ![r] = [ran |-> {at[r]}, noted |-> {}]]
    <3>1. tx[r] = [ran |-> {}, noted |-> {}] /\ at[r] \in 1..N + 1 /\ at[r] <= Files[r]
      BY <1>1 DEF IInv, OpenTx, ApiTypes, Progress
    <3>2. [tx[r] EXCEPT !.ran = {at[r]}] = [ran |-> {at[r]}, noted |-> {}]
      BY <3>1
    <3>3. N \in Nat /\ at[r] \in Versions
      BY <3>1, FilesAssumption DEF Versions
    <3>4. tx' = [tx EXCEPT ![r] = [tx[r] EXCEPT !.ran = {at[r]}]]
      BY <2>1
    <3>5. QED BY <3>2, <3>3, <3>4
  <2>3. ApiTypes'
    BY <1>1, <2>1, <2>2 DEF IInv, ApiTypes, Stages
  <2>4. \A q \in Replicas \ {r} : stage[q] \in {"record", "commit"} => at[q] # at[r]
    <3>1. SUFFICES ASSUME NEW q \in Replicas \ {r}, stage[q] \in {"record", "commit"}
                  PROVE  at[q] # at[r]
      OBVIOUS
    <3>2. tx[q] = [ran |-> {at[q]}, noted |-> IF stage[q] = "commit" THEN {at[q]} ELSE {}]
      BY <3>1 DEF IInv, OpenTx
    <3>3. tx[q].ran = {at[q]}
      BY <3>2
    <3>4. QED BY <2>1, <3>3
  <2>5. Alone'
    BY <2>1, <2>4 DEF IInv, Alone, ApiTypes
  <2>6. ASSUME NEW q \in Replicas PROVE OpenTx(q)' /\ Progress(q)'
    BY <1>1, <2>1, <2>2 DEF IInv, ApiTypes, OpenTx, Progress
  <2>7. QED BY <1>1, <2>3, <2>5, <2>6 DEF IInv, InOrder
<1>4. QED BY <1>2, <1>3

\* The version is inserted only where it is not recorded.
LEMMA RecordStep ==
  ASSUME IInv, NEW r \in Replicas, Record(r) PROVE IInv'
<1>1. stage[r] = "record" /\ UNCHANGED <<installed, recorded>>
  BY DEF Record, schema
<1>2. CASE Exit(r)
  BY <1>1, <1>2, ExitStep
<1>3. CASE ~Exit(r)
  <2>1. /\ stage' = [stage EXCEPT ![r] = "commit"] /\ at' = at /\ at[r] \notin recorded
        /\ tx' = [tx EXCEPT ![r].noted = {at[r]}]
    BY <1>3 DEF Record
  <2>2. /\ N \in Nat /\ at[r] \in Versions
        /\ tx' = [tx EXCEPT ![r] = [ran |-> {at[r]}, noted |-> {at[r]}]]
    <3>1. tx[r] = [ran |-> {at[r]}, noted |-> {}] /\ at[r] \in 1..N + 1 /\ at[r] <= Files[r]
      BY <1>1 DEF IInv, OpenTx, ApiTypes, Progress
    <3> DEFINE file == {at[r]}
    <3> HIDE DEF file
    <3>2. [tx[r] EXCEPT !.noted = file] = [ran |-> file, noted |-> file]
      <4>1. tx[r] = [ran |-> file, noted |-> {}]
        BY <3>1 DEF file
      <4>2. QED BY <4>1
    <3>3. N \in Nat /\ at[r] \in Versions
      BY <3>1, FilesAssumption DEF Versions
    <3>4. tx' = [tx EXCEPT ![r] = [tx[r] EXCEPT !.noted = file]]
      BY <2>1 DEF file
    <3>5. QED BY <3>2, <3>3, <3>4 DEF file
  <2>3. ApiTypes'
    BY <1>1, <2>1, <2>2 DEF IInv, ApiTypes, Stages
  <2>4. Alone'
    BY <1>1, <2>1 DEF IInv, Alone, ApiTypes
  <2>5. ASSUME NEW q \in Replicas PROVE OpenTx(q)' /\ Progress(q)'
    BY <1>1, <2>1, <2>2 DEF IInv, ApiTypes, OpenTx, Progress
  <2>6. QED BY <1>1, <2>3, <2>4, <2>5 DEF IInv, InOrder
<1>4. QED BY <1>2, <1>3

\* What a commit does to the database: the next file and its row appear.
LEMMA CommitApplies ==
  ASSUME IInv, NEW r \in Replicas, Commit(r)
  PROVE  /\ at[r] \in Versions /\ recorded = 1..(at[r] - 1)
         /\ installed' = installed \union {at[r]}
         /\ recorded' = recorded \union {at[r]}
<1>1. /\ stage[r] = "commit" /\ at[r] \notin recorded /\ at[r] <= Files[r]
      /\ tx[r] = [ran |-> {at[r]}, noted |-> {at[r]}]
      /\ \A v \in Versions : v < at[r] => v \in recorded
  BY DEF Commit, IInv, OpenTx, Progress
<1>2. N \in Nat /\ at[r] \in Versions
  BY <1>1, FilesAssumption DEF IInv, ApiTypes, Versions
<1>3. PICK k \in 0..N : recorded = 1..k
  BY DEF IInv, InOrder
<1>4. k = at[r] - 1
  <2>1. ~(k < at[r] - 1)
    BY <1>1, <1>2, <1>3 DEF Versions
  <2>2. ~(k >= at[r])
    BY <1>1, <1>2, <1>3 DEF Versions
  <2>3. QED BY <1>2, <1>3, <2>1, <2>2 DEF Versions
<1>5. QED BY <1>1, <1>2, <1>3, <1>4 DEF Commit

LEMMA CommitStep ==
  ASSUME IInv, NEW r \in Replicas, Commit(r) PROVE IInv'
<1>1. /\ at[r] \in Versions /\ recorded = 1..(at[r] - 1) /\ N \in Nat /\ stage[r] = "commit"
      /\ installed' = installed \union {at[r]} /\ recorded' = recorded \union {at[r]}
  BY CommitApplies, FilesAssumption DEF Commit
<1>2. PICK s \in {"check", "down"}, v \in {1, at[r] + 1} :
        /\ stage' = [stage EXCEPT ![r] = s] /\ at' = [at EXCEPT ![r] = v]
        /\ tx' = [tx EXCEPT ![r] = NoTx]
  BY DEF Commit, Exit
<1>3. v \in 1..N + 1 /\ s \in Stages /\ \A w \in Versions : w < v => w \in recorded'
  BY <1>1, <1>2 DEF Versions, Stages
<1>4. ApiTypes'
  BY <1>1, <1>2, <1>3 DEF IInv, ApiTypes, NoTx
<1>5. InOrder'
  <2>1. recorded' = 1..at[r] /\ at[r] \in 0..N
    BY <1>1 DEF Versions
  <2>2. QED BY <1>1, <2>1 DEF IInv, InOrder
<1>6. Alone'
  BY <1>2 DEF IInv, Alone, ApiTypes
<1>7. ASSUME NEW q \in Replicas PROVE OpenTx(q)' /\ Progress(q)'
  <2>1. CASE q = r
    BY <1>2, <1>3, <2>1 DEF IInv, ApiTypes, OpenTx, Progress, NoTx
  <2>2. CASE q # r
    <3>1. stage[q] = "commit" => at[q] # at[r]
      BY <1>1, <2>2 DEF IInv, Alone
    <3>2. stage'[q] = stage[q] /\ at'[q] = at[q] /\ tx'[q] = tx[q]
      BY <1>2, <2>2 DEF IInv, ApiTypes
    <3>3. OpenTx(q)'
      BY <3>2 DEF IInv, OpenTx
    <3>4. QED BY <1>1, <3>1, <3>2, <3>3 DEF IInv, Progress
  <2>3. QED BY <2>1, <2>2
<1>8. QED BY <1>4, <1>5, <1>6, <1>7 DEF IInv

\* Every step keeps the invariant: those of the consumer do not touch the schema.
LEMMA NextIInv == IInv /\ [Next]_vars => IInv'
<1> SUFFICES ASSUME IInv, [Next]_vars PROVE IInv'
  OBVIOUS
<1>1. CASE UNCHANGED <<schema, api>>
  BY <1>1 DEF schema, api, IInv, ApiTypes, InOrder, Alone, OpenTx, Progress
<1>2. CASE UNCHANGED vars \/ StartConsumer \/ Try \/ Wake \/ ConsumerDies \/ Tick
  BY <1>1, <1>2 DEF vars, StartConsumer, Try, Wake, ConsumerDies, Tick
<1>3. ASSUME NEW r \in Replicas, Run(r) PROVE IInv'
  BY <1>3, EdgeStep, CheckStep, ExecStep, RecordStep, CommitStep DEF Run
<1>4. ASSUME NEW r \in Replicas, Die(r) PROVE IInv'
  BY <1>4, ExitStep DEF Die, schema
<1>5. QED BY <1>2, <1>3, <1>4 DEF Next

LEMMA Invariance == Spec => []IInv
BY InitIInv, NextIInv, PTL DEF Spec

-----------------------------------------------------------------------------
\* A replica that serves, or is about to, finds every table its release needs,
\* whatever other replicas and releases did meanwhile.
THEOREM ServesMigrated == Spec => []ServingIsMigrated
<1>1. IInv => ServingIsMigrated
  <2> SUFFICES ASSUME IInv, NEW r \in Replicas, stage[r] \in {"redis", "serve"},
                      NEW v \in 1..Files[r]
               PROVE  v \in installed
    BY DEF ServingIsMigrated
  <2>1. at[r] > Files[r] /\ at[r] \in 1..N + 1 /\ Files[r] \in 0..N /\ N \in Nat
    BY FilesAssumption DEF IInv, Progress, ApiTypes
  <2>2. v \in Versions /\ v < at[r]
    BY <2>1 DEF Versions
  <2>3. QED BY <2>2 DEF IInv, Progress, InOrder
<1>2. QED BY <1>1, Invariance, PTL

\* Only a commit changes what is installed and recorded, and it adds the next file.
LEMMA StepOfContract ==
  ASSUME IInv, [Next]_vars PROVE [Contract!Next]_<<installed, recorded>>
<1>1. ASSUME NEW r \in Replicas, Commit(r) PROVE Contract!Next
  BY <1>1, CommitApplies DEF Contract!Next, Contract!Advance
<1>2. ASSUME NEW r \in Replicas, Run(r), ~Commit(r) PROVE UNCHANGED <<installed, recorded>>
  BY <1>2 DEF Run, Start, Ensure, Create, Check, Exec, Record, Listen, schema
<1>3. ASSUME NEW r \in Replicas, Die(r) PROVE UNCHANGED <<installed, recorded>>
  BY <1>3 DEF Die, schema
<1>4. CASE UNCHANGED vars \/ StartConsumer \/ Try \/ Wake \/ ConsumerDies \/ Tick
  BY <1>4 DEF vars, StartConsumer, Try, Wake, ConsumerDies, Tick, schema
<1>5. QED BY <1>1, <1>2, <1>3, <1>4 DEF Next

\* Replicas of any number of releases that start, fail and die at the same time
\* apply the files in their order, each once, with its row.
THEOREM RolloutImplementsContract == Spec => ImplementsContract
<1>1. Init => Contract!Init
  BY DEF Init, Contract!Init
<1>2. QED
  BY <1>1, Invariance, StepOfContract, PTL DEF Spec, ImplementsContract, Contract!Spec
-----------------------------------------------------------------------------
(***************************************************************************)
(* Functions defined by recursion over the natural numbers, with a set in the  *)
(* place of the formula that an induction is about.                           *)
(***************************************************************************)

LEMMA NatInductionSet ==
  ASSUME NEW S, 0 \in S, \A n \in Nat : n \in S => n + 1 \in S
  PROVE  Nat \subseteq S
<1> DEFINE R == OpToRel(<, Nat)
           T == Nat \ S
<1>1. IsWellFoundedOn(R, Nat)
  BY NatLessThanWellFounded
<1>2. SUFFICES ASSUME T # {} PROVE FALSE
  OBVIOUS
<1> HIDE DEF R, T
<1>3. PICK x \in T : \A y \in T : ~(<<y, x>> \in R)
  BY <1>1, <1>2, WFMin DEF T
<1>4. x \in Nat /\ x # 0 /\ x \notin S
  BY <1>3 DEF T
<1>5. x - 1 \in Nat /\ x - 1 < x
  BY <1>4
<1>6. x - 1 \notin S
  <2>1. x = (x - 1) + 1
    BY <1>4
  <2>2. QED BY <1>4, <1>5, <2>1
<1>7. <<x - 1, x>> \in R
  BY <1>4, <1>5 DEF R, OpToRel
<1>8. QED BY <1>3, <1>5, <1>6, <1>7 DEF T

\* f has the first n values of a function with g as its step.
UpTo(f, n, b, g, X) ==
  /\ f \in [0..n -> X] /\ f[0] = b
  /\ \A i \in 1..n : f[i] = g[<<i, f[i - 1]>>]

LEMMA UpToExists ==
  ASSUME NEW X, NEW b \in X, NEW g \in [Nat \X X -> X], NEW n \in Nat
  PROVE  \E f : UpTo(f, n, b, g, X)
<1> DEFINE S == {m \in Nat : \E f : UpTo(f, m, b, g, X)}
<1>1. 0 \in S
  <2>1. UpTo([i \in 0..0 |-> b], 0, b, g, X)
    BY DEF UpTo
  <2>2. QED BY <2>1
<1>2. ASSUME NEW m \in Nat, m \in S PROVE m + 1 \in S
  <2>1. PICK f : UpTo(f, m, b, g, X)
    BY <1>2
  <2> DEFINE x == g[<<m + 1, f[m]>>]
             h == [i \in 0..(m + 1) |-> IF i = m + 1 THEN x ELSE f[i]]
  <2>2. f \in [0..m -> X] /\ f[0] = b /\ \A i \in 1..m : f[i] = g[<<i, f[i - 1]>>]
    BY <2>1 DEF UpTo
  <2>3. x \in X
    BY <2>2
  <2> HIDE DEF x
  <2>4. h \in [0..(m + 1) -> X] /\ h[0] = b
    BY <2>2, <2>3
  <2>5. ASSUME NEW i \in 1..(m + 1) PROVE h[i] = g[<<i, h[i - 1]>>]
    <3>1. i - 1 \in 0..m /\ h[i - 1] = f[i - 1]
      OBVIOUS
    <3>2. CASE i = m + 1
      <4>1. h[i] = x /\ i - 1 = m
        BY <3>2
      <4>2. QED BY <3>1, <3>2, <4>1 DEF x
    <3>3. CASE i # m + 1
      <4>1. i \in 1..m /\ h[i] = f[i]
        BY <3>3
      <4>2. QED BY <2>2, <3>1, <4>1
    <3>4. QED BY <3>2, <3>3
  <2> HIDE DEF h
  <2>6. UpTo(h, m + 1, b, g, X)
    BY <2>4, <2>5 DEF UpTo
  <2>7. QED BY <2>6
<1> HIDE DEF S
<1>3. Nat \subseteq S
  BY <1>1, <1>2, NatInductionSet
<1>4. QED BY <1>3 DEF S

LEMMA UpToUnique ==
  ASSUME NEW X, NEW b, NEW g, NEW m \in Nat, NEW n \in Nat, m <= n,
         NEW f, UpTo(f, m, b, g, X), NEW h, UpTo(h, n, b, g, X)
  PROVE  \A i \in 0..m : f[i] = h[i]
<1> DEFINE S == {i \in Nat : i <= m => f[i] = h[i]}
<1>1. 0 \in S
  BY DEF UpTo
<1>2. ASSUME NEW i \in Nat, i \in S PROVE i + 1 \in S
  <2>1. ASSUME i + 1 <= m PROVE f[i + 1] = h[i + 1]
    <3>1. f[i] = h[i] /\ i + 1 \in 1..m /\ i + 1 \in 1..n /\ (i + 1) - 1 = i
      BY <1>2, <2>1
    <3>2. f[i + 1] = g[<<i + 1, f[i]>>] /\ h[i + 1] = g[<<i + 1, h[i]>>]
      BY <3>1 DEF UpTo
    <3>3. QED BY <3>1, <3>2
  <2>2. QED BY <2>1
<1> HIDE DEF S
<1>3. Nat \subseteq S
  BY <1>1, <1>2, NatInductionSet
<1>4. QED BY <1>3 DEF S

\* A function with the first value b and the step g.
Follows(f, b, g) == f[0] = b /\ \A n \in Nat \ {0} : f[n] = g[<<n, f[n - 1]>>]

LEMMA Recursion ==
  ASSUME NEW X, NEW b \in X, NEW g \in [Nat \X X -> X]
  PROVE  \E f \in [Nat -> X] : Follows(f, b, g)
<1> DEFINE F == [n \in Nat |-> CHOOSE x : \E f : UpTo(f, n, b, g, X) /\ x = f[n]]
<1>1. ASSUME NEW n \in Nat, NEW f, UpTo(f, n, b, g, X) PROVE F[n] = f[n]
  <2>1. \E h : UpTo(h, n, b, g, X) /\ F[n] = h[n]
    BY <1>1
  <2>2. PICK h : UpTo(h, n, b, g, X) /\ F[n] = h[n]
    BY <2>1
  <2>3. n \in 0..n /\ n <= n
    OBVIOUS
  <2>4. QED BY <1>1, <2>2, <2>3, UpToUnique
<1>2. ASSUME NEW n \in Nat PROVE F[n] \in X /\ (n = 0 => F[n] = b)
  <2>1. PICK f : UpTo(f, n, b, g, X)
    BY UpToExists
  <2>2. F[n] = f[n]
    BY <1>1, <2>1
  <2>3. n \in 0..n
    OBVIOUS
  <2> HIDE DEF F
  <2>4. QED BY <2>1, <2>2, <2>3 DEF UpTo
<1>3. ASSUME NEW n \in Nat, n # 0 PROVE F[n] = g[<<n, F[n - 1]>>]
  <2>1. PICK f : UpTo(f, n, b, g, X)
    BY UpToExists
  <2>2. n - 1 \in Nat /\ n - 1 <= n /\ n \in 1..n /\ n - 1 \in 0..(n - 1)
    BY <1>3
  <2>3. PICK h : UpTo(h, n - 1, b, g, X)
    BY <2>2, UpToExists
  <2>4. h[n - 1] = f[n - 1]
    BY <2>1, <2>2, <2>3, UpToUnique
  <2>5. F[n - 1] = h[n - 1] /\ F[n] = f[n]
    BY <1>1, <2>1, <2>2, <2>3
  <2>6. f[n] = g[<<n, f[n - 1]>>]
    BY <2>1, <2>2 DEF UpTo
  <2>7. QED BY <2>4, <2>5, <2>6
<1>4. F = [n \in Nat |-> F[n]]
  OBVIOUS
<1> HIDE DEF F
<1>5. F \in [Nat -> X]
  BY <1>2, <1>4
<1>6. QED BY <1>2, <1>3, <1>5 DEF Follows
-----------------------------------------------------------------------------
(***************************************************************************)
(* The waits.                                                              *)
(***************************************************************************)

LEMMA SettingTypes ==
  ASSUME NEW s \in Retries
  PROVE  /\ s.attempts \in Nat /\ s.backoff \in Nat /\ s.max \in Nat /\ MaxDuration \in Nat
         /\ s.backoff <= MaxDuration /\ s.max <= MaxDuration
         /\ s.max > 0 => s.backoff <= s.max
BY RetriesAssumption, BoundsAssumption

LEMMA Remainder ==
  ASSUME NEW a \in Int, NEW d \in Nat \ {0}
  PROVE  /\ a % d \in Int
         /\ 0 <= a /\ a < d => a % d = a
OBVIOUS

LEMMA WrappedIs ==
  ASSUME NEW d \in Int
  PROVE  /\ Wrapped(d) \in Int
         /\ 0 <= d /\ d <= MaxDuration => Wrapped(d) = d
<1> DEFINE m == MaxDuration + 1
<1>1. MaxDuration \in Nat /\ m \in Nat /\ 2 * m \in Nat \ {0}
  BY BoundsAssumption
<1>2. d + MaxDuration + 1 \in Int
  BY <1>1
<1>3. (d + MaxDuration + 1) % (2 * m) \in Int
  BY <1>1, <1>2, Remainder
<1>4. 0 <= d /\ d <= MaxDuration =>
        (d + MaxDuration + 1) % (2 * m) = d + MaxDuration + 1
  <2>1. 0 <= d /\ d <= MaxDuration => 0 <= d + MaxDuration + 1 /\ d + MaxDuration + 1 < 2 * m
    BY <1>1
  <2>2. QED BY <1>1, <1>2, <2>1, Remainder
<1> DEFINE r == (d + MaxDuration + 1) % (2 * m)
<1>5. Wrapped(d) = r - m
  BY DEF Wrapped
<1> HIDE DEF r
<1>6. r \in Int /\ (0 <= d /\ d <= MaxDuration => r = d + m)
  <2>1. d + MaxDuration + 1 = d + m
    BY <1>1
  <2>2. QED BY <1>3, <1>4, <2>1 DEF r
<1> HIDE DEF m
<1>7. QED BY <1>1, <1>5, <1>6

LEMMA DoubledType ==
  ASSUME NEW max \in Int, NEW b \in Int
  PROVE  Doubled(max, b) \in Int
<1>1. Wrapped(2 * b) \in Int
  BY WrappedIs
<1>2. QED BY <1>1 DEF Doubled

LEMMA BackoffIs ==
  ASSUME NEW s \in Retries
  PROVE  /\ RetryBackoff(s, 1) = s.backoff
         /\ \A n \in Nat \ {0} :
              /\ RetryBackoff(s, n) \in Int
              /\ RetryBackoff(s, n + 1) = Doubled(s.max, RetryBackoff(s, n))
<1> DEFINE f == CHOOSE h : h = [i \in Nat |-> IF i <= 1 THEN s.backoff ELSE Doubled(s.max, h[i - 1])]
           g == [p \in Nat \X Int |-> IF p[1] <= 1 THEN s.backoff ELSE Doubled(s.max, p[2])]
<1>1. s.backoff \in Int /\ s.max \in Int
  BY SettingTypes
<1>2. g \in [Nat \X Int -> Int]
  BY <1>1, DoubledType
<1> HIDE DEF g
<1>3. PICK h \in [Nat -> Int] :
        h[0] = s.backoff /\ \A n \in Nat \ {0} : h[n] = g[<<n, h[n - 1]>>]
  <2>1. s.backoff \in Int /\ g \in [Nat \X Int -> Int]
    BY <1>1, <1>2
  <2>2. \E h \in [Nat -> Int] : Follows(h, s.backoff, g)
    BY <2>1, Recursion
  <2>3. QED BY <2>2 DEF Follows
<1>4. \A n \in Nat : h[n] = IF n <= 1 THEN s.backoff ELSE Doubled(s.max, h[n - 1])
  <2>1. SUFFICES ASSUME NEW n \in Nat
                 PROVE  h[n] = IF n <= 1 THEN s.backoff ELSE Doubled(s.max, h[n - 1])
    OBVIOUS
  <2>2. CASE n = 0
    BY <1>3, <2>2
  <2>3. CASE n # 0
    <3>1. h[n] = g[<<n, h[n - 1]>>] /\ n - 1 \in Nat
      BY <1>3, <2>3
    <3>2. h[n - 1] \in Int
      BY <1>3, <3>1
    <3>3. QED BY <3>1, <3>2 DEF g
  <2>4. QED BY <2>2, <2>3
<1>5. h = [i \in Nat |-> IF i <= 1 THEN s.backoff ELSE Doubled(s.max, h[i - 1])]
  <2>1. h = [n \in Nat |-> h[n]]
    BY <1>3
  <2>2. QED BY <1>4, <2>1
<1>6. f = [i \in Nat |-> IF i <= 1 THEN s.backoff ELSE Doubled(s.max, f[i - 1])]
  BY <1>5
<1>7. \A n : RetryBackoff(s, n) = f[n]
  BY DEF RetryBackoff
<1> HIDE DEF f
<1>8. f[1] = s.backoff
  BY <1>6
<1>9. \A n \in Nat \ {0} : f[n + 1] = Doubled(s.max, f[n])
  <2>1. SUFFICES ASSUME NEW n \in Nat \ {0} PROVE f[n + 1] = Doubled(s.max, f[n])
    OBVIOUS
  <2>2. n + 1 \in Nat /\ ~(n + 1 <= 1) /\ (n + 1) - 1 = n
    OBVIOUS
  <2>3. f[n + 1] = Doubled(s.max, f[(n + 1) - 1])
    BY <1>6, <2>2
  <2>4. QED BY <2>2, <2>3
<1> DEFINE S == {n \in Nat : n # 0 => f[n] \in Int}
<1>10. Nat \subseteq S
  <2>1. 0 \in S
    OBVIOUS
  <2>2. ASSUME NEW n \in Nat, n \in S PROVE n + 1 \in S
    <3>1. f[n + 1] \in Int
      <4>1. CASE n = 0
        BY <1>1, <1>8, <4>1
      <4>2. CASE n # 0
        BY <1>1, <1>9, <2>2, <4>2, DoubledType
      <4>3. QED BY <4>1, <4>2
    <3>2. QED BY <3>1
  <2> HIDE DEF S
  <2>3. QED BY <2>1, <2>2, NatInductionSet
<1>11. QED BY <1>7, <1>8, <1>9, <1>10

LEMMA DoublingIs ==
  ASSUME NEW s \in Retries
  PROVE  /\ Doubling(s, 1) = s.backoff
         /\ \A n \in Nat : Doubling(s, n) \in Nat
         /\ \A n \in Nat \ {0} : Doubling(s, n + 1) = 2 * Doubling(s, n)
<1> DEFINE f == CHOOSE h : h = [i \in Nat |-> IF i <= 1 THEN s.backoff ELSE 2 * h[i - 1]]
           g == [p \in Nat \X Nat |-> IF p[1] <= 1 THEN s.backoff ELSE 2 * p[2]]
<1>1. s.backoff \in Nat
  BY SettingTypes
<1>2. g \in [Nat \X Nat -> Nat]
  BY <1>1
<1> HIDE DEF g
<1>3. PICK h \in [Nat -> Nat] :
        h[0] = s.backoff /\ \A n \in Nat \ {0} : h[n] = g[<<n, h[n - 1]>>]
  <2>1. s.backoff \in Nat /\ g \in [Nat \X Nat -> Nat]
    BY <1>1, <1>2
  <2>2. \E h \in [Nat -> Nat] : Follows(h, s.backoff, g)
    BY <2>1, Recursion
  <2>3. QED BY <2>2 DEF Follows
<1>4. \A n \in Nat : h[n] = IF n <= 1 THEN s.backoff ELSE 2 * h[n - 1]
  <2>1. SUFFICES ASSUME NEW n \in Nat
                 PROVE  h[n] = IF n <= 1 THEN s.backoff ELSE 2 * h[n - 1]
    OBVIOUS
  <2>2. CASE n = 0
    BY <1>3, <2>2
  <2>3. CASE n # 0
    <3>1. h[n] = g[<<n, h[n - 1]>>] /\ n - 1 \in Nat
      BY <1>3, <2>3
    <3>2. h[n - 1] \in Nat
      BY <1>3, <3>1
    <3>3. QED BY <3>1, <3>2 DEF g
  <2>4. QED BY <2>2, <2>3
<1>5. h = [i \in Nat |-> IF i <= 1 THEN s.backoff ELSE 2 * h[i - 1]]
  <2>1. h = [n \in Nat |-> h[n]]
    BY <1>3
  <2>2. QED BY <1>4, <2>1
<1>6. f = [i \in Nat |-> IF i <= 1 THEN s.backoff ELSE 2 * f[i - 1]]
  BY <1>5
<1>7. \A n : Doubling(s, n) = f[n]
  BY DEF Doubling
<1> HIDE DEF f
<1>8. f[0] = s.backoff /\ f[1] = s.backoff
  BY <1>6
<1>9. \A n \in Nat \ {0} : f[n + 1] = 2 * f[n]
  <2>1. SUFFICES ASSUME NEW n \in Nat \ {0} PROVE f[n + 1] = 2 * f[n]
    OBVIOUS
  <2>2. n + 1 \in Nat /\ ~(n + 1 <= 1) /\ (n + 1) - 1 = n
    OBVIOUS
  <2>3. f[n + 1] = 2 * f[(n + 1) - 1]
    BY <1>6, <2>2
  <2>4. QED BY <2>2, <2>3
<1> DEFINE S == {n \in Nat : f[n] \in Nat}
<1>10. Nat \subseteq S
  <2>1. 0 \in S
    BY <1>1, <1>8
  <2>2. ASSUME NEW n \in Nat, n \in S PROVE n + 1 \in S
    <3>1. f[n + 1] \in Nat
      <4>1. CASE n = 0
        BY <1>1, <1>8, <4>1
      <4>2. CASE n # 0
        BY <1>9, <2>2, <4>2
      <4>3. QED BY <4>1, <4>2
    <3>2. QED BY <3>1
  <2> HIDE DEF S
  <2>3. QED BY <2>1, <2>2, NatInductionSet
<1>11. QED BY <1>7, <1>8, <1>9, <1>10

LEMMA AskedType ==
  ASSUME NEW s \in Retries, NEW n \in Nat
  PROVE  Asked(s, n) \in Nat
BY SettingTypes, DoublingIs DEF Asked

LEMMA WaitsAre ==
  ASSUME NEW s \in Retries
  PROVE  /\ Waits(s, 0) = 0
         /\ \A n \in Nat : /\ Waits(s, n) \in Nat
                           /\ Waits(s, n + 1) = Waits(s, n) + Asked(s, n + 1)
<1> DEFINE f == CHOOSE h : h = [i \in Nat |-> IF i = 0 THEN 0 ELSE h[i - 1] + Asked(s, i)]
           g == [p \in Nat \X Nat |-> p[2] + Asked(s, p[1])]
<1>1. g \in [Nat \X Nat -> Nat]
  BY AskedType
<1> HIDE DEF g
<1>2. PICK h \in [Nat -> Nat] :
        h[0] = 0 /\ \A n \in Nat \ {0} : h[n] = g[<<n, h[n - 1]>>]
  <2>1. 0 \in Nat /\ g \in [Nat \X Nat -> Nat]
    BY <1>1
  <2>2. \E h \in [Nat -> Nat] : Follows(h, 0, g)
    BY <2>1, Recursion
  <2>3. QED BY <2>2 DEF Follows
<1>3. \A n \in Nat : h[n] = IF n = 0 THEN 0 ELSE h[n - 1] + Asked(s, n)
  <2>1. SUFFICES ASSUME NEW n \in Nat
                 PROVE  h[n] = IF n = 0 THEN 0 ELSE h[n - 1] + Asked(s, n)
    OBVIOUS
  <2>2. CASE n = 0
    BY <1>2, <2>2
  <2>3. CASE n # 0
    <3>1. h[n] = g[<<n, h[n - 1]>>] /\ n - 1 \in Nat
      BY <1>2, <2>3
    <3>2. h[n - 1] \in Nat
      BY <1>2, <3>1
    <3>3. QED BY <2>3, <3>1, <3>2 DEF g
  <2>4. QED BY <2>2, <2>3
<1>4. h = [i \in Nat |-> IF i = 0 THEN 0 ELSE h[i - 1] + Asked(s, i)]
  <2>1. h = [n \in Nat |-> h[n]]
    BY <1>2
  <2>2. QED BY <1>3, <2>1
<1>5. f = [i \in Nat |-> IF i = 0 THEN 0 ELSE f[i - 1] + Asked(s, i)]
  BY <1>4
<1>6. \A n : Waits(s, n) = f[n]
  BY DEF Waits
<1> HIDE DEF f
<1>7. f[0] = 0
  BY <1>5
<1>8. \A n \in Nat : f[n + 1] = f[n] + Asked(s, n + 1)
  <2>1. SUFFICES ASSUME NEW n \in Nat PROVE f[n + 1] = f[n] + Asked(s, n + 1)
    OBVIOUS
  <2>2. n + 1 \in Nat /\ n + 1 # 0 /\ (n + 1) - 1 = n
    OBVIOUS
  <2>3. f[n + 1] = f[(n + 1) - 1] + Asked(s, n + 1)
    BY <1>5, <2>2
  <2>4. QED BY <2>2, <2>3
<1> DEFINE S == {n \in Nat : f[n] \in Nat}
<1>9. Nat \subseteq S
  <2>1. 0 \in S
    BY <1>7
  <2>2. ASSUME NEW n \in Nat, n \in S PROVE n + 1 \in S
    <3>1. f[n] \in Nat /\ Asked(s, n + 1) \in Nat /\ f[n + 1] = f[n] + Asked(s, n + 1)
      BY <1>8, <2>2, AskedType
    <3>2. QED BY <3>1
  <2> HIDE DEF S
  <2>3. QED BY <2>1, <2>2, NatInductionSet
<1>10. QED BY <1>6, <1>7, <1>8, <1>9

\* One round of the loop, where it does not overflow.
LEMMA OneMoreDoubling ==
  ASSUME NEW max \in Nat, NEW d \in Nat, NEW b \in Nat,
         b = (IF max > 0 /\ d > max THEN max ELSE d), 2 * b <= MaxDuration
  PROVE  Doubled(max, b) = IF max > 0 /\ 2 * d > max THEN max ELSE 2 * d
<1>1. Wrapped(2 * b) = 2 * b
  BY WrappedIs
<1>2. Doubled(max, b) = IF max > 0 /\ (b >= max \/ 2 * b > max) THEN max ELSE 2 * b
  BY <1>1 DEF Doubled
<1>3. QED BY <1>2

\* The loop computes what the settings ask for, as long as it does not overflow.
LEMMA BackoffAsAsked ==
  ASSUME NEW s \in Retries, Fits(s)
  PROVE  \A n \in 1..s.attempts : RetryBackoff(s, n) = Asked(s, n)
<1> DEFINE S == {n \in Nat : n \in 1..s.attempts => RetryBackoff(s, n) = Asked(s, n)}
<1>1. 0 \in S
  OBVIOUS
<1>2. ASSUME NEW n \in Nat, n \in S PROVE n + 1 \in S
  <2>1. ASSUME n + 1 \in 1..s.attempts PROVE RetryBackoff(s, n + 1) = Asked(s, n + 1)
    <3>1. CASE n = 0
      <4>1. RetryBackoff(s, 1) = s.backoff /\ Doubling(s, 1) = s.backoff
        BY BackoffIs, DoublingIs
      <4>2. Asked(s, 1) = s.backoff
        BY <4>1, SettingTypes DEF Asked
      <4>3. QED BY <3>1, <4>1, <4>2
    <3>2. CASE n # 0
      <4>1. n \in 1..s.attempts /\ n \in Nat \ {0}
        BY <2>1, <3>2, SettingTypes
      <4>2. RetryBackoff(s, n) = Asked(s, n) /\ 2 * Asked(s, n) <= MaxDuration
        BY <1>2, <4>1 DEF Fits
      <4>3. RetryBackoff(s, n + 1) = Doubled(s.max, Asked(s, n))
        BY <4>1, <4>2, BackoffIs
      <4>4. PICK d \in Nat, b \in Nat, max \in Nat :
              d = Doubling(s, n) /\ b = Asked(s, n) /\ max = s.max
        BY DoublingIs, AskedType, SettingTypes
      <4>5. b = IF max > 0 /\ d > max THEN max ELSE d
        BY <4>4 DEF Asked
      <4>6. Doubled(max, b) = IF max > 0 /\ 2 * d > max THEN max ELSE 2 * d
        BY <4>2, <4>4, <4>5, OneMoreDoubling
      <4>7. Doubling(s, n + 1) = 2 * d
        BY <4>1, <4>4, DoublingIs
      <4>8. Asked(s, n + 1) = IF max > 0 /\ 2 * d > max THEN max ELSE 2 * d
        BY <4>4, <4>7 DEF Asked
      <4>9. QED BY <4>3, <4>4, <4>6, <4>8
    <3>3. QED BY <3>1, <3>2
  <2>2. QED BY <2>1
<1> HIDE DEF S
<1>3. Nat \subseteq S
  BY <1>1, <1>2, NatInductionSet
<1>4. ASSUME NEW n \in 1..s.attempts PROVE RetryBackoff(s, n) = Asked(s, n)
  <2>1. n \in Nat
    BY SettingTypes
  <2>2. QED BY <1>3, <2>1 DEF S
<1>5. QED BY <1>4

-----------------------------------------------------------------------------
(***************************************************************************)
(* The consumer.                                                           *)
(***************************************************************************)

ConsumerTypes ==
  /\ retry \in Retries /\ now \in Nat /\ due \in Int /\ step \in {"down", "try", "wait"}
  /\ event \in 1..Events + 1 /\ attempt \in 0..retry.attempts
  /\ firstTry \in [1..Events -> Nat] /\ parked \subseteq 1..event - 1
  /\ installedAt \in [Versions -> Nat]
  /\ step = "wait" => attempt > 0

\* Since an event was tried first, the consumer has waited as often as it has tried
\* again, and when it wakes up, once more.
Waited ==
  step # "down" /\ attempt > 0 =>
    /\ event <= Events
    /\ firstTry[event] + Waits(retry, attempt) <= (IF step = "wait" THEN due ELSE now)

\* What an event in the DLQ needs was not there all the time, and may still come.
Patient ==
  \A e \in parked :
    firstTry[e] + Patience <= (IF Needs[e] \in installed THEN installedAt[Needs[e]] ELSE now)

RetryInv == ConsumerTypes /\ (Fits(retry) => Waited /\ Patient /\ WaitAsConfigured)

LEMMA InitRetryInv ==
  ASSUME Init
  PROVE  RetryInv
BY EventsAssumption, RetriesAssumption DEF Init, RetryInv, ConsumerTypes, Waited, Patient,
   WaitAsConfigured

\* The steps of a replica: what a commit installs is as new as the commit.
LEMMA ReplicaKeepsRetryInv ==
  ASSUME RetryInv, NEW r \in Replicas, Run(r) \/ Die(r)
  PROVE  RetryInv'
<1>1. UNCHANGED consumer /\ now' = now
  BY DEF Run, Die, Start, Ensure, Create, Check, Exec, Record, Commit, Listen
<1>2. /\ installedAt' \in [Versions -> Nat]
      /\ \A v \in Versions :
           \/ (v \in installed' <=> v \in installed) /\ (v \in installed => installedAt'[v] = installedAt[v])
           \/ v \notin installed /\ v \in installed' /\ installedAt'[v] = now
  <2>1. CASE Commit(r)
    BY <2>1 DEF Commit, RetryInv, ConsumerTypes
  <2>2. CASE ~Commit(r)
    <3>1. installed' = installed /\ installedAt' = installedAt
      BY <2>2 DEF Run, Die, Start, Ensure, Create, Check, Exec, Record, Listen, schema
    <3>2. QED BY <3>1 DEF RetryInv, ConsumerTypes
  <2>3. QED BY <2>1, <2>2
<1>3. ConsumerTypes'
  BY <1>1, <1>2 DEF consumer, RetryInv, ConsumerTypes
<1>4. Patience' = Patience
  BY <1>1 DEF consumer, Patience
<1>5. Patient => Patient'
  <2>1. SUFFICES ASSUME Patient, NEW e \in parked'
                 PROVE  firstTry'[e] + Patience <=
                          (IF Needs[e] \in installed' THEN installedAt'[Needs[e]] ELSE now')
    BY <1>4 DEF Patient
  <2>2. e \in parked /\ firstTry' = firstTry
    BY <1>1 DEF consumer
  <2>3. e \in 1..Events
    BY <2>2, EventsAssumption DEF RetryInv, ConsumerTypes
  <2>4. Needs[e] \in Versions
    BY <2>3, EventsAssumption
  <2>5. firstTry[e] + Patience <= (IF Needs[e] \in installed THEN installedAt[Needs[e]] ELSE now)
    BY <2>1, <2>2 DEF Patient
  <2>6. QED BY <1>1, <1>2, <2>2, <2>4, <2>5
<1>6. (Waited => Waited') /\ (WaitAsConfigured => WaitAsConfigured')
  BY <1>1 DEF consumer, Waited, WaitAsConfigured
<1>7. Fits(retry)' = Fits(retry)
  BY <1>1 DEF consumer
<1>8. QED BY <1>3, <1>5, <1>6, <1>7 DEF RetryInv

LEMMA WaitsGrow ==
  ASSUME RetryInv, Fits(retry), attempt < retry.attempts
  PROVE  LET w == RetryBackoff(retry, attempt + 1) IN
         /\ w \in Nat /\ w = Asked(retry, attempt + 1)
         /\ Waits(retry, attempt) \in Nat
         /\ Waits(retry, attempt + 1) = Waits(retry, attempt) + w
<1>1. retry \in Retries /\ attempt \in Nat /\ attempt + 1 \in 1..retry.attempts
  BY SettingTypes DEF RetryInv, ConsumerTypes
<1>2. QED BY <1>1, BackoffAsAsked, AskedType, WaitsAre

LEMMA TryKeepsRetryInv ==
  ASSUME RetryInv, Try
  PROVE  RetryInv'
<1> DEFINE first == IF attempt = 0 THEN [firstTry EXCEPT ![event] = now] ELSE firstTry
           found == Needs[event] \in installed
<1>1. /\ step = "try" /\ event \in 1..Events /\ Events \in Nat /\ firstTry' = first
      /\ retry' = retry /\ now' = now /\ installed' = installed /\ installedAt' = installedAt
  BY EventsAssumption DEF Try, schema, RetryInv, ConsumerTypes
<1>2. /\ retry \in Retries /\ retry.attempts \in Nat /\ now \in Nat /\ due \in Int
      /\ attempt \in 0..retry.attempts /\ firstTry \in [1..Events -> Nat]
      /\ parked \subseteq 1..event - 1 /\ installedAt \in [Versions -> Nat]
  BY SettingTypes DEF RetryInv, ConsumerTypes
<1>3. /\ first \in [1..Events -> Nat]
      /\ \A e \in 1..Events : e # event => first[e] = firstTry[e]
      /\ attempt = 0 => first[event] = now
      /\ attempt # 0 => first[event] = firstTry[event]
  BY <1>1, <1>2
<1> HIDE DEF first
<1>4. Fits(retry) => first[event] + Waits(retry, attempt) <= now
  <2>1. SUFFICES ASSUME Fits(retry) PROVE first[event] + Waits(retry, attempt) <= now
    OBVIOUS
  <2>2. CASE attempt = 0
    <3>1. Waits(retry, 0) = 0
      BY <1>2, WaitsAre
    <3>2. QED BY <1>2, <1>3, <2>2, <3>1
  <2>3. CASE attempt # 0
    <3>1. firstTry[event] + Waits(retry, attempt) <= now
      BY <1>1, <1>2, <2>1, <2>3 DEF RetryInv, Waited
    <3>2. QED BY <1>3, <2>3, <3>1
  <2>4. QED BY <2>2, <2>3
<1>5. Fits(retry)' = Fits(retry) /\ Patience' = Patience
  BY <1>1 DEF Patience
<1>6. CASE found \/ attempt = retry.attempts
  <2>1. /\ event' = event + 1 /\ attempt' = 0 /\ step' = "try" /\ due' = due
        /\ parked' = IF found THEN parked ELSE parked \union {event}
    BY <1>1, <1>6 DEF Try
  <2>2. ConsumerTypes'
    <3>1. parked' \subseteq 1..event' - 1 /\ event' \in 1..Events + 1
      BY <1>1, <1>2, <2>1
    <3>2. 0 \in 0..retry.attempts
      BY <1>2
    <3>3. QED BY <1>1, <1>2, <1>3, <2>1, <3>1, <3>2 DEF ConsumerTypes
  <2>3. Waited' /\ WaitAsConfigured'
    BY <2>1 DEF Waited, WaitAsConfigured
  <2>4. ASSUME Fits(retry), NEW e \in parked'
        PROVE  firstTry'[e] + Patience <=
                 (IF Needs[e] \in installed THEN installedAt[Needs[e]] ELSE now)
    <3>1. CASE e \in parked
      <4>1. e \in 1..Events /\ e # event
        BY <1>1, <1>2, <3>1
      <4>2. firstTry[e] + Patience <=
              (IF Needs[e] \in installed THEN installedAt[Needs[e]] ELSE now)
        BY <2>4, <3>1 DEF RetryInv, Patient
      <4>3. QED BY <1>1, <1>3, <4>1, <4>2
    <3>2. CASE e \notin parked
      <4>1. e = event /\ ~found /\ attempt = retry.attempts
        BY <1>6, <2>1, <2>4, <3>2
      <4>2. QED BY <1>1, <1>4, <2>4, <4>1 DEF Patience
    <3>3. QED BY <3>1, <3>2
  <2>5. Fits(retry) => Patient'
    BY <1>1, <1>5, <2>4 DEF Patient
  <2>6. QED BY <1>5, <2>2, <2>3, <2>5 DEF RetryInv
<1>7. CASE ~(found \/ attempt = retry.attempts)
  <2> DEFINE w == RetryBackoff(retry, attempt + 1)
  <2>1. /\ event' = event /\ attempt' = attempt + 1 /\ step' = "wait"
        /\ due' = now + w /\ parked' = parked
    BY <1>7 DEF Try
  <2>2. w \in Int
    <3>1. attempt + 1 = 1 \/ attempt \in Nat \ {0}
      BY <1>2
    <3>2. CASE attempt = 0
      BY <1>2, <3>2, BackoffIs, SettingTypes
    <3>3. CASE attempt \in Nat \ {0}
      <4>1. attempt + 1 \in Nat \ {0}
        BY <3>3
      <4>2. QED BY <1>2, <4>1, BackoffIs
    <3>4. QED BY <1>2, <3>2, <3>3
  <2>3. ASSUME Fits(retry)
        PROVE  /\ w = Asked(retry, attempt + 1) /\ w \in Nat /\ Waits(retry, attempt) \in Nat
               /\ Waits(retry, attempt + 1) = Waits(retry, attempt) + w
    <3>1. attempt < retry.attempts
      BY <1>2, <1>7
    <3>2. QED BY <2>3, <3>1, WaitsGrow
  <2> HIDE DEF w
  <2>4. attempt + 1 \in 0..retry.attempts /\ attempt + 1 > 0
    BY <1>2, <1>7
  <2>5. ConsumerTypes'
    <3>1. due' \in Int /\ event \in 1..Events + 1
      BY <1>1, <1>2, <2>1, <2>2
    <3>2. QED BY <1>1, <1>2, <1>3, <2>1, <2>4, <3>1 DEF ConsumerTypes
  <2>6. Fits(retry) => Waited'
    <3>1. ASSUME Fits(retry)
          PROVE  first[event] + Waits(retry, attempt + 1) <= now + w
      <4>1. first[event] \in Nat
        BY <1>1, <1>3
      <4>2. QED BY <1>2, <1>4, <2>3, <3>1, <4>1
    <3>2. event <= Events
      BY <1>1
    <3>3. QED BY <1>1, <2>1, <3>1, <3>2 DEF Waited
  <2>7. Fits(retry) => WaitAsConfigured'
    <3>1. Fits(retry) => now + w <= now + Asked(retry, attempt + 1)
      BY <1>2, <2>3
    <3>2. QED BY <1>1, <2>1, <3>1 DEF WaitAsConfigured
  <2>8. Fits(retry) => Patient'
    <3>1. ASSUME NEW e \in parked PROVE firstTry'[e] = firstTry[e]
      BY <1>1, <1>2, <1>3
    <3>2. Fits(retry) => Patient
      BY DEF RetryInv
    <3>3. QED BY <1>1, <1>5, <2>1, <3>1, <3>2 DEF Patient
  <2>9. QED BY <1>5, <2>5, <2>6, <2>7, <2>8 DEF RetryInv
<1>8. QED BY <1>6, <1>7

LEMMA OthersKeepRetryInv ==
  ASSUME RetryInv, StartConsumer \/ Wake \/ ConsumerDies \/ Tick
  PROVE  RetryInv'
<1>1. /\ UNCHANGED <<retry, event, due, firstTry, parked, installed, installedAt>>
      /\ now' \in {now, now + 1}
  BY DEF StartConsumer, Wake, ConsumerDies, Tick, schema, consumer
<1>2. now \in Nat /\ retry \in Retries /\ retry.attempts \in Nat /\ due \in Int
  BY SettingTypes DEF RetryInv, ConsumerTypes
<1>3. Fits(retry)' = Fits(retry) /\ Patience' = Patience
  BY <1>1 DEF Patience
<1>4. now' \in Nat /\ now <= now'
  BY <1>1, <1>2
<1>5. \/ step' = "down" /\ attempt' = attempt
      \/ step' = "try" /\ attempt' = 0
      \/ step' = "try" /\ attempt' = attempt /\ step = "wait" /\ due <= now /\ now' = now
      \/ step' = step /\ attempt' = attempt
  BY DEF StartConsumer, Wake, ConsumerDies, Tick, consumer
<1>6. ConsumerTypes'
  <2>1. 0 \in 0..retry.attempts
    BY <1>2
  <2>2. QED BY <1>1, <1>4, <1>5, <2>1 DEF RetryInv, ConsumerTypes
<1>7. ASSUME Fits(retry), Waited PROVE Waited'
  <2>1. SUFFICES ASSUME step' # "down", attempt' > 0
                 PROVE  /\ event <= Events
                        /\ firstTry[event] + Waits(retry, attempt) <=
                             (IF step' = "wait" THEN due ELSE now')
                        /\ attempt' = attempt
    BY <1>1 DEF Waited
  <2>2. attempt' = attempt /\ step # "down" /\ (step' = step \/ (step = "wait" /\ due <= now /\ now' = now))
    BY <1>5, <2>1 DEF RetryInv, ConsumerTypes
  <2>3. /\ event <= Events
        /\ firstTry[event] + Waits(retry, attempt) <= (IF step = "wait" THEN due ELSE now)
    BY <1>7, <2>1, <2>2 DEF Waited
  <2>4. firstTry[event] \in Nat /\ Waits(retry, attempt) \in Nat
    <3>1. event \in 1..Events /\ attempt \in Nat
      BY <1>2, <2>3, EventsAssumption DEF RetryInv, ConsumerTypes
    <3>2. QED BY <1>2, <3>1, WaitsAre DEF RetryInv, ConsumerTypes
  <2> DEFINE x == firstTry[event] + Waits(retry, attempt)
  <2>5. x \in Nat
    BY <2>4
  <2> HIDE DEF x
  <2>6. x <= (IF step = "wait" THEN due ELSE now)
    BY <2>3 DEF x
  <2>7. x <= (IF step' = "wait" THEN due ELSE now')
    BY <1>2, <1>4, <2>2, <2>5, <2>6
  <2>8. QED BY <2>2, <2>3, <2>7 DEF x
<1>8. ASSUME Fits(retry), Patient PROVE Patient'
  <2>1. SUFFICES ASSUME NEW e \in parked
                 PROVE  firstTry[e] + Patience <=
                          (IF Needs[e] \in installed THEN installedAt[Needs[e]] ELSE now')
    BY <1>1, <1>3 DEF Patient
  <2>2. firstTry[e] + Patience <=
          (IF Needs[e] \in installed THEN installedAt[Needs[e]] ELSE now)
    BY <1>8 DEF Patient
  <2>3. firstTry[e] \in Nat /\ Patience \in Nat
    <3>1. e \in 1..Events
      BY EventsAssumption DEF RetryInv, ConsumerTypes
    <3>2. QED BY <1>2, <3>1, WaitsAre DEF RetryInv, ConsumerTypes, Patience
  <2> DEFINE x == firstTry[e] + Patience
  <2>4. x \in Nat
    BY <2>3
  <2> HIDE DEF x
  <2>5. x <= (IF Needs[e] \in installed THEN installedAt[Needs[e]] ELSE now)
    BY <2>2 DEF x
  <2>6. x <= (IF Needs[e] \in installed THEN installedAt[Needs[e]] ELSE now')
    BY <1>2, <1>4, <2>4, <2>5
  <2>7. QED BY <2>6 DEF x
<1>9. ASSUME Fits(retry), WaitAsConfigured PROVE WaitAsConfigured'
  <2>1. SUFFICES ASSUME step' = "wait" PROVE attempt' = attempt /\ due <= now' + Asked(retry, attempt)
    BY <1>1 DEF WaitAsConfigured
  <2>2. step = "wait" /\ attempt' = attempt
    BY <1>5, <2>1
  <2>3. due <= now + Asked(retry, attempt)
    BY <1>9, <2>2 DEF WaitAsConfigured
  <2>4. Asked(retry, attempt) \in Nat
    BY <1>2, AskedType DEF RetryInv, ConsumerTypes
  <2>5. QED BY <1>2, <1>4, <2>2, <2>3, <2>4
<1>10. QED BY <1>3, <1>6, <1>7, <1>8, <1>9 DEF RetryInv

LEMMA NextRetryInv ==
  ASSUME RetryInv, [Next]_vars
  PROVE  RetryInv'
<1>1. CASE UNCHANGED vars
  BY <1>1 DEF vars, schema, consumer, RetryInv, ConsumerTypes, Waited, Patient, Patience,
     WaitAsConfigured
<1>2. QED
  BY <1>1, ReplicaKeepsRetryInv, TryKeepsRetryInv, OthersKeepRetryInv DEF Next

LEMMA RetryInvariance == Spec => []RetryInv
BY InitRetryInv, NextRetryInv, PTL DEF Spec

\* The premise of the two theorems after the next is met by every setting with a maximum
\* of at most half the greatest duration, which is 146 years.
LEMMA MaximumMakesItFit ==
  ASSUME NEW s \in Retries, s.max > 0, 2 * s.max <= MaxDuration
  PROVE  Fits(s) /\ \A n \in 1..s.attempts : Asked(s, n) \in 0..s.max
<1> SUFFICES ASSUME NEW n \in 1..s.attempts
             PROVE  2 * Asked(s, n) <= MaxDuration /\ Asked(s, n) \in 0..s.max
  BY DEF Fits
<1>1. Asked(s, n) \in Nat /\ s.max \in Nat /\ MaxDuration \in Nat
  BY AskedType, SettingTypes
<1>2. Asked(s, n) <= s.max
  BY <1>1 DEF Asked
<1>3. QED BY <1>1, <1>2

\* With such a maximum the loop of retryBackoff never overflows, however many attempts are
\* configured: before each of them it asks for the capped doubling of the first wait.
THEOREM BackoffWithinMaximum ==
  \A s \in Retries : s.max > 0 /\ 2 * s.max <= MaxDuration =>
    \A n \in 1..s.attempts :
      RetryBackoff(s, n) = Asked(s, n) /\ RetryBackoff(s, n) \in 0..s.max
BY MaximumMakesItFit, BackoffAsAsked

\* No wait of the consumer is longer than its settings ask for.
THEOREM WaitsAsConfigured == Spec => []WaitAsConfigured
<1>1. RetryInv => WaitAsConfigured
  BY DEF RetryInv, WaitAsConfigured
<1>2. QED BY <1>1, RetryInvariance, PTL

\* The consumer parks an event for a missing table only when the table was missing for as
\* long as all of its waits together, whatever replicas, restarts and deaths there were.
THEOREM ParksAfterPatience == Spec => []ParkedAfterPatience
<1>1. RetryInv => ParkedAfterPatience
  <2> SUFFICES ASSUME RetryInv, Fits(retry), NEW e \in parked, Needs[e] \in installed
               PROVE  installedAt[Needs[e]] >= firstTry[e] + Patience
    BY DEF ParkedAfterPatience
  <2>1. firstTry[e] + Patience <= installedAt[Needs[e]]
    BY DEF RetryInv, Patient
  <2>2. QED BY <2>1
<1>2. QED BY <1>1, RetryInvariance, PTL
=============================================================================
