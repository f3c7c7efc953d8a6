-------------------------- MODULE ServingTheorems --------------------------
(***************************************************************************)
(* Theorems about the router and the control store it reads: a use case    *)
(* has one owner; a task is evidence for one experiment at most, a runaway *)
(* counts once, and a task that is still calling stays bound.              *)
(***************************************************************************)
EXTENDS Serving, SequenceTheorems, TLAPS

-----------------------------------------------------------------------------
(* Types *)

LEMMA InitTypes == Init => TypeOK
  <1> SUFFICES ASSUME Init PROVE TypeOK
    OBVIOUS
  <1>1. ControlTypeOK
    BY DEF Init, ControlInit, ControlTypeOK, Lifecycle, Choice, Approval
  <1>2. /\ snapshot \in [UseCase -> Experiment \cup {None}]
        /\ reading \in Read
        /\ tasks \in Seq(Binding) /\ Len(tasks) <= MaxBindings
        /\ events \in 0 .. MaxEvents
        /\ arms \in [Task -> [Experiment -> Served]]
        /\ recent \in Seq(Task)
    BY ServingAssumption DEF Init, Read, NoArms, NoServed, Served
  <1> QED
    BY <1>1, <1>2 DEF Init, TypeOK, ControlTypeOK

LEMMA CommandTypes ==
    ASSUME ControlTypeOK, Command
    PROVE  ControlTypeOK'
  <1> USE ControlAssumption DEF ControlTypeOK, Lifecycle, Choice, Approval
  <1>1. CASE \E e \in Experiment :
                StartExperiment(e) \/ StopExperiment(e) \/ Adopt(e)
    BY <1>1 DEF StartExperiment, StopExperiment, Adopt
  <1>2. CASE \E s \in Shadow : StartShadow(s) \/ StopShadow(s)
    BY <1>2 DEF StartShadow, StopShadow
  <1>3. CASE \E u \in UseCase : \E m \in Choice : SetRoute(u, m)
    BY <1>3 DEF SetRoute
  <1>4. CASE \E u \in UseCase : \E approval \in Approvals \cup {None} :
                SetFallback(u, approval)
    BY <1>4 DEF SetFallback
  <1>5. CASE \E r \in Revision : Activate(r)
    BY <1>5 DEF Activate, Install, Document
  <1> QED
    BY <1>1, <1>2, <1>3, <1>4, <1>5 DEF Command

LEMMA RunningTyped ==
    ASSUME TypeOK
    PROVE  RunningByUseCase \in [UseCase -> Experiment \cup {None}]
  BY DEF RunningByUseCase, Running

-----------------------------------------------------------------------------
(* The tables of bindings and of recent tasks *)

LEMMA TableSize == MaxBindings \in Nat \ {0}
  BY ServingAssumption

\* Where an element goes when another one is taken out and a new one is put
\* at the end.
LEMMA WithoutIs ==
    ASSUME NEW S, NEW seq \in Seq(S), NEW i \in 1 .. Len(seq)
    PROVE  /\ Without(seq, i) \in Seq(S)
           /\ Len(Without(seq, i)) = Len(seq) - 1
           /\ \A j \in 1 .. Len(seq) - 1 :
                 Without(seq, i)[j] = IF j < i THEN seq[j] ELSE seq[j + 1]
  <1>1. Len(seq) - 1 \in Nat
    OBVIOUS
  <1>2. Without(seq, i) \in [1 .. Len(seq) - 1 -> S]
    BY DEF Without
  <1> QED
    BY <1>1, <1>2 DEF Without

LEMMA LastOfIs ==
    ASSUME NEW S, NEW seq \in Seq(S), Len(seq) <= MaxBindings + 1
    PROVE  /\ LastOf(seq) \in Seq(S)
           /\ Len(LastOf(seq)) <= MaxBindings
           /\ Len(LastOf(seq)) = IF Len(seq) > MaxBindings THEN Len(seq) - 1
                                 ELSE Len(seq)
           /\ \A j \in 1 .. Len(LastOf(seq)) :
                 LastOf(seq)[j] = IF Len(seq) > MaxBindings THEN seq[j + 1]
                                  ELSE seq[j]
  BY ServingAssumption DEF LastOf

\* What the bindings and the history say of each other.
Distinct ==
    \A i, j \in 1 .. Len(tasks) : tasks[i].task = tasks[j].task => i = j

RecentFollows ==
    /\ Len(recent) = Len(tasks)
    /\ \A i \in 1 .. Len(tasks) : recent[i] = tasks[i].task

ArmsAreBound ==
    \A t \in Task, e \in Experiment :
        arms[t][e] # NoServed =>
            \E i \in 1 .. Len(tasks) : tasks[i].task = t /\ tasks[i].experiment = e

Agrees(served, b) ==
    /\ served.candidate = b.calls
    /\ served.breaches = IF b.recorded THEN 1 ELSE 0
    /\ b.calls <= MaxCalls[b.experiment]

CountsAgree ==
    \A i \in 1 .. Len(tasks) :
        Agrees(arms[tasks[i].task][tasks[i].experiment], tasks[i])

BindingsInv == Distinct /\ RecentFollows /\ ArmsAreBound /\ CountsAgree

\* The table and the history without a task ...
TakenOut(b, others, tail) ==
    /\ others \in Seq(Binding) /\ tail \in Seq(Task)
    /\ Len(tail) = Len(others) /\ Len(others) <= MaxBindings
    /\ \A i \in 1 .. Len(others) :
          /\ tail[i] = others[i].task
          /\ others[i].task # b.task
          /\ \E j \in 1 .. Len(tasks) : others[i] = tasks[j]
    /\ \A i, j \in 1 .. Len(others) :
          others[i].task = others[j].task => i = j

LEMMA OthersAre ==
    ASSUME TypeOK, Distinct, RecentFollows, NEW b \in Binding
    PROVE  \E tail \in Seq(Task) :
              TakenOut(b, Others(b), tail) /\ Later(recent, b.task) = Append(tail, b.task)
  <1> USE TableSize
  <1>1. PICK n \in Nat : n = Len(tasks) /\ n <= MaxBindings
    BY DEF TypeOK
  <1>2. PICK t \in Task : t = b.task
    BY DEF Binding
  <1>3. /\ tasks \in Seq(Binding) /\ recent \in Seq(Task) /\ Len(recent) = n
        /\ \A i \in 1 .. n : recent[i] = tasks[i].task
        /\ \A i, j \in 1 .. n : tasks[i].task = tasks[j].task => i = j
    BY <1>1 DEF TypeOK, RecentFollows, Distinct
  <1>4. CASE \E p \in 1 .. n : tasks[p].task = t
    <2>1. PICK p \in 1 .. n : tasks[p].task = t
      BY <1>4
    <2>2. \A i \in 1 .. n : (tasks[i].task = t <=> i = p) /\ (recent[i] = t <=> i = p)
      BY <2>1, <1>3
    <2>3. Position(b.task) = {p}
      BY <2>2, <1>1, <1>2 DEF Position
    <2>4. Others(b) = Without(tasks, p)
      BY <2>3 DEF Others, IsBound
    <2>5. (CHOOSE i \in 1 .. Len(recent) : recent[i] = t) = p
      BY <2>2, <1>3
    <2>6. Later(recent, t) = Append(Without(recent, p), t)
      BY <2>2, <2>5, <1>3 DEF Later
    <2> DEFINE others == Without(tasks, p)
               tail == Without(recent, p)
    <2>7. p \in 1 .. Len(tasks) /\ p \in 1 .. Len(recent)
      BY <1>1, <1>3
    <2>8. others \in Seq(Binding) /\ tail \in Seq(Task)
      BY <2>7, <1>3, WithoutIs
    <2>9. /\ Len(others) = n - 1
          /\ \A i \in 1 .. n - 1 :
                others[i] = IF i < p THEN tasks[i] ELSE tasks[i + 1]
      BY <2>7, <1>1, <1>3, WithoutIs
    <2>10. /\ Len(tail) = n - 1
           /\ \A i \in 1 .. n - 1 :
                 tail[i] = IF i < p THEN recent[i] ELSE recent[i + 1]
      BY <2>7, <1>3, WithoutIs
    <2> HIDE DEF others, tail
    <2>11. \A i \in 1 .. n - 1 :
              /\ tail[i] = others[i].task /\ others[i].task # t
              /\ \E j \in 1 .. n : others[i] = tasks[j]
      BY <2>2, <2>9, <2>10, <1>3
    <2>12. \A i, j \in 1 .. n - 1 : others[i].task = others[j].task => i = j
      <3> DEFINE was(i) == IF i < p THEN i ELSE i + 1
      <3>1. \A i \in 1 .. n - 1 : was(i) \in 1 .. n
        BY <1>3
      <3>2. \A i \in 1 .. n - 1 : others[i] = tasks[was(i)]
        BY <2>9
      <3>3. \A i, j \in 1 .. n - 1 : was(i) = was(j) => i = j
        OBVIOUS
      <3> HIDE DEF was
      <3> SUFFICES ASSUME NEW i \in 1 .. n - 1, NEW j \in 1 .. n - 1,
                          others[i].task = others[j].task
                   PROVE  i = j
        OBVIOUS
      <3>4. was(i) \in 1 .. n /\ was(j) \in 1 .. n
        BY <3>1
      <3>5. tasks[was(i)].task = tasks[was(j)].task
        BY <3>2
      <3>6. was(i) = was(j)
        BY <3>4, <3>5, <1>3
      <3> QED
        BY <3>3, <3>6
    <2>13. n - 1 <= MaxBindings
      BY <1>1
    <2>14. TakenOut(b, others, tail)
      BY <2>8, <2>9, <2>10, <2>11, <2>12, <2>13, <1>1, <1>2 DEF TakenOut
    <2> QED
      BY <2>4, <2>6, <2>8, <2>14, <1>2 DEF others, tail
  <1>5. CASE \A p \in 1 .. n : tasks[p].task # t
    <2>1. Others(b) = tasks /\ Later(recent, t) = Append(recent, t)
      BY <1>1, <1>2, <1>3, <1>5 DEF Others, IsBound, Position, Later
    <2>2. TakenOut(b, tasks, recent)
      BY <1>1, <1>2, <1>3, <1>5 DEF TakenOut
    <2> QED
      BY <2>1, <2>2, <1>2, <1>3
  <1> QED
    BY <1>4, <1>5

\* ... and with it at the end, within the bound.
Renewed(b, after, since) ==
    /\ after \in Seq(Binding) /\ since \in Seq(Task)
    /\ Len(after) \in 1 .. MaxBindings /\ Len(since) = Len(after)
    /\ after[Len(after)] = b
    /\ \A i \in 1 .. Len(after) : since[i] = after[i].task
    /\ \A i \in 1 .. Len(after) - 1 :
          /\ after[i].task # b.task
          /\ \E j \in 1 .. Len(tasks) : after[i] = tasks[j]
    /\ \A i, j \in 1 .. Len(after) : after[i].task = after[j].task => i = j

LEMMA BoundIs ==
    ASSUME TypeOK, Distinct, RecentFollows, NEW b \in Binding
    PROVE  Renewed(b, Bound(b), LastOf(Later(recent, b.task)))
  <1> USE TableSize
  <1> DEFINE others == Others(b)
  <1>1. PICK tail \in Seq(Task) :
            /\ TakenOut(b, others, tail)
            /\ Later(recent, b.task) = Append(tail, b.task)
    BY OthersAre
  <1> DEFINE longer == Append(others, b)
             later == Append(tail, b.task)
  <1>2. PICK m \in Nat : m = Len(others) /\ m <= MaxBindings /\ Len(tail) = m
    BY <1>1 DEF TakenOut
  <1>3. b.task \in Task
    BY DEF Binding
  <1> HIDE DEF others
  <1>4. /\ longer \in Seq(Binding) /\ Len(longer) = m + 1
        /\ longer[m + 1] = b /\ \A i \in 1 .. m : longer[i] = others[i]
    BY <1>1, <1>2, AppendProperties DEF TakenOut
  <1>5. /\ later \in Seq(Task) /\ Len(later) = m + 1
        /\ later[m + 1] = b.task /\ \A i \in 1 .. m : later[i] = tail[i]
    BY <1>2, <1>3, AppendProperties
  <1>6. Bound(b) = LastOf(longer) /\ LastOf(Later(recent, b.task)) = LastOf(later)
    BY <1>1 DEF Bound, others
  <1> HIDE DEF longer, later
  <1>7. \A i \in 1 .. m :
            /\ later[i] = longer[i].task /\ longer[i].task # b.task
            /\ \E j \in 1 .. Len(tasks) : longer[i] = tasks[j]
    BY <1>1, <1>2, <1>4, <1>5 DEF TakenOut
  <1>8. \A i \in 1 .. m + 1 : later[i] = longer[i].task
    BY <1>4, <1>5, <1>7
  <1>9. \A i, j \in 1 .. m + 1 : longer[i].task = longer[j].task => i = j
    <2>1. \A i, j \in 1 .. m : longer[i].task = longer[j].task => i = j
      BY <1>1, <1>2, <1>4 DEF TakenOut
    <2> SUFFICES ASSUME NEW i \in 1 .. m + 1, NEW j \in 1 .. m + 1,
                        longer[i].task = longer[j].task
                 PROVE  i = j
      OBVIOUS
    <2>2. longer[m + 1].task = b.task
      BY <1>4
    <2>3. /\ i \in 1 .. m \/ i = m + 1
          /\ j \in 1 .. m \/ j = m + 1
      OBVIOUS
    <2> QED
      BY <2>1, <2>2, <2>3, <1>7
  <1>10. CASE m + 1 > MaxBindings
    <2>1. m \in 1 .. MaxBindings
      BY <1>2, <1>10
    <2> DEFINE after == LastOf(longer)
               since == LastOf(later)
    <2>0. Len(longer) <= MaxBindings + 1 /\ Len(later) <= MaxBindings + 1
      BY <1>2, <1>4, <1>5
    <2>2. /\ after \in Seq(Binding) /\ Len(after) = m
          /\ \A i \in 1 .. m : after[i] = longer[i + 1]
      <3>1. longer \in Seq(Binding) /\ Len(longer) > MaxBindings
        BY <1>4, <1>10
      <3>2. /\ after \in Seq(Binding) /\ Len(after) = Len(longer) - 1
            /\ \A i \in 1 .. Len(after) : after[i] = longer[i + 1]
        BY <3>1, <2>0, LastOfIs
      <3> HIDE DEF after
      <3> QED
        BY <3>2, <1>4
    <2>3. /\ since \in Seq(Task) /\ Len(since) = m
          /\ \A i \in 1 .. m : since[i] = later[i + 1]
      BY <1>2, <1>5, <1>10, <2>0, LastOfIs
    <2> HIDE DEF after, since
    <2>4. after[m] = b
      BY <2>1, <2>2, <1>4
    <2>7. \A i \in 1 .. m : since[i] = after[i].task
      BY <2>2, <2>3, <1>8
    <2>5. \A i \in 1 .. m - 1 : /\ after[i].task # b.task
                               /\ \E j \in 1 .. Len(tasks) : after[i] = tasks[j]
      <3> SUFFICES ASSUME NEW i \in 1 .. m - 1
                   PROVE  /\ after[i].task # b.task
                          /\ \E j \in 1 .. Len(tasks) : after[i] = tasks[j]
        OBVIOUS
      <3>1. i + 1 \in 1 .. m /\ after[i] = longer[i + 1]
        BY <2>2
      <3> QED
        BY <3>1, <1>7
    <2>6. \A i, j \in 1 .. m : after[i].task = after[j].task => i = j
      <3> SUFFICES ASSUME NEW i \in 1 .. m, NEW j \in 1 .. m,
                          after[i].task = after[j].task
                   PROVE  i = j
        OBVIOUS
      <3>1. /\ after[i] = longer[i + 1] /\ i + 1 \in 1 .. m + 1
            /\ after[j] = longer[j + 1] /\ j + 1 \in 1 .. m + 1
        BY <2>2
      <3> QED
        BY <3>1, <1>9
    <2> QED
      BY <2>1, <2>2, <2>3, <2>4, <2>5, <2>6, <2>7, <1>6 DEF Renewed, after, since
  <1>11. CASE ~(m + 1 > MaxBindings)
    <2>1. LastOf(longer) = longer /\ LastOf(later) = later
      BY <1>4, <1>5, <1>11 DEF LastOf
    <2>2. m + 1 \in 1 .. MaxBindings
      BY <1>2, <1>11
    <2> QED
      BY <2>1, <2>2, <1>2, <1>4, <1>5, <1>6, <1>7, <1>8, <1>9 DEF Renewed
  <1> QED
    BY <1>10, <1>11

-----------------------------------------------------------------------------
(* A decision *)

\* What an experiment knows of a task before it takes a call of it.
Opening(r) ==
    IF IsBound(r.task) /\ BindingOf(r.task).experiment = Matching(r)
    THEN BindingOf(r.task) ELSE NewBinding(r)

LEMMA MatchingTyped ==
    ASSUME TypeOK, NEW r \in Request
    PROVE  Matching(r) \in Experiment \cup {None}
  BY ServingAssumption DEF Matching, TypeOK, RequestType

LEMMA BoundTask ==
    ASSUME TypeOK, Distinct, NEW i \in 1 .. Len(tasks)
    PROVE  IsBound(tasks[i].task) /\ BindingOf(tasks[i].task) = tasks[i]
  <1>1. Position(tasks[i].task) = {i}
    BY DEF Distinct, Position
  <1> QED
    BY <1>1 DEF IsBound, BindingOf

LEMMA OpeningIs ==
    ASSUME TypeOK, BindingsInv, NEW r \in Request, Takes(r)
    PROVE  LET b == Opening(r)
           IN  /\ b \in Binding /\ b.task = r.task
               /\ Agrees(arms[b.task][b.experiment], b)
               /\ \A e \in Experiment :
                     arms[b.task][e] # NoServed => e = b.experiment
  <1> DEFINE b == Opening(r)
  <1>1. r.task \in Task /\ Matching(r) \in Experiment
    BY MatchingTyped, ServingAssumption DEF Takes, RequestType
  <1>2. CASE IsBound(r.task)
    <2>1. PICK i \in 1 .. Len(tasks) : tasks[i].task = r.task
      BY <1>2 DEF IsBound, Position
    <2>2. BindingOf(r.task) = tasks[i]
      BY <2>1, BoundTask DEF BindingsInv
    <2>3. tasks[i].experiment = Matching(r) /\ b = tasks[i]
      BY <1>2, <2>2 DEF Takes, Opening
    <2>4. b \in Binding
      BY <2>3 DEF TypeOK
    <2>5. Agrees(arms[b.task][b.experiment], b)
      BY <2>3 DEF BindingsInv, CountsAgree
    <2>6. ASSUME NEW e \in Experiment, arms[r.task][e] # NoServed
          PROVE  e = b.experiment
      <3>1. PICK j \in 1 .. Len(tasks) :
                tasks[j].task = r.task /\ tasks[j].experiment = e
        BY <2>6, <1>1 DEF BindingsInv, ArmsAreBound
      <3>2. j = i
        BY <2>1, <3>1 DEF BindingsInv, Distinct
      <3> QED
        BY <2>3, <3>1, <3>2
    <2> HIDE DEF b
    <2> QED
      BY <2>1, <2>3, <2>4, <2>5, <2>6 DEF b
  <1>3. CASE ~IsBound(r.task)
    <2>1. \A e \in Experiment : arms[r.task][e] = NoServed
      BY <1>1, <1>3 DEF BindingsInv, ArmsAreBound, IsBound, Position
    <2>2. b = NewBinding(r)
      BY <1>3 DEF Opening
    <2>3. /\ b \in Binding /\ b.task = r.task /\ b.experiment = Matching(r)
          /\ b.calls = 0 /\ b.recorded = FALSE
      BY <1>1, <2>2 DEF NewBinding, Binding
    <2>4. MaxCalls[Matching(r)] \in Nat
      BY <1>1, ServingAssumption
    <2> HIDE DEF b
    <2>5. Agrees(NoServed, b)
      BY <2>3, <2>4 DEF Agrees, NoServed
    <2> QED
      BY <1>1, <2>1, <2>3, <2>5 DEF b
  <1> QED
    BY <1>2, <1>3

\* A call that an experiment takes: the binding goes from `a` to `b`, and the
\* history of the task by as much.
LEMMA ServesKeeps ==
    ASSUME TypeOK, BindingsInv,
           NEW a \in Binding, NEW b \in Binding,
           a.task = b.task, a.experiment = b.experiment,
           Agrees(arms[a.task][a.experiment], a),
           \A e \in Experiment : arms[a.task][e] # NoServed => e = a.experiment,
           NEW calls \in Nat, NEW breaches \in Nat,
           Agrees(Tally(arms[a.task][a.experiment], calls, breaches), b),
           Serves(b, calls, breaches)
    PROVE  /\ tasks' \in Seq(Binding) /\ Len(tasks') <= MaxBindings
           /\ arms' \in [Task -> [Experiment -> Served]]
           /\ recent' \in Seq(Task)
           /\ BindingsInv'
  <1> DEFINE after == Bound(b)
             since == LastOf(Later(recent, b.task))
             kept == {after[i].task : i \in 1 .. Len(after)}
             x == b.experiment
  <1>1. Renewed(b, after, since)
    BY BoundIs DEF BindingsInv
  <1>2. tasks' = after /\ recent' = since
    BY DEF Serves
  <1>3. arms' = [t \in Task |->
           IF t \notin kept THEN NoArms
           ELSE IF t # b.task THEN arms[t]
           ELSE [arms[t] EXCEPT ![x] = Tally(@, calls, breaches)]]
    BY DEF Serves
  <1> HIDE DEF after, since
  <1>4. /\ b.task \in Task /\ x \in Experiment
        /\ arms \in [Task -> [Experiment -> Served]]
    BY DEF Binding, TypeOK
  <1>5. Tally(arms[b.task][x], calls, breaches) \in Served
    BY <1>4 DEF Tally, Served
  <1>6. NoArms \in [Experiment -> Served]
    BY DEF NoArms, NoServed, Served
  <1>7. arms' \in [Task -> [Experiment -> Served]]
    BY <1>3, <1>4, <1>5, <1>6
  <1>8. b.task \in kept /\ Len(after) \in 1 .. Len(after)
    BY <1>1, TableSize DEF Renewed
  <1>9. \A e \in Experiment :
            arms'[b.task][e] = IF e = x
                               THEN Tally(arms[b.task][x], calls, breaches)
                               ELSE arms[b.task][e]
    BY <1>3, <1>4, <1>8
  <1>10. \A t \in Task : t # b.task /\ t \in kept => arms'[t] = arms[t]
    BY <1>3
  <1>11. \A t \in Task : t \notin kept => arms'[t] = NoArms
    BY <1>3
  <1>12. Distinct'
    BY <1>1, <1>2 DEF Renewed, Distinct
  <1>13. RecentFollows'
    BY <1>1, <1>2 DEF Renewed, RecentFollows
  <1>14. ArmsAreBound'
    <2> SUFFICES ASSUME NEW t \in Task, NEW e \in Experiment, arms'[t][e] # NoServed
                 PROVE  \E i \in 1 .. Len(after) :
                           after[i].task = t /\ after[i].experiment = e
      BY <1>2 DEF ArmsAreBound
    <2>1. t \in kept
      BY <1>11 DEF NoArms
    <2>2. CASE t = b.task
      <3>1. e = x
        BY <2>2, <1>9
      <3> QED
        BY <2>2, <3>1, <1>1, <1>8 DEF Renewed
    <2>3. CASE t # b.task
      <3>1. PICK k \in 1 .. Len(tasks) :
                tasks[k].task = t /\ tasks[k].experiment = e
        BY <2>1, <2>3, <1>10 DEF BindingsInv, ArmsAreBound
      <3>2. PICK i \in 1 .. Len(after) : after[i].task = t
        BY <2>1
      <3>3. i # Len(after)
        BY <3>2, <2>3, <1>1 DEF Renewed
      <3>4. i \in 1 .. Len(after) - 1
        BY <3>2, <3>3, <1>1, TableSize DEF Renewed
      <3>5. PICK j \in 1 .. Len(tasks) : after[i] = tasks[j]
        BY <3>4, <1>1 DEF Renewed
      <3>6. j = k
        BY <3>1, <3>2, <3>5 DEF BindingsInv, Distinct
      <3> QED
        BY <3>1, <3>2, <3>5, <3>6
    <2> QED
      BY <2>2, <2>3
  <1>15. CountsAgree'
    <2> SUFFICES ASSUME NEW i \in 1 .. Len(after)
                 PROVE  Agrees(arms'[after[i].task][after[i].experiment], after[i])
      BY <1>2 DEF CountsAgree, Agrees
    <2>1. CASE i = Len(after)
      <3>1. after[i] = b
        BY <2>1, <1>1 DEF Renewed
      <3>2. arms'[b.task][x] = Tally(arms[b.task][x], calls, breaches)
        BY <1>4, <1>9
      <3> QED
        BY <3>1, <3>2
    <2>2. CASE i # Len(after)
      <3>1. i \in 1 .. Len(after) - 1
        BY <2>2, <1>1, TableSize DEF Renewed
      <3>2. PICK j \in 1 .. Len(tasks) : after[i] = tasks[j]
        BY <3>1, <1>1 DEF Renewed
      <3>3. after[i].task # b.task /\ after[i].task \in kept
        BY <3>1, <1>1 DEF Renewed
      <3>4. after[i].task \in Task
        BY <1>1 DEF Renewed, Binding
      <3>5. arms'[after[i].task] = arms[after[i].task]
        BY <3>3, <3>4, <1>10
      <3>6. Agrees(arms[tasks[j].task][tasks[j].experiment], tasks[j])
        BY DEF BindingsInv, CountsAgree
      <3> QED
        BY <3>2, <3>5, <3>6
    <2> QED
      BY <2>1, <2>2
  <1> QED
    BY <1>1, <1>2, <1>7, <1>12, <1>13, <1>14, <1>15, TableSize DEF BindingsInv, Renewed

LEMMA DecideKeeps ==
    ASSUME TypeOK, BindingsInv, NEW r \in Request, Decide(r)
    PROVE  TypeOK' /\ BindingsInv'
  <1> DEFINE b == Opening(r)
             served == arms[b.task][b.experiment]
  <1>1. Takes(r)
    BY DEF Decide
  <1>2. /\ b \in Binding
        /\ Agrees(served, b)
        /\ \A e \in Experiment : arms[b.task][e] # NoServed => e = b.experiment
    BY <1>1, OpeningIs
  <1>3. \/ Serves(b, 0, 0)
        \/ ~HasSpentItsCalls(b) /\ Serves(Counted(b), 1, 0)
        \/ Serves(Breached(b), 0, IF b.recorded THEN 0 ELSE 1)
    BY DEF Decide, Opening
  <1>4. UNCHANGED <<controlVars, knownVars, reading, events>>
    BY DEF Decide
  <1>5. served \in Served /\ MaxCalls[b.experiment] \in Nat
    BY <1>2, ServingAssumption DEF Binding, TypeOK
  <1> HIDE DEF b
  <1>6. /\ tasks' \in Seq(Binding) /\ Len(tasks') <= MaxBindings
        /\ arms' \in [Task -> [Experiment -> Served]]
        /\ recent' \in Seq(Task)
        /\ BindingsInv'
    <2>1. CASE Serves(b, 0, 0)
      <3>1. Agrees(Tally(served, 0, 0), b)
        BY <1>2, <1>5 DEF Agrees, Tally, Served
      <3> QED
        BY <2>1, <3>1, <1>2, ServesKeeps
    <2>2. CASE ~HasSpentItsCalls(b) /\ Serves(Counted(b), 1, 0)
      <3>1. /\ Counted(b) \in Binding /\ Counted(b).task = b.task
            /\ Counted(b).experiment = b.experiment
        BY <1>2 DEF Counted, Binding
      <3>2. b.calls \in Nat /\ b.calls + 1 <= MaxCalls[b.experiment]
        BY <2>2, <1>2, <1>5 DEF HasSpentItsCalls, Binding
      <3>3. Agrees(Tally(served, 1, 0), Counted(b))
        BY <3>2, <1>2, <1>5 DEF Agrees, Tally, Served, Counted
      <3> QED
        BY <2>2, <3>1, <3>3, <1>2, ServesKeeps
    <2>3. CASE Serves(Breached(b), 0, IF b.recorded THEN 0 ELSE 1)
      <3>1. /\ Breached(b) \in Binding /\ Breached(b).task = b.task
            /\ Breached(b).experiment = b.experiment
        BY <1>2 DEF Breached, Binding
      <3>2. Agrees(Tally(served, 0, IF b.recorded THEN 0 ELSE 1), Breached(b))
        BY <1>2, <1>5 DEF Agrees, Tally, Served, Breached
      <3> QED
        BY <2>3, <3>1, <3>2, <1>2, ServesKeeps
    <2> QED
      BY <1>3, <2>1, <2>2, <2>3
  <1> QED
    BY <1>4, <1>6 DEF TypeOK, ControlTypeOK, controlVars, knownVars, Binding

-----------------------------------------------------------------------------
(* The control store *)

LEMMA CommandKeepsOwner ==
    ASSUME ControlTypeOK, OneOwner, Command
    PROVE  OneOwner'
  <1> USE DEF ControlTypeOK, OneOwner, Running, Shadowed, Lifecycle
  <1>1. CASE \E e \in Experiment : StartExperiment(e)
    BY <1>1 DEF StartExperiment
  <1>2. CASE \E e \in Experiment : StopExperiment(e) \/ Adopt(e)
    BY <1>2 DEF StopExperiment, Adopt
  <1>3. CASE \E s \in Shadow : StartShadow(s)
    BY <1>3 DEF StartShadow
  <1>4. CASE \E s \in Shadow : StopShadow(s)
    BY <1>4 DEF StopShadow
  <1>5. CASE \E u \in UseCase :
                \/ \E m \in Choice : SetRoute(u, m)
                \/ \E approval \in Approvals \cup {None} : SetFallback(u, approval)
    BY <1>5 DEF SetRoute, SetFallback
  <1>6. CASE \E r \in Revision : Activate(r)
    <2>1. PICK r \in Revision : Activate(r)
      BY <1>6
    <2> DEFINE document == Declared[r]
    <2>2. /\ document.experiments \subseteq Experiment
          /\ \A e, f \in document.experiments :
                UseCaseOf[e] = UseCaseOf[f] => e = f
      BY ControlAssumption DEF Document
    <2>3. Running' = document.experiments /\ shadows' = shadows
      BY <2>1, <2>2 DEF Activate, Install
    <2>4. \A e \in document.experiments : UseCaseOf[e] \notin Shadowed
      BY <2>1, <2>2 DEF Activate, Install, Accepts, Inserted
    <2>5. Shadowed' = Shadowed
      BY <2>3
    <2> HIDE DEF document
    <2> QED
      BY <2>2, <2>3, <2>4, <2>5
  <1> QED
    BY <1>1, <1>2, <1>3, <1>4, <1>5, <1>6 DEF Command

-----------------------------------------------------------------------------
(* Every step *)

RouterInv == TypeOK /\ OneOwner /\ BindingsInv

LEMMA InitInv == Init => RouterInv
  <1> SUFFICES ASSUME Init PROVE RouterInv
    OBVIOUS
  <1>1. OneOwner
    BY DEF Init, ControlInit, OneOwner, Running, Shadowed
  <1>2. BindingsInv
    BY DEF Init, BindingsInv, Distinct, RecentFollows, ArmsAreBound, CountsAgree,
           NoArms
  <1> QED
    BY <1>1, <1>2, InitTypes DEF RouterInv

LEMMA NextInv == RouterInv /\ [Next]_vars => RouterInv'
  <1> SUFFICES ASSUME RouterInv, [Next]_vars PROVE RouterInv'
    OBVIOUS
  <1> USE DEF RouterInv
  <1>1. ASSUME NEW r \in Request, Decide(r) PROVE RouterInv'
    <2>1. TypeOK' /\ BindingsInv'
      BY <1>1, DecideKeeps
    <2>2. OneOwner'
      BY <1>1 DEF Decide, controlVars, OneOwner, Running, Shadowed
    <2> QED
      BY <2>1, <2>2
  <1>2. ASSUME UNCHANGED <<controlVars, decisionVars>>, TypeOK' PROVE RouterInv'
    BY <1>2 DEF controlVars, decisionVars, OneOwner, Running, Shadowed,
                BindingsInv, Distinct, RecentFollows, ArmsAreBound, CountsAgree,
                Agrees
  <1>3. CASE Refresh
    <2>1. UNCHANGED <<controlVars, decisionVars, events>>
      BY <1>3 DEF Refresh, Wake, ReadExperiments, ReadRoutes, ReadWorkflowRoutes,
                  ReadRevision, ReadFallbacks
    <2>2. /\ snapshot' \in [UseCase -> Experiment \cup {None}]
          /\ knownRoutes' \in [UseCase -> Choice]
          /\ knownWorkflow' \in [Scope -> Choice]
          /\ knownRevision' \in Revision \cup {None}
          /\ knownFallbacks' \in [UseCase -> Approval]
          /\ reading' \in Read
      BY <1>3, RunningTyped
         DEF Refresh, Wake, ReadExperiments, ReadRoutes, ReadWorkflowRoutes,
             ReadRevision, ReadFallbacks, TypeOK, ControlTypeOK, knownVars, Read
    <2>3. TypeOK'
      BY <2>1, <2>2 DEF TypeOK, ControlTypeOK, controlVars, decisionVars
    <2> QED
      BY <1>2, <2>1, <2>3
  <1>4. CASE RefreshFails
    <2>1. TypeOK'
      BY <1>4, ServingAssumption
         DEF RefreshFails, TypeOK, ControlTypeOK, controlVars, knownVars,
             decisionVars, Read
    <2> QED
      BY <1>2, <1>4, <2>1 DEF RefreshFails
  <1>5. CASE Operate
    <2>1. ControlTypeOK' /\ OneOwner'
      BY <1>5, CommandTypes, CommandKeepsOwner DEF Operate, TypeOK
    <2>2. TypeOK'
      BY <1>5, <2>1, ServingAssumption DEF Operate, TypeOK, knownVars, decisionVars
    <2>3. BindingsInv'
      BY <1>5 DEF Operate, decisionVars, BindingsInv, Distinct, RecentFollows,
                  ArmsAreBound, CountsAgree, Agrees
    <2> QED
      BY <2>1, <2>2, <2>3
  <1>6. CASE UNCHANGED vars
    <2>1. TypeOK'
      BY <1>6 DEF vars, TypeOK, ControlTypeOK, controlVars, knownVars, decisionVars
    <2> QED
      BY <1>2, <1>6, <2>1 DEF vars, decisionVars
  <1> QED
    BY <1>1, <1>3, <1>4, <1>5, <1>6 DEF Next

-----------------------------------------------------------------------------
\* The invariant of the router: the table holds a task once, in the order in
\* which the tasks were last served, and a binding's count is the history of
\* its task with its experiment, and of no other.
THEOREM RouterInvariant == Spec => []RouterInv
  BY InitInv, NextInv, PTL DEF Spec

\* Type correctness of store and router (gateway/serving.py): the table of
\* bindings never outgrows its bound.
THEOREM ServingTypes == Spec => []TypeOK
  <1>1. RouterInv => TypeOK
    BY DEF RouterInv
  <1> QED
    BY <1>1, RouterInvariant, PTL

\* A use case has one owner, whatever order experiments, shadows, adoptions
\* and activations come in (schema.py's indexes and triggers).
THEOREM OneOwnerAlways == Spec => []OneOwner
  <1>1. RouterInv => OneOwner
    BY DEF RouterInv
  <1> QED
    BY <1>1, RouterInvariant, PTL

\* A task is evidence for one experiment (_bind): an arm it was served by is
\* that of its binding, and it has one binding.
THEOREM NeverStraddles == Spec => []TaskNeverStraddles
  <1>1. RouterInv => TaskNeverStraddles
    <2> SUFFICES ASSUME RouterInv, NEW t \in Task,
                        NEW e \in Experiment, NEW f \in Experiment,
                        arms[t][e] # NoServed, arms[t][f] # NoServed
                 PROVE  e = f
      BY DEF TaskNeverStraddles
    <2>1. PICK i \in 1 .. Len(tasks) :
              tasks[i].task = t /\ tasks[i].experiment = e
      BY DEF RouterInv, BindingsInv, ArmsAreBound
    <2>2. PICK j \in 1 .. Len(tasks) :
              tasks[j].task = t /\ tasks[j].experiment = f
      BY DEF RouterInv, BindingsInv, ArmsAreBound
    <2>3. i = j
      BY <2>1, <2>2 DEF RouterInv, BindingsInv, Distinct
    <2> QED
      BY <2>1, <2>2, <2>3
  <1> QED
    BY <1>1, RouterInvariant, PTL

\* A runaway candidate is stopped at its ceiling and counted as one failure
\* (decide()'s max_calls_per_task).
THEOREM RunawayOnce == Spec => []RunawayCountedOnce
  <1>1. RouterInv => RunawayCountedOnce
    <2> SUFFICES ASSUME RouterInv, NEW t \in Task, NEW e \in Experiment
                 PROVE  /\ arms[t][e].candidate <= MaxCalls[e]
                        /\ arms[t][e].breaches <= 1
      BY DEF RunawayCountedOnce
    <2>1. CASE arms[t][e] = NoServed
      BY <2>1, ServingAssumption DEF NoServed
    <2>2. CASE arms[t][e] # NoServed
      <3>1. PICK i \in 1 .. Len(tasks) :
                tasks[i].task = t /\ tasks[i].experiment = e
        BY <2>2 DEF RouterInv, BindingsInv, ArmsAreBound
      <3>2. Agrees(arms[t][e], tasks[i])
        BY <3>1 DEF RouterInv, BindingsInv, CountsAgree
      <3> QED
        BY <3>1, <3>2 DEF Agrees
    <2> QED
      BY <2>1, <2>2
  <1> QED
    BY <1>1, RouterInvariant, PTL

\* A task that is still calling keeps its binding until as many others as the
\* table holds have called since (_bind's move_to_end and popitem).
THEOREM LiveStaysBound == Spec => []LiveTaskStaysBound
  <1>1. RouterInv => LiveTaskStaysBound
    BY BoundTask DEF RouterInv, BindingsInv, RecentFollows, LiveTaskStaysBound
  <1> QED
    BY <1>1, RouterInvariant, PTL

=============================================================================
