--------------------------- MODULE SessionRunsProofs ---------------------------
(***************************************************************************)
(* The runs of sessions, for every set of sessions, tasks, messages and    *)
(* tools, any depth of worker assignments and any number of resumes and    *)
(* faults.                                                                 *)
(***************************************************************************)
EXTENDS SessionRuns, SequenceTheorems, FiniteSetTheorems, TLAPS

-----------------------------------------------------------------------------
(* The inductive invariant.  A frame is named by its depth in the stack,   *)
(* which calls above it do not change, and which is the depth its ticket   *)
(* carries.                                                                *)

Depth(t) == Len(task[t])
Level(q, d) == q[Len(q) + 1 - d]
Deep(t, d) == Level(task[t], d)

Said(r, s) == \E i \in 1..Len(replies[s]) : replies[s][i] = r

\* A frame has its row, a run that is about to finish or to deliver has
\* answered, and a tool that executes was asked for.
Owes(f) ==
  /\ f.pc # "create" => f.run \in 1..Len(run) /\ run[f.run].ses = f.ses
  /\ f.pc \in {"finish", "deliver"} => Said(f.run, f.ses)
  /\ f.pc = "exec" => f.todo # <<>>

\* Below the top there are only runs that execute a worker assignment, and
\* above the bottom only workers.
FrameOk(t, d) ==
  /\ d < Depth(t) => Deep(t, d).pc = "exec"
  /\ d > 1 => Deep(t, d).kind = "worker"
  /\ Owes(Deep(t, d))

Executor(t, d, r) == Deep(t, d).run = r /\ Deep(t, d).pc \in Started

\* The executor of a row that is running, the answer of one that succeeded.
RowOk(r) ==
  /\ run[r].status = "running" =>
       r \in orphan \/ \E t \in Tasks : \E d \in 1..Depth(t) : Executor(t, d, r)
  /\ run[r].status = "succeeded" => Said(r, run[r].ses)

Comes(f, s) ==
  f.ses = s /\ (f.pc = "input" \/ (f.kind = "channel" /\ f.pc \in {"create", "lane", "waiting"}))

Coming(t, d, s) == Comes(Deep(t, d), s)

\* A message nobody has read has a run on its way.
Heard == faults = 0 => \A s \in unheard : \E t \in Tasks : \E d \in 1..Depth(t) : Coming(t, d, s)

\* What was delivered for a run is its reply or a later one.
SentOk(x) ==
  /\ x.run \in 1..Len(run)
  /\ LET said == replies[run[x.run].ses] IN
     \E i, j \in 1..Len(said) : i <= j /\ said[i] = x.run /\ said[j] = x.reply

Creating == {t \in Tasks : At(t, "create")}

\* Rows that exist and rows that are about to.
BudgetOk == Len(run) + Cardinality(Creating) <= MaxRuns

RunInvariant ==
  /\ TypeOK /\ BudgetOk /\ Heard
  /\ \A t \in Tasks : \A d \in 1..Depth(t) : FrameOk(t, d)
  /\ \A r \in 1..Len(run) : RowOk(r)
  /\ \A x \in sent : SentOk(x)

-----------------------------------------------------------------------------
(* The lanes. *)

\* A frame that holds the lane of its session, and one that is at least in
\* its queue.
Holding(f) ==
  \/ f.pc \in Executing
  \/ f.pc = "waiting" /\ ~Waits(f.kind)
  \/ f.pc = "create" /\ f.kind = "api"

Queued(f) == Holding(f) \/ f.pc = "waiting"

\* The ticket of the frame at depth d of task t.
Spot(t, d) == <<t, d>>

HoldsLane(t, d) ==
  LET f == Deep(t, d) IN
  /\ Holding(f) => lane[f.ses][1] = Spot(t, d)
  /\ Queued(f) => \E k \in 1..Len(lane[f.ses]) : lane[f.ses][k] = Spot(t, d)

\* A place in a queue is the place of a frame, and its only one.
PlaceOk(s, k) ==
  /\ \E t \in Tasks : \E d \in 1..Depth(t) :
       lane[s][k] = Spot(t, d) /\ Deep(t, d).ses = s /\ Queued(Deep(t, d))
  /\ \A j \in 1..Len(lane[s]) : lane[s][j] = lane[s][k] => j = k

LaneInvariant ==
  /\ \A t \in Tasks : \A d \in 1..Depth(t) : HoldsLane(t, d)
  /\ \A s \in Sessions : \A k \in 1..Len(lane[s]) : PlaceOk(s, k)

-----------------------------------------------------------------------------
(* A queue without the places of one task. *)

\* The positions that are kept, numbered in order.
LEMMA RankFacts ==
  ASSUME NEW n \in Nat, NEW keep \in SUBSET (1..n)
  PROVE  /\ Cardinality(keep) \in Nat
         /\ \A i \in keep : Cardinality({j \in keep : j <= i}) \in 1..Cardinality(keep)
         /\ \A i, h \in keep :
              Cardinality({j \in keep : j <= i}) = Cardinality({j \in keep : j <= h}) => i = h
         /\ \A k \in 1..Cardinality(keep) : \E i \in keep : Cardinality({j \in keep : j <= i}) = k
         /\ 1 \in keep => Cardinality({j \in keep : j <= 1}) = 1
<1> DEFINE Upto(i) == {j \in keep : j <= i}
<1>1. IsFiniteSet(keep) /\ Cardinality(keep) \in Nat
  <2>1. IsFiniteSet(1..n)
    BY FS_Interval
  <2>2. IsFiniteSet(keep)
    BY <2>1, FS_Subset
  <2> QED BY <2>2, FS_CardinalityType
<1>2. ASSUME NEW i \in keep
      PROVE  IsFiniteSet(Upto(i)) /\ Cardinality(Upto(i)) \in 1..Cardinality(keep)
  <2>1. Upto(i) \in SUBSET keep /\ i \in Upto(i)
    OBVIOUS
  <2>2. IsFiniteSet(Upto(i)) /\ Cardinality(Upto(i)) <= Cardinality(keep)
    BY <1>1, <2>1, FS_Subset
  <2>3. Cardinality(Upto(i)) \in Nat
    BY <2>2, FS_CardinalityType
  <2>4. Cardinality(Upto(i)) # 0
    BY <2>1, <2>2, FS_EmptySet
  <2> QED BY <1>1, <2>2, <2>3, <2>4
<1>3. ASSUME NEW i \in keep, NEW h \in keep, Cardinality(Upto(i)) = Cardinality(Upto(h)), i <= h
      PROVE  i = h
  <2>1. Upto(i) \in SUBSET Upto(h)
    <3>1. i \in Int /\ h \in Int /\ \A j \in keep : j \in Int
      OBVIOUS
    <3>2. \A j \in keep : j <= i => j <= h
      BY <1>3, <3>1
    <3> QED BY <3>2
  <2>2. Upto(h) = Upto(i)
    BY <1>2, <1>3, <2>1, FS_Subset
  <2>3. h \in Upto(i)
    BY <2>2
  <2> QED BY <1>3, <2>3
<1>4. \A i, h \in keep : Cardinality(Upto(i)) = Cardinality(Upto(h)) => i = h
  <2>1. \A i, h \in keep : i <= h \/ h <= i
    OBVIOUS
  <2> HIDE DEF Upto
  <2> QED BY <1>3, <2>1
<1>5. \A k \in 1..Cardinality(keep) : \E i \in keep : Cardinality(Upto(i)) = k
  <2> DEFINE T == 1..Cardinality(keep)
             rank == [i \in keep |-> Cardinality(Upto(i))]
  <2>1. rank \in [keep -> T]
    BY <1>2
  <2>2. \A i, h \in keep : rank[i] = rank[h] => i = h
    BY <1>4
  <2>3. rank \in Injection(keep, T)
    BY <2>1, <2>2 DEF Injection, IsInjective
  <2>4. IsFiniteSet(T) /\ Cardinality(T) = Cardinality(keep)
    BY <1>1, FS_Interval
  <2>5. rank \in Surjection(keep, T)
    BY <2>3, <2>4, FS_Injection
  <2>6. \A k \in T : \E i \in keep : rank[i] = k
    BY <2>5 DEF Surjection
  <2> QED BY <2>6
<1>6. 1 \in keep => Cardinality(Upto(1)) = 1
  <2>1. 1 \in keep => Upto(1) = {1}
    <3>1. \A j \in keep : j <= 1 <=> j = 1
      OBVIOUS
    <3> QED BY <3>1
  <2> QED BY <2>1, FS_Singleton
<1> QED BY <1>1, <1>2, <1>4, <1>5, <1>6

\* The queue keeps the places of the others, once each, and its head.
LEMMA WithoutFacts ==
  ASSUME NEW S, NEW q \in Seq(S), NEW t
  PROVE  /\ Without(q, t) \in Seq(S)
         /\ \A k \in 1..Len(Without(q, t)) :
              \E i \in 1..Len(q) : Without(q, t)[k] = q[i] /\ q[i][1] # t
         /\ (\A i, j \in 1..Len(q) : q[i] = q[j] => i = j) =>
              \A k, l \in 1..Len(Without(q, t)) : Without(q, t)[k] = Without(q, t)[l] => k = l
         /\ \A i \in 1..Len(q) :
              q[i][1] # t => \E k \in 1..Len(Without(q, t)) : Without(q, t)[k] = q[i]
         /\ q # <<>> /\ q[1][1] # t => Without(q, t)[1] = q[1]
<1> DEFINE keep == {i \in DOMAIN q : q[i][1] # t}
           Rank(i) == Cardinality({j \in keep : j <= i})
           sel(k) == CHOOSE i \in keep : Rank(i) = k
           n == Cardinality(keep)
<1>1. Len(q) \in Nat /\ DOMAIN q = 1..Len(q) /\ \A i \in 1..Len(q) : q[i] \in S
  OBVIOUS
<1>2. keep \in SUBSET (1..Len(q))
  BY <1>1
<1>3. /\ n \in Nat
      /\ \A i \in keep : Rank(i) \in 1..n
      /\ \A i, h \in keep : Rank(i) = Rank(h) => i = h
      /\ \A k \in 1..n : \E i \in keep : Rank(i) = k
      /\ 1 \in keep => Rank(1) = 1
  <2> HIDE DEF keep
  <2> QED BY <1>1, <1>2, RankFacts
<1>4. Without(q, t) = [k \in 1..n |-> q[sel(k)]]
  BY DEF Without
<1>5. \A i \in keep : q[i][1] # t /\ i \in 1..Len(q)
  BY <1>1
<1> HIDE DEF keep, Rank, n
<1>6. \A k \in 1..n : sel(k) \in keep /\ Rank(sel(k)) = k
  BY <1>3
<1> HIDE DEF sel
<1>7. /\ Without(q, t) \in Seq(S) /\ Len(Without(q, t)) = n
      /\ \A k \in 1..n : Without(q, t)[k] = q[sel(k)]
  <2>1. \A k \in 1..n : q[sel(k)] \in S
    BY <1>1, <1>5, <1>6
  <2> QED BY <1>3, <1>4, <2>1
<1>8. ASSUME \A i, j \in 1..Len(q) : q[i] = q[j] => i = j
      PROVE  \A k, l \in 1..n : q[sel(k)] = q[sel(l)] => k = l
  BY <1>5, <1>6, <1>8
<1>9. ASSUME q # <<>>, q[1][1] # t
      PROVE  n # 0 /\ sel(1) = 1
  <2>1. 1 \in DOMAIN q
    BY <1>1, <1>9
  <2>2. 1 \in keep
    BY <1>9, <2>1 DEF keep
  <2>3. Rank(1) = 1 /\ 1 \in 1..n
    BY <1>3, <2>2
  <2> QED BY <1>3, <1>6, <2>2, <2>3
<1>10. q # <<>> /\ q[1][1] # t => Without(q, t)[1] = q[1]
  <2> SUFFICES ASSUME q # <<>>, q[1][1] # t PROVE Without(q, t)[1] = q[1]
    OBVIOUS
  <2>1. n # 0 /\ sel(1) = 1
    BY <1>9
  <2>2. 1 \in 1..n
    BY <1>3, <2>1
  <2> QED BY <1>7, <2>1, <2>2
<1>11. ASSUME NEW i \in 1..Len(q), q[i][1] # t
       PROVE  \E k \in 1..n : q[sel(k)] = q[i]
  <2>1. i \in keep
    BY <1>1, <1>11 DEF keep
  <2>2. Rank(i) \in 1..n /\ sel(Rank(i)) = i
    BY <1>3, <1>6, <2>1
  <2> QED BY <2>2
<1>12. \A k \in 1..Len(Without(q, t)) :
         \E i \in 1..Len(q) : Without(q, t)[k] = q[i] /\ q[i][1] # t
  BY <1>5, <1>6, <1>7
<1>13. (\A i, j \in 1..Len(q) : q[i] = q[j] => i = j) =>
         \A k, l \in 1..Len(Without(q, t)) : Without(q, t)[k] = Without(q, t)[l] => k = l
  BY <1>7, <1>8
<1>14. \A i \in 1..Len(q) :
         q[i][1] # t => \E k \in 1..Len(Without(q, t)) : Without(q, t)[k] = q[i]
  BY <1>7, <1>11
<1> QED BY <1>7, <1>10, <1>12, <1>13, <1>14

-----------------------------------------------------------------------------
(* What a step leaves of the stacks. *)

\* The frame at depth d stays what it is, and is covered by no call that did
\* not cover it before.
Same(u, d) ==
  /\ d \in 1..Len(task[u]) /\ d \in 1..Len(task'[u])
  /\ Level(task'[u], d) = Level(task[u], d)
  /\ d < Len(task'[u]) => d < Len(task[u])

Stacks == task \in [Tasks -> Seq(Frame)]

\* A frame is where its depth says, and is a frame.
LEMMA LevelFacts ==
  ASSUME NEW q \in Seq(Frame)
  PROVE  /\ Len(q) \in Nat
         /\ \A d \in 1..Len(q) : Level(q, d) \in Frame /\ Len(q) + 1 - d \in 1..Len(q)
         /\ \A i \in 1..Len(q) : Len(q) + 1 - i \in 1..Len(q) /\ q[i] = Level(q, Len(q) + 1 - i)
         /\ Level(q, Len(q)) = q[1]
         /\ q # <<>> <=> Len(q) # 0
         /\ q # <<>> => Len(q) \in 1..Len(q)
<1>1. Len(q) \in Nat /\ (q # <<>> <=> Len(q) # 0)
  OBVIOUS
<1>2. ASSUME NEW d \in 1..Len(q)
      PROVE  Level(q, d) \in Frame /\ Len(q) + 1 - d \in 1..Len(q)
  <2>1. Len(q) + 1 - d \in 1..Len(q)
    BY <1>1
  <2> QED BY <2>1 DEF Level
<1>3. ASSUME NEW i \in 1..Len(q)
      PROVE  Len(q) + 1 - i \in 1..Len(q) /\ q[i] = Level(q, Len(q) + 1 - i)
  <2>1. Len(q) + 1 - i \in 1..Len(q) /\ Len(q) + 1 - (Len(q) + 1 - i) = i
    BY <1>1
  <2> QED BY <2>1 DEF Level
<1>4. Level(q, Len(q)) = q[1]
  <2>1. Len(q) + 1 - Len(q) = 1
    BY <1>1
  <2> QED BY <2>1 DEF Level
<1> QED BY <1>1, <1>2, <1>3, <1>4

\* Replacing one stack keeps the others, and the frames of this one that are
\* below the lowest change.
LEMMA StackStep ==
  ASSUME Stacks, NEW t \in Tasks, NEW new \in Seq(Frame), NEW base \in Nat,
         task' = [task EXCEPT ![t] = new],
         base < Len(task[t]) \/ base = 0, base <= Len(new),
         \A d \in 1..base : Level(new, d) = Level(task[t], d)
  PROVE  /\ task' \in [Tasks -> Seq(Frame)] /\ task'[t] = new
         /\ \A u \in Tasks : u # t => task'[u] = task[u] /\ \A d \in 1..Len(task[u]) : Same(u, d)
         /\ \A d \in 1..base : Same(t, d)
<1>1. task' \in [Tasks -> Seq(Frame)] /\ task'[t] = new /\ \A u \in Tasks : u # t => task'[u] = task[u]
  BY DEF Stacks
<1>2. \A u \in Tasks : u # t => \A d \in 1..Len(task[u]) : Same(u, d)
  BY <1>1 DEF Same
<1>3. ASSUME NEW d \in 1..base PROVE Same(t, d)
  <2>1. Len(new) \in Nat /\ Len(task[t]) \in Nat
    BY DEF Stacks
  <2>2. d \in 1..Len(task[t]) /\ d \in 1..Len(new) /\ d < Len(task[t])
    BY <2>1
  <2> QED BY <1>1, <2>2 DEF Same
<1> QED BY <1>1, <1>2, <1>3

\* Set changes the innermost frame.
LEMMA SetStep ==
  ASSUME Stacks, NEW t \in Tasks, ~Idle(t), NEW f \in Frame, Set(t, f)
  PROVE  /\ task' \in [Tasks -> Seq(Frame)]
         /\ Len(task'[t]) = Len(task[t]) /\ Level(task'[t], Len(task[t])) = f /\ task'[t][1] = f
         /\ \A u \in Tasks : u # t => task'[u] = task[u] /\ \A d \in 1..Len(task[u]) : Same(u, d)
         /\ \A d \in 1..Len(task[t]) : d # Len(task[t]) => Same(t, d)
<1> DEFINE q == task[t]
           new == [q EXCEPT ![1] = f]
<1>1. q \in Seq(Frame) /\ Len(q) \in Nat \ {0}
  BY DEF Stacks, Idle
<1>2. task' = [task EXCEPT ![t] = new]
  BY DEF Set
<1>3. new \in Seq(Frame) /\ Len(new) = Len(q) /\ new[1] = f /\ \A i \in 2..Len(q) : new[i] = q[i]
  BY <1>1
<1> HIDE DEF new
<1>4. \A d \in 1..(Len(q) - 1) : Level(new, d) = Level(q, d)
  <2> SUFFICES ASSUME NEW d \in 1..(Len(q) - 1) PROVE Level(new, d) = Level(q, d)
    OBVIOUS
  <2>1. Len(q) + 1 - d \in 2..Len(q)
    BY <1>1
  <2> QED BY <1>3, <2>1 DEF Level
<1>5. Level(new, Len(q)) = f
  BY <1>3, LevelFacts
<1>6. Len(q) - 1 \in Nat /\ Len(q) - 1 < Len(q) /\ Len(q) - 1 <= Len(new)
  BY <1>1, <1>3
<1>7. /\ task' \in [Tasks -> Seq(Frame)] /\ task'[t] = new
      /\ \A u \in Tasks : u # t => task'[u] = task[u] /\ \A d \in 1..Len(task[u]) : Same(u, d)
      /\ \A d \in 1..(Len(q) - 1) : Same(t, d)
  BY <1>2, <1>3, <1>4, <1>6, StackStep
<1>8. \A d \in 1..Len(q) : d # Len(q) => d \in 1..(Len(q) - 1)
  BY <1>1
<1> QED BY <1>3, <1>5, <1>7, <1>8

\* An idle task opens a frame.
LEMMA OpenStep ==
  ASSUME Stacks, NEW t \in Tasks, Idle(t), NEW f \in Frame, task' = [task EXCEPT ![t] = <<f>>]
  PROVE  /\ task' \in [Tasks -> Seq(Frame)]
         /\ Len(task[t]) = 0 /\ Len(task'[t]) = 1 /\ Level(task'[t], 1) = f /\ task'[t][1] = f
         /\ \A u \in Tasks : u # t => task'[u] = task[u] /\ \A d \in 1..Len(task[u]) : Same(u, d)
<1>1. <<f>> \in Seq(Frame) /\ Len(<<f>>) = 1 /\ <<f>>[1] = f
  OBVIOUS
<1>2. Level(<<f>>, 1) = f
  BY <1>1, LevelFacts
<1>3. Len(task[t]) = 0
  BY DEF Idle
<1>4. 0 \in Nat /\ 0 <= Len(<<f>>) /\ \A d \in 1..0 : Level(<<f>>, d) = Level(task[t], d)
  BY <1>1
<1>5. /\ task' \in [Tasks -> Seq(Frame)] /\ task'[t] = <<f>>
      /\ \A u \in Tasks : u # t => task'[u] = task[u] /\ \A d \in 1..Len(task[u]) : Same(u, d)
  <2> DEFINE new == <<f>>
  <2>1. new \in Seq(Frame) /\ task' = [task EXCEPT ![t] = new]
    BY <1>1
  <2>2. 0 <= Len(new) /\ \A d \in 1..0 : Level(new, d) = Level(task[t], d)
    BY <1>4
  <2>3. task'[t] = new => task'[t] = <<f>>
    OBVIOUS
  <2> HIDE DEF new
  <2> QED BY <2>1, <2>2, <2>3, <1>4, StackStep
<1> QED BY <1>1, <1>2, <1>3, <1>5

\* A worker's frame is put on top of the frame that assigns.
LEMMA PushStep ==
  ASSUME Stacks, NEW t \in Tasks, ~Idle(t), NEW f \in Frame, NEW g \in Frame,
         task' = [task EXCEPT ![t] = <<f, g>> \o Tail(@)]
  PROVE  /\ task' \in [Tasks -> Seq(Frame)]
         /\ Len(task'[t]) = Len(task[t]) + 1 /\ task'[t][1] = f
         /\ Level(task'[t], Len(task[t])) = g /\ Level(task'[t], Len(task[t]) + 1) = f
         /\ \A u \in Tasks : u # t => task'[u] = task[u] /\ \A d \in 1..Len(task[u]) : Same(u, d)
         /\ \A d \in 1..Len(task[t]) : d # Len(task[t]) => Same(t, d)
<1> DEFINE q == task[t]
           new == <<f, g>> \o Tail(q)
<1>1. q \in Seq(Frame) /\ Len(q) \in Nat \ {0}
  BY DEF Stacks, Idle
<1>2. task' = [task EXCEPT ![t] = new]
  OBVIOUS
<1>3. /\ Tail(q) \in Seq(Frame) /\ Len(Tail(q)) = Len(q) - 1
      /\ \A i \in 1..(Len(q) - 1) : Tail(q)[i] = q[i + 1]
  BY <1>1
<1>4. /\ new \in Seq(Frame) /\ Len(new) = Len(q) + 1 /\ new[1] = f /\ new[2] = g
      /\ \A i \in 3..(Len(q) + 1) : new[i] = Tail(q)[i - 2]
  BY <1>1, <1>3
<1>5. \A i \in 3..(Len(q) + 1) : new[i] = q[i - 1]
  BY <1>1, <1>3, <1>4
<1> HIDE DEF new
<1>6. \A d \in 1..(Len(q) - 1) : Level(new, d) = Level(q, d)
  <2> SUFFICES ASSUME NEW d \in 1..(Len(q) - 1) PROVE Level(new, d) = Level(q, d)
    OBVIOUS
  <2>1. Len(new) + 1 - d \in 3..(Len(q) + 1) /\ (Len(new) + 1 - d) - 1 = Len(q) + 1 - d
    BY <1>1, <1>4
  <2> QED BY <1>5, <2>1 DEF Level
<1>7. Level(new, Len(q)) = g /\ Level(new, Len(q) + 1) = f
  <2>1. Len(new) + 1 - Len(q) = 2 /\ Len(new) + 1 - (Len(q) + 1) = 1
    BY <1>1, <1>4
  <2> QED BY <1>4, <2>1 DEF Level
<1>8. Len(q) - 1 \in Nat /\ Len(q) - 1 < Len(q) /\ Len(q) - 1 <= Len(new)
  BY <1>1, <1>4
<1>9. /\ task' \in [Tasks -> Seq(Frame)] /\ task'[t] = new
      /\ \A u \in Tasks : u # t => task'[u] = task[u] /\ \A d \in 1..Len(task[u]) : Same(u, d)
      /\ \A d \in 1..(Len(q) - 1) : Same(t, d)
  <2>1. new \in Seq(Frame)
    BY <1>4
  <2> QED BY <1>2, <1>6, <1>8, <2>1, StackStep
<1>10. \A d \in 1..Len(q) : d # Len(q) => d \in 1..(Len(q) - 1)
  BY <1>1
<1> QED BY <1>4, <1>7, <1>9, <1>10

\* The innermost frame returns to the one below, which goes on as g, or ends
\* the task.
LEMMA PopStep ==
  ASSUME Stacks, NEW t \in Tasks, ~Idle(t), NEW g \in Frame,
         task' = [task EXCEPT ![t] = IF Len(@) = 1 THEN <<>> ELSE <<g>> \o Tail(Tail(@))]
  PROVE  /\ task' \in [Tasks -> Seq(Frame)]
         /\ Len(task'[t]) = Len(task[t]) - 1
         /\ Len(task[t]) > 1 => Level(task'[t], Len(task[t]) - 1) = g /\ task'[t][1] = g
         /\ \A u \in Tasks : u # t => task'[u] = task[u] /\ \A d \in 1..Len(task[u]) : Same(u, d)
         /\ \A d \in 1..Len(task[t]) : d < Len(task[t]) - 1 => Same(t, d)
<1> DEFINE q == task[t]
           new == IF Len(q) = 1 THEN <<>> ELSE <<g>> \o Tail(Tail(q))
<1>1. q \in Seq(Frame) /\ Len(q) \in Nat \ {0}
  BY DEF Stacks, Idle
<1>2. task' = [task EXCEPT ![t] = new]
  OBVIOUS
<1>3. CASE Len(q) = 1
  <2>1. new = <<>>
    BY <1>3
  <2>2. new \in Seq(Frame) /\ Len(new) = 0
    BY <2>1
  <2> HIDE DEF new
  <2>4. 0 \in Nat /\ 0 <= Len(new) /\ \A d \in 1..0 : Level(new, d) = Level(q, d)
    BY <2>2
  <2>3. /\ task' \in [Tasks -> Seq(Frame)] /\ task'[t] = new
        /\ \A u \in Tasks : u # t => task'[u] = task[u] /\ \A d \in 1..Len(task[u]) : Same(u, d)
    BY <1>2, <2>2, <2>4, StackStep
  <2> QED BY <1>3, <2>2, <2>3
<1>4. CASE Len(q) # 1
  <2> DEFINE base == Len(q) - 2
  <2>1. new = <<g>> \o Tail(Tail(q))
    BY <1>4
  <2>11. Len(q) > 1 /\ base = Len(q) - 2
    BY <1>1, <1>4
  <2>2. /\ Tail(q) \in Seq(Frame) /\ Len(Tail(q)) = Len(q) - 1
        /\ \A i \in 1..(Len(q) - 1) : Tail(q)[i] = q[i + 1]
    BY <1>1
  <2>3. /\ Tail(Tail(q)) \in Seq(Frame) /\ Len(Tail(Tail(q))) = Len(q) - 2
        /\ \A i \in 1..(Len(q) - 2) : Tail(Tail(q))[i] = q[i + 2]
    <3> DEFINE p == Tail(q)
    <3>0. p \in Seq(Frame) /\ Len(p) = Len(q) - 1
      BY <2>2
    <3>2. \A i \in 1..(Len(q) - 1) : p[i] = q[i + 1]
      BY <2>2
    <3> HIDE DEF p
    <3>1. p \in Seq(Frame) /\ Len(p) = Len(q) - 1 /\ Len(p) # 0
      BY <1>1, <2>11, <3>0
    <3>3. Tail(p) \in Seq(Frame) /\ Len(Tail(p)) = Len(p) - 1 /\ \A i \in 1..(Len(p) - 1) : Tail(p)[i] = p[i + 1]
      <4>0. Len(<<>>) = 0
        OBVIOUS
      <4>1. p # <<>>
        BY <3>1, <4>0, Zenon
      <4>2. \A i \in 1..Len(Tail(p)) : Tail(p)[i] = p[i + 1]
        BY <3>1, <4>1, HeadTailProperties
      <4>3. Tail(p) \in Seq(Frame) /\ Len(Tail(p)) = Len(p) - 1
        BY <3>1, <4>1, HeadTailProperties
      <4> QED BY <4>2, <4>3
    <3>4. \A i \in 1..(Len(q) - 2) : i \in 1..(Len(p) - 1) /\ i + 1 \in 1..(Len(q) - 1) /\ (i + 1) + 1 = i + 2
      BY <1>1, <3>1
    <3>5. \A i \in 1..(Len(q) - 2) : Tail(p)[i] = q[i + 2]
      BY <3>2, <3>3, <3>4
    <3>6. Len(Tail(p)) = Len(q) - 2
      BY <1>1, <3>1, <3>3
    <3> QED BY <3>3, <3>5, <3>6 DEF p
  <2>4. /\ new \in Seq(Frame) /\ Len(new) = Len(q) - 1 /\ new[1] = g
        /\ \A i \in 2..(Len(q) - 1) : new[i] = Tail(Tail(q))[i - 1]
    <3> DEFINE p == Tail(Tail(q))
    <3>1. p \in Seq(Frame) /\ Len(p) = Len(q) - 2 /\ new = <<g>> \o p
      BY <2>1, <2>3
    <3> HIDE DEF p, new
    <3>2. /\ new \in Seq(Frame) /\ Len(new) = Len(q) - 1 /\ new[1] = g
          /\ \A i \in 2..(Len(q) - 1) : new[i] = p[i - 1]
      BY <1>1, <2>11, <3>1
    <3> QED BY <3>2 DEF p
  <2>5. \A i \in 2..(Len(q) - 1) : new[i] = q[i + 1]
    BY <1>1, <2>3, <2>4
  <2> HIDE DEF new, base
  <2>6. \A d \in 1..base : Level(new, d) = Level(q, d)
    <3> SUFFICES ASSUME NEW d \in 1..base PROVE Level(new, d) = Level(q, d)
      OBVIOUS
    <3>1. Len(new) + 1 - d \in 2..(Len(q) - 1) /\ (Len(new) + 1 - d) + 1 = Len(q) + 1 - d
      BY <1>1, <2>4, <2>11
    <3> QED BY <2>5, <3>1 DEF Level
  <2>7. Level(new, Len(q) - 1) = g
    BY <2>4, LevelFacts
  <2>8. base \in Nat /\ base < Len(q) /\ base <= Len(new)
    BY <1>1, <2>4, <2>11
  <2>9. /\ task' \in [Tasks -> Seq(Frame)] /\ task'[t] = new
        /\ \A u \in Tasks : u # t => task'[u] = task[u] /\ \A d \in 1..Len(task[u]) : Same(u, d)
        /\ \A d \in 1..base : Same(t, d)
    BY <1>2, <2>4, <2>6, <2>8, StackStep
  <2>10. \A d \in 1..Len(q) : d < Len(q) - 1 => d \in 1..base
    BY <1>1, <2>11
  <2> QED BY <2>4, <2>7, <2>9, <2>10
<1> QED BY <1>3, <1>4

\* The innermost frame returns and the one below is left as it was.
LEMMA ReturnStep ==
  ASSUME Stacks, NEW t \in Tasks, ~Idle(t), Return(t),
         \A d \in 1..Len(task[t]) : d < Len(task[t]) => Level(task[t], d).pc = "exec"
  PROVE  /\ task' \in [Tasks -> Seq(Frame)]
         /\ Len(task'[t]) = Len(task[t]) - 1
         /\ \A u \in Tasks : u # t => task'[u] = task[u] /\ \A d \in 1..Len(task[u]) : Same(u, d)
         /\ \A d \in 1..Len(task[t]) : d # Len(task[t]) => Same(t, d)
         /\ Len(task[t]) > 1 => task'[t][1].pc = "exec"
<1> DEFINE q == task[t]
           new == Tail(q)
<1>1. q \in Seq(Frame) /\ Len(q) \in Nat \ {0}
  BY DEF Stacks, Idle
<1>2. task' = [task EXCEPT ![t] = new]
  BY DEF Return
<1>3. /\ new \in Seq(Frame) /\ Len(new) = Len(q) - 1
      /\ \A i \in 1..(Len(q) - 1) : new[i] = q[i + 1]
  BY <1>1
<1> HIDE DEF new
<1>4. \A d \in 1..(Len(q) - 1) : Level(new, d) = Level(q, d)
  <2> SUFFICES ASSUME NEW d \in 1..(Len(q) - 1) PROVE Level(new, d) = Level(q, d)
    OBVIOUS
  <2>1. Len(new) + 1 - d \in 1..(Len(q) - 1) /\ (Len(new) + 1 - d) + 1 = Len(q) + 1 - d
    BY <1>1, <1>3
  <2> QED BY <1>3, <2>1 DEF Level
<1>5. Len(q) - 1 \in Nat /\ Len(q) - 1 < Len(q) /\ Len(q) - 1 <= Len(new)
  BY <1>1, <1>3
<1>6. /\ task' \in [Tasks -> Seq(Frame)] /\ task'[t] = new
      /\ \A u \in Tasks : u # t => task'[u] = task[u] /\ \A d \in 1..Len(task[u]) : Same(u, d)
      /\ \A d \in 1..(Len(q) - 1) : Same(t, d)
  BY <1>2, <1>3, <1>4, <1>5, StackStep
<1>7. \A d \in 1..Len(q) : d # Len(q) => d \in 1..(Len(q) - 1)
  BY <1>1
<1>8. ASSUME Len(q) > 1 PROVE new[1].pc = "exec"
  <2>1. new[1] = q[2] /\ Len(q) + 1 - 2 = Len(q) - 1 /\ 2 \in 1..Len(q)
    BY <1>1, <1>3, <1>8
  <2>2. q[2] = Level(q, Len(q) - 1)
    BY <1>1, <2>1, LevelFacts
  <2>3. Len(q) - 1 \in 1..Len(q) /\ Len(q) - 1 < Len(q)
    BY <1>1, <1>8
  <2> QED BY <2>1, <2>2, <2>3
<1> QED BY <1>3, <1>6, <1>7, <1>8

-----------------------------------------------------------------------------
(* What a step keeps of the invariant. *)

\* Rows, replies and lost runs are never taken back.
Grows ==
  /\ Len(run) <= Len(run') /\ \A r \in 1..Len(run) : run'[r].ses = run[r].ses
  /\ \A s \in Sessions :
       /\ Len(replies[s]) <= Len(replies'[s])
       /\ \A i \in 1..Len(replies[s]) : replies'[s][i] = replies[s][i]
  /\ orphan \subseteq orphan'

\* The types of the fields of a frame.
LEMMA FrameFields ==
  ASSUME NEW f \in Frame
  PROVE  /\ f.kind \in Kinds /\ f.pc \in PCs /\ f.ses \in Sessions /\ f.run \in 0..MaxRuns
         /\ f.todo \in Seq(Tools) /\ f.keys \in SUBSET DOMAIN Worker
BY DEF Frame

\* The rows and the replies by their types.
LEMMA RowFields ==
  ASSUME TypeOK
  PROVE  /\ Len(run) \in Nat /\ Len(run) <= MaxRuns /\ 1..Len(run) \subseteq RunIds
         /\ \A r \in 1..Len(run) : run[r].ses \in Sessions /\ run[r].status \in Status
         /\ \A s \in Sessions : replies[s] \in Seq(RunIds) /\ Len(replies[s]) \in Nat
<1>1. run \in Seq([ses : Sessions, status : Status]) /\ Len(run) <= MaxRuns /\ MaxRuns \in Nat
  BY BoundsAssumption DEF TypeOK
<1>2. Len(run) \in Nat /\ \A r \in 1..Len(run) : run[r] \in [ses : Sessions, status : Status]
  <2> DEFINE Row == [ses : Sessions, status : Status]
  <2>1. run \in Seq(Row)
    BY <1>1
  <2> HIDE DEF Row
  <2>2. Len(run) \in Nat /\ \A r \in 1..Len(run) : run[r] \in Row
    BY <2>1
  <2> QED BY <2>2 DEF Row
<1>3. \A r \in 1..Len(run) : run[r].ses \in Sessions /\ run[r].status \in Status
  BY <1>2
<1>4. 1..Len(run) \subseteq RunIds
  BY <1>1, <1>2 DEF RunIds
<1>5. \A s \in Sessions : replies[s] \in Seq(RunIds)
  BY DEF TypeOK
<1> QED BY <1>1, <1>2, <1>3, <1>4, <1>5

\* What was said stays said.
LEMMA SaidKept ==
  ASSUME TypeOK, Grows, TypeOK', NEW s \in Sessions, NEW r, Said(r, s)
  PROVE  Said(r, s)'
<1>1. Len(replies[s]) \in Nat /\ Len(replies'[s]) \in Nat
  BY DEF TypeOK
<1>2. PICK i \in 1..Len(replies[s]) : replies[s][i] = r
  BY DEF Said
<1>3. i \in 1..Len(replies'[s]) /\ replies'[s][i] = r
  BY <1>1, <1>2 DEF Grows
<1> QED BY <1>3 DEF Said

\* A frame that stays owes nothing new.
LEMMA OwesKept ==
  ASSUME TypeOK, Grows, TypeOK', NEW f \in Frame, Owes(f)
  PROVE  Owes(f)'
<1>1. f.ses \in Sessions
  BY FrameFields
<1>2. Len(run) \in Nat /\ Len(run') \in Nat /\ Len(run) <= MaxRuns /\ MaxRuns \in Nat
  BY BoundsAssumption DEF TypeOK
<1>3. f.pc # "create" => f.run \in 1..Len(run') /\ run'[f.run].ses = f.ses
  BY <1>2 DEF Owes, Grows
<1>4. f.pc \in {"finish", "deliver"} => Said(f.run, f.ses)'
  BY <1>1, SaidKept DEF Owes
<1> QED BY <1>3, <1>4 DEF Owes

\* The invariant of a frame, in parts.
LEMMA FrameParts ==
  ASSUME NEW t \in Tasks, NEW d, FrameOk(t, d)
  PROVE  /\ d < Len(task[t]) => Level(task[t], d).pc = "exec"
         /\ d > 1 => Level(task[t], d).kind = "worker"
         /\ Owes(Level(task[t], d))
BY DEF FrameOk, Owes, Deep, Depth

\* The invariant of a frame of the next state, from its parts.
LEMMA FrameOkNext ==
  ASSUME NEW t \in Tasks, NEW d, NEW f, f = Level(task'[t], d),
         d < Len(task'[t]) => f.pc = "exec", d > 1 => f.kind = "worker", Owes(f)'
  PROVE  FrameOk(t, d)'
BY DEF FrameOk, Owes, Deep, Depth

\* A frame that stays stays right.
LEMMA SameOk ==
  ASSUME TypeOK, Grows, TypeOK', NEW t \in Tasks, NEW d, Same(t, d), FrameOk(t, d)
  PROVE  FrameOk(t, d)'
<1>1. PICK f : f = Level(task[t], d)
  OBVIOUS
<1>2. task[t] \in Seq(Frame)
  BY DEF TypeOK
<1>3. f \in Frame /\ f = Level(task'[t], d) /\ (d < Len(task'[t]) => d < Len(task[t]))
  BY <1>1, <1>2, LevelFacts DEF Same
<1>4. (d < Len(task[t]) => f.pc = "exec") /\ (d > 1 => f.kind = "worker") /\ Owes(f)
  BY <1>1, FrameParts
<1>5. Owes(f)'
  BY <1>3, <1>4, OwesKept
<1> QED BY <1>3, <1>4, <1>5, FrameOkNext

\* Executors by their frames.
LEMMA ExecutorFacts ==
  ASSUME NEW t \in Tasks, NEW d, NEW r
  PROVE  /\ Executor(t, d, r) <=> Level(task[t], d).run = r /\ Level(task[t], d).pc \in Started
         /\ Executor(t, d, r)' <=> Level(task'[t], d).run = r /\ Level(task'[t], d).pc \in Started
BY DEF Executor, Deep

\* The same for the frames that are to read a message.
LEMMA ComingFacts ==
  ASSUME NEW t \in Tasks, NEW d, NEW s
  PROVE  /\ Coming(t, d, s) <=> Comes(Level(task[t], d), s)
         /\ Coming(t, d, s)' <=> Comes(Level(task'[t], d), s)
BY DEF Coming, Comes, Deep

\* A row that nobody writes keeps its executor.
RowsCarried ==
  \A u \in Tasks : \A d \in 1..Len(task[u]) :
    LET f == Level(task[u], d)
        g == Level(task'[u], d)
    IN f.pc \in Started =>
         \/ Same(u, d) \/ f.run \in orphan'
         \/ d \in 1..Len(task'[u]) /\ g.run = f.run /\ g.pc \in Started
         \/ f.run \in 1..Len(run') => run'[f.run].status # "running"

StatusCarried ==
  \A r \in 1..Len(run') : RowOk(r)' \/ (r \in 1..Len(run) /\ run'[r].status = run[r].status)

\* A message that stays unread keeps the frame that is to read it.
HeardCarried ==
  faults' = 0 => faults = 0 /\ \A s \in unheard' :
    \/ \E u \in Tasks : \E d \in 1..Len(task'[u]) : Comes(Level(task'[u], d), s)
    \/ /\ s \in unheard
       /\ \A u \in Tasks : \A d \in 1..Len(task[u]) :
            Comes(Level(task[u], d), s) =>
              Same(u, d) \/ (d \in 1..Len(task'[u]) /\ Comes(Level(task'[u], d), s))

FramesCarried ==
  \A u \in Tasks : \A d \in 1..Len(task'[u]) : Same(u, d) \/ FrameOk(u, d)'

SentCarried == \A x \in sent' : x \in sent \/ SentOk(x)'

\* A step that carries every part keeps the invariant.
LEMMA StepKeeps ==
  ASSUME RunInvariant, TypeOK', BudgetOk', Grows, FramesCarried, RowsCarried, StatusCarried,
         HeardCarried, SentCarried
  PROVE  RunInvariant'
<1> USE DEF RunInvariant
<1>1. ASSUME NEW u \in Tasks, NEW d \in 1..Len(task'[u])
      PROVE  FrameOk(u, d)'
  <2>1. Same(u, d) => d \in 1..Len(task[u])
    BY DEF Same
  <2> QED BY <1>1, <2>1, SameOk DEF FramesCarried, Depth
<1>2. ASSUME NEW r \in 1..Len(run')
      PROVE  RowOk(r)'
  <2> SUFFICES ASSUME r \in 1..Len(run), run'[r].status = run[r].status
               PROVE  RowOk(r)'
    BY <1>2 DEF StatusCarried
  <2>1. RowOk(r) /\ run'[r].ses = run[r].ses /\ run[r].ses \in Sessions
    BY RowFields DEF Grows
  <2>0. PICK s \in Sessions : s = run[r].ses
    BY <2>1
  <2>2. run'[r].status = "succeeded" => Said(r, s)'
    BY <2>0, <2>1, SaidKept DEF RowOk
  <2>3. ASSUME run'[r].status = "running", r \notin orphan'
        PROVE  \E u \in Tasks : \E d \in 1..Len(task'[u]) : Executor(u, d, r)'
    <3>0. PICK u \in Tasks : \E d \in 1..Len(task[u]) : Executor(u, d, r)
      BY <2>1, <2>3 DEF RowOk, Grows, Depth
    <3>1. PICK d \in 1..Len(task[u]) : Executor(u, d, r)
      BY <3>0
    <3>2. PICK f : f = Level(task[u], d)
      OBVIOUS
    <3>3. f.run = r /\ f.pc \in Started
      BY <3>1, <3>2, ExecutorFacts
    <3>4. CASE Same(u, d)
      <4>1. d \in 1..Len(task'[u]) /\ Level(task'[u], d) = f
        BY <3>2, <3>4 DEF Same
      <4> QED BY <3>3, <4>1, ExecutorFacts
    <3>5. CASE ~Same(u, d)
      <4>1. d \in 1..Len(task'[u]) /\ Level(task'[u], d).run = r /\ Level(task'[u], d).pc \in Started
        BY <2>3, <3>2, <3>3, <3>5 DEF RowsCarried
      <4> QED BY <4>1, ExecutorFacts
    <3> QED BY <3>4, <3>5
  <2>4. run'[r].status = "running" =>
          r \in orphan' \/ \E u \in Tasks : \E d \in 1..Depth(u)' : Executor(u, d, r)'
    BY <2>3 DEF Depth
  <2>5. run'[r].ses = s
    BY <2>0, <2>1
  <2> QED BY <2>2, <2>4, <2>5 DEF RowOk, Said
<1>3. Heard'
  <2> SUFFICES ASSUME faults' = 0, NEW s \in unheard'
               PROVE  \E u \in Tasks : \E d \in 1..Len(task'[u]) : Coming(u, d, s)'
    BY DEF Heard, Depth
  <2>1. CASE \E u \in Tasks : \E d \in 1..Len(task'[u]) : Comes(Level(task'[u], d), s)
    BY <2>1, ComingFacts
  <2>2. CASE ~\E u \in Tasks : \E d \in 1..Len(task'[u]) : Comes(Level(task'[u], d), s)
    <3>1. faults = 0 /\ s \in unheard
      BY <2>2 DEF HeardCarried
    <3>0. PICK u \in Tasks : \E d \in 1..Len(task[u]) : Coming(u, d, s)
      BY <3>1 DEF Heard, Depth
    <3>2. PICK d \in 1..Len(task[u]) : Coming(u, d, s)
      BY <3>0
    <3>3. Comes(Level(task[u], d), s)
      BY <3>2, ComingFacts
    <3>4. Same(u, d)
      BY <2>2, <3>3 DEF HeardCarried
    <3>5. d \in 1..Len(task'[u]) /\ Comes(Level(task'[u], d), s)
      BY <3>3, <3>4 DEF Same
    <3> QED BY <2>2, <3>5
  <2> QED BY <2>1, <2>2
<1>4. ASSUME NEW x \in sent'
      PROVE  SentOk(x)'
  <2> SUFFICES ASSUME x \in sent PROVE SentOk(x)'
    BY DEF SentCarried
  <2>1. PICK s : s = run[x.run].ses
    OBVIOUS
  <2>2. x.run \in 1..Len(run)
    BY DEF SentOk
  <2>3. s \in Sessions /\ run'[x.run].ses = s /\ x.run \in 1..Len(run')
    <3>1. Len(run) \in Nat /\ run[x.run].ses \in Sessions
      BY <2>2, RowFields
    <3>2. Len(run') \in Nat
      BY DEF TypeOK
    <3> QED BY <2>1, <2>2, <3>1, <3>2 DEF Grows
  <2>4. PICK i, j \in 1..Len(replies[s]) : i <= j /\ replies[s][i] = x.run /\ replies[s][j] = x.reply
    BY <2>1 DEF SentOk
  <2>5. Len(replies[s]) \in Nat /\ Len(replies'[s]) \in Nat
    <3>1. replies'[s] \in Seq(RunIds)
      BY <2>3 DEF TypeOK
    <3> QED BY <2>3, <3>1, RowFields
  <2>6. /\ i \in 1..Len(replies'[s]) /\ j \in 1..Len(replies'[s])
        /\ replies'[s][i] = x.run /\ replies'[s][j] = x.reply
    BY <2>3, <2>4, <2>5 DEF Grows
  <2> QED BY <2>3, <2>4, <2>6 DEF SentOk
<1>5. \A u \in Tasks : \A d \in 1..Depth(u)' : FrameOk(u, d)'
  BY <1>1 DEF Depth
<1> QED BY <1>2, <1>3, <1>4, <1>5

-----------------------------------------------------------------------------
(* Steps of the innermost frame. *)

\* The innermost frame of a task that is not idle.
LEMMA TopFacts ==
  ASSUME RunInvariant, NEW t \in Tasks, ~Idle(t)
  PROVE  /\ Stacks /\ task[t] \in Seq(Frame) /\ Len(task[t]) \in Nat \ {0}
         /\ Top(t) \in Frame /\ Top(t) = Level(task[t], Len(task[t])) /\ Owes(Top(t))
         /\ Len(task[t]) > 1 => Top(t).kind = "worker"
<1>1. Stacks /\ task[t] \in Seq(Frame)
  BY DEF RunInvariant, TypeOK, Stacks
<1>2. Len(task[t]) \in Nat \ {0} /\ Len(task[t]) \in 1..Len(task[t])
  BY <1>1, LevelFacts DEF Idle
<1>3. Top(t) = Level(task[t], Len(task[t])) /\ Top(t) \in Frame
  BY <1>1, <1>2, LevelFacts DEF Top
<1>4. FrameOk(t, Len(task[t]))
  BY <1>2 DEF RunInvariant, Depth
<1>5. Owes(Top(t)) /\ (Len(task[t]) > 1 => Top(t).kind = "worker")
  BY <1>3, <1>4, FrameParts
<1> QED BY <1>1, <1>2, <1>3, <1>5

\* Who is about to write a row, in the next state.
LEMMA CreatingNext ==
  ASSUME NEW t \in Tasks
  PROVE  /\ t \in Creating <=> task[t] # <<>> /\ task[t][1].pc = "create"
         /\ t \in Creating' <=> task'[t] # <<>> /\ task'[t][1].pc = "create"
BY DEF Creating, At, Idle, Top

\* The bound on the rows holds when nobody new is about to write one, when one
\* who is allowed to starts, and when a row is written.
LEMMA BudgetKept ==
  ASSUME RunInvariant, Len(run') = Len(run), Creating' \subseteq Creating
  PROVE  BudgetOk'
<1>1. Creating \in SUBSET Tasks
  BY DEF Creating
<1>2. IsFiniteSet(Creating)
  BY <1>1, BoundsAssumption, FS_Subset
<1>3. IsFiniteSet(Creating') /\ Cardinality(Creating') <= Cardinality(Creating)
  BY <1>2, FS_Subset
<1>4. Cardinality(Creating') \in Nat /\ Cardinality(Creating) \in Nat
  BY <1>2, <1>3, FS_CardinalityType
<1>5. Len(run) \in Nat /\ MaxRuns \in Nat /\ Len(run) + Cardinality(Creating) <= MaxRuns
  BY BoundsAssumption, RowFields DEF RunInvariant, BudgetOk
<1>6. Len(run') + Cardinality(Creating') <= MaxRuns
  BY <1>3, <1>4, <1>5
<1> QED BY <1>6 DEF BudgetOk

\* A task that begins takes a row of the budget.
LEMMA BudgetTaken ==
  ASSUME RunInvariant, RunBudget, NEW t \in Tasks, t \notin Creating,
         Len(run') = Len(run), Creating' = Creating \cup {t}
  PROVE  BudgetOk'
<1>1. Creating \in SUBSET Tasks
  BY DEF Creating
<1>2. IsFiniteSet(Creating)
  BY <1>1, BoundsAssumption, FS_Subset
<1>3. Cardinality(Creating') = Cardinality(Creating) + 1
  BY <1>2, FS_AddElement
<1>4. Cardinality(Creating) \in Nat
  BY <1>2, FS_CardinalityType
<1>5. Len(run) \in Nat /\ MaxRuns \in Nat /\ Len(run) + Cardinality(Creating) < MaxRuns
  BY BoundsAssumption, RowFields DEF RunInvariant, RunBudget, Creating
<1>6. Len(run') + Cardinality(Creating') <= MaxRuns
  BY <1>3, <1>4, <1>5
<1> QED BY <1>6 DEF BudgetOk

\* The row that is written spends it.
LEMMA BudgetSpent ==
  ASSUME RunInvariant, NEW t \in Creating, Len(run') = Len(run) + 1, Creating' = Creating \ {t}
  PROVE  BudgetOk' /\ Len(run') <= MaxRuns
<1>1. Creating \in SUBSET Tasks
  BY DEF Creating
<1>2. IsFiniteSet(Creating)
  BY <1>1, BoundsAssumption, FS_Subset
<1>3. Cardinality(Creating') = Cardinality(Creating) - 1 /\ IsFiniteSet(Creating')
  BY <1>2, FS_RemoveElement
<1>4. Cardinality(Creating) \in Nat /\ Cardinality(Creating') \in Nat
  BY <1>2, <1>3, FS_CardinalityType
<1>5. Len(run) \in Nat /\ MaxRuns \in Nat /\ Len(run) + Cardinality(Creating) <= MaxRuns
  BY BoundsAssumption, RowFields DEF RunInvariant, BudgetOk
<1>6. Len(run') + Cardinality(Creating') <= MaxRuns /\ Len(run') <= MaxRuns
  BY <1>3, <1>4, <1>5
<1> QED BY <1>6 DEF BudgetOk

\* A step that replaces the innermost frame e by f.
LEMMA SetKeeps ==
  ASSUME RunInvariant, NEW t \in Tasks, ~Idle(t), NEW e, e = Top(t), NEW f \in Frame, Set(t, f),
         TypeOK', BudgetOk', Grows, f.kind = e.kind, Owes(f)',
         e.pc \in Started =>
           (f.run = e.run /\ f.pc \in Started) \/ (e.run \in 1..Len(run') => run'[e.run].status # "running"),
         \A r \in 1..Len(run') :
           \/ r \in 1..Len(run) /\ run'[r].status = run[r].status
           \/ /\ run'[r].status = "running" => f.run = r /\ f.pc \in Started
              /\ run'[r].status = "succeeded" => \E s \in Sessions : s = run'[r].ses /\ Said(r, s)',
         faults' = faults, \A s \in unheard' : s \in unheard /\ (Comes(e, s) => Comes(f, s)),
         sent' = sent
  PROVE  RunInvariant'
<1>1. /\ Stacks /\ task[t] \in Seq(Frame) /\ Len(task[t]) \in Nat \ {0}
      /\ e = Level(task[t], Len(task[t]))
      /\ Len(task[t]) > 1 => e.kind = "worker"
  BY TopFacts
<1>2. PICK n \in Nat \ {0} : n = Len(task[t])
  BY <1>1
<1>3. /\ Len(task'[t]) = n /\ Level(task'[t], n) = f
      /\ \A u \in Tasks : u # t => task'[u] = task[u] /\ \A d \in 1..Len(task[u]) : Same(u, d)
      /\ \A d \in 1..n : d # n => Same(t, d)
  BY <1>1, <1>2, SetStep
<1>4. n \in 1..n /\ n \in 1..Len(task'[t]) /\ e = Level(task[t], n)
  BY <1>1, <1>2, <1>3
<1>5. FrameOk(t, n)'
  <2>1. ~(n < Len(task'[t]))
    BY <1>2, <1>3
  <2>2. n > 1 => f.kind = "worker"
    BY <1>1, <1>2
  <2> QED BY <1>3, <2>1, <2>2, FrameOkNext
<1>6. FramesCarried
  BY <1>3, <1>5 DEF FramesCarried
<1>7. RowsCarried
  BY <1>2, <1>3, <1>4 DEF RowsCarried
<1>8. StatusCarried
  <2> SUFFICES ASSUME NEW r \in 1..Len(run'),
                      run'[r].status = "running" => f.run = r /\ f.pc \in Started,
                      run'[r].status = "succeeded" => \E s \in Sessions : s = run'[r].ses /\ Said(r, s)'
               PROVE  RowOk(r)'
    BY DEF StatusCarried
  <2>1. run'[r].status = "running" => Executor(t, n, r)'
    BY <1>3, ExecutorFacts
  <2>2. run'[r].status = "running" => \E u \in Tasks : \E d \in 1..Len(task'[u]) : Executor(u, d, r)'
    BY <1>4, <2>1
  <2> QED BY <2>2 DEF RowOk, Said, Depth
<1>9. HeardCarried
  <2> SUFFICES ASSUME NEW s \in unheard', NEW u \in Tasks, NEW d \in 1..Len(task[u]),
                      Comes(Level(task[u], d), s), ~Same(u, d)
               PROVE  d \in 1..Len(task'[u]) /\ Comes(Level(task'[u], d), s)
    BY DEF HeardCarried
  <2>1. u = t /\ d = n
    BY <1>2, <1>3
  <2> QED BY <1>3, <1>4, <2>1
<1>10. SentCarried
  BY DEF SentCarried
<1> QED BY <1>6, <1>7, <1>8, <1>9, <1>10, StepKeeps

\* A step that replaces the innermost frame keeps the stacks, and the bound on
\* the rows when neither frame is about to write one.
LEMMA SetBudget ==
  ASSUME RunInvariant, NEW t \in Tasks, ~Idle(t), NEW f \in Frame, Set(t, f)
  PROVE  /\ task' \in [Tasks -> Seq(Frame)]
         /\ f.pc # "create" => Creating' = Creating \ {t}
         /\ f.pc # "create" /\ Len(run') = Len(run) => BudgetOk'
<1>1. Stacks /\ Len(task[t]) \in Nat \ {0}
  BY TopFacts
<1>2. /\ task' \in [Tasks -> Seq(Frame)]
      /\ \A u \in Tasks : u # t => task'[u] = task[u]
      /\ task'[t][1] = f
  BY <1>1, SetStep
<1>3. ASSUME f.pc # "create"
      PROVE  Creating' = Creating \ {t}
  <2>1. \A u \in Tasks : u \in Creating' <=> u \in Creating /\ u # t
    BY <1>2, <1>3, CreatingNext
  <2>2. Creating' \subseteq Tasks /\ Creating \subseteq Tasks
    BY DEF Creating
  <2> QED BY <2>1, <2>2
<1>4. ASSUME f.pc # "create", Len(run') = Len(run)
      PROVE  BudgetOk'
  <2>1. Creating' \subseteq Creating
    BY <1>3, <1>4
  <2> QED BY <1>4, <2>1, BudgetKept
<1> QED BY <1>2, <1>3, <1>4

\* Nothing is taken back by a step that does not write.
LEMMA GrowsIdle ==
  ASSUME TypeOK, UNCHANGED <<run, replies, approval>>, orphan \subseteq orphan'
  PROVE  Grows
<1>1. Len(run) \in Nat /\ \A s \in Sessions : Len(replies[s]) \in Nat
  BY RowFields
<1> QED BY <1>1 DEF Grows

\* A step of the innermost frame that writes no row, reply or decision.
LEMMA MoveKeeps ==
  ASSUME RunInvariant, NEW t \in Tasks, ~Idle(t), NEW e, e = Top(t), NEW f \in Frame, Set(t, f),
         UNCHANGED <<user, replies, run, approval, sent, resumes, faults, orphan>>,
         lane' \in [Sessions -> Seq(Tasks \X Nat)], unheard' \subseteq unheard,
         e.pc # "create", f.pc # "create", f.run = e.run, f.ses = e.ses, f.kind = e.kind,
         e.pc \in Started => f.pc \in Started,
         f.pc \in {"finish", "deliver"} => Said(f.run, f.ses),
         f.pc = "exec" => f.todo # <<>>,
         \A s \in unheard' : Comes(e, s) => Comes(f, s)
  PROVE  RunInvariant'
<1>1. TypeOK /\ Owes(e)
  BY TopFacts DEF RunInvariant
<1>2. task' \in [Tasks -> Seq(Frame)] /\ BudgetOk'
  BY SetBudget
<1>3. TypeOK'
  BY <1>1, <1>2 DEF TypeOK
<1>4. Grows
  BY <1>1, GrowsIdle
<1>5. Owes(f)'
  BY <1>1 DEF Owes, Said
<1>6. \A r \in 1..Len(run') : r \in 1..Len(run) /\ run'[r].status = run[r].status
  OBVIOUS
<1> QED BY <1>2, <1>3, <1>4, <1>5, <1>6, SetKeeps

\* A frame with another place, and with other tools.
LEMMA FrameMoved ==
  ASSUME NEW e \in Frame, NEW p \in PCs
  PROVE  /\ [e EXCEPT !.pc = p] \in Frame
         /\ [e EXCEPT !.pc = p].kind = e.kind /\ [e EXCEPT !.pc = p].ses = e.ses
         /\ [e EXCEPT !.pc = p].run = e.run /\ [e EXCEPT !.pc = p].todo = e.todo
         /\ [e EXCEPT !.pc = p].pc = p
BY DEF Frame

\* A frame whose tools change is a frame.
LEMMA FrameTools ==
  ASSUME NEW e \in Frame, NEW p \in PCs, NEW q \in Seq(Tools)
  PROVE  /\ [e EXCEPT !.pc = p, !.todo = q] \in Frame
         /\ [e EXCEPT !.pc = p, !.todo = q].kind = e.kind /\ [e EXCEPT !.pc = p, !.todo = q].ses = e.ses
         /\ [e EXCEPT !.pc = p, !.todo = q].run = e.run /\ [e EXCEPT !.pc = p, !.todo = q].todo = q
         /\ [e EXCEPT !.pc = p, !.todo = q].pc = p
BY DEF Frame

\* A place at a lane, and a lane that is handed on.
LEMMA TakeTyped ==
  ASSUME TypeOK, NEW t \in Tasks, NEW s \in Sessions, NEW n \in Nat, Take(t, s, n)
  PROVE  lane' \in [Sessions -> Seq(Tasks \X Nat)]
<1> DEFINE Place == Tasks \X Nat
<1>1. lane[s] \in Seq(Place) /\ <<t, n>> \in Place /\ lane \in [Sessions -> Seq(Place)]
  BY DEF TypeOK
<1> HIDE DEF Place
<1>2. PICK p \in Place : p = <<t, n>>
  BY <1>1
<1>3. Append(lane[s], p) \in Seq(Place)
  BY <1>1
<1>4. lane' = [lane EXCEPT ![s] = Append(lane[s], p)]
  BY <1>2 DEF Take
<1>5. lane' \in [Sessions -> Seq(Place)]
  BY <1>1, <1>3, <1>4
<1> QED BY <1>5 DEF Place

-----------------------------------------------------------------------------
(* One lemma per step of the innermost frame. *)

\* The frame of an action that starts where the innermost frame stands.
LEMMA AtFacts ==
  ASSUME RunInvariant, NEW t \in Tasks, NEW p, At(t, p)
  PROVE  /\ ~Idle(t) /\ Top(t).pc = p /\ TypeOK /\ Stacks
         /\ Top(t) \in Frame /\ Owes(Top(t)) /\ Top(t).ses \in Sessions
         /\ Top(t).todo \in Seq(Tools) /\ Len(task[t]) \in Nat \ {0}
         /\ p # "create" => Top(t).run \in 1..Len(run) /\ Top(t).run \in RunIds
         /\ p # "create" => run[Top(t).run].ses = Top(t).ses
<1>1. ~Idle(t) /\ Top(t).pc = p /\ TypeOK
  BY DEF At, RunInvariant
<1>2. Stacks /\ Top(t) \in Frame /\ Owes(Top(t)) /\ Len(task[t]) \in Nat \ {0}
  BY <1>1, TopFacts
<1>3. Top(t).ses \in Sessions /\ Top(t).todo \in Seq(Tools)
  BY <1>2, FrameFields
<1>4. p # "create" => Top(t).run \in 1..Len(run) /\ run[Top(t).run].ses = Top(t).ses
  BY <1>1, <1>2 DEF Owes
<1>5. 1..Len(run) \subseteq RunIds
  BY <1>1, RowFields
<1> QED BY <1>1, <1>2, <1>3, <1>4, <1>5

\* The lane is asked for.
LEMMA EnterLaneKeeps ==
  ASSUME RunInvariant, NEW t \in Tasks, EnterLane(t)
  PROVE  RunInvariant'
<1>1. At(t, "lane") /\ Take(t, Top(t).ses, Len(task[t])) /\ Goto(t, "waiting")
  BY DEF EnterLane
<1>2. PICK e \in Frame : e = Top(t)
  BY <1>1, AtFacts
<1>3. "waiting" \in PCs
  BY DEF PCs
<1>4. PICK f \in Frame : f = [e EXCEPT !.pc = "waiting"]
  BY <1>3, FrameMoved
<1>5. ~Idle(t) /\ Set(t, f) /\ e.pc = "lane"
  BY <1>1, <1>2, <1>4, AtFacts DEF Goto
<1>6. f.run = e.run /\ f.ses = e.ses /\ f.kind = e.kind /\ f.pc = "waiting"
  BY <1>3, <1>4, FrameMoved
<1>7. lane' \in [Sessions -> Seq(Tasks \X Nat)]
  BY <1>1, AtFacts, TakeTyped
<1>8. \A s \in unheard' : Comes(e, s) => Comes(f, s)
  BY <1>5, <1>6 DEF Comes
<1>9. e.pc \notin Started
  BY <1>5 DEF Started, Executing
<1>10. UNCHANGED <<user, replies, run, approval, sent, resumes, faults, unheard, orphan>>
  BY DEF EnterLane, ghosts
<1> QED BY <1>2, <1>5, <1>6, <1>7, <1>8, <1>9, <1>10, MoveKeeps

\* The newest message is read.
LEMMA ReadInputKeeps ==
  ASSUME RunInvariant, NEW t \in Tasks, ReadInput(t)
  PROVE  RunInvariant'
<1> DEFINE s0 == Top(t).ses
           n == Len(user[s0])
           ask == IF n = 0 THEN <<>> ELSE user[s0][n]
<1>1. At(t, "input") /\ Set(t, [Top(t) EXCEPT !.pc = "tool", !.todo = ask])
  BY DEF ReadInput
<1>2. PICK e \in Frame : e = Top(t)
  BY <1>1, AtFacts
<1>3. "tool" \in PCs
  BY DEF PCs, Executing
<1>4. ask \in Seq(Tools)
  <2>1. user[s0] \in Seq(Inputs) /\ Inputs \subseteq Seq(Tools)
    BY <1>1, AtFacts, BoundsAssumption DEF TypeOK
  <2>2. n # 0 => user[s0][n] \in Inputs
    BY <2>1
  <2> QED BY <2>1, <2>2
<1>5. PICK q \in Seq(Tools) : q = ask
  BY <1>4
<1>6. PICK f \in Frame : f = [e EXCEPT !.pc = "tool", !.todo = q]
  BY <1>3, FrameTools
<1>7. ~Idle(t) /\ Set(t, f) /\ e.pc = "input"
  BY <1>1, <1>2, <1>5, <1>6, AtFacts
<1>8. f.run = e.run /\ f.ses = e.ses /\ f.kind = e.kind /\ f.pc = "tool"
  BY <1>6 DEF Frame
<1>9. \A s \in unheard' : s # e.ses /\ s \in unheard
  BY <1>2 DEF ReadInput
<1>10. \A s \in unheard' : Comes(e, s) => Comes(f, s)
  BY <1>9 DEF Comes
<1>11. f.pc \in Started
  BY <1>8 DEF Started, Executing
<1>12. UNCHANGED <<user, replies, run, approval, lane, sent, resumes, faults, orphan>>
  BY DEF ReadInput
<1>13. lane' \in [Sessions -> Seq(Tasks \X Nat)]
  BY <1>1, <1>12, AtFacts DEF TypeOK
<1> HIDE DEF s0, n, ask
<1> QED BY <1>2, <1>7, <1>8, <1>9, <1>10, <1>11, <1>12, <1>13, MoveKeeps

\* A step of the execution that only moves, from e to f.
LEMMA ExecMoves ==
  ASSUME RunInvariant, NEW t \in Tasks, ~Idle(t), NEW e, e = Top(t), NEW f \in Frame, Set(t, f),
         UNCHANGED <<user, replies, run, approval, lane, sent, ghosts>>,
         e.pc \in {"tool", "exec", "finish"}, f.pc \in {"tool", "exec", "failing"},
         f.run = e.run, f.ses = e.ses, f.kind = e.kind,
         f.pc = "exec" => f.todo # <<>>
  PROVE  RunInvariant'
<1>1. f.pc \in Started /\ f.pc # "create" /\ f.pc \notin {"finish", "deliver"} /\ e.pc # "create"
  BY DEF Started, Executing
<1>2. \A s \in unheard' : ~Comes(e, s)
  BY DEF Comes
<1>3. UNCHANGED <<user, replies, run, approval, sent, resumes, faults, orphan>> /\ unheard' \subseteq unheard
  BY DEF ghosts
<1>4. lane' \in [Sessions -> Seq(Tasks \X Nat)]
  BY DEF RunInvariant, TypeOK
<1> QED BY <1>1, <1>2, <1>3, <1>4, MoveKeeps

\* The tool is dispatched.
LEMMA DispatchToolKeeps ==
  ASSUME RunInvariant, NEW t \in Tasks, DispatchTool(t)
  PROVE  RunInvariant'
<1>1. At(t, "tool") /\ Goto(t, "exec") /\ UNCHANGED <<user, replies, run, approval, lane, sent, ghosts>>
  BY DEF DispatchTool
<1>2. PICK e \in Frame : e = Top(t)
  BY <1>1, AtFacts
<1>3. "exec" \in PCs
  BY DEF PCs, Executing
<1>4. PICK f \in Frame : f = [e EXCEPT !.pc = "exec"]
  BY <1>3, FrameMoved
<1>5. ~Idle(t) /\ Set(t, f) /\ e.pc = "tool"
  BY <1>1, <1>2, <1>4, AtFacts DEF Goto
<1>6. f.run = e.run /\ f.ses = e.ses /\ f.kind = e.kind /\ f.pc = "exec" /\ f.todo = e.todo
  BY <1>3, <1>4, FrameMoved
<1>7. f.todo # <<>>
  BY <1>2, <1>6 DEF DispatchTool
<1> QED BY <1>1, <1>2, <1>5, <1>6, <1>7, ExecMoves

\* The tool has ended.
LEMMA EndToolKeeps ==
  ASSUME RunInvariant, NEW t \in Tasks, EndTool(t)
  PROVE  RunInvariant'
<1>1. /\ At(t, "exec") /\ Set(t, [Top(t) EXCEPT !.pc = "tool", !.todo = Tail(@)])
      /\ UNCHANGED <<user, replies, run, approval, lane, sent, ghosts>>
  BY DEF EndTool
<1>2. PICK e \in Frame : e = Top(t)
  BY <1>1, AtFacts
<1>3. "tool" \in PCs
  BY DEF PCs, Executing
<1>4. Tail(e.todo) \in Seq(Tools)
  <2>1. e.todo \in Seq(Tools) /\ e.todo # <<>>
    BY <1>1, <1>2, AtFacts DEF Owes
  <2> QED BY <2>1
<1>5. PICK f \in Frame : f = [e EXCEPT !.pc = "tool", !.todo = Tail(@)]
  BY <1>3, <1>4, FrameTools
<1>6. ~Idle(t) /\ Set(t, f) /\ e.pc = "exec"
  BY <1>1, <1>2, <1>5, AtFacts
<1>7. f.run = e.run /\ f.ses = e.ses /\ f.kind = e.kind /\ f.pc = "tool"
  BY <1>5 DEF Frame
<1> QED BY <1>1, <1>2, <1>6, <1>7, ExecMoves

\* A repeated assignment is passed over.
LEMMA SkipAssignmentKeeps ==
  ASSUME RunInvariant, NEW t \in Tasks, SkipAssignment(t)
  PROVE  RunInvariant'
<1>1. /\ At(t, "tool") /\ Top(t).todo # <<>> /\ Set(t, [Top(t) EXCEPT !.todo = Tail(@)])
      /\ UNCHANGED <<user, replies, run, approval, lane, sent, ghosts>>
  BY DEF SkipAssignment
<1>2. PICK e \in Frame : e = Top(t)
  BY <1>1, AtFacts
<1>3. PICK q \in Seq(Tools) : q = Tail(e.todo)
  <2>1. e.todo \in Seq(Tools) /\ e.todo # <<>>
    BY <1>1, <1>2, AtFacts
  <2>2. Tail(e.todo) \in Seq(Tools)
    BY <2>1
  <2> QED BY <2>2
<1>4. [e EXCEPT !.todo = q] \in Frame
  BY DEF Frame
<1>5. PICK f \in Frame : f = [e EXCEPT !.todo = q]
  BY <1>4
<1>6. ~Idle(t) /\ Set(t, f) /\ e.pc = "tool"
  BY <1>1, <1>2, <1>3, <1>5, AtFacts
<1>7. f.run = e.run /\ f.ses = e.ses /\ f.kind = e.kind /\ f.pc = e.pc
  BY <1>5 DEF Frame
<1> QED BY <1>1, <1>2, <1>6, <1>7, ExecMoves

\* The model assigns work to a worker.
LEMMA ModelAssignsKeeps ==
  ASSUME RunInvariant, NEW t \in Tasks, NEW w \in DOMAIN Worker, ModelAssigns(t, w)
  PROVE  RunInvariant'
<1>1. /\ At(t, "tool") /\ Set(t, [Top(t) EXCEPT !.todo = <<w>>])
      /\ UNCHANGED <<user, replies, run, approval, lane, sent, ghosts>>
  BY DEF ModelAssigns
<1>2. PICK e \in Frame : e = Top(t)
  BY <1>1, AtFacts
<1>3. w \in Tools
  BY DEF Tools
<1>4. PICK q \in Seq(Tools) : q = <<w>>
  <2>1. <<w>> \in Seq(Tools)
    BY <1>3
  <2> QED BY <2>1
<1>5. [e EXCEPT !.todo = q] \in Frame
  BY <1>4 DEF Frame
<1>6. PICK f \in Frame : f = [e EXCEPT !.todo = q]
  BY <1>5
<1>7. ~Idle(t) /\ Set(t, f) /\ e.pc = "tool"
  BY <1>1, <1>2, <1>4, <1>6, AtFacts
<1>8. f.run = e.run /\ f.ses = e.ses /\ f.kind = e.kind /\ f.pc = e.pc
  BY <1>6 DEF Frame
<1> QED BY <1>1, <1>2, <1>7, <1>8, ExecMoves

\* The execution fails.
LEMMA ErrorKeeps ==
  ASSUME RunInvariant, NEW t \in Tasks, Error(t)
  PROVE  RunInvariant'
<1>1. /\ At(t, "tool") \/ At(t, "finish")
      /\ Goto(t, "failing") /\ UNCHANGED <<user, replies, run, approval, lane, sent, ghosts>>
  BY DEF Error
<1>2. PICK e \in Frame : e = Top(t)
  BY <1>1, AtFacts
<1>3. "failing" \in PCs
  BY DEF PCs, Executing
<1>4. PICK f \in Frame : f = [e EXCEPT !.pc = "failing"]
  BY <1>3, FrameMoved
<1>5. ~Idle(t) /\ Set(t, f) /\ e.pc \in {"tool", "finish"}
  BY <1>1, <1>2, <1>4, AtFacts DEF Goto
<1>6. f.run = e.run /\ f.ses = e.ses /\ f.kind = e.kind /\ f.pc = "failing"
  BY <1>3, <1>4, FrameMoved
<1> QED BY <1>1, <1>2, <1>5, <1>6, ExecMoves

\* A status is written and nothing else of the rows.
LEMMA StatusStep ==
  ASSUME TypeOK, NEW r \in 1..Len(run), NEW v \in Status, SetStatus(r, v)
  PROVE  /\ run' \in Seq([ses : Sessions, status : Status]) /\ Len(run') = Len(run)
         /\ \A x \in 1..Len(run) : run'[x].ses = run[x].ses
         /\ \A x \in 1..Len(run) : x # r => run'[x].status = run[x].status
         /\ run'[r].status = v
<1> DEFINE Row == [ses : Sessions, status : Status]
<1>1. run \in Seq(Row) /\ run[r] \in Row
  <2>1. run \in Seq(Row)
    BY DEF TypeOK
  <2> HIDE DEF Row
  <2> QED BY <2>1
<1>2. [run[r] EXCEPT !.status = v] \in Row
  BY <1>1
<1>3. PICK x \in Row : x = [run[r] EXCEPT !.status = v]
  BY <1>2
<1>4. x.ses = run[r].ses /\ x.status = v
  BY <1>1, <1>3
<1>5. run' = [run EXCEPT ![r] = x]
  BY <1>3 DEF SetStatus
<1> HIDE DEF Row
<1>6. run' \in Seq(Row) /\ Len(run') = Len(run) /\ run'[r] = x /\ \A y \in 1..Len(run) : y # r => run'[y] = run[y]
  BY <1>1, <1>5
<1> QED BY <1>4, <1>6 DEF Row

\* A step of the innermost frame e that writes the status of its row.
LEMMA StatusKeeps ==
  ASSUME RunInvariant, NEW t \in Tasks, ~Idle(t), NEW e \in Frame, e = Top(t), e.pc # "create",
         NEW p \in PCs, NEW f \in Frame, f = [e EXCEPT !.pc = p], Set(t, f),
         NEW v \in Status, SetStatus(e.run, v),
         UNCHANGED <<user, replies, approval, lane, sent, ghosts>>,
         p \in {"input", "release"}, v = "running" <=> p = "input",
         v = "succeeded" => Said(e.run, e.ses),
         p = "release" => e.pc # "waiting"  /\ e.pc # "input" /\ e.pc # "lane"
  PROVE  RunInvariant'
<1>1. TypeOK /\ Owes(e)
  BY TopFacts DEF RunInvariant
<1>2. e.run \in 1..Len(run) /\ run[e.run].ses = e.ses /\ e.ses \in Sessions
  BY <1>1, FrameFields DEF Owes
<1>3. /\ run' \in Seq([ses : Sessions, status : Status]) /\ Len(run') = Len(run)
      /\ \A x \in 1..Len(run) : run'[x].ses = run[x].ses
      /\ \A x \in 1..Len(run) : x # e.run => run'[x].status = run[x].status
      /\ run'[e.run].status = v
  BY <1>1, <1>2, StatusStep
<1>4. f.run = e.run /\ f.ses = e.ses /\ f.kind = e.kind /\ f.pc = p
  BY FrameMoved
<1>5. task' \in [Tasks -> Seq(Frame)] /\ BudgetOk'
  BY <1>3, <1>4, SetBudget
<1>6. UNCHANGED <<resumes, faults, unheard, orphan>>
  BY DEF ghosts
<1>7. TypeOK'
  <2>1. Len(run') <= MaxRuns
    BY <1>1, <1>3, RowFields
  <2> QED BY <1>1, <1>3, <1>5, <1>6, <2>1 DEF TypeOK
<1>8. Grows
  <2>1. Len(run) \in Nat /\ \A s \in Sessions : Len(replies[s]) \in Nat
    BY <1>1, RowFields
  <2> QED BY <1>3, <1>6, <2>1 DEF Grows
<1>9. Owes(f)'
  <2>1. f.run \in 1..Len(run') /\ run'[f.run].ses = f.ses
    BY <1>2, <1>3, <1>4
  <2> QED BY <1>4, <2>1 DEF Owes
<1>10. p = "input" => f.pc \in Started
  BY <1>4 DEF Started, Executing
<1>11. e.pc \in Started =>
           (f.run = e.run /\ f.pc \in Started) \/ (e.run \in 1..Len(run') => run'[e.run].status # "running")
  BY <1>3, <1>4, <1>10
<1>12. ASSUME NEW r \in 1..Len(run')
       PROVE \/ r \in 1..Len(run) /\ run'[r].status = run[r].status
             \/ /\ run'[r].status = "running" => f.run = r /\ f.pc \in Started
                /\ run'[r].status = "succeeded" => \E s \in Sessions : s = run'[r].ses /\ Said(r, s)'
  <2>1. CASE r # e.run
    BY <1>3, <2>1
  <2>2. CASE r = e.run
    <3>1. run'[r].status = "running" => f.run = r /\ f.pc \in Started
      BY <1>3, <1>4, <1>10, <2>2
    <3>2. PICK s \in Sessions : s = e.ses
      BY <1>2
    <3>3. run'[r].ses = s
      BY <1>2, <1>3, <2>2, <3>2
    <3>4. run'[r].status = "succeeded" => Said(r, s)'
      BY <1>3, <2>2, <3>2 DEF Said
    <3> QED BY <3>1, <3>3, <3>4
  <2> QED BY <2>1, <2>2
<1>13. \A s \in unheard' : s \in unheard /\ (Comes(e, s) => Comes(f, s))
  BY <1>4, <1>6 DEF Comes
<1> QED BY <1>4, <1>5, <1>6, <1>7, <1>8, <1>9, <1>11, <1>12, <1>13, SetKeeps

\* The execution starts.
LEMMA StartKeeps ==
  ASSUME RunInvariant, NEW t \in Tasks, Start(t)
  PROVE  RunInvariant'
<1>1. /\ At(t, "waiting") /\ SetStatus(Top(t).run, "running") /\ Goto(t, "input")
      /\ UNCHANGED <<user, replies, approval, lane, sent, ghosts>>
  BY DEF Start
<1>2. PICK e \in Frame : e = Top(t)
  BY <1>1, AtFacts
<1>3. "input" \in PCs /\ "running" \in Status
  BY DEF PCs, Executing, Status
<1>4. PICK f \in Frame : f = [e EXCEPT !.pc = "input"]
  BY <1>3, FrameMoved
<1>5. ~Idle(t) /\ Set(t, f) /\ e.pc = "waiting" /\ SetStatus(e.run, "running")
  BY <1>1, <1>2, <1>4, AtFacts DEF Goto
<1> QED BY <1>1, <1>2, <1>3, <1>4, <1>5, StatusKeeps

\* The execution ends with its answer saved.
LEMMA FinishKeeps ==
  ASSUME RunInvariant, NEW t \in Tasks, Finish(t)
  PROVE  RunInvariant'
<1>1. /\ At(t, "finish") /\ SetStatus(Top(t).run, "succeeded") /\ Goto(t, "release")
      /\ UNCHANGED <<user, replies, approval, lane, sent, ghosts>>
  BY DEF Finish
<1>2. PICK e \in Frame : e = Top(t)
  BY <1>1, AtFacts
<1>3. "release" \in PCs /\ "succeeded" \in Status
  BY DEF PCs, Executing, Status
<1>4. PICK f \in Frame : f = [e EXCEPT !.pc = "release"]
  BY <1>3, FrameMoved
<1>5. ~Idle(t) /\ Set(t, f) /\ e.pc = "finish" /\ SetStatus(e.run, "succeeded")
  BY <1>1, <1>2, <1>4, AtFacts DEF Goto
<1>6. Said(e.run, e.ses)
  BY <1>1, <1>2, AtFacts DEF Owes
<1> QED BY <1>1, <1>2, <1>3, <1>4, <1>5, <1>6, StatusKeeps

\* The execution ends with an error.
LEMMA MarkFailedKeeps ==
  ASSUME RunInvariant, NEW t \in Tasks, MarkFailed(t)
  PROVE  RunInvariant'
<1>1. /\ At(t, "failing") /\ SetStatus(Top(t).run, "failed") /\ Goto(t, "release")
      /\ UNCHANGED <<user, replies, approval, lane, sent, ghosts>>
  BY DEF MarkFailed
<1>2. PICK e \in Frame : e = Top(t)
  BY <1>1, AtFacts
<1>3. "release" \in PCs /\ "failed" \in Status
  BY DEF PCs, Executing, Status
<1>4. PICK f \in Frame : f = [e EXCEPT !.pc = "release"]
  BY <1>3, FrameMoved
<1>5. ~Idle(t) /\ Set(t, f) /\ e.pc = "failing" /\ SetStatus(e.run, "failed")
  BY <1>1, <1>2, <1>4, AtFacts DEF Goto
<1> QED BY <1>1, <1>2, <1>3, <1>4, <1>5, StatusKeeps

\* A tool waits for its approval.
LEMMA BlockToolKeeps ==
  ASSUME RunInvariant, NEW t \in Tasks, BlockTool(t)
  PROVE  RunInvariant'
<1>1. /\ At(t, "tool") /\ Goto(t, "failing")
      /\ UNCHANGED <<user, replies, run, lane, sent, resumes, faults, unheard, orphan>>
  BY DEF BlockTool, ghosts
<1>2. PICK e \in Frame : e = Top(t)
  BY <1>1, AtFacts
<1>3. "failing" \in PCs
  BY DEF PCs, Executing
<1>4. PICK f \in Frame : f = [e EXCEPT !.pc = "failing"]
  BY <1>3, FrameMoved
<1>5. ~Idle(t) /\ Set(t, f) /\ e.pc = "tool" /\ TypeOK /\ Owes(e) /\ e.run \in RunIds
  BY <1>1, <1>2, <1>4, AtFacts DEF Goto
<1>6. f.run = e.run /\ f.ses = e.ses /\ f.kind = e.kind /\ f.pc = "failing"
  BY <1>3, <1>4, FrameMoved
<1>7. PICK g \in Gated : g = Head(e.todo)
  BY <1>2 DEF BlockTool, Blocked
<1>8. \/ approval' = approval
      \/ approval[e.run][g] = "none" /\ approval' = [approval EXCEPT ![e.run][g] = "requested"]
  BY <1>2, <1>7 DEF BlockTool, LatestApproval
<1>9. approval' \in [RunIds -> [Gated -> {"none", "requested", "approved", "denied"}]]
  <2>1. approval \in [RunIds -> [Gated -> {"none", "requested", "approved", "denied"}]]
    BY <1>5 DEF TypeOK
  <2> QED BY <1>5, <1>8, <2>1
<1>10. task' \in [Tasks -> Seq(Frame)] /\ BudgetOk'
  BY <1>1, <1>5, <1>6, SetBudget
<1>11. TypeOK'
  BY <1>1, <1>5, <1>9, <1>10 DEF TypeOK
<1>12. Grows
  <2>1. Len(run) \in Nat /\ \A s \in Sessions : Len(replies[s]) \in Nat
    BY <1>5, RowFields
  <2> QED BY <1>1, <2>1 DEF Grows
<1>13. Owes(f)'
  BY <1>1, <1>5, <1>6 DEF Owes
<1>14. f.pc \in Started
  BY <1>6 DEF Started, Executing
<1>15. \A s \in unheard' : s \in unheard /\ (Comes(e, s) => Comes(f, s))
  BY <1>1, <1>5 DEF Comes
<1>16. \A r \in 1..Len(run') : r \in 1..Len(run) /\ run'[r].status = run[r].status
  BY <1>1
<1> QED BY <1>1, <1>2, <1>5, <1>6, <1>10, <1>11, <1>12, <1>13, <1>14, <1>15, <1>16, SetKeeps

\* A sequence with one more element.
LEMMA AppendFacts ==
  ASSUME NEW S, NEW q \in Seq(S), NEW x \in S
  PROVE  /\ Append(q, x) \in Seq(S) /\ Len(q) \in Nat /\ Len(Append(q, x)) = Len(q) + 1
         /\ Append(q, x)[Len(q) + 1] = x
         /\ \A i \in 1..Len(q) : Append(q, x)[i] = q[i]
OBVIOUS

\* The answer is saved.
LEMMA ModelAnswersKeeps ==
  ASSUME RunInvariant, NEW t \in Tasks, ModelAnswers(t)
  PROVE  RunInvariant'
<1>1. /\ At(t, "tool") /\ Goto(t, "finish")
      /\ replies' = [replies EXCEPT ![Top(t).ses] = Append(@, Top(t).run)]
      /\ UNCHANGED <<user, run, approval, lane, sent, resumes, faults, unheard, orphan>>
  BY DEF ModelAnswers, ghosts
<1>2. PICK e \in Frame : e = Top(t)
  BY <1>1, AtFacts
<1>3. "finish" \in PCs
  BY DEF PCs, Executing
<1>4. PICK f \in Frame : f = [e EXCEPT !.pc = "finish"]
  BY <1>3, FrameMoved
<1>5. /\ ~Idle(t) /\ Set(t, f) /\ e.pc = "tool" /\ TypeOK /\ Owes(e)
      /\ e.run \in RunIds /\ e.ses \in Sessions
  BY <1>1, <1>2, <1>4, AtFacts DEF Goto
<1>6. f.run = e.run /\ f.ses = e.ses /\ f.kind = e.kind /\ f.pc = "finish"
  BY <1>3, <1>4, FrameMoved
<1>7. replies \in [Sessions -> Seq(RunIds)] /\ replies' = [replies EXCEPT ![e.ses] = Append(@, e.run)]
  BY <1>1, <1>2, <1>5 DEF TypeOK
<1>8. PICK q \in Seq(RunIds) : q = Append(replies[e.ses], e.run)
  BY <1>5, <1>7, AppendFacts
<1>9. /\ Len(replies[e.ses]) \in Nat /\ Len(q) = Len(replies[e.ses]) + 1
      /\ q[Len(replies[e.ses]) + 1] = e.run
      /\ \A i \in 1..Len(replies[e.ses]) : q[i] = replies[e.ses][i]
  <2>1. replies[e.ses] \in Seq(RunIds)
    BY <1>5, <1>7
  <2> QED BY <1>5, <1>8, <2>1, AppendFacts
<1>10. /\ replies' \in [Sessions -> Seq(RunIds)] /\ replies'[e.ses] = q
       /\ \A s \in Sessions : s # e.ses => replies'[s] = replies[s]
  BY <1>5, <1>7, <1>8
<1>11. task' \in [Tasks -> Seq(Frame)] /\ BudgetOk'
  BY <1>1, <1>5, <1>6, SetBudget
<1>12. TypeOK'
  BY <1>1, <1>5, <1>10, <1>11 DEF TypeOK
<1>13. Grows
  <2>1. Len(run) \in Nat /\ \A s \in Sessions : Len(replies[s]) \in Nat
    BY <1>5, RowFields
  <2>2. ASSUME NEW s \in Sessions
        PROVE  /\ Len(replies[s]) <= Len(replies'[s])
               /\ \A i \in 1..Len(replies[s]) : replies'[s][i] = replies[s][i]
    BY <1>9, <1>10, <2>1
  <2> QED BY <1>1, <2>1, <2>2 DEF Grows
<1>14. Said(f.run, f.ses)'
  <2>1. Len(q) \in 1..Len(q) /\ q[Len(q)] = f.run
    BY <1>6, <1>9
  <2>2. PICK i : i = Len(q)
    OBVIOUS
  <2>3. i \in 1..Len(replies'[f.ses]) /\ replies'[f.ses][i] = f.run
    BY <1>6, <1>10, <2>1, <2>2
  <2> QED BY <2>3 DEF Said
<1>15. Owes(f)'
  BY <1>1, <1>5, <1>6, <1>14 DEF Owes
<1>16. f.pc \in Started
  BY <1>6 DEF Started, Executing
<1>17. \A s \in unheard' : s \in unheard /\ (Comes(e, s) => Comes(f, s))
  BY <1>1, <1>5 DEF Comes
<1>18. \A r \in 1..Len(run') : r \in 1..Len(run) /\ run'[r].status = run[r].status
  BY <1>1
<1> QED BY <1>1, <1>2, <1>5, <1>6, <1>11, <1>12, <1>13, <1>15, <1>16, <1>17, <1>18, SetKeeps

\* The row is written.
LEMMA CreateRowKeeps ==
  ASSUME RunInvariant, NEW t \in Tasks, CreateRow(t)
  PROVE  RunInvariant'
<1>1. /\ At(t, "create")
      /\ run' = Append(run, [ses |-> Top(t).ses, status |-> "queued"])
      /\ Set(t, [Top(t) EXCEPT !.run = Len(run) + 1,
                               !.pc = IF Top(t).kind = "api" THEN "waiting" ELSE "lane"])
      /\ UNCHANGED <<user, replies, approval, lane, sent, resumes, faults, unheard, orphan>>
  BY DEF CreateRow, ghosts
<1>2. PICK e \in Frame : e = Top(t)
  BY <1>1, AtFacts
<1>3. PICK p \in PCs : p = IF e.kind = "api" THEN "waiting" ELSE "lane"
  BY DEF PCs
<1>4. /\ ~Idle(t) /\ e.pc = "create" /\ TypeOK /\ Owes(e) /\ e.ses \in Sessions
  BY <1>1, <1>2, AtFacts
<1>5. Len(run) \in Nat /\ Len(run) <= MaxRuns /\ MaxRuns \in Nat
  BY <1>4, BoundsAssumption, RowFields
<1>6. PICK m \in Nat : m = Len(run) + 1
  BY <1>5
<1>7. PICK row \in [ses : Sessions, status : Status] : row = [ses |-> e.ses, status |-> "queued"]
  BY <1>4 DEF Status
<1>8. /\ run' \in Seq([ses : Sessions, status : Status]) /\ Len(run') = m /\ run'[m] = row
      /\ \A r \in 1..Len(run) : run'[r] = run[r]
  <2> DEFINE Row == [ses : Sessions, status : Status]
  <2>1. run \in Seq(Row) /\ row \in Row /\ run' = Append(run, row)
    BY <1>1, <1>2, <1>4, <1>7 DEF TypeOK
  <2> HIDE DEF Row
  <2>2. run' \in Seq(Row) /\ Len(run') = m /\ run'[m] = row /\ \A r \in 1..Len(run) : run'[r] = run[r]
    BY <1>6, <2>1, AppendFacts
  <2> QED BY <2>2 DEF Row
<1>9. row.ses = e.ses /\ row.status = "queued"
  BY <1>7
<1>10. t \in Creating
  BY <1>1 DEF Creating
<1>12. m <= MaxRuns
  <2>1. IsFiniteSet(Creating) /\ Cardinality(Creating) \in Nat /\ Cardinality(Creating) # 0
    <3>1. Creating \in SUBSET Tasks
      BY DEF Creating
    <3>2. IsFiniteSet(Creating)
      BY <3>1, BoundsAssumption, FS_Subset
    <3> QED BY <1>10, <3>2, FS_CardinalityType, FS_EmptySet
  <2>2. Len(run) + Cardinality(Creating) <= MaxRuns
    BY DEF RunInvariant, BudgetOk
  <2> QED BY <1>5, <1>6, <2>1, <2>2
<1>13. [e EXCEPT !.run = m, !.pc = p] \in Frame
  <2>1. m \in 0..MaxRuns
    BY <1>5, <1>12
  <2> QED BY <2>1 DEF Frame
<1>14. PICK f \in Frame : f = [e EXCEPT !.run = m, !.pc = p]
  BY <1>13
<1>15. Set(t, f)
  BY <1>1, <1>2, <1>3, <1>6, <1>14
<1>16. f.run = m /\ f.ses = e.ses /\ f.kind = e.kind /\ f.pc = p /\ p \in {"waiting", "lane"}
  BY <1>3, <1>14 DEF Frame
<1>17. task' \in [Tasks -> Seq(Frame)] /\ Creating' = Creating \ {t}
  BY <1>4, <1>15, <1>16, SetBudget
<1>18. BudgetOk' /\ Len(run') <= MaxRuns
  BY <1>6, <1>8, <1>10, <1>17, BudgetSpent
<1>19. TypeOK'
  BY <1>1, <1>4, <1>8, <1>17, <1>18 DEF TypeOK
<1>20. Grows
  <2>1. \A s \in Sessions : Len(replies[s]) \in Nat
    BY <1>4, RowFields
  <2> QED BY <1>1, <1>5, <1>6, <1>8, <2>1 DEF Grows
<1>21. Owes(f)'
  <2>1. m \in 1..Len(run') /\ run'[m].ses = f.ses
    BY <1>5, <1>6, <1>8, <1>9, <1>16
  <2> QED BY <1>16, <2>1 DEF Owes
<1>22. e.pc \notin Started
  BY <1>4 DEF Started, Executing
<1>23. \A s \in unheard' : s \in unheard /\ (Comes(e, s) => Comes(f, s))
  BY <1>1, <1>4, <1>16 DEF Comes
<1>24. ASSUME NEW r \in 1..Len(run')
       PROVE  \/ r \in 1..Len(run) /\ run'[r].status = run[r].status
              \/ run'[r].status = "queued"
  <2>1. r \in 1..Len(run) \/ r = m
    BY <1>5, <1>6, <1>8
  <2> QED BY <1>8, <1>9, <2>1
<1>25. sent' = sent /\ faults' = faults
  BY <1>1
<1> QED BY <1>2, <1>4, <1>15, <1>16, <1>18, <1>19, <1>20, <1>21, <1>22, <1>23, <1>24, <1>25, SetKeeps

-----------------------------------------------------------------------------
(* Steps that open, cover or close a frame. *)

\* An idle task opens the frame f.
LEMMA OpenKeeps ==
  ASSUME RunInvariant, NEW t \in Tasks, Idle(t), NEW f \in Frame, task' = [task EXCEPT ![t] = <<f>>],
         UNCHANGED <<replies, run, approval, sent, faults, orphan>>,
         user' \in [Sessions -> Seq(Inputs)], lane' \in [Sessions -> Seq(Tasks \X Nat)],
         resumes' \in 0..MaxResumes, f.pc \in {"create", "lane"}, f.pc = "create" => RunBudget, Owes(f),
         unheard' \subseteq Sessions, \A s \in unheard' : s \in unheard \/ Comes(f, s)
  PROVE  RunInvariant'
<1>1. TypeOK /\ Stacks
  BY DEF RunInvariant, TypeOK, Stacks
<1>2. /\ task' \in [Tasks -> Seq(Frame)]
      /\ Len(task[t]) = 0 /\ Len(task'[t]) = 1 /\ Level(task'[t], 1) = f /\ task'[t][1] = f
      /\ \A u \in Tasks : u # t => task'[u] = task[u] /\ \A d \in 1..Len(task[u]) : Same(u, d)
  BY <1>1, OpenStep
<1>3. TypeOK'
  BY <1>1, <1>2 DEF TypeOK
<1>4. Grows
  BY <1>1, GrowsIdle
<1>5. t \notin Creating /\ task'[t] # <<>>
  BY <1>2, CreatingNext DEF Idle
<1>6. BudgetOk'
  <2>1. Creating \subseteq Tasks /\ Creating' \subseteq Tasks
    BY DEF Creating
  <2>2. \A u \in Tasks : u # t => (u \in Creating' <=> u \in Creating)
    BY <1>2, CreatingNext
  <2>3. t \in Creating' <=> f.pc = "create"
    BY <1>2, <1>5, CreatingNext
  <2>4. CASE f.pc = "create"
    <3>1. Creating' = Creating \cup {t}
      BY <2>1, <2>2, <2>3, <2>4
    <3> QED BY <1>5, <2>4, <3>1, BudgetTaken
  <2>5. CASE f.pc # "create"
    <3>1. Creating' \subseteq Creating
      BY <2>1, <2>2, <2>3, <2>5
    <3> QED BY <3>1, BudgetKept
  <2> QED BY <2>4, <2>5
<1>7. FrameOk(t, 1)'
  <2>1. Owes(f)'
    BY DEF Owes, Said
  <2> QED BY <1>2, <2>1, FrameOkNext
<1>8. FramesCarried
  <2>1. \A d \in 1..Len(task'[t]) : d = 1
    BY <1>2
  <2> QED BY <1>2, <1>7, <2>1 DEF FramesCarried
<1>9. 1..Len(task[t]) = {}
  BY <1>2
<1>10. RowsCarried
  BY <1>2, <1>9 DEF RowsCarried
<1>11. StatusCarried
  BY DEF StatusCarried
<1>12. HeardCarried
  <2> SUFFICES ASSUME NEW s \in unheard'
               PROVE  \/ \E u \in Tasks : \E d \in 1..Len(task'[u]) : Comes(Level(task'[u], d), s)
                      \/ /\ s \in unheard
                         /\ \A u \in Tasks : \A d \in 1..Len(task[u]) :
                              Comes(Level(task[u], d), s) =>
                                Same(u, d) \/ (d \in 1..Len(task'[u]) /\ Comes(Level(task'[u], d), s))
    BY DEF HeardCarried
  <2>1. CASE s \in unheard
    BY <1>2, <1>9, <2>1
  <2>2. CASE Comes(f, s)
    <3>1. 1 \in 1..Len(task'[t]) /\ Comes(Level(task'[t], 1), s)
      BY <1>2, <2>2
    <3> QED BY <3>1
  <2> QED BY <2>1, <2>2
<1>13. SentCarried
  BY DEF SentCarried
<1> QED BY <1>3, <1>4, <1>6, <1>8, <1>10, <1>11, <1>12, <1>13, StepKeeps

\* The frame below the innermost one executes a worker assignment.
LEMMA BossFacts ==
  ASSUME RunInvariant, NEW t \in Tasks, Len(task[t]) > 1
  PROVE  /\ task[t][2] \in Frame /\ task[t][2] = Level(task[t], Len(task[t]) - 1)
         /\ task[t][2].pc = "exec" /\ task[t][2].todo # <<>> /\ Owes(task[t][2])
         /\ Len(task[t]) - 1 > 1 => task[t][2].kind = "worker"
<1>1. task[t] \in Seq(Frame)
  BY DEF RunInvariant, TypeOK
<1>2. Len(task[t]) \in Nat
  BY <1>1
<1>3. 2 \in 1..Len(task[t]) /\ Len(task[t]) + 1 - 2 = Len(task[t]) - 1 /\ Len(task[t]) - 1 \in 1..Len(task[t])
  BY <1>2
<1>4. task[t][2] = Level(task[t], Len(task[t]) - 1) /\ task[t][2] \in Frame
  BY <1>1, <1>3, LevelFacts
<1>5. FrameOk(t, Len(task[t]) - 1) /\ Len(task[t]) - 1 < Len(task[t])
  BY <1>2, <1>3 DEF RunInvariant, Depth
<1>6. task[t][2].pc = "exec" /\ Owes(task[t][2]) /\ (Len(task[t]) - 1 > 1 => task[t][2].kind = "worker")
  BY <1>4, <1>5, FrameParts
<1> QED BY <1>4, <1>6 DEF Owes

\* The innermost frame e ends and the one below it goes on as g.
LEMMA PopKeeps ==
  ASSUME RunInvariant, NEW t \in Tasks, ~Idle(t), NEW e, e = Top(t), NEW g \in Frame,
         task' = [task EXCEPT ![t] = IF Len(@) = 1 THEN <<>> ELSE <<g>> \o Tail(Tail(@))],
         UNCHANGED <<user, replies, run, approval, sent, resumes, unheard>>,
         lane' \in [Sessions -> Seq(Tasks \X Nat)],
         faults' \in 0..MaxFaults, orphan' \in SUBSET RunIds, orphan \subseteq orphan',
         Len(task[t]) > 1 => /\ g.run = task[t][2].run /\ g.ses = task[t][2].ses
                             /\ g.kind = task[t][2].kind /\ g.pc \in {"failing", "tool"},
         e.pc \in Started => e.run \in orphan',
         faults' = 0 => faults = 0 /\ \A s \in unheard : ~Comes(e, s)
  PROVE  RunInvariant'
<1>1. /\ TypeOK /\ Stacks /\ Len(task[t]) \in Nat \ {0}
      /\ e = Level(task[t], Len(task[t]))
  BY TopFacts DEF RunInvariant
<1>2. PICK n \in Nat \ {0} : n = Len(task[t])
  BY <1>1
<1>3. /\ task' \in [Tasks -> Seq(Frame)] /\ Len(task'[t]) = n - 1
      /\ n > 1 => Level(task'[t], n - 1) = g /\ task'[t][1] = g
      /\ \A u \in Tasks : u # t => task'[u] = task[u] /\ \A d \in 1..Len(task[u]) : Same(u, d)
      /\ \A d \in 1..n : d < n - 1 => Same(t, d)
  BY <1>1, <1>2, PopStep
<1>4. ASSUME n > 1
      PROVE  \E b \in Frame :
               /\ b = Level(task[t], n - 1) /\ b.pc = "exec" /\ Owes(b) /\ (n - 1 > 1 => b.kind = "worker")
               /\ g.run = b.run /\ g.ses = b.ses /\ g.kind = b.kind
  BY <1>2, <1>4, BossFacts
<1>5. TypeOK'
  BY <1>1, <1>3 DEF TypeOK
<1>6. Grows
  BY <1>1, GrowsIdle
<1>7. BudgetOk'
  <2>1. Creating \subseteq Tasks /\ Creating' \subseteq Tasks
    BY DEF Creating
  <2>2. t \notin Creating'
    <3>1. CASE n > 1
      BY <1>2, <1>3, <3>1, CreatingNext
    <3>2. CASE n = 1
      <4>1. task'[t] = <<>>
        BY <1>2, <3>2 DEF Stacks, RunInvariant, TypeOK
      <4> QED BY <4>1, CreatingNext
    <3>3. n > 1 \/ n = 1
      OBVIOUS
    <3> QED BY <3>1, <3>2, <3>3
  <2>3. \A u \in Tasks : u # t => (u \in Creating' <=> u \in Creating)
    BY <1>3, CreatingNext
  <2>4. Creating' \subseteq Creating
    BY <2>1, <2>2, <2>3
  <2> QED BY <2>4, BudgetKept
<1>8. ASSUME n > 1
      PROVE  FrameOk(t, n - 1)'
  <2>1. PICK b \in Frame :
          /\ b = Level(task[t], n - 1) /\ b.pc = "exec" /\ Owes(b) /\ (n - 1 > 1 => b.kind = "worker")
          /\ g.run = b.run /\ g.ses = b.ses /\ g.kind = b.kind
    BY <1>4, <1>8
  <2>2. g.pc \in {"failing", "tool"}
    BY <1>2, <1>8
  <2>3. Owes(g)'
    BY <2>1, <2>2 DEF Owes
  <2>4. ~(n - 1 < Len(task'[t]))
    BY <1>2, <1>3
  <2> QED BY <1>3, <1>8, <2>1, <2>3, <2>4, FrameOkNext
<1>9. FramesCarried
  <2>1. \A d \in 1..Len(task'[t]) : d \in 1..n /\ (d < n - 1 \/ (n > 1 /\ d = n - 1))
    BY <1>2, <1>3
  <2>2. \A d \in 1..Len(task'[t]) : Same(t, d) \/ FrameOk(t, d)'
    BY <1>3, <1>8, <2>1
  <2> QED BY <1>3, <2>2 DEF FramesCarried
<1>10. \A d \in 1..n : d < n - 1 \/ (n > 1 /\ d = n - 1 /\ d \in 1..Len(task'[t])) \/ d = n
  BY <1>2, <1>3
<1>11. RowsCarried
  <2> SUFFICES ASSUME NEW d \in 1..Len(task[t]), Level(task[t], d).pc \in Started, ~Same(t, d)
               PROVE  \/ Level(task[t], d).run \in orphan'
                      \/ /\ d \in 1..Len(task'[t]) /\ Level(task'[t], d).run = Level(task[t], d).run
                         /\ Level(task'[t], d).pc \in Started
    BY <1>3 DEF RowsCarried
  <2>1. CASE d = n
    BY <1>1, <1>2, <2>1
  <2>2. CASE n > 1 /\ d = n - 1 /\ d \in 1..Len(task'[t])
    <3>1. g.run = Level(task[t], d).run /\ g.pc \in {"failing", "tool"}
      BY <1>2, <1>4, <2>2
    <3>2. g.pc \in Started
      BY <3>1 DEF Started, Executing
    <3> QED BY <1>3, <2>2, <3>1, <3>2
  <2> QED BY <1>2, <1>3, <1>10, <2>1, <2>2
<1>12. StatusCarried
  BY DEF StatusCarried
<1>13. HeardCarried
  <2> SUFFICES ASSUME faults' = 0, NEW s \in unheard, NEW d \in 1..Len(task[t]),
                      Comes(Level(task[t], d), s), ~Same(t, d)
               PROVE  FALSE
    BY <1>3 DEF HeardCarried
  <2>1. CASE d = n
    BY <1>1, <1>2, <2>1
  <2>2. CASE n > 1 /\ d = n - 1
    BY <1>4, <2>2 DEF Comes
  <2> QED BY <1>2, <1>3, <1>10, <2>1, <2>2
<1>14. SentCarried
  BY DEF SentCarried
<1> QED BY <1>5, <1>6, <1>7, <1>9, <1>11, <1>12, <1>13, <1>14, StepKeeps

\* A new frame, and a new message.
LEMMA NewFrameFacts ==
  ASSUME NEW kind \in Kinds, NEW p \in PCs, NEW s \in Sessions, NEW r \in 0..MaxRuns
  PROVE  /\ NewFrame(kind, p, s, r) \in Frame
         /\ NewFrame(kind, p, s, r).kind = kind /\ NewFrame(kind, p, s, r).pc = p
         /\ NewFrame(kind, p, s, r).ses = s /\ NewFrame(kind, p, s, r).run = r
<1>1. <<>> \in Seq(Tools) /\ {} \in SUBSET DOMAIN Worker
  OBVIOUS
<1> QED BY <1>1 DEF NewFrame, Frame

\* A message that is posted has its type.
LEMMA PostTyped ==
  ASSUME TypeOK, NEW s \in Sessions, NEW ask \in Inputs, Post(s, ask)
  PROVE  user' \in [Sessions -> Seq(Inputs)]
<1>1. user \in [Sessions -> Seq(Inputs)] /\ user[s] \in Seq(Inputs)
  BY DEF TypeOK
<1>2. Append(user[s], ask) \in Seq(Inputs)
  BY <1>1, AppendFacts
<1> QED BY <1>1, <1>2 DEF Post

\* A step of nobody's stack.
LEMMA StoreKeeps ==
  ASSUME RunInvariant, UNCHANGED <<replies, run, lane, task, sent, ghosts>>,
         user' \in [Sessions -> Seq(Inputs)],
         approval' \in [RunIds -> [Gated -> {"none", "requested", "approved", "denied"}]]
  PROVE  RunInvariant'
<1>1. TypeOK /\ UNCHANGED <<resumes, faults, unheard, orphan>>
  BY DEF RunInvariant, ghosts
<1>2. \A u \in Tasks : \A d \in 1..Len(task[u]) : Same(u, d)
  BY DEF Same
<1>3. TypeOK'
  BY <1>1 DEF TypeOK
<1>4. Grows
  <2>1. Len(run) \in Nat /\ \A s \in Sessions : Len(replies[s]) \in Nat
    BY <1>1, RowFields
  <2> QED BY <1>1, <2>1 DEF Grows
<1>5. BudgetOk'
  <2>1. Creating' = Creating
    BY DEF Creating, At, Idle, Top
  <2> QED BY <2>1, BudgetKept
<1>6. FramesCarried
  BY <1>2 DEF FramesCarried
<1>7. RowsCarried
  BY <1>2 DEF RowsCarried
<1>8. StatusCarried
  BY DEF StatusCarried
<1>9. HeardCarried
  BY <1>1, <1>2 DEF HeardCarried
<1>10. SentCarried
  BY DEF SentCarried
<1> QED BY <1>3, <1>4, <1>5, <1>6, <1>7, <1>8, <1>9, <1>10, StepKeeps

\* The run route takes the lane.
LEMMA CreateRunKeeps ==
  ASSUME RunInvariant, NEW t \in Tasks, NEW s \in Sessions, CreateRun(t, s)
  PROVE  RunInvariant'
<1>1. /\ Idle(t) /\ RunBudget /\ Take(t, s, 1)
      /\ task' = [task EXCEPT ![t] = <<NewFrame("api", "create", s, 0)>>]
      /\ UNCHANGED <<user, replies, run, approval, sent, resumes, faults, unheard, orphan>>
  BY DEF CreateRun, ghosts
<1>2. "api" \in Kinds /\ "create" \in PCs /\ 0 \in 0..MaxRuns
  BY BoundsAssumption DEF Kinds, PCs
<1>3. PICK f \in Frame : f = NewFrame("api", "create", s, 0)
  BY <1>2, NewFrameFacts
<1>4. f.pc = "create"
  BY <1>2, <1>3, NewFrameFacts
<1>5. TypeOK
  BY DEF RunInvariant
<1>6. lane' \in [Sessions -> Seq(Tasks \X Nat)]
  BY <1>1, <1>5, TakeTyped
<1>7. user' \in [Sessions -> Seq(Inputs)] /\ resumes' \in 0..MaxResumes /\ unheard' \subseteq Sessions
  BY <1>1, <1>5 DEF TypeOK
<1>8. Owes(f)
  BY <1>4 DEF Owes
<1>9. task' = [task EXCEPT ![t] = <<f>>]
  BY <1>1, <1>3
<1> QED BY <1>1, <1>4, <1>6, <1>7, <1>8, <1>9, OpenKeeps

\* A message comes in, and a run is to be made for it or not.
LEMMA IngestMessageKeeps ==
  ASSUME RunInvariant, NEW t \in Tasks, NEW kind \in {"channel", "card"}, NEW s \in Sessions,
         NEW ask \in Inputs, IngestMessage(t, kind, s, ask)
  PROVE  RunInvariant'
<1>1. Idle(t) /\ Post(s, ask) /\ UNCHANGED <<replies, run, approval, lane, sent, resumes, faults, orphan>>
  BY DEF IngestMessage
<1>2. TypeOK
  BY DEF RunInvariant
<1>3. user' \in [Sessions -> Seq(Inputs)]
  BY <1>1, <1>2, PostTyped
<1>4. CASE /\ RunBudget
           /\ task' = [task EXCEPT ![t] = <<NewFrame(kind, "create", s, 0)>>]
           /\ unheard' = IF kind = "channel" THEN unheard \cup {s} ELSE unheard
  <2>1. kind \in Kinds /\ "create" \in PCs /\ 0 \in 0..MaxRuns
    BY BoundsAssumption DEF Kinds, PCs
  <2>2. PICK f \in Frame : f = NewFrame(kind, "create", s, 0)
    BY <2>1, NewFrameFacts
  <2>3. f.pc = "create" /\ f.kind = kind /\ f.ses = s
    BY <2>1, <2>2, NewFrameFacts
  <2>4. /\ lane' \in [Sessions -> Seq(Tasks \X Nat)] /\ resumes' \in 0..MaxResumes
        /\ unheard' \subseteq Sessions
    BY <1>1, <1>2, <1>4 DEF TypeOK
  <2>5. Owes(f)
    BY <2>3 DEF Owes
  <2>6. task' = [task EXCEPT ![t] = <<f>>]
    BY <1>4, <2>2
  <2>7. \A x \in unheard' : x \in unheard \/ Comes(f, x)
    BY <1>4, <2>3 DEF Comes
  <2> QED BY <1>1, <1>3, <1>4, <2>3, <2>4, <2>5, <2>6, <2>7, OpenKeeps
<1>5. CASE UNCHANGED <<task, unheard>>
  <2>1. UNCHANGED <<replies, run, lane, task, sent, ghosts>>
    BY <1>1, <1>5 DEF ghosts
  <2>2. approval' \in [RunIds -> [Gated -> {"none", "requested", "approved", "denied"}]]
    BY <1>1, <1>2 DEF TypeOK
  <2> QED BY <1>3, <2>1, <2>2, StoreKeeps
<1> QED BY <1>4, <1>5 DEF IngestMessage

\* A run is resumed.
LEMMA ResumeRunKeeps ==
  ASSUME RunInvariant, NEW t \in Tasks, NEW r \in DOMAIN run, ResumeRun(t, r)
  PROVE  RunInvariant'
<1>1. /\ Idle(t) /\ resumes < MaxResumes /\ resumes' = resumes + 1
      /\ task' = [task EXCEPT ![t] = <<NewFrame("resume", "lane", run[r].ses, r)>>]
      /\ UNCHANGED <<user, replies, run, approval, lane, sent, faults, unheard, orphan>>
  BY DEF ResumeRun
<1>2. TypeOK
  BY DEF RunInvariant
<1>3. r \in 1..Len(run) /\ run[r].ses \in Sessions
  <2>1. DOMAIN run = 1..Len(run)
    BY <1>2 DEF TypeOK
  <2> QED BY <1>2, <2>1, RowFields
<1>4. "resume" \in Kinds /\ "lane" \in PCs /\ r \in 0..MaxRuns
  <2>1. r \in 1..MaxRuns /\ MaxRuns \in Nat
    BY <1>2, <1>3, RowFields, BoundsAssumption DEF RunIds
  <2> QED BY <2>1 DEF Kinds, PCs
<1>5. PICK f \in Frame : f = NewFrame("resume", "lane", run[r].ses, r)
  BY <1>3, <1>4, NewFrameFacts
<1>6. f.pc = "lane" /\ f.run = r /\ f.ses = run[r].ses
  BY <1>3, <1>4, <1>5, NewFrameFacts
<1>7. resumes' \in 0..MaxResumes
  BY <1>1, <1>2, BoundsAssumption DEF TypeOK
<1>8. /\ user' \in [Sessions -> Seq(Inputs)] /\ lane' \in [Sessions -> Seq(Tasks \X Nat)]
      /\ unheard' \subseteq Sessions
  BY <1>1, <1>2 DEF TypeOK
<1>9. Owes(f)
  BY <1>3, <1>6 DEF Owes
<1>10. task' = [task EXCEPT ![t] = <<f>>]
  BY <1>1, <1>5
<1> QED BY <1>1, <1>6, <1>7, <1>8, <1>9, <1>10, OpenKeeps

\* The frame that goes on after a nested call, by an error or by a result.
LEMMA ReturnFrames ==
  ASSUME RunInvariant, NEW t \in Tasks, ~Idle(t)
  PROVE  /\ ReturnFailed(t) => \E g \in Frame :
              /\ task' = [task EXCEPT ![t] = IF Len(@) = 1 THEN <<>> ELSE <<g>> \o Tail(Tail(@))]
              /\ Len(task[t]) > 1 => /\ g.run = task[t][2].run /\ g.ses = task[t][2].ses
                                     /\ g.kind = task[t][2].kind /\ g.pc = "failing"
         /\ ReturnOk(t) => \E g \in Frame :
              /\ task' = [task EXCEPT ![t] = IF Len(@) = 1 THEN <<>> ELSE <<g>> \o Tail(Tail(@))]
              /\ Len(task[t]) > 1 => /\ g.run = task[t][2].run /\ g.ses = task[t][2].ses
                                     /\ g.kind = task[t][2].kind /\ g.pc = "tool"
<1>1. Len(task[t]) \in Nat \ {0} /\ Top(t) \in Frame /\ task \in [Tasks -> Seq(Frame)]
  BY TopFacts DEF Stacks
<1>2. CASE Len(task[t]) = 1
  <2>1. PICK g \in Frame : g = Top(t)
    BY <1>1
  <2>2. ReturnFailed(t) => task' = [task EXCEPT ![t] = IF Len(@) = 1 THEN <<>> ELSE <<g>> \o Tail(Tail(@))]
    BY <1>2 DEF ReturnFailed
  <2>3. ReturnOk(t) => task' = [task EXCEPT ![t] = IF Len(@) = 1 THEN <<>> ELSE <<g>> \o Tail(Tail(@))]
    BY <1>2 DEF ReturnOk
  <2>4. ~(Len(task[t]) > 1)
    BY <1>2
  <2> QED BY <2>2, <2>3, <2>4
<1>3. CASE Len(task[t]) # 1
  <2>1. Len(task[t]) > 1
    <3>1. PICK n \in Nat \ {0} : n = Len(task[t])
      BY <1>1
    <3>2. n # 1
      BY <1>3, <3>1
    <3>3. n > 1
      BY <3>2
    <3> QED BY <3>1, <3>3
  <2>2. PICK b \in Frame : b = task[t][2] /\ b.todo # <<>>
    BY <2>1, BossFacts
  <2>3. "failing" \in PCs /\ "tool" \in PCs
    BY DEF PCs, Executing
  <2>4. PICK q \in Seq(Tools) : q = Tail(b.todo)
    <3>1. b.todo \in Seq(Tools)
      BY FrameFields
    <3>2. Tail(b.todo) \in Seq(Tools)
      BY <2>2, <3>1
    <3> QED BY <3>2
  <2>5. PICK g \in Frame : g = [b EXCEPT !.pc = "failing"]
    BY <2>3, FrameMoved
  <2>6. PICK h \in Frame : h = [b EXCEPT !.pc = "tool", !.todo = q]
    BY <2>3, FrameTools
  <2>7. g.run = b.run /\ g.ses = b.ses /\ g.kind = b.kind /\ g.pc = "failing"
    BY <2>5 DEF Frame
  <2>8. h.run = b.run /\ h.ses = b.ses /\ h.kind = b.kind /\ h.pc = "tool"
    BY <2>6 DEF Frame
  <2>9. ReturnFailed(t) => task' = [task EXCEPT ![t] = IF Len(@) = 1 THEN <<>> ELSE <<g>> \o Tail(Tail(@))]
    BY <2>2, <2>5 DEF ReturnFailed
  <2>10. ReturnOk(t) => task' = [task EXCEPT ![t] = IF Len(@) = 1 THEN <<>> ELSE <<h>> \o Tail(Tail(@))]
    <3>1. [task[t][2] EXCEPT !.pc = "tool", !.todo = Tail(@)] = h
      BY <2>2, <2>4, <2>6
    <3> QED BY <3>1 DEF ReturnOk
  <2> QED BY <2>2, <2>7, <2>8, <2>9, <2>10
<1> QED BY <1>2, <1>3

\* The lane is busy.
LEMMA LaneBusyKeeps ==
  ASSUME RunInvariant, NEW t \in Tasks, LaneBusy(t)
  PROVE  RunInvariant'
<1>1. /\ At(t, "lane") /\ ~Waits(Top(t).kind) /\ ReturnFailed(t)
      /\ UNCHANGED <<user, replies, run, approval, lane, sent, resumes, faults, unheard, orphan>>
  BY DEF LaneBusy, ghosts
<1>2. ~Idle(t) /\ Top(t).pc = "lane" /\ TypeOK
  BY <1>1, AtFacts
<1>3. PICK e : e = Top(t)
  OBVIOUS
<1>4. PICK g \in Frame :
        /\ task' = [task EXCEPT ![t] = IF Len(@) = 1 THEN <<>> ELSE <<g>> \o Tail(Tail(@))]
        /\ Len(task[t]) > 1 => /\ g.run = task[t][2].run /\ g.ses = task[t][2].ses
                               /\ g.kind = task[t][2].kind /\ g.pc = "failing"
  BY <1>1, <1>2, ReturnFrames
<1>5. e.pc \notin Started
  BY <1>2, <1>3 DEF Started, Executing
<1>6. \A s \in unheard : ~Comes(e, s)
  BY <1>1, <1>2, <1>3 DEF Comes, Waits
<1>7. /\ lane' \in [Sessions -> Seq(Tasks \X Nat)] /\ faults' \in 0..MaxFaults
      /\ orphan' \in SUBSET RunIds
  BY <1>1, <1>2 DEF TypeOK
<1> QED BY <1>1, <1>2, <1>3, <1>4, <1>5, <1>6, <1>7, PopKeeps

\* The lane is given back.
LEMMA ReleaseKeeps ==
  ASSUME RunInvariant, NEW t \in Tasks, Release(t), lane' \in [Sessions -> Seq(Tasks \X Nat)]
  PROVE  RunInvariant'
<1>1. /\ At(t, "release")
      /\ UNCHANGED <<user, replies, run, approval, sent, resumes, faults, unheard, orphan>>
  BY DEF Release, ghosts
<1>2. PICK e \in Frame : e = Top(t)
  BY <1>1, AtFacts
<1>3. ~Idle(t) /\ e.pc = "release" /\ TypeOK /\ Owes(e)
  BY <1>1, <1>2, AtFacts
<1>4. e.pc \notin Started /\ \A s \in unheard : ~Comes(e, s)
  BY <1>3 DEF Started, Executing, Comes
<1>5. CASE e.kind = "channel" /\ run[e.run].status = "succeeded"
  <2>1. Goto(t, "deliver")
    BY <1>2, <1>5 DEF Release
  <2>2. "deliver" \in PCs
    BY DEF PCs
  <2>3. PICK f \in Frame : f = [e EXCEPT !.pc = "deliver"]
    BY <2>2, FrameMoved
  <2>4. Set(t, f)
    BY <1>2, <2>1, <2>3 DEF Goto
  <2>5. f.run = e.run /\ f.ses = e.ses /\ f.kind = e.kind /\ f.pc = "deliver"
    BY <2>2, <2>3, FrameMoved
  <2>6. Said(f.run, f.ses)
    <3>1. e.run \in 1..Len(run) /\ run[e.run].ses = e.ses
      BY <1>3 DEF Owes
    <3>2. RowOk(e.run)
      BY <3>1 DEF RunInvariant
    <3> QED BY <1>5, <2>5, <3>1, <3>2 DEF RowOk
  <2>7. \A s \in unheard' : Comes(e, s) => Comes(f, s)
    BY <1>1, <1>4
  <2> QED BY <1>1, <1>2, <1>3, <1>4, <2>4, <2>5, <2>6, <2>7, MoveKeeps
<1>6. CASE ~(e.kind = "channel" /\ run[e.run].status = "succeeded")
  <2>1. ReturnOk(t)
    BY <1>2, <1>6 DEF Release
  <2>2. PICK g \in Frame :
          /\ task' = [task EXCEPT ![t] = IF Len(@) = 1 THEN <<>> ELSE <<g>> \o Tail(Tail(@))]
          /\ Len(task[t]) > 1 => /\ g.run = task[t][2].run /\ g.ses = task[t][2].ses
                                 /\ g.kind = task[t][2].kind /\ g.pc = "tool"
    BY <1>3, <2>1, ReturnFrames
  <2>3. faults' \in 0..MaxFaults /\ orphan' \in SUBSET RunIds
    BY <1>1, <1>3 DEF TypeOK
  <2> QED BY <1>1, <1>2, <1>3, <1>4, <2>2, <2>3, PopKeeps
<1> QED BY <1>5, <1>6

\* The error of an execution cannot be written.
LEMMA MarkFailedFailsKeeps ==
  ASSUME RunInvariant, NEW t \in Tasks, MarkFailedFails(t), lane' \in [Sessions -> Seq(Tasks \X Nat)]
  PROVE  RunInvariant'
<1>1. /\ At(t, "failing") /\ ReturnFailed(t)
      /\ faults < MaxFaults /\ faults' = faults + 1 /\ orphan' = orphan \cup {Top(t).run}
      /\ UNCHANGED <<user, replies, run, approval, sent, resumes, unheard>>
  BY DEF MarkFailedFails
<1>2. PICK e \in Frame : e = Top(t)
  BY <1>1, AtFacts
<1>3. ~Idle(t) /\ TypeOK /\ e.run \in RunIds
  BY <1>1, <1>2, AtFacts
<1>4. PICK g \in Frame :
        /\ task' = [task EXCEPT ![t] = IF Len(@) = 1 THEN <<>> ELSE <<g>> \o Tail(Tail(@))]
        /\ Len(task[t]) > 1 => /\ g.run = task[t][2].run /\ g.ses = task[t][2].ses
                               /\ g.kind = task[t][2].kind /\ g.pc = "failing"
  BY <1>1, <1>3, ReturnFrames
<1>5. faults' \in 0..MaxFaults /\ faults' # 0
  BY <1>1, <1>3, BoundsAssumption DEF TypeOK
<1>6. orphan' \in SUBSET RunIds /\ orphan \subseteq orphan' /\ e.run \in orphan'
  BY <1>1, <1>2, <1>3 DEF TypeOK
<1> QED BY <1>1, <1>2, <1>3, <1>4, <1>5, <1>6, PopKeeps

\* The answer is delivered.
LEMMA DeliverKeeps ==
  ASSUME RunInvariant, NEW t \in Tasks, Deliver(t)
  PROVE  RunInvariant'
<1>1. /\ At(t, "deliver") /\ Return(t)
      /\ sent' = sent \cup {[run |-> Top(t).run, reply |-> Last(replies[Top(t).ses])]}
      /\ UNCHANGED <<user, replies, run, approval, lane, resumes, faults, unheard, orphan>>
  BY DEF Deliver, ghosts
<1>2. PICK e \in Frame : e = Top(t)
  BY <1>1, AtFacts
<1>3. /\ ~Idle(t) /\ e.pc = "deliver" /\ TypeOK /\ Stacks /\ Len(task[t]) \in Nat \ {0}
      /\ e.run \in 1..Len(run) /\ e.run \in RunIds /\ e.ses \in Sessions
      /\ run[e.run].ses = e.ses /\ Owes(e)
  BY <1>1, <1>2, AtFacts
<1>4. PICK n \in Nat \ {0} : n = Len(task[t])
  BY <1>3
<1>5. e = Level(task[t], n)
  BY <1>2, <1>3, <1>4, TopFacts
<1>6. \A d \in 1..Len(task[t]) : d < Len(task[t]) => Level(task[t], d).pc = "exec"
  BY FrameParts DEF RunInvariant, Depth
<1>7. /\ task' \in [Tasks -> Seq(Frame)] /\ Len(task'[t]) = n - 1
      /\ \A u \in Tasks : u # t => task'[u] = task[u] /\ \A d \in 1..Len(task[u]) : Same(u, d)
      /\ \A d \in 1..n : d # n => Same(t, d)
      /\ n > 1 => task'[t][1].pc = "exec"
  BY <1>1, <1>3, <1>4, <1>6, ReturnStep
<1>8. PICK i \in 1..Len(replies[e.ses]) : replies[e.ses][i] = e.run
  BY <1>3 DEF Owes, Said
<1>9. replies[e.ses] \in Seq(RunIds) /\ Len(replies[e.ses]) \in Nat
  BY <1>3, RowFields
<1>10. PICK j \in 1..Len(replies[e.ses]) : j = Len(replies[e.ses]) /\ i <= j
  BY <1>8, <1>9
<1>11. PICK x : x = [run |-> e.run, reply |-> replies[e.ses][j]]
  OBVIOUS
<1>12. sent' = sent \cup {x}
  BY <1>1, <1>2, <1>10, <1>11 DEF Last
<1>13. x \in [run : RunIds, reply : RunIds] /\ x.run = e.run /\ x.reply = replies[e.ses][j]
  <2>1. replies[e.ses][j] \in RunIds
    BY <1>9
  <2> QED BY <1>3, <1>11, <2>1
<1>14. TypeOK'
  <2>1. sent' \subseteq [run : RunIds, reply : RunIds]
    BY <1>3, <1>12, <1>13 DEF TypeOK
  <2> QED BY <1>1, <1>3, <1>7, <2>1 DEF TypeOK
<1>15. Grows
  BY <1>1, <1>3, GrowsIdle
<1>16. BudgetOk'
  <2>1. Creating \subseteq Tasks /\ Creating' \subseteq Tasks
    BY DEF Creating
  <2>2. t \notin Creating'
    <3>1. CASE n > 1
      BY <1>7, <3>1, CreatingNext
    <3>2. CASE n = 1
      <4>1. task'[t] \in Seq(Frame) /\ Len(task'[t]) = 0
        BY <1>7, <3>2
      <4>2. task'[t] = <<>>
        BY <4>1
      <4> QED BY <4>2, CreatingNext
    <3>3. n > 1 \/ n = 1
      OBVIOUS
    <3> QED BY <3>1, <3>2, <3>3
  <2>3. \A u \in Tasks : u # t => (u \in Creating' <=> u \in Creating)
    BY <1>7, CreatingNext
  <2>4. Creating' \subseteq Creating
    BY <2>1, <2>2, <2>3
  <2> QED BY <1>1, <2>4, BudgetKept
<1>17. FramesCarried
  <2>1. \A d \in 1..Len(task'[t]) : d \in 1..n /\ d # n
    BY <1>4, <1>7
  <2> QED BY <1>7, <2>1 DEF FramesCarried
<1>18. RowsCarried
  <2>1. e.pc \notin Started
    BY <1>3 DEF Started, Executing
  <2> QED BY <1>4, <1>5, <1>7, <2>1 DEF RowsCarried
<1>19. StatusCarried
  BY <1>1 DEF StatusCarried
<1>20. HeardCarried
  <2>1. \A s : ~Comes(e, s)
    BY <1>3 DEF Comes
  <2> QED BY <1>1, <1>4, <1>5, <1>7, <2>1 DEF HeardCarried
<1>21. SentOk(x)'
  <2>1. x.run \in 1..Len(run') /\ run'[x.run].ses = e.ses /\ replies' = replies
    BY <1>1, <1>3, <1>13
  <2> QED BY <1>8, <1>10, <1>13, <2>1 DEF SentOk
<1>22. SentCarried
  BY <1>12, <1>21 DEF SentCarried
<1> QED BY <1>14, <1>15, <1>16, <1>17, <1>18, <1>19, <1>20, <1>22, StepKeeps

\* The worker's run is called.
LEMMA AssignWorkerKeeps ==
  ASSUME RunInvariant, NEW t \in Tasks, NEW ask \in Inputs, AssignWorker(t, ask)
  PROVE  RunInvariant'
<1> DEFINE tool0 == Head(Top(t).todo)
<1>1. /\ At(t, "tool") /\ Top(t).todo # <<>> /\ tool0 \in DOMAIN Worker /\ RunBudget
      /\ Post(Worker[tool0], ask)
      /\ task' = [task EXCEPT ![t] =
                    <<NewFrame("worker", "create", Worker[tool0], 0),
                      [Top(t) EXCEPT !.pc = "exec", !.keys = @ \cup {tool0}]>> \o Tail(@)]
      /\ UNCHANGED <<replies, run, approval, lane, sent, resumes, faults, unheard, orphan>>
  BY DEF AssignWorker, ghosts
<1>2. PICK e \in Frame : e = Top(t)
  BY <1>1, AtFacts
<1>3. PICK w \in DOMAIN Worker : w = Head(e.todo)
  BY <1>1, <1>2
<1>4. Worker[w] \in Sessions /\ w \notin Gated
  BY BoundsAssumption
<1>5. /\ ~Idle(t) /\ e.pc = "tool" /\ e.todo # <<>> /\ TypeOK /\ Stacks /\ Owes(e)
      /\ Len(task[t]) \in Nat \ {0}
  BY <1>1, <1>2, AtFacts
<1>6. PICK n \in Nat \ {0} : n = Len(task[t])
  BY <1>5
<1>7. e = Level(task[t], n) /\ (n > 1 => e.kind = "worker")
  BY <1>2, <1>5, <1>6, TopFacts
<1>8. "worker" \in Kinds /\ "create" \in PCs /\ "exec" \in PCs /\ 0 \in 0..MaxRuns
  BY BoundsAssumption DEF Kinds, PCs, Executing
<1>9. PICK f \in Frame : f = NewFrame("worker", "create", Worker[w], 0)
  BY <1>4, <1>8, NewFrameFacts
<1>10. f.kind = "worker" /\ f.pc = "create"
  BY <1>4, <1>8, <1>9, NewFrameFacts
<1>11. [e EXCEPT !.pc = "exec", !.keys = @ \cup {w}] \in Frame
  BY <1>8 DEF Frame
<1>12. PICK g \in Frame : g = [e EXCEPT !.pc = "exec", !.keys = @ \cup {w}]
  BY <1>11
<1>13. g.run = e.run /\ g.ses = e.ses /\ g.kind = e.kind /\ g.pc = "exec" /\ g.todo = e.todo
  BY <1>12 DEF Frame
<1>14. task' = [task EXCEPT ![t] = <<f, g>> \o Tail(@)]
  BY <1>1, <1>2, <1>3, <1>9, <1>12
<1>15. user' \in [Sessions -> Seq(Inputs)]
  BY <1>1, <1>2, <1>3, <1>4, <1>5, PostTyped
<1> HIDE DEF tool0
<1>16. /\ task' \in [Tasks -> Seq(Frame)]
       /\ Len(task'[t]) = n + 1 /\ task'[t][1] = f /\ Level(task'[t], n) = g /\ Level(task'[t], n + 1) = f
       /\ \A u \in Tasks : u # t => task'[u] = task[u] /\ \A d \in 1..Len(task[u]) : Same(u, d)
       /\ \A d \in 1..n : d # n => Same(t, d)
  BY <1>5, <1>6, <1>14, PushStep
<1>17. TypeOK'
  BY <1>1, <1>5, <1>15, <1>16 DEF TypeOK
<1>18. Grows
  BY <1>1, <1>5, GrowsIdle
<1>19. BudgetOk'
  <2>1. Creating \subseteq Tasks /\ Creating' \subseteq Tasks
    BY DEF Creating
  <2>2. t \notin Creating
    BY <1>2, <1>5, CreatingNext DEF Top
  <2>3. t \in Creating'
    <3>1. task'[t] # <<>>
      BY <1>6, <1>16
    <3> QED BY <1>10, <1>16, <3>1, CreatingNext
  <2>4. \A u \in Tasks : u # t => (u \in Creating' <=> u \in Creating)
    BY <1>16, CreatingNext
  <2>5. Creating' = Creating \cup {t}
    BY <2>1, <2>3, <2>4
  <2> QED BY <1>1, <2>2, <2>5, BudgetTaken
<1>20. FrameOk(t, n)'
  <2>1. Owes(g)'
    BY <1>1, <1>3, <1>4, <1>5, <1>13 DEF Owes
  <2> QED BY <1>7, <1>13, <1>16, <2>1, FrameOkNext
<1>21. FrameOk(t, n + 1)'
  <2>1. Owes(f)'
    BY <1>10 DEF Owes
  <2>2. ~(n + 1 < Len(task'[t]))
    BY <1>6, <1>16
  <2> QED BY <1>10, <1>16, <2>1, <2>2, FrameOkNext
<1>22. FramesCarried
  <2>1. \A d \in 1..Len(task'[t]) : (d \in 1..n /\ d # n) \/ d = n \/ d = n + 1
    BY <1>6, <1>16
  <2> QED BY <1>16, <1>20, <1>21, <2>1 DEF FramesCarried
<1>23. n \in 1..Len(task'[t]) /\ g.pc \in Started
  BY <1>6, <1>13, <1>16 DEF Started, Executing
<1>24. RowsCarried
  BY <1>6, <1>7, <1>13, <1>16, <1>23 DEF RowsCarried
<1>25. StatusCarried
  BY <1>1 DEF StatusCarried
<1>26. HeardCarried
  <2>1. \A s : ~Comes(e, s)
    BY <1>5 DEF Comes
  <2> QED BY <1>1, <1>6, <1>7, <1>16, <2>1 DEF HeardCarried
<1>27. SentCarried
  BY <1>1 DEF SentCarried
<1> QED BY <1>17, <1>18, <1>19, <1>22, <1>24, <1>25, <1>26, <1>27, StepKeeps

-----------------------------------------------------------------------------
(* Faults, messages and decisions. *)

\* The runs that dropped tasks lose are runs, and every run they execute.
LEMMA LostFacts ==
  ASSUME RunInvariant, NEW T \in SUBSET Tasks
  PROVE  /\ Lost(T) \in SUBSET RunIds
         /\ \A u \in T : \A d \in 1..Len(task[u]) :
              Level(task[u], d).pc \in Started => Level(task[u], d).run \in Lost(T)
<1>1. ASSUME NEW u \in T, NEW i \in DOMAIN task[u], task[u][i].pc \in Started
      PROVE  task[u][i].run \in RunIds
  <2>1. task[u] \in Seq(Frame)
    BY DEF RunInvariant, TypeOK
  <2>2. i \in 1..Len(task[u])
    BY <2>1
  <2>3. PICK d \in 1..Len(task[u]) : task[u][i] = Level(task[u], d)
    BY <2>1, <2>2, LevelFacts
  <2>4. FrameOk(u, d)
    BY DEF RunInvariant, Depth
  <2>5. Owes(task[u][i])
    BY <2>3, <2>4, FrameParts
  <2>6. task[u][i].pc # "create"
    BY <1>1 DEF Started, Executing
  <2>7. task[u][i].run \in 1..Len(run)
    BY <2>5, <2>6 DEF Owes
  <2> QED BY <2>7, RowFields DEF RunInvariant
<1>2. Lost(T) \in SUBSET RunIds
  BY <1>1 DEF Lost
<1>3. ASSUME NEW u \in T, NEW d \in 1..Len(task[u]), Level(task[u], d).pc \in Started
      PROVE  Level(task[u], d).run \in Lost(T)
  <2>1. task[u] \in Seq(Frame)
    BY DEF RunInvariant, TypeOK
  <2>2. PICK i : i = Len(task[u]) + 1 - d
    OBVIOUS
  <2>3. i \in DOMAIN task[u] /\ task[u][i] = Level(task[u], d)
    BY <2>1, <2>2, LevelFacts DEF Level
  <2> QED BY <1>3, <2>3 DEF Lost
<1> QED BY <1>2, <1>3

\* A fault ends the tasks T.
LEMMA DropKeeps ==
  ASSUME RunInvariant, NEW T \in SUBSET Tasks,
         task' = [u \in Tasks |-> IF u \in T THEN <<>> ELSE task[u]],
         faults < MaxFaults, faults' = faults + 1, orphan' = orphan \cup Lost(T),
         lane' \in [Sessions -> Seq(Tasks \X Nat)],
         UNCHANGED <<user, replies, run, approval, sent, resumes, unheard>>
  PROVE  RunInvariant'
<1>1. TypeOK
  BY DEF RunInvariant
<1>2. \A u \in Tasks : task[u] \in Seq(Frame) /\ Len(task[u]) \in Nat
  BY <1>1 DEF TypeOK
<1>3. /\ task' \in [Tasks -> Seq(Frame)]
      /\ \A u \in T : task'[u] = <<>> /\ Len(task'[u]) = 0
      /\ \A u \in Tasks : u \notin T => task'[u] = task[u]
  BY <1>2
<1>4. \A u \in Tasks : u \notin T => \A d \in 1..Len(task[u]) : Same(u, d)
  BY <1>2, <1>3 DEF Same
<1>5. Lost(T) \in SUBSET RunIds
  BY LostFacts
<1>6. faults' \in 0..MaxFaults /\ faults' # 0
  BY <1>1, BoundsAssumption DEF TypeOK
<1>7. TypeOK'
  BY <1>1, <1>3, <1>5, <1>6 DEF TypeOK
<1>8. Grows
  BY <1>1, GrowsIdle
<1>9. BudgetOk'
  <2>1. Creating \subseteq Tasks /\ Creating' \subseteq Tasks
    BY DEF Creating
  <2>2. Creating' \subseteq Creating
    BY <1>3, <2>1, CreatingNext
  <2> QED BY <2>2, BudgetKept
<1>10. \A u \in T : 1..Len(task'[u]) = {}
  BY <1>3
<1>11. FramesCarried
  BY <1>3, <1>4, <1>10 DEF FramesCarried
<1>12. RowsCarried
  BY <1>4, LostFacts DEF RowsCarried
<1>13. StatusCarried
  BY DEF StatusCarried
<1>14. HeardCarried
  BY <1>6 DEF HeardCarried
<1>15. SentCarried
  BY DEF SentCarried
<1> QED BY <1>7, <1>8, <1>9, <1>11, <1>12, <1>13, <1>14, <1>15, StepKeeps

\* A message without a run.
LEMMA CreateMessageKeeps ==
  ASSUME RunInvariant, NEW s \in Sessions, NEW ask \in Inputs, CreateMessage(s, ask)
  PROVE  RunInvariant'
<1>1. TypeOK
  BY DEF RunInvariant
<1>2. user' \in [Sessions -> Seq(Inputs)]
  BY <1>1, PostTyped DEF CreateMessage
<1>3. approval' = approval /\ UNCHANGED <<replies, run, lane, task, sent, ghosts>>
  BY DEF CreateMessage
<1>4. approval \in [RunIds -> [Gated -> {"none", "requested", "approved", "denied"}]]
  BY <1>1 DEF TypeOK
<1> QED BY <1>2, <1>3, <1>4, StoreKeeps

\* An approval is decided.
LEMMA ResolveApprovalKeeps ==
  ASSUME RunInvariant, NEW r \in DOMAIN run, NEW g \in Gated, NEW v \in {"approved", "denied"},
         ResolveApproval(r, g, v)
  PROVE  RunInvariant'
<1>1. TypeOK
  BY DEF RunInvariant
<1>2. /\ approval[r][g] = "requested" /\ approval' = [approval EXCEPT ![r][g] = v]
      /\ user' = user /\ UNCHANGED <<replies, run, lane, task, sent, ghosts>>
  BY DEF ResolveApproval
<1>3. r \in RunIds
  <2>1. DOMAIN run = 1..Len(run)
    BY <1>1 DEF TypeOK
  <2> QED BY <1>1, <2>1, RowFields
<1>4. /\ approval \in [RunIds -> [Gated -> {"none", "requested", "approved", "denied"}]]
      /\ user' \in [Sessions -> Seq(Inputs)]
  BY <1>1, <1>2 DEF TypeOK
<1>5. approval' \in [RunIds -> [Gated -> {"none", "requested", "approved", "denied"}]]
  BY <1>2, <1>3, <1>4
<1> QED BY <1>2, <1>4, <1>5, StoreKeeps

-----------------------------------------------------------------------------
(* The lanes, step by step. *)

\* The frame of the next state was there, at the same lane, and claims no
\* more of it; the frame of this state keeps the place it has.
FromOld(u, d) ==
  LET f == Level(task[u], d)
      g == Level(task'[u], d)
  IN d \in 1..Len(task[u]) /\ g.ses = f.ses /\ (Holding(g) => Holding(f)) /\ (Queued(g) => Queued(f))

Stays(u, d) ==
  LET f == Level(task[u], d)
      g == Level(task'[u], d)
  IN Queued(f) => d \in 1..Len(task'[u]) /\ g.ses = f.ses /\ Queued(g)

Unqueued(u, d) == ~Queued(Level(task'[u], d))

\* A ticket names its frame.
LEMMA SpotFacts ==
  ASSUME NEW t, NEW d, NEW u, NEW e
  PROVE  /\ Spot(t, d) = Spot(u, e) => t = u /\ d = e
         /\ Spot(t, d)[1] = t
         /\ t \in Tasks /\ d \in Nat => Spot(t, d) \in Tasks \X Nat
BY DEF Spot

\* The parts of the lane invariant, in this state and in the next.
LEMMA HoldsParts ==
  ASSUME LaneInvariant, NEW t \in Tasks, NEW d \in 1..Len(task[t]), NEW f, f = Level(task[t], d)
  PROVE  /\ Holding(f) => lane[f.ses][1] = Spot(t, d)
         /\ Queued(f) => \E k \in 1..Len(lane[f.ses]) : lane[f.ses][k] = Spot(t, d)
<1>1. HoldsLane(t, d)
  BY DEF LaneInvariant, Depth
<1> QED BY <1>1 DEF HoldsLane, Deep

\* The claim of a frame of the next state.
LEMMA HoldsNext ==
  ASSUME NEW t \in Tasks, NEW d, NEW f, f = Level(task'[t], d),
         Holding(f) => lane'[f.ses][1] = Spot(t, d),
         Queued(f) => \E k \in 1..Len(lane'[f.ses]) : lane'[f.ses][k] = Spot(t, d)
  PROVE  HoldsLane(t, d)'
BY DEF HoldsLane, Deep, Holding, Queued, Waits

\* The place of a queue: the frame it belongs to, and its only one.
LEMMA PlaceParts ==
  ASSUME LaneInvariant, NEW s \in Sessions, NEW k \in 1..Len(lane[s])
  PROVE  /\ \E t \in Tasks : \E d \in 1..Len(task[t]) :
              lane[s][k] = Spot(t, d) /\ Level(task[t], d).ses = s /\ Queued(Level(task[t], d))
         /\ \A j \in 1..Len(lane[s]) : lane[s][j] = lane[s][k] => j = k
<1>1. PlaceOk(s, k)
  BY DEF LaneInvariant
<1> QED BY <1>1 DEF PlaceOk, Deep, Depth

\* The place of a queue of the next state.
LEMMA PlaceNext ==
  ASSUME NEW s \in Sessions, NEW k, NEW t \in Tasks, NEW d \in 1..Len(task'[t]),
         lane'[s][k] = Spot(t, d),
         NEW f, f = Level(task'[t], d), f.ses = s, Queued(f),
         \A j \in 1..Len(lane'[s]) : lane'[s][j] = lane'[s][k] => j = k
  PROVE  PlaceOk(s, k)'
<1>1. Deep(t, d)' = f /\ d \in 1..Depth(t)'
  BY DEF Deep, Depth
<1>2. Queued(Deep(t, d))'
  BY <1>1 DEF Holding, Queued, Waits
<1>3. lane'[s][k] = Spot(t, d)' /\ Deep(t, d)'.ses = s
  BY <1>1 DEF Spot
<1> QED BY <1>1, <1>2, <1>3 DEF PlaceOk

\* A frame that is not in a queue owes nothing to the lanes.
LEMMA UnqueuedHolds ==
  ASSUME NEW u \in Tasks, NEW d, Unqueued(u, d)
  PROVE  HoldsLane(u, d)'
<1>1. PICK g : g = Level(task'[u], d)
  OBVIOUS
<1>2. ~Queued(g) /\ ~Holding(g)
  BY <1>1 DEF Unqueued, Queued
<1> QED BY <1>1, <1>2, HoldsNext

\* A lane has a length, before and after.
LEMMA LaneLength ==
  ASSUME TypeOK, NEW s \in Sessions
  PROVE  lane[s] \in Seq(Tasks \X Nat) /\ Len(lane[s]) \in Nat /\ (lane[s] = <<>> <=> Len(lane[s]) = 0)
<1>1. lane[s] \in Seq(Tasks \X Nat)
  BY DEF TypeOK
<1> QED BY <1>1

\* A frame that stays as it is claims what it claimed.
LEMMA SameClaims ==
  ASSUME NEW u, NEW d, Same(u, d)
  PROVE  FromOld(u, d) /\ Stays(u, d)
BY DEF Same, FromOld, Stays

\* A frame from before still has the place it had, if the lanes still have it.
LEMMA FromOldHolds ==
  ASSUME TypeOK, LaneInvariant, NEW u \in Tasks, NEW d, FromOld(u, d),
         \A s \in Sessions, k \in Nat :
           k \in 1..Len(lane[s]) /\ lane[s][k] = Spot(u, d) =>
             \E j \in 1..Len(lane'[s]) : lane'[s][j] = Spot(u, d) /\ (k = 1 => j = 1)
  PROVE  HoldsLane(u, d)'
<1>1. PICK e : e = Level(task[u], d)
  OBVIOUS
<1>2. PICK g : g = Level(task'[u], d)
  OBVIOUS
<1>3. d \in 1..Len(task[u]) /\ g.ses = e.ses /\ (Holding(g) => Holding(e)) /\ (Queued(g) => Queued(e))
  BY <1>1, <1>2 DEF FromOld
<1>4. /\ Holding(e) => lane[e.ses][1] = Spot(u, d)
      /\ Queued(e) => \E k \in 1..Len(lane[e.ses]) : lane[e.ses][k] = Spot(u, d)
  BY <1>1, <1>3, HoldsParts
<1>5. e.ses \in Sessions
  <2>1. task[u] \in Seq(Frame)
    BY DEF TypeOK
  <2>2. e \in Frame
    BY <1>1, <1>3, <2>1, LevelFacts
  <2> QED BY <2>2, FrameFields
<1>6. Len(lane[e.ses]) \in Nat
  BY <1>5, LaneLength
<1>7. ASSUME Queued(g)
      PROVE  /\ \E j \in 1..Len(lane'[g.ses]) : lane'[g.ses][j] = Spot(u, d)
             /\ 1 \in 1..Len(lane[e.ses])
  <2>1. PICK k \in 1..Len(lane[e.ses]) : lane[e.ses][k] = Spot(u, d)
    BY <1>3, <1>4, <1>7
  <2>2. k \in Nat /\ 1 \in 1..Len(lane[e.ses])
    BY <1>6
  <2>3. \E j \in 1..Len(lane'[e.ses]) : lane'[e.ses][j] = Spot(u, d)
    BY <1>5, <2>1, <2>2
  <2> QED BY <1>3, <2>2, <2>3
<1>8. ASSUME Holding(g)
      PROVE  lane'[g.ses][1] = Spot(u, d)
  <2>1. Queued(g) /\ lane[e.ses][1] = Spot(u, d)
    BY <1>3, <1>4, <1>8 DEF Queued
  <2>2. 1 \in 1..Len(lane[e.ses])
    BY <1>7, <2>1
  <2>3. \E j \in 1..Len(lane'[e.ses]) : lane'[e.ses][j] = Spot(u, d) /\ j = 1
    BY <1>5, <2>1, <2>2
  <2> QED BY <1>3, <2>3
<1> QED BY <1>2, <1>7, <1>8, HoldsNext

\* A place that is still there still belongs to its frame.
LEMMA PlaceStays ==
  ASSUME NEW s \in Sessions, NEW k, NEW t \in Tasks, NEW d \in 1..Len(task[t]), Stays(t, d),
         lane'[s][k] = Spot(t, d), Level(task[t], d).ses = s, Queued(Level(task[t], d)),
         \A j \in 1..Len(lane'[s]) : lane'[s][j] = lane'[s][k] => j = k
  PROVE  PlaceOk(s, k)'
<1>1. PICK g : g = Level(task'[t], d)
  OBVIOUS
<1>2. d \in 1..Len(task'[t]) /\ g.ses = s /\ Queued(g)
  BY <1>1 DEF Stays
<1> QED BY <1>1, <1>2, PlaceNext

\* No lane is touched.
LEMMA LaneSame ==
  ASSUME TypeOK, LaneInvariant, lane' = lane,
         \A u \in Tasks : \A d \in 1..Len(task'[u]) : HoldsLane(u, d)' \/ Unqueued(u, d) \/ FromOld(u, d),
         \A u \in Tasks : \A d \in 1..Len(task[u]) : Stays(u, d)
  PROVE  LaneInvariant'
<1>1. ASSUME NEW u \in Tasks, NEW d \in 1..Len(task'[u])
      PROVE  HoldsLane(u, d)'
  <2>1. FromOld(u, d) => HoldsLane(u, d)'
    BY FromOldHolds
  <2> QED BY <1>1, <2>1, UnqueuedHolds
<1>2. ASSUME NEW s \in Sessions, NEW k \in 1..Len(lane'[s])
      PROVE  PlaceOk(s, k)'
  <2>1. k \in 1..Len(lane[s])
    OBVIOUS
  <2>2. PICK u \in Tasks : \E d \in 1..Len(task[u]) :
           lane[s][k] = Spot(u, d) /\ Level(task[u], d).ses = s /\ Queued(Level(task[u], d))
    BY <2>1, PlaceParts
  <2>3. PICK d \in 1..Len(task[u]) :
           lane[s][k] = Spot(u, d) /\ Level(task[u], d).ses = s /\ Queued(Level(task[u], d))
    BY <2>2
  <2>4. \A j \in 1..Len(lane[s]) : lane[s][j] = lane[s][k] => j = k
    BY <2>1, PlaceParts
  <2> QED BY <2>3, <2>4, PlaceStays
<1> QED BY <1>1, <1>2 DEF LaneInvariant, Depth

\* The frame at depth n of task t takes a place at the lane of s.
LEMMA LaneTake ==
  ASSUME TypeOK, LaneInvariant, NEW t \in Tasks, NEW s \in Sessions, NEW n \in Nat, Take(t, s, n),
         n \in 1..Len(task[t]) => ~Queued(Level(task[t], n)),
         NEW f, f = Level(task'[t], n), n \in 1..Len(task'[t]), f.ses = s, Queued(f), Holding(f) => Free(s),
         \A u \in Tasks : \A d \in 1..Len(task'[u]) :
           (u = t /\ d = n) \/ Unqueued(u, d) \/ FromOld(u, d),
         \A u \in Tasks : \A d \in 1..Len(task[u]) : Stays(u, d)
  PROVE  LaneInvariant'
<1>1. lane \in [Sessions -> Seq(Tasks \X Nat)] /\ \A x \in Sessions : Len(lane[x]) \in Nat
  BY LaneLength DEF TypeOK
<1>2. PICK m \in Nat : m = Len(lane[s])
  BY <1>1
<1>3. /\ Len(lane'[s]) = m + 1 /\ lane'[s][m + 1] = Spot(t, n)
      /\ \A k \in 1..m : lane'[s][k] = lane[s][k]
      /\ \A x \in Sessions : x # s => lane'[x] = lane[x]
  <2> DEFINE Place == Tasks \X Nat
  <2>1. lane[s] \in Seq(Place) /\ Spot(t, n) \in Place
    BY <1>1, SpotFacts
  <2>2. lane' = [lane EXCEPT ![s] = Append(lane[s], Spot(t, n))]
    BY DEF Take, Spot
  <2> HIDE DEF Place
  <2>3. lane'[s] = Append(lane[s], Spot(t, n)) /\ \A x \in Sessions : x # s => lane'[x] = lane[x]
    BY <1>1, <2>2
  <2> QED BY <1>2, <2>1, <2>3, AppendFacts
<1>4. ASSUME NEW k \in 1..m
      PROVE  lane[s][k] # Spot(t, n)
  <2>1. PICK u \in Tasks : \E d \in 1..Len(task[u]) :
           lane[s][k] = Spot(u, d) /\ Level(task[u], d).ses = s /\ Queued(Level(task[u], d))
    BY <1>2, PlaceParts
  <2> QED BY <2>1, SpotFacts
<1>5. ASSUME NEW x \in Sessions, NEW k \in 1..Len(lane[x])
      PROVE  k \in 1..Len(lane'[x]) /\ lane'[x][k] = lane[x][k]
  <2>1. CASE x = s
    <3>1. k \in 1..m /\ k \in 1..(m + 1)
      BY <1>2, <2>1
    <3> QED BY <1>3, <2>1, <3>1
  <2>2. CASE x # s
    BY <1>3, <2>2
  <2> QED BY <2>1, <2>2
<1>6. ASSUME NEW u \in Tasks, NEW d \in 1..Len(task'[u])
      PROVE  HoldsLane(u, d)'
  <2>1. FromOld(u, d) => HoldsLane(u, d)'
    BY <1>5, FromOldHolds
  <2>2. ASSUME u = t, d = n
        PROVE  HoldsLane(u, d)'
    <3>1. m + 1 \in 1..Len(lane'[f.ses]) /\ lane'[f.ses][m + 1] = Spot(t, n)
      BY <1>3
    <3>2. Holding(f) => m = 0
      BY <1>2, LaneLength DEF Free
    <3>3. Holding(f) => lane'[f.ses][1] = Spot(t, n)
      BY <3>1, <3>2
    <3>4. HoldsLane(t, n)'
      BY <3>1, <3>3, HoldsNext
    <3> QED BY <2>2, <3>4
  <2> QED BY <2>1, <2>2, UnqueuedHolds
<1>7. ASSUME NEW x \in Sessions, NEW k \in 1..Len(lane'[x]), k \in 1..Len(lane[x])
      PROVE  PlaceOk(x, k)'
  <2>1. PICK u \in Tasks : \E d \in 1..Len(task[u]) :
           lane[x][k] = Spot(u, d) /\ Level(task[u], d).ses = x /\ Queued(Level(task[u], d))
    BY <1>7, PlaceParts
  <2>2. PICK d \in 1..Len(task[u]) :
           lane[x][k] = Spot(u, d) /\ Level(task[u], d).ses = x /\ Queued(Level(task[u], d))
    BY <2>1
  <2>3. lane'[x][k] = lane[x][k]
    BY <1>5, <1>7
  <2>4. ASSUME NEW j \in 1..Len(lane'[x]), lane'[x][j] = lane'[x][k]
        PROVE  j = k
    <3>1. CASE j \in 1..Len(lane[x])
      <4>1. lane[x][j] = lane[x][k]
        BY <1>5, <2>3, <2>4, <3>1
      <4> QED BY <1>7, <3>1, <4>1, PlaceParts
    <3>2. CASE j \notin 1..Len(lane[x])
      <4>1. x = s
        BY <1>3, <3>2
      <4>2. j = m + 1 /\ k \in 1..m
        BY <1>2, <1>3, <1>7, <3>2, <4>1
      <4>3. lane[s][k] = Spot(t, n)
        BY <1>3, <2>3, <2>4, <4>1, <4>2
      <4> QED BY <1>4, <4>2, <4>3
    <3> QED BY <3>1, <3>2
  <2> QED BY <2>2, <2>3, <2>4, PlaceStays
<1>8. ASSUME NEW x \in Sessions, NEW k \in 1..Len(lane'[x]), k \notin 1..Len(lane[x])
      PROVE  PlaceOk(x, k)'
  <2>1. x = s
    BY <1>3, <1>8
  <2>2. k = m + 1
    BY <1>2, <1>3, <1>8, <2>1
  <2>3. lane'[s][k] = Spot(t, n)
    BY <1>3, <2>2
  <2>4. ASSUME NEW j \in 1..Len(lane'[s]), lane'[s][j] = lane'[s][k]
        PROVE  j = k
    <3>1. j \in 1..m \/ j = k
      BY <1>3, <2>2
    <3>2. j \in 1..m => lane'[s][j] # Spot(t, n)
      BY <1>3, <1>4
    <3> QED BY <2>3, <2>4, <3>1, <3>2
  <2>5. PlaceOk(s, k)'
    BY <2>3, <2>4, PlaceNext
  <2> QED BY <2>1, <2>5
<1> QED BY <1>6, <1>7, <1>8 DEF LaneInvariant, Depth

\* The frame at depth n of task t gives the lane of s to the next.
LEMMA LaneUnlock ==
  ASSUME TypeOK, LaneInvariant, NEW t \in Tasks, NEW n \in 1..Len(task[t]),
         NEW e, e = Level(task[t], n), Holding(e), NEW s \in Sessions, s = e.ses,
         lane' = [lane EXCEPT ![s] = Tail(@)],
         \A u \in Tasks : \A d \in 1..Len(task'[u]) :
           Unqueued(u, d) \/ (FromOld(u, d) /\ ~(u = t /\ d = n)),
         \A u \in Tasks : \A d \in 1..Len(task[u]) : (u = t /\ d = n) \/ Stays(u, d)
  PROVE  LaneInvariant' /\ lane' \in [Sessions -> Seq(Tasks \X Nat)]
<1>1. lane \in [Sessions -> Seq(Tasks \X Nat)] /\ \A x \in Sessions : Len(lane[x]) \in Nat
  BY LaneLength DEF TypeOK
<1>2. PICK m \in Nat : m = Len(lane[s])
  BY <1>1
<1>3. Queued(e) /\ lane[s][1] = Spot(t, n) /\ m # 0
  <2>1. Queued(e)
    BY DEF Queued
  <2>2. lane[s][1] = Spot(t, n) /\ \E k \in 1..Len(lane[s]) : lane[s][k] = Spot(t, n)
    BY <2>1, HoldsParts
  <2> QED BY <1>2, <2>1, <2>2
<1>4. /\ lane' \in [Sessions -> Seq(Tasks \X Nat)] /\ Len(lane'[s]) = m - 1
      /\ \A k \in 1..(m - 1) : lane'[s][k] = lane[s][k + 1]
      /\ \A x \in Sessions : x # s => lane'[x] = lane[x]
  <2> DEFINE Place == Tasks \X Nat
  <2>1. lane[s] \in Seq(Place) /\ lane \in [Sessions -> Seq(Place)]
    BY <1>1
  <2> HIDE DEF Place
  <2>2. /\ Tail(lane[s]) \in Seq(Place) /\ Len(Tail(lane[s])) = m - 1
        /\ \A k \in 1..(m - 1) : Tail(lane[s])[k] = lane[s][k + 1]
    BY <1>2, <1>3, <2>1
  <2>3. /\ lane' \in [Sessions -> Seq(Place)] /\ lane'[s] = Tail(lane[s])
        /\ \A x \in Sessions : x # s => lane'[x] = lane[x]
    BY <2>1, <2>2
  <2> QED BY <2>2, <2>3 DEF Place
<1>5. \A k \in 1..m : lane[s][k] = Spot(t, n) => k = 1
  <2>1. 1 \in 1..m
    BY <1>3
  <2>2. \A j \in 1..m : lane[s][j] = lane[s][1] => j = 1
    BY <1>2, <2>1, PlaceParts
  <2> QED BY <1>3, <2>2
<1>6. ASSUME NEW u \in Tasks, NEW d \in 1..Len(task'[u])
      PROVE  HoldsLane(u, d)'
  <2> SUFFICES ASSUME FromOld(u, d), ~(u = t /\ d = n)
               PROVE  HoldsLane(u, d)'
    BY <1>6, UnqueuedHolds
  <2>1. Spot(u, d) # Spot(t, n)
    BY SpotFacts
  <2>2. ASSUME NEW x \in Sessions, NEW k \in Nat, k \in 1..Len(lane[x]), lane[x][k] = Spot(u, d)
        PROVE  \E j \in 1..Len(lane'[x]) : lane'[x][j] = Spot(u, d) /\ (k = 1 => j = 1)
    <3>1. CASE x = s
      <4>1. k # 1
        BY <1>3, <2>1, <2>2, <3>1
      <4>2. PICK j : j = k - 1
        OBVIOUS
      <4>3. j \in 1..(m - 1) /\ j + 1 = k
        BY <1>2, <2>2, <3>1, <4>1, <4>2
      <4>4. j \in 1..Len(lane'[x]) /\ lane'[x][j] = Spot(u, d)
        BY <1>4, <2>2, <3>1, <4>3
      <4> QED BY <4>1, <4>4
    <3>2. CASE x # s
      BY <1>4, <2>2, <3>2
    <3> QED BY <3>1, <3>2
  <2>3. \A x \in Sessions, k \in Nat :
           k \in 1..Len(lane[x]) /\ lane[x][k] = Spot(u, d) =>
             \E j \in 1..Len(lane'[x]) : lane'[x][j] = Spot(u, d) /\ (k = 1 => j = 1)
    BY <2>2
  <2> QED BY <2>3, FromOldHolds
<1>7. ASSUME NEW x \in Sessions, NEW k \in 1..Len(lane'[x])
      PROVE  \E i \in 1..Len(lane[x]) :
               /\ lane'[x][k] = lane[x][i] /\ lane[x][i] # Spot(t, n)
               /\ \A j \in 1..Len(lane'[x]) : lane'[x][j] = lane'[x][k] => j = k
  <2>1. CASE x = s
    <3>1. k \in 1..(m - 1) /\ k + 1 \in 1..m /\ k + 1 # 1
      BY <1>4, <2>1
    <3>2. lane'[s][k] = lane[s][k + 1] /\ lane[s][k + 1] # Spot(t, n)
      BY <1>4, <1>5, <3>1
    <3>3. ASSUME NEW j \in 1..Len(lane'[s]), lane'[s][j] = lane'[s][k]
          PROVE  j = k
      <4>1. j \in 1..(m - 1) /\ j + 1 \in 1..m
        BY <1>4
      <4>2. lane[s][j + 1] = lane[s][k + 1]
        BY <1>4, <3>2, <3>3, <4>1
      <4>3. j + 1 = k + 1
        BY <1>2, <3>1, <4>1, <4>2, PlaceParts
      <4> QED BY <3>1, <4>1, <4>3
    <3> QED BY <1>2, <2>1, <3>1, <3>2, <3>3
  <2>2. CASE x # s
    <3>1. lane'[x] = lane[x]
      BY <1>4, <2>2
    <3>2. k \in 1..Len(lane[x])
      BY <3>1
    <3>3. PICK u \in Tasks : \E d \in 1..Len(task[u]) :
             lane[x][k] = Spot(u, d) /\ Level(task[u], d).ses = x /\ Queued(Level(task[u], d))
      BY <3>2, PlaceParts
    <3>4. lane[x][k] # Spot(t, n)
      BY <2>2, <3>3, SpotFacts
    <3>5. \A j \in 1..Len(lane[x]) : lane[x][j] = lane[x][k] => j = k
      BY <3>2, PlaceParts
    <3> QED BY <3>1, <3>2, <3>4, <3>5
  <2> QED BY <2>1, <2>2
<1>8. ASSUME NEW x \in Sessions, NEW k \in 1..Len(lane'[x])
      PROVE  PlaceOk(x, k)'
  <2>1. PICK i \in 1..Len(lane[x]) :
          /\ lane'[x][k] = lane[x][i] /\ lane[x][i] # Spot(t, n)
          /\ \A j \in 1..Len(lane'[x]) : lane'[x][j] = lane'[x][k] => j = k
    BY <1>7
  <2>2. PICK u \in Tasks : \E d \in 1..Len(task[u]) :
           lane[x][i] = Spot(u, d) /\ Level(task[u], d).ses = x /\ Queued(Level(task[u], d))
    BY PlaceParts
  <2>3. PICK d \in 1..Len(task[u]) :
           lane[x][i] = Spot(u, d) /\ Level(task[u], d).ses = x /\ Queued(Level(task[u], d))
    BY <2>2
  <2>4. Stays(u, d)
    BY <2>1, <2>3
  <2>5. lane'[x][k] = Spot(u, d)
    BY <2>1, <2>3
  <2> QED BY <2>1, <2>3, <2>4, <2>5, PlaceStays
<1> QED BY <1>4, <1>6, <1>8 DEF LaneInvariant, Depth

\* A fault ends the tasks T, and their places are given up.
LEMMA LaneDrop ==
  ASSUME TypeOK, LaneInvariant, NEW T \in SUBSET Tasks,
         task' = [u \in Tasks |-> IF u \in T THEN <<>> ELSE task[u]],
         lane' \in [Sessions -> Seq(Tasks \X Nat)],
         \A s \in Sessions : \A k \in 1..Len(lane'[s]) :
           \E i \in 1..Len(lane[s]) : lane'[s][k] = lane[s][i] /\ lane[s][i][1] \notin T,
         \A s \in Sessions : \A k, j \in 1..Len(lane'[s]) : lane'[s][k] = lane'[s][j] => k = j,
         \A s \in Sessions : \A i \in 1..Len(lane[s]) :
           lane[s][i][1] \notin T =>
             \E k \in 1..Len(lane'[s]) : lane'[s][k] = lane[s][i] /\ (i = 1 => k = 1)
  PROVE  LaneInvariant'
<1>1. /\ \A u \in T : Len(task'[u]) = 0
      /\ \A u \in Tasks : u \notin T => task'[u] = task[u]
  OBVIOUS
<1>2. \A u \in Tasks : u \notin T => \A d \in 1..Len(task[u]) : Same(u, d)
  BY <1>1 DEF Same
<1>3. ASSUME NEW u \in Tasks, NEW d \in 1..Len(task'[u])
      PROVE  HoldsLane(u, d)'
  <2>1. u \notin T
    BY <1>1
  <2>2. FromOld(u, d)
    BY <1>1, <1>2, <2>1, SameClaims
  <2>3. ASSUME NEW s \in Sessions, NEW k \in Nat, k \in 1..Len(lane[s]), lane[s][k] = Spot(u, d)
        PROVE  \E j \in 1..Len(lane'[s]) : lane'[s][j] = Spot(u, d) /\ (k = 1 => j = 1)
    <3>1. lane[s][k][1] \notin T
      BY <2>1, <2>3, SpotFacts
    <3>2. PICK i \in 1..Len(lane[s]) : i = k
      BY <2>3
    <3>3. lane[s][i][1] \notin T
      BY <3>1, <3>2
    <3>4. \E j \in 1..Len(lane'[s]) : lane'[s][j] = lane[s][i] /\ (i = 1 => j = 1)
      BY <3>3
    <3> QED BY <2>3, <3>2, <3>4
  <2>4. \A s \in Sessions, k \in Nat :
           k \in 1..Len(lane[s]) /\ lane[s][k] = Spot(u, d) =>
             \E j \in 1..Len(lane'[s]) : lane'[s][j] = Spot(u, d) /\ (k = 1 => j = 1)
    BY <2>3
  <2> QED BY <2>2, <2>4, FromOldHolds
<1>4. ASSUME NEW s \in Sessions, NEW k \in 1..Len(lane'[s])
      PROVE  PlaceOk(s, k)'
  <2>1. PICK i \in 1..Len(lane[s]) : lane'[s][k] = lane[s][i] /\ lane[s][i][1] \notin T
    BY <1>4
  <2>2. PICK u \in Tasks : \E d \in 1..Len(task[u]) :
           lane[s][i] = Spot(u, d) /\ Level(task[u], d).ses = s /\ Queued(Level(task[u], d))
    BY PlaceParts
  <2>3. PICK d \in 1..Len(task[u]) :
           lane[s][i] = Spot(u, d) /\ Level(task[u], d).ses = s /\ Queued(Level(task[u], d))
    BY <2>2
  <2>4. u \notin T
    BY <2>1, <2>3, SpotFacts
  <2>5. Stays(u, d)
    BY <1>2, <2>4, SameClaims
  <2>6. lane'[s][k] = Spot(u, d)
    BY <2>1, <2>3
  <2>7. \A j \in 1..Len(lane'[s]) : lane'[s][j] = lane'[s][k] => j = k
    OBVIOUS
  <2> QED BY <2>3, <2>5, <2>6, <2>7, PlaceStays
<1> QED BY <1>3, <1>4 DEF LaneInvariant, Depth

-----------------------------------------------------------------------------
(* The lanes under each action. *)

\* Which frames are in a queue.
LEMMA QueuedFacts ==
  ASSUME NEW f
  PROVE  /\ f.pc \in Executing => Holding(f) /\ Queued(f)
         /\ f.pc = "create" => (Queued(f) <=> f.kind = "api") /\ (Holding(f) <=> f.kind = "api")
         /\ f.pc = "waiting" => Queued(f) /\ (Holding(f) <=> ~Waits(f.kind))
         /\ f.pc \in {"lane", "deliver"} => ~Queued(f) /\ ~Holding(f)
BY DEF Queued, Holding, Executing

\* The innermost frame moves within its claim on the lane, or has its turn.
LEMMA SetLane ==
  ASSUME RunInvariant, LaneInvariant, NEW t \in Tasks, ~Idle(t), NEW e, e = Top(t), NEW f \in Frame,
         Set(t, f), lane' = lane, f.ses = e.ses, Queued(f) <=> Queued(e),
         Holding(f) => Holding(e) \/ lane[e.ses][1] = Ticket(t)
  PROVE  LaneInvariant'
<1>1. /\ TypeOK /\ Stacks /\ Len(task[t]) \in Nat \ {0} /\ e = Level(task[t], Len(task[t]))
  BY TopFacts DEF RunInvariant
<1>2. PICK n \in Nat \ {0} : n = Len(task[t])
  BY <1>1
<1>3. /\ Len(task'[t]) = n /\ Level(task'[t], n) = f
      /\ \A u \in Tasks : u # t => task'[u] = task[u] /\ \A d \in 1..Len(task[u]) : Same(u, d)
      /\ \A d \in 1..n : d # n => Same(t, d)
  BY <1>1, <1>2, SetStep
<1>4. n \in 1..n /\ n \in 1..Len(task'[t]) /\ n \in 1..Len(task[t]) /\ e = Level(task[t], n)
  BY <1>1, <1>2, <1>3
<1>5. Ticket(t) = Spot(t, n)
  BY <1>2 DEF Ticket, Spot
<1>6. HoldsLane(t, n)'
  <2>1. /\ Holding(e) => lane[e.ses][1] = Spot(t, n)
        /\ Queued(e) => \E k \in 1..Len(lane[e.ses]) : lane[e.ses][k] = Spot(t, n)
    BY <1>4, HoldsParts
  <2> QED BY <1>3, <1>5, <2>1, HoldsNext
<1>7. Stays(t, n)
  BY <1>3, <1>4 DEF Stays
<1>8. ASSUME NEW u \in Tasks, NEW d \in 1..Len(task'[u])
      PROVE  HoldsLane(u, d)' \/ FromOld(u, d)
  BY <1>3, <1>6, SameClaims
<1>9. ASSUME NEW u \in Tasks, NEW d \in 1..Len(task[u])
      PROVE  Stays(u, d)
  BY <1>2, <1>3, <1>7, SameClaims
<1> QED BY <1>1, <1>8, <1>9, LaneSame

\* A frame opens, calls a worker or ends away from the lanes.
LEMMA OpenLane ==
  ASSUME RunInvariant, LaneInvariant, NEW t \in Tasks, Idle(t), NEW f \in Frame,
         task' = [task EXCEPT ![t] = <<f>>], lane' = lane, ~Queued(f)
  PROVE  LaneInvariant'
<1>1. TypeOK /\ Stacks
  BY DEF RunInvariant, TypeOK, Stacks
<1>2. /\ Len(task[t]) = 0 /\ Len(task'[t]) = 1 /\ Level(task'[t], 1) = f
      /\ \A u \in Tasks : u # t => task'[u] = task[u] /\ \A d \in 1..Len(task[u]) : Same(u, d)
  BY <1>1, OpenStep
<1>3. ASSUME NEW u \in Tasks, NEW d \in 1..Len(task'[u])
      PROVE  Unqueued(u, d) \/ FromOld(u, d)
  <2>1. u = t => d = 1
    BY <1>2
  <2> QED BY <1>2, <2>1, SameClaims DEF Unqueued
<1>4. ASSUME NEW u \in Tasks, NEW d \in 1..Len(task[u])
      PROVE  Stays(u, d)
  <2>1. u # t
    BY <1>2
  <2> QED BY <1>2, <2>1, SameClaims
<1> QED BY <1>1, <1>3, <1>4, LaneSame

\* What the innermost frame becomes is a frame.
LEMMA SetFrame ==
  ASSUME RunInvariant, RunInvariant', NEW t \in Tasks, ~Idle(t), NEW g, Set(t, g)
  PROVE  g \in Frame
<1>1. task \in [Tasks -> Seq(Frame)] /\ Len(task[t]) \in Nat \ {0}
  BY TopFacts DEF Stacks
<1>2. task'[t] \in Seq(Frame)
  BY DEF RunInvariant, TypeOK
<1>3. task'[t] = [task[t] EXCEPT ![1] = g]
  BY <1>1 DEF Set
<1>4. task[t] \in Seq(Frame) /\ 1 \in 1..Len(task[t])
  BY <1>1
<1>5. Len(task'[t]) = Len(task[t]) /\ task'[t][1] = g
  BY <1>3, <1>4
<1>6. 1 \in 1..Len(task'[t])
  BY <1>4, <1>5
<1> QED BY <1>2, <1>5, <1>6

\* A step within an execution keeps the lane it holds.
LEMMA ExecLane ==
  ASSUME RunInvariant, RunInvariant', LaneInvariant, NEW t \in Tasks, ~Idle(t), lane' = lane,
         NEW e \in Frame, e = Top(t), e.pc \in Executing, NEW f, Set(t, f), f.ses = e.ses, f.pc \in Executing
  PROVE  LaneInvariant'
<1>1. f \in Frame
  BY SetFrame
<1>2. Queued(f) /\ Queued(e) /\ Holding(e)
  BY QueuedFacts
<1> QED BY <1>1, <1>2, SetLane

\* The steps of an execution keep the lane it holds.
LEMMA ExecutionLanes ==
  ASSUME RunInvariant, RunInvariant', LaneInvariant, NEW t \in Tasks,
         \/ ReadInput(t) \/ DispatchTool(t) \/ BlockTool(t) \/ EndTool(t) \/ SkipAssignment(t)
         \/ ModelAnswers(t) \/ (\E w \in DOMAIN Worker : ModelAssigns(t, w)) \/ Error(t) \/ Finish(t) \/ MarkFailed(t)
  PROVE  LaneInvariant'
<1>1. /\ At(t, "input") \/ At(t, "tool") \/ At(t, "exec") \/ At(t, "finish") \/ At(t, "failing")
      /\ lane' = lane
  BY DEF ReadInput, DispatchTool, BlockTool, EndTool, SkipAssignment, ModelAnswers, ModelAssigns,
         Error, Finish, MarkFailed
<1>2. ~Idle(t) /\ Top(t) \in Frame /\ Top(t).pc \in {"input", "tool", "exec", "finish", "failing"}
  BY <1>1, AtFacts
<1>3. PICK e \in Frame : e = Top(t)
  BY <1>2
<1>4. e.pc \in Executing
  BY <1>2, <1>3 DEF Executing
<1>6. ASSUME NEW p \in Executing, Goto(t, p)
      PROVE  LaneInvariant'
  <2>1. PICK f : f = [e EXCEPT !.pc = p]
    OBVIOUS
  <2>2. Set(t, f)
    BY <1>3, <1>6, <2>1 DEF Goto
  <2>3. f.ses = e.ses /\ f.pc \in Executing
    BY <2>1 DEF Frame
  <2> QED BY <1>1, <1>2, <1>3, <1>4, <2>2, <2>3, ExecLane
<1>7. ASSUME NEW p \in Executing, NEW q, Set(t, [e EXCEPT !.pc = p, !.todo = q])
      PROVE  LaneInvariant'
  <2>1. PICK f : f = [e EXCEPT !.pc = p, !.todo = q]
    OBVIOUS
  <2>2. f.ses = e.ses /\ f.pc \in Executing
    BY <2>1 DEF Frame
  <2> QED BY <1>1, <1>2, <1>3, <1>4, <1>7, <2>1, <2>2, ExecLane
<1>8. {"tool", "exec", "finish", "failing", "release"} \subseteq Executing
  BY DEF Executing
<1>9. CASE ReadInput(t)
  <2>1. PICK q : q = IF Len(user[e.ses]) = 0 THEN <<>> ELSE user[e.ses][Len(user[e.ses])]
    OBVIOUS
  <2>2. Set(t, [e EXCEPT !.pc = "tool", !.todo = q])
    BY <1>3, <1>9, <2>1 DEF ReadInput
  <2> QED BY <1>7, <1>8, <2>2
<1>10. CASE EndTool(t)
  <2>1. PICK q : q = Tail(e.todo)
    OBVIOUS
  <2>2. Set(t, [e EXCEPT !.pc = "tool", !.todo = q])
    BY <1>3, <1>10, <2>1 DEF EndTool
  <2> QED BY <1>7, <1>8, <2>2
<1>11. CASE \E w \in DOMAIN Worker : ModelAssigns(t, w)
  <2>1. PICK w \in DOMAIN Worker : ModelAssigns(t, w)
    BY <1>11
  <2>2. PICK f : f = [e EXCEPT !.todo = <<w>>]
    OBVIOUS
  <2>3. Set(t, f)
    BY <1>3, <2>1, <2>2 DEF ModelAssigns
  <2>4. f.ses = e.ses /\ f.pc = e.pc
    BY <2>2 DEF Frame
  <2> QED BY <1>1, <1>2, <1>3, <1>4, <2>3, <2>4, ExecLane
<1>12. CASE DispatchTool(t) \/ BlockTool(t) \/ ModelAnswers(t) \/ Error(t) \/ Finish(t) \/ MarkFailed(t)
  <2>1. Goto(t, "exec") \/ Goto(t, "failing") \/ Goto(t, "finish") \/ Goto(t, "release")
    BY <1>12 DEF DispatchTool, BlockTool, ModelAnswers, Error, Finish, MarkFailed
  <2> QED BY <1>6, <1>8, <2>1
<1>13. CASE SkipAssignment(t)
  <2>1. PICK f : f = [e EXCEPT !.todo = Tail(@)]
    OBVIOUS
  <2>2. Set(t, f)
    BY <1>3, <1>13, <2>1 DEF SkipAssignment
  <2>3. f.ses = e.ses /\ f.pc = e.pc
    BY <2>1 DEF Frame
  <2> QED BY <1>1, <1>2, <1>3, <1>4, <2>2, <2>3, ExecLane
<1> QED BY <1>9, <1>10, <1>11, <1>12, <1>13

\* The first of the queue starts.
LEMMA StartLanes ==
  ASSUME RunInvariant, RunInvariant', LaneInvariant, NEW t \in Tasks, Start(t)
  PROVE  LaneInvariant'
<1>1. At(t, "waiting") /\ Head(lane[Top(t).ses]) = Ticket(t) /\ Goto(t, "input") /\ lane' = lane
  BY DEF Start
<1>2. PICK e \in Frame : e = Top(t)
  BY <1>1, AtFacts
<1>3. ~Idle(t) /\ e.pc = "waiting" /\ TypeOK /\ e.ses \in Sessions
  BY <1>1, <1>2, AtFacts
<1>4. PICK f : f = [e EXCEPT !.pc = "input"]
  OBVIOUS
<1>5. Set(t, f) /\ f.ses = e.ses /\ f.pc = "input"
  BY <1>1, <1>2, <1>4 DEF Goto, Frame
<1>6. f \in Frame
  BY <1>3, <1>5, SetFrame
<1>7. Queued(f) /\ Queued(e)
  BY <1>3, <1>5, QueuedFacts DEF Executing
<1>8. Head(lane[e.ses]) = lane[e.ses][1]
  OBVIOUS
<1> QED BY <1>1, <1>2, <1>3, <1>5, <1>6, <1>7, <1>8, SetLane

\* The row is written with the lane held or not asked for yet.
LEMMA CreateRowLanes ==
  ASSUME RunInvariant, RunInvariant', LaneInvariant, NEW t \in Tasks, CreateRow(t)
  PROVE  LaneInvariant'
<1>1. At(t, "create") /\ lane' = lane
  BY DEF CreateRow
<1>2. PICK e \in Frame : e = Top(t)
  BY <1>1, AtFacts
<1>3. ~Idle(t) /\ e.pc = "create"
  BY <1>1, <1>2, AtFacts
<1>4. PICK f : f = [e EXCEPT !.run = Len(run) + 1, !.pc = IF e.kind = "api" THEN "waiting" ELSE "lane"]
  OBVIOUS
<1>5. /\ Set(t, f) /\ f.ses = e.ses /\ f.kind = e.kind
      /\ f.pc = IF e.kind = "api" THEN "waiting" ELSE "lane"
  BY <1>2, <1>4 DEF CreateRow, Frame
<1>6. f \in Frame
  BY <1>3, <1>5, SetFrame
<1>7. (Queued(f) <=> Queued(e)) /\ (Holding(f) => Holding(e))
  BY <1>3, <1>5, QueuedFacts DEF Waits
<1> QED BY <1>1, <1>2, <1>3, <1>5, <1>6, <1>7, SetLane

\* A place at the lane is taken.
LEMMA EnterLaneLanes ==
  ASSUME RunInvariant, RunInvariant', LaneInvariant, NEW t \in Tasks, EnterLane(t)
  PROVE  LaneInvariant'
<1>1. /\ At(t, "lane") /\ Goto(t, "waiting") /\ Take(t, Top(t).ses, Len(task[t]))
      /\ Free(Top(t).ses) \/ Waits(Top(t).kind)
  BY DEF EnterLane
<1>2. PICK e \in Frame : e = Top(t)
  BY <1>1, AtFacts
<1>3. ~Idle(t) /\ e.pc = "lane" /\ TypeOK /\ Stacks /\ e.ses \in Sessions /\ Len(task[t]) \in Nat \ {0}
  BY <1>1, <1>2, AtFacts
<1>4. PICK f : f = [e EXCEPT !.pc = "waiting"]
  OBVIOUS
<1>5. Set(t, f) /\ f.ses = e.ses /\ f.pc = "waiting" /\ f.kind = e.kind
  BY <1>1, <1>2, <1>4 DEF Goto, Frame
<1>6. f \in Frame
  BY <1>3, <1>5, SetFrame
<1>7. PICK n \in Nat \ {0} : n = Len(task[t])
  BY <1>3
<1>8. e = Level(task[t], n)
  BY <1>2, <1>3, <1>7, TopFacts
<1>9. /\ Len(task'[t]) = n /\ Level(task'[t], n) = f
      /\ \A u \in Tasks : u # t => task'[u] = task[u] /\ \A d \in 1..Len(task[u]) : Same(u, d)
      /\ \A d \in 1..n : d # n => Same(t, d)
  BY <1>3, <1>5, <1>6, <1>7, SetStep
<1>10. ~Queued(e) /\ Queued(f) /\ (Holding(f) => Free(e.ses))
  BY <1>1, <1>2, <1>3, <1>5, QueuedFacts
<1>11. ASSUME NEW u \in Tasks, NEW d \in 1..Len(task'[u])
       PROVE  (u = t /\ d = n) \/ FromOld(u, d)
  BY <1>9, SameClaims
<1>12. ASSUME NEW u \in Tasks, NEW d \in 1..Len(task[u])
       PROVE  Stays(u, d)
  <2>1. Stays(t, n)
    BY <1>8, <1>10 DEF Stays
  <2> QED BY <1>7, <1>9, <2>1, SameClaims
<1>13. n \in Nat /\ n \in 1..Len(task'[t]) /\ Take(t, e.ses, n)
  BY <1>1, <1>2, <1>7, <1>9
<1> QED BY <1>3, <1>5, <1>8, <1>9, <1>10, <1>11, <1>12, <1>13, LaneTake

\* The run route has the lane before its row.
LEMMA CreateRunLanes ==
  ASSUME RunInvariant, LaneInvariant, NEW t \in Tasks, NEW s \in Sessions, CreateRun(t, s)
  PROVE  LaneInvariant'
<1>1. /\ Idle(t) /\ Free(s) /\ Take(t, s, 1)
      /\ task' = [task EXCEPT ![t] = <<NewFrame("api", "create", s, 0)>>]
  BY DEF CreateRun
<1>2. TypeOK /\ Stacks
  BY DEF RunInvariant, TypeOK, Stacks
<1>3. "api" \in Kinds /\ "create" \in PCs /\ 0 \in 0..MaxRuns
  BY BoundsAssumption DEF Kinds, PCs
<1>4. PICK f \in Frame : f = NewFrame("api", "create", s, 0)
  BY <1>3, NewFrameFacts
<1>5. f.kind = "api" /\ f.pc = "create" /\ f.ses = s
  BY <1>3, <1>4, NewFrameFacts
<1>6. task' = [task EXCEPT ![t] = <<f>>]
  BY <1>1, <1>4
<1>7. /\ Len(task[t]) = 0 /\ Len(task'[t]) = 1 /\ Level(task'[t], 1) = f
      /\ \A u \in Tasks : u # t => task'[u] = task[u] /\ \A d \in 1..Len(task[u]) : Same(u, d)
  BY <1>1, <1>2, <1>6, OpenStep
<1>8. Queued(f)
  BY <1>5, QueuedFacts
<1>9. ASSUME NEW u \in Tasks, NEW d \in 1..Len(task'[u])
      PROVE  (u = t /\ d = 1) \/ FromOld(u, d)
  <2>1. \A x \in 1..Len(task'[t]) : x = 1
    BY <1>7
  <2> QED BY <1>7, <2>1, SameClaims
<1>10. ASSUME NEW u \in Tasks, NEW d \in 1..Len(task[u])
       PROVE  Stays(u, d)
  <2>1. u # t
    BY <1>7
  <2> QED BY <1>7, <2>1, SameClaims
<1>11. 1 \in 1..Len(task'[t]) /\ ~(1 \in 1..Len(task[t])) /\ 1 \in Nat
  BY <1>7
<1> QED BY <1>1, <1>2, <1>5, <1>7, <1>8, <1>9, <1>10, <1>11, LaneTake

\* A frame that ends leaves the claims of all others as they are: the frame
\* that called it goes on in its execution.
LEMMA PopClaims ==
  ASSUME RunInvariant, NEW t \in Tasks, ~Idle(t), NEW n \in Nat, n = Len(task[t]), NEW g \in Frame,
         task' = [task EXCEPT ![t] = IF Len(@) = 1 THEN <<>> ELSE <<g>> \o Tail(Tail(@))],
         Len(task[t]) > 1 => g.ses = task[t][2].ses /\ g.pc \in {"failing", "tool"}
  PROVE  /\ \A u \in Tasks : \A d \in 1..Len(task'[u]) : FromOld(u, d) /\ ~(u = t /\ d = n)
         /\ \A u \in Tasks : \A d \in 1..Len(task[u]) : (u = t /\ d = n) \/ Stays(u, d)
<1>1. Stacks /\ Len(task[t]) \in Nat \ {0}
  BY TopFacts
<1>2. /\ Len(task'[t]) = n - 1 /\ (n > 1 => Level(task'[t], n - 1) = g)
      /\ \A u \in Tasks : u # t => task'[u] = task[u] /\ \A d \in 1..Len(task[u]) : Same(u, d)
      /\ \A d \in 1..n : d < n - 1 => Same(t, d)
  BY <1>1, PopStep
<1>3. ASSUME n > 1
      PROVE  FromOld(t, n - 1) /\ Stays(t, n - 1)
  <2>1. PICK b : b = task[t][2]
    OBVIOUS
  <2>2. b = Level(task[t], n - 1) /\ b.pc = "exec"
    BY <1>3, <2>1, BossFacts
  <2>3. Queued(b) /\ Holding(b) /\ Queued(g)
    BY <1>3, <2>2, QueuedFacts DEF Executing
  <2>4. n - 1 \in 1..Len(task[t]) /\ n - 1 \in 1..Len(task'[t])
    BY <1>1, <1>2, <1>3
  <2> QED BY <1>2, <1>3, <2>1, <2>2, <2>3, <2>4 DEF FromOld, Stays
<1>4. ASSUME NEW u \in Tasks, NEW d \in 1..Len(task'[u])
      PROVE  FromOld(u, d) /\ ~(u = t /\ d = n)
  <2>1. CASE u # t
    BY <1>2, <2>1, SameClaims
  <2>2. CASE u = t
    <3>1. d \in 1..(n - 1)
      BY <1>2, <2>2
    <3>2. d # n /\ d \in 1..n /\ (d < n - 1 \/ (n > 1 /\ d = n - 1))
      BY <3>1
    <3> QED BY <1>2, <1>3, <2>2, <3>2, SameClaims
  <2> QED BY <2>1, <2>2
<1>5. ASSUME NEW u \in Tasks, NEW d \in 1..Len(task[u])
      PROVE  (u = t /\ d = n) \/ Stays(u, d)
  <2>1. CASE u # t
    BY <1>2, <2>1, SameClaims
  <2>2. CASE u = t
    <3>1. d \in 1..n
      BY <2>2
    <3>2. d < n - 1 \/ (n > 1 /\ d = n - 1) \/ d = n
      BY <3>1
    <3> QED BY <1>2, <1>3, <2>2, <3>1, <3>2, SameClaims
  <2> QED BY <2>1, <2>2
<1> QED BY <1>4, <1>5

\* The lane is busy and the run does not wait: it leaves the stack without a place.
LEMMA LaneBusyLanes ==
  ASSUME RunInvariant, LaneInvariant, NEW t \in Tasks, LaneBusy(t)
  PROVE  LaneInvariant'
<1>1. At(t, "lane") /\ ReturnFailed(t) /\ lane' = lane
  BY DEF LaneBusy
<1>2. ~Idle(t) /\ Top(t).pc = "lane" /\ TypeOK /\ Len(task[t]) \in Nat \ {0}
  BY <1>1, AtFacts
<1>3. PICK n \in Nat : n = Len(task[t])
  BY <1>2
<1>4. PICK g \in Frame :
        /\ task' = [task EXCEPT ![t] = IF Len(@) = 1 THEN <<>> ELSE <<g>> \o Tail(Tail(@))]
        /\ Len(task[t]) > 1 => g.ses = task[t][2].ses /\ g.pc = "failing"
  BY <1>1, <1>2, ReturnFrames
<1>5. /\ \A u \in Tasks : \A d \in 1..Len(task'[u]) : FromOld(u, d) /\ ~(u = t /\ d = n)
      /\ \A u \in Tasks : \A d \in 1..Len(task[u]) : (u = t /\ d = n) \/ Stays(u, d)
  BY <1>2, <1>3, <1>4, PopClaims
<1>6. Stays(t, n)
  <2>1. Level(task[t], n).pc = "lane"
    BY <1>2, <1>3, TopFacts
  <2> QED BY <2>1, QueuedFacts DEF Stays
<1> QED BY <1>1, <1>2, <1>5, <1>6, LaneSame

\* The failure cannot be written: the run leaves with its lane given back.
LEMMA MarkFailedFailsLanes ==
  ASSUME RunInvariant, LaneInvariant, NEW t \in Tasks, MarkFailedFails(t)
  PROVE  LaneInvariant' /\ lane' \in [Sessions -> Seq(Tasks \X Nat)]
<1>1. At(t, "failing") /\ ReturnFailed(t) /\ Unlock(t)
  BY DEF MarkFailedFails
<1>2. PICK e \in Frame : e = Top(t)
  BY <1>1, AtFacts
<1>3. ~Idle(t) /\ e.pc = "failing" /\ TypeOK /\ Len(task[t]) \in Nat \ {0} /\ e.ses \in Sessions
  BY <1>1, <1>2, AtFacts
<1>4. PICK n \in Nat : n = Len(task[t])
  BY <1>3
<1>5. PICK g \in Frame :
        /\ task' = [task EXCEPT ![t] = IF Len(@) = 1 THEN <<>> ELSE <<g>> \o Tail(Tail(@))]
        /\ Len(task[t]) > 1 => g.ses = task[t][2].ses /\ g.pc = "failing"
  BY <1>1, <1>3, ReturnFrames
<1>6. /\ \A u \in Tasks : \A d \in 1..Len(task'[u]) : FromOld(u, d) /\ ~(u = t /\ d = n)
      /\ \A u \in Tasks : \A d \in 1..Len(task[u]) : (u = t /\ d = n) \/ Stays(u, d)
  BY <1>3, <1>4, <1>5, PopClaims
<1>7. e = Level(task[t], n) /\ n \in 1..Len(task[t])
  BY <1>2, <1>3, <1>4, TopFacts
<1>8. Holding(e)
  BY <1>3, QueuedFacts DEF Executing
<1>9. PICK s \in Sessions : s = e.ses
  BY <1>3
<1>10. lane' = [lane EXCEPT ![s] = Tail(@)]
  BY <1>1, <1>2, <1>9 DEF Unlock
<1> QED BY <1>3, <1>6, <1>7, <1>8, <1>9, <1>10, LaneUnlock

\* The lane is given back and the run leaves or delivers.
LEMMA ReleaseLanes ==
  ASSUME RunInvariant, LaneInvariant, NEW t \in Tasks, Release(t)
  PROVE  LaneInvariant' /\ lane' \in [Sessions -> Seq(Tasks \X Nat)]
<1>1. At(t, "release") /\ Unlock(t) /\ (Goto(t, "deliver") \/ ReturnOk(t))
  BY DEF Release
<1>2. PICK e \in Frame : e = Top(t)
  BY <1>1, AtFacts
<1>3. /\ ~Idle(t) /\ e.pc = "release" /\ TypeOK /\ Stacks /\ e.ses \in Sessions
      /\ Len(task[t]) \in Nat \ {0}
  BY <1>1, <1>2, AtFacts
<1>4. PICK n \in Nat : n = Len(task[t])
  BY <1>3
<1>5. e = Level(task[t], n) /\ n \in 1..Len(task[t])
  BY <1>2, <1>3, <1>4, TopFacts
<1>6. Holding(e)
  BY <1>3, QueuedFacts DEF Executing
<1>7. PICK s \in Sessions : s = e.ses
  BY <1>3
<1>8. lane' = [lane EXCEPT ![s] = Tail(@)]
  BY <1>1, <1>2, <1>7 DEF Unlock
<1>9. CASE Goto(t, "deliver")
  <2>1. "deliver" \in PCs
    BY DEF PCs
  <2>2. PICK f \in Frame : f = [e EXCEPT !.pc = "deliver"]
    BY <2>1, FrameMoved
  <2>3. Set(t, f) /\ f.pc = "deliver"
    BY <1>2, <1>9, <2>1, <2>2, FrameMoved DEF Goto
  <2>4. /\ Len(task'[t]) = n /\ Level(task'[t], n) = f
        /\ \A u \in Tasks : u # t => task'[u] = task[u] /\ \A d \in 1..Len(task[u]) : Same(u, d)
        /\ \A d \in 1..n : d # n => Same(t, d)
    BY <1>3, <1>4, <2>3, SetStep
  <2>5. Unqueued(t, n)
    BY <2>3, <2>4, QueuedFacts DEF Unqueued
  <2>6. ASSUME NEW u \in Tasks, NEW d \in 1..Len(task'[u])
        PROVE  Unqueued(u, d) \/ (FromOld(u, d) /\ ~(u = t /\ d = n))
    BY <2>4, <2>5, SameClaims
  <2>7. ASSUME NEW u \in Tasks, NEW d \in 1..Len(task[u])
        PROVE  (u = t /\ d = n) \/ Stays(u, d)
    BY <1>4, <2>4, SameClaims
  <2> QED BY <1>3, <1>5, <1>6, <1>7, <1>8, <2>6, <2>7, LaneUnlock
<1>10. CASE ReturnOk(t)
  <2>1. PICK g \in Frame :
          /\ task' = [task EXCEPT ![t] = IF Len(@) = 1 THEN <<>> ELSE <<g>> \o Tail(Tail(@))]
          /\ Len(task[t]) > 1 => g.ses = task[t][2].ses /\ g.pc = "tool"
    BY <1>3, <1>10, ReturnFrames
  <2>2. /\ \A u \in Tasks : \A d \in 1..Len(task'[u]) : FromOld(u, d) /\ ~(u = t /\ d = n)
        /\ \A u \in Tasks : \A d \in 1..Len(task[u]) : (u = t /\ d = n) \/ Stays(u, d)
    BY <1>3, <1>4, <2>1, PopClaims
  <2> QED BY <1>3, <1>5, <1>6, <1>7, <1>8, <2>2, LaneUnlock
<1> QED BY <1>1, <1>9, <1>10

\* A delivered run holds no lane.
LEMMA DeliverLanes ==
  ASSUME RunInvariant, LaneInvariant, NEW t \in Tasks, Deliver(t)
  PROVE  LaneInvariant'
<1>1. At(t, "deliver") /\ Return(t) /\ lane' = lane
  BY DEF Deliver
<1>2. ~Idle(t) /\ Top(t).pc = "deliver" /\ TypeOK /\ Stacks /\ Len(task[t]) \in Nat \ {0}
  BY <1>1, AtFacts
<1>3. PICK n \in Nat : n = Len(task[t])
  BY <1>2
<1>4. \A d \in 1..Len(task[t]) : d < Len(task[t]) => Level(task[t], d).pc = "exec"
  BY FrameParts DEF RunInvariant, Depth
<1>5. /\ Len(task'[t]) = n - 1
      /\ \A u \in Tasks : u # t => task'[u] = task[u] /\ \A d \in 1..Len(task[u]) : Same(u, d)
      /\ \A d \in 1..n : d # n => Same(t, d)
  BY <1>1, <1>2, <1>3, <1>4, ReturnStep
<1>6. Stays(t, n)
  <2>1. Level(task[t], n).pc = "deliver"
    BY <1>2, <1>3, TopFacts
  <2> QED BY <2>1, QueuedFacts DEF Stays
<1>7. ASSUME NEW u \in Tasks, NEW d \in 1..Len(task'[u])
      PROVE  FromOld(u, d)
  <2>1. \A x \in 1..Len(task'[t]) : x \in 1..n /\ x # n
    BY <1>3, <1>5
  <2> QED BY <1>5, <2>1, SameClaims
<1>8. ASSUME NEW u \in Tasks, NEW d \in 1..Len(task[u])
      PROVE  Stays(u, d)
  BY <1>3, <1>5, <1>6, SameClaims
<1> QED BY <1>1, <1>2, <1>7, <1>8, LaneSame

\* The worker's frame lies on top of a frame that keeps its lane.
LEMMA AssignWorkerLanes ==
  ASSUME RunInvariant, RunInvariant', LaneInvariant, NEW t \in Tasks, NEW ask \in Inputs, AssignWorker(t, ask)
  PROVE  LaneInvariant'
<1> DEFINE tool0 == Head(Top(t).todo)
<1>1. /\ At(t, "tool") /\ lane' = lane /\ tool0 \in DOMAIN Worker
      /\ task' = [task EXCEPT ![t] =
                    <<NewFrame("worker", "create", Worker[tool0], 0),
                      [Top(t) EXCEPT !.pc = "exec", !.keys = @ \cup {tool0}]>> \o Tail(@)]
  BY DEF AssignWorker
<1>2. PICK e \in Frame : e = Top(t)
  BY <1>1, AtFacts
<1>3. ~Idle(t) /\ e.pc = "tool" /\ TypeOK /\ Stacks /\ Len(task[t]) \in Nat \ {0}
  BY <1>1, <1>2, AtFacts
<1>4. PICK w \in DOMAIN Worker : w = tool0
  BY <1>1
<1>5. "worker" \in Kinds /\ "create" \in PCs /\ "exec" \in PCs /\ 0 \in 0..MaxRuns /\ Worker[w] \in Sessions
  BY BoundsAssumption DEF Kinds, PCs, Executing
<1>6. PICK f \in Frame : f = NewFrame("worker", "create", Worker[w], 0)
  BY <1>5, NewFrameFacts
<1>7. f.kind = "worker" /\ f.pc = "create"
  BY <1>5, <1>6, NewFrameFacts
<1>8. [e EXCEPT !.pc = "exec", !.keys = @ \cup {w}] \in Frame
  BY <1>5 DEF Frame
<1>9. PICK g \in Frame : g = [e EXCEPT !.pc = "exec", !.keys = @ \cup {w}]
  BY <1>8
<1>10. g.ses = e.ses /\ g.pc = "exec"
  BY <1>9 DEF Frame
<1>11. task' = [task EXCEPT ![t] = <<f, g>> \o Tail(@)]
  BY <1>1, <1>2, <1>4, <1>6, <1>9
<1> HIDE DEF tool0
<1>12. PICK n \in Nat \ {0} : n = Len(task[t])
  BY <1>3
<1>13. e = Level(task[t], n)
  BY <1>2, <1>3, <1>12, TopFacts
<1>14. /\ Len(task'[t]) = n + 1 /\ Level(task'[t], n) = g /\ Level(task'[t], n + 1) = f
       /\ \A u \in Tasks : u # t => task'[u] = task[u] /\ \A d \in 1..Len(task[u]) : Same(u, d)
       /\ \A d \in 1..n : d # n => Same(t, d)
  BY <1>3, <1>11, <1>12, PushStep
<1>15. Unqueued(t, n + 1)
  BY <1>7, <1>14, QueuedFacts DEF Unqueued
<1>16. FromOld(t, n) /\ Stays(t, n)
  <2>1. Queued(e) /\ Holding(e) /\ Queued(g)
    BY <1>3, <1>10, QueuedFacts DEF Executing
  <2>2. n \in 1..Len(task[t]) /\ n \in 1..Len(task'[t])
    BY <1>12, <1>14
  <2> QED BY <1>10, <1>13, <1>14, <2>1, <2>2 DEF FromOld, Stays
<1>17. ASSUME NEW u \in Tasks, NEW d \in 1..Len(task'[u])
       PROVE  Unqueued(u, d) \/ FromOld(u, d)
  <2>1. \A x \in 1..Len(task'[t]) : (x \in 1..n /\ x # n) \/ x = n \/ x = n + 1
    BY <1>14
  <2> QED BY <1>14, <1>15, <1>16, <2>1, SameClaims
<1>18. ASSUME NEW u \in Tasks, NEW d \in 1..Len(task[u])
       PROVE  Stays(u, d)
  BY <1>12, <1>14, <1>16, SameClaims
<1> QED BY <1>1, <1>3, <1>17, <1>18, LaneSame

\* A step that touches neither stacks nor lanes.
LEMMA StoreLanes ==
  ASSUME RunInvariant, LaneInvariant, UNCHANGED <<lane, task>>
  PROVE  LaneInvariant'
<1>1. TypeOK
  BY DEF RunInvariant
<1>2. \A u \in Tasks : \A d \in 1..Len(task[u]) : Same(u, d)
  BY DEF Same
<1>3. \A u \in Tasks : \A d \in 1..Len(task[u]) : FromOld(u, d) /\ Stays(u, d)
  BY <1>2, SameClaims
<1> QED BY <1>1, <1>3, LaneSame

\* A message or a resumed run begins away from the lanes.
LEMMA BeginLanes ==
  ASSUME RunInvariant, LaneInvariant, NEW t \in Tasks,
         \/ \E s \in Sessions, ask \in Inputs, kind \in {"channel", "card"} : IngestMessage(t, kind, s, ask)
         \/ \E r \in DOMAIN run : ResumeRun(t, r)
  PROVE  LaneInvariant'
<1>1. TypeOK
  BY DEF RunInvariant
<1>2. ASSUME NEW s \in Sessions, NEW ask \in Inputs, NEW kind \in {"channel", "card"},
             IngestMessage(t, kind, s, ask)
      PROVE  LaneInvariant'
  <2>1. kind \in Kinds /\ "create" \in PCs /\ 0 \in 0..MaxRuns
    BY BoundsAssumption DEF Kinds, PCs
  <2>2. PICK f \in Frame : f = NewFrame(kind, "create", s, 0)
    BY <2>1, NewFrameFacts
  <2>3. f.pc = "create" /\ f.kind # "api"
    BY <2>1, <2>2, NewFrameFacts
  <2>4. Idle(t) /\ lane' = lane /\ (task' = task \/ task' = [task EXCEPT ![t] = <<f>>])
    BY <1>2, <2>2 DEF IngestMessage
  <2>5. ~Queued(f)
    BY <2>3, QueuedFacts
  <2> QED BY <2>4, <2>5, OpenLane, StoreLanes
<1>3. ASSUME NEW r \in DOMAIN run, ResumeRun(t, r)
      PROVE  LaneInvariant'
  <2>1. DOMAIN run = 1..Len(run)
    BY <1>1 DEF TypeOK
  <2>2. run[r].ses \in Sessions /\ r \in 1..MaxRuns /\ MaxRuns \in Nat
    BY <1>1, <2>1, RowFields, BoundsAssumption DEF RunIds
  <2>3. "resume" \in Kinds /\ "lane" \in PCs /\ r \in 0..MaxRuns
    BY <2>2 DEF Kinds, PCs
  <2>4. PICK f \in Frame : f = NewFrame("resume", "lane", run[r].ses, r)
    BY <2>2, <2>3, NewFrameFacts
  <2>5. f.pc = "lane"
    BY <2>2, <2>3, <2>4, NewFrameFacts
  <2>6. Idle(t) /\ lane' = lane /\ task' = [task EXCEPT ![t] = <<f>>]
    BY <1>3, <2>4 DEF ResumeRun
  <2>7. ~Queued(f)
    BY <2>5, QueuedFacts
  <2> QED BY <2>6, <2>7, OpenLane
<1> QED BY <1>2, <1>3

\* A request is dropped with its guards.
LEMMA DropCorrect ==
  ASSUME RunInvariant, LaneInvariant, NEW t \in Tasks, Drop(t)
  PROVE  RunInvariant' /\ LaneInvariant'
<1>1. TypeOK
  BY DEF RunInvariant
<1>2. /\ faults < MaxFaults /\ faults' = faults + 1 /\ orphan' = orphan \cup Lost({t})
      /\ lane' = [s \in Sessions |-> Without(lane[s], t)]
      /\ UNCHANGED <<user, replies, run, approval, sent, resumes, unheard>>
  BY DEF Drop
<1>3. PICK T \in SUBSET Tasks : T = {t}
  OBVIOUS
<1>4. task' = [u \in Tasks |-> IF u \in T THEN <<>> ELSE task[u]]
  BY <1>1, <1>3 DEF Drop, TypeOK
<1>5. ASSUME NEW s \in Sessions
      PROVE  /\ lane'[s] \in Seq(Tasks \X Nat)
             /\ \A k \in 1..Len(lane'[s]) :
                  \E i \in 1..Len(lane[s]) : lane'[s][k] = lane[s][i] /\ lane[s][i][1] \notin T
             /\ \A k, j \in 1..Len(lane'[s]) : lane'[s][k] = lane'[s][j] => k = j
             /\ \A i \in 1..Len(lane[s]) :
                  lane[s][i][1] \notin T =>
                    \E k \in 1..Len(lane'[s]) : lane'[s][k] = lane[s][i] /\ (i = 1 => k = 1)
  <2> DEFINE Place == Tasks \X Nat
  <2>1. lane[s] \in Seq(Place)
    BY <1>1 DEF TypeOK
  <2> HIDE DEF Place
  <2>2. PICK q \in Seq(Place) : q = lane[s]
    BY <2>1
  <2>3. \E p : /\ p = Without(q, t)
               /\ p \in Seq(Place)
               /\ \A k \in 1..Len(p) : \E i \in 1..Len(q) : p[k] = q[i] /\ q[i][1] # t
               /\ (\A i, j \in 1..Len(q) : q[i] = q[j] => i = j) =>
                     \A k, l \in 1..Len(p) : p[k] = p[l] => k = l
               /\ \A i \in 1..Len(q) : q[i][1] # t => \E k \in 1..Len(p) : p[k] = q[i]
               /\ q # <<>> /\ q[1][1] # t => p[1] = q[1]
    <3> WITNESS Without(q, t)
    <3> QED BY WithoutFacts, Zenon
  <2>5. PICK p : /\ p = Without(q, t)
                 /\ p \in Seq(Place)
                 /\ \A k \in 1..Len(p) : \E i \in 1..Len(q) : p[k] = q[i] /\ q[i][1] # t
                 /\ (\A i, j \in 1..Len(q) : q[i] = q[j] => i = j) =>
                       \A k, l \in 1..Len(p) : p[k] = p[l] => k = l
                 /\ \A i \in 1..Len(q) : q[i][1] # t => \E k \in 1..Len(p) : p[k] = q[i]
                 /\ q # <<>> /\ q[1][1] # t => p[1] = q[1]
    BY <2>3, Zenon
  <2>4. lane'[s] = p
    BY <1>2, <2>2, <2>5
  <2>6. \A i, j \in 1..Len(q) : q[i] = q[j] => i = j
    BY <2>2, PlaceParts
  <2>7. ASSUME NEW i \in 1..Len(q), q[i][1] # t
        PROVE  \E k \in 1..Len(p) : p[k] = q[i] /\ (i = 1 => k = 1)
    <3>1. PICK k \in 1..Len(p) : p[k] = q[i]
      BY <2>5, <2>7
    <3>2. Len(p) \in Nat /\ Len(q) \in Nat
      BY <2>5
    <3>3. 1 \in 1..Len(p) /\ q # <<>>
      BY <3>2
    <3>4. i = 1 => p[1] = q[i]
      BY <2>5, <2>7, <3>3
    <3> QED BY <3>1, <3>3, <3>4
  <2>8. lane'[s] \in Seq(Tasks \X Nat)
    BY <2>4, <2>5 DEF Place
  <2>9. \A k \in 1..Len(p) : \E i \in 1..Len(q) : p[k] = q[i] /\ q[i][1] \notin T
    BY <1>3, <2>5
  <2>10. \A i \in 1..Len(q) : q[i][1] \notin T => \E k \in 1..Len(p) : p[k] = q[i] /\ (i = 1 => k = 1)
    BY <1>3, <2>7
  <2>11. \A k, l \in 1..Len(p) : p[k] = p[l] => k = l
    BY <2>5, <2>6
  <2>12. \A k \in 1..Len(lane'[s]) :
           \E i \in 1..Len(lane[s]) : lane'[s][k] = lane[s][i] /\ lane[s][i][1] \notin T
    <3>1. \A k \in 1..Len(p) :
            \E i \in 1..Len(lane[s]) : p[k] = lane[s][i] /\ lane[s][i][1] \notin T
      BY <2>2, <2>9, Zenon
    <3> QED BY <2>4, <3>1, Zenon
  <2>13. \A k, j \in 1..Len(lane'[s]) : lane'[s][k] = lane'[s][j] => k = j
    BY <2>4, <2>11, Zenon
  <2>14. \A i \in 1..Len(lane[s]) :
           lane[s][i][1] \notin T =>
             \E k \in 1..Len(lane'[s]) : lane'[s][k] = lane[s][i] /\ (i = 1 => k = 1)
    BY <2>2, <2>4, <2>10, Zenon
  <2> QED BY <2>8, <2>12, <2>13, <2>14, Zenon
<1>6. lane' \in [Sessions -> Seq(Tasks \X Nat)]
  BY <1>2, <1>5
<1>7. RunInvariant'
  BY <1>2, <1>3, <1>4, <1>6, DropKeeps
<1>8. \A s \in Sessions : \A k \in 1..Len(lane'[s]) :
        \E i \in 1..Len(lane[s]) : lane'[s][k] = lane[s][i] /\ lane[s][i][1] \notin T
  BY <1>5, Zenon
<1>9. \A s \in Sessions : \A k, j \in 1..Len(lane'[s]) : lane'[s][k] = lane'[s][j] => k = j
  BY <1>5, Zenon
<1>10. \A s \in Sessions : \A i \in 1..Len(lane[s]) :
         lane[s][i][1] \notin T =>
           \E k \in 1..Len(lane'[s]) : lane'[s][k] = lane[s][i] /\ (i = 1 => k = 1)
  BY <1>5, Zenon
<1>11. LaneInvariant'
  BY <1>1, <1>4, <1>6, <1>8, <1>9, <1>10, LaneDrop, Zenon
<1> QED BY <1>7, <1>11

\* The gateway crashes: tasks and lanes are gone.
LEMMA CrashCorrect ==
  ASSUME RunInvariant, LaneInvariant, Crash
  PROVE  RunInvariant' /\ LaneInvariant'
<1>1. TypeOK
  BY DEF RunInvariant
<1>2. /\ faults < MaxFaults /\ faults' = faults + 1 /\ orphan' = orphan \cup Lost(Tasks)
      /\ lane' = [s \in Sessions |-> <<>>] /\ task' = [u \in Tasks |-> <<>>]
      /\ UNCHANGED <<user, replies, run, approval, sent, resumes, unheard>>
  BY DEF Crash
<1>3. PICK T \in SUBSET Tasks : T = Tasks
  OBVIOUS
<1>4. task' = [u \in Tasks |-> IF u \in T THEN <<>> ELSE task[u]]
  BY <1>2, <1>3
<1>5. \A s \in Sessions : lane'[s] = <<>> /\ Len(lane'[s]) = 0 /\ lane'[s] \in Seq(Tasks \X Nat)
  BY <1>2
<1>6. lane' \in [Sessions -> Seq(Tasks \X Nat)]
  BY <1>2, <1>5
<1>7. \A s \in Sessions : 1..Len(lane'[s]) = {}
  BY <1>5
<1>8. ASSUME NEW s \in Sessions, NEW i \in 1..Len(lane[s])
      PROVE  ~(lane[s][i][1] \notin T)
  <2>1. PICK u \in Tasks : \E d \in 1..Len(task[u]) : lane[s][i] = Spot(u, d)
    BY PlaceParts
  <2> QED BY <1>3, <2>1, SpotFacts
<1>9. RunInvariant'
  BY <1>2, <1>3, <1>4, <1>6, DropKeeps
<1>10. LaneInvariant'
  BY <1>1, <1>4, <1>6, <1>7, <1>8, LaneDrop
<1> QED BY <1>9, <1>10

-----------------------------------------------------------------------------
(* The invariants are inductive. *)

\* Before the first request there are neither frames nor places.
LEMMA RunsInit ==
  ASSUME Init
  PROVE  RunInvariant /\ LaneInvariant
<1> USE BoundsAssumption DEF Init
<1>1. TypeOK
  BY DEF TypeOK
<1>2. \A t \in Tasks : Len(task[t]) = 0 /\ 1..Depth(t) = {}
  BY DEF Depth
<1>3. Len(run) = 0 /\ 1..Len(run) = {}
  OBVIOUS
<1>4. Creating = {}
  BY DEF Creating, At, Idle
<1>5. BudgetOk
  BY <1>3, <1>4, FS_EmptySet DEF BudgetOk
<1>6. Heard /\ sent = {}
  BY DEF Heard
<1>7. \A s \in Sessions : 1..Len(lane[s]) = {}
  OBVIOUS
<1>8. RunInvariant
  BY <1>1, <1>2, <1>3, <1>5, <1>6 DEF RunInvariant
<1>9. LaneInvariant
  BY <1>2, <1>7 DEF LaneInvariant
<1> QED BY <1>8, <1>9

\* Every step keeps both invariants, one action at a time.
LEMMA RunsStep ==
  ASSUME RunInvariant, LaneInvariant, [Next]_vars
  PROVE  RunInvariant' /\ LaneInvariant'
<1>1. ASSUME NEW t \in Tasks, Begin(t)
      PROVE  RunInvariant' /\ LaneInvariant'
  <2>1. ASSUME NEW s \in Sessions, CreateRun(t, s) PROVE RunInvariant' /\ LaneInvariant'
    BY <2>1, CreateRunKeeps, CreateRunLanes
  <2>2. ASSUME NEW s \in Sessions, NEW ask \in Inputs, NEW kind \in {"channel", "card"},
               IngestMessage(t, kind, s, ask)
        PROVE  RunInvariant' /\ LaneInvariant'
    BY <2>2, IngestMessageKeeps, BeginLanes
  <2>3. ASSUME NEW r \in DOMAIN run, ResumeRun(t, r) PROVE RunInvariant' /\ LaneInvariant'
    BY <2>3, ResumeRunKeeps, BeginLanes
  <2> QED BY <1>1, <2>1, <2>2, <2>3 DEF Begin
<1>2. ASSUME NEW t \in Tasks, Step(t)
      PROVE  RunInvariant' /\ LaneInvariant'
  <2>1. CASE CreateRow(t)
    BY <2>1, CreateRowKeeps, CreateRowLanes
  <2>2. CASE EnterLane(t)
    BY <2>2, EnterLaneKeeps, EnterLaneLanes
  <2>3. CASE LaneBusy(t)
    BY <2>3, LaneBusyKeeps, LaneBusyLanes
  <2>4. CASE Start(t)
    BY <2>4, StartKeeps, StartLanes
  <2>5. CASE ReadInput(t)
    BY <2>5, ReadInputKeeps, ExecutionLanes
  <2>6. CASE DispatchTool(t)
    BY <2>6, DispatchToolKeeps, ExecutionLanes
  <2>7. CASE BlockTool(t)
    BY <2>7, BlockToolKeeps, ExecutionLanes
  <2>8. CASE EndTool(t)
    BY <2>8, EndToolKeeps, ExecutionLanes
  <2>9. ASSUME NEW ask \in Inputs, AssignWorker(t, ask) PROVE RunInvariant' /\ LaneInvariant'
    BY <2>9, AssignWorkerKeeps, AssignWorkerLanes
  <2>10. CASE ModelAnswers(t)
    BY <2>10, ModelAnswersKeeps, ExecutionLanes
  <2>11. ASSUME NEW w \in DOMAIN Worker, ModelAssigns(t, w) PROVE RunInvariant' /\ LaneInvariant'
    BY <2>11, ModelAssignsKeeps, ExecutionLanes
  <2>12. CASE Error(t)
    BY <2>12, ErrorKeeps, ExecutionLanes
  <2>13. CASE Finish(t)
    BY <2>13, FinishKeeps, ExecutionLanes
  <2>14. CASE MarkFailed(t)
    BY <2>14, MarkFailedKeeps, ExecutionLanes
  <2>15. CASE Release(t)
    BY <2>15, ReleaseKeeps, ReleaseLanes
  <2>16. CASE Deliver(t)
    BY <2>16, DeliverKeeps, DeliverLanes
  <2>17. CASE SkipAssignment(t)
    BY <2>17, SkipAssignmentKeeps, ExecutionLanes
  <2> QED BY <1>2, <2>1, <2>2, <2>3, <2>4, <2>5, <2>6, <2>7, <2>8, <2>9, <2>10, <2>11, <2>12,
             <2>13, <2>14, <2>15, <2>16, <2>17 DEF Step
<1>3. ASSUME NEW t \in Tasks, MarkFailedFails(t)
      PROVE  RunInvariant' /\ LaneInvariant'
  BY <1>3, MarkFailedFailsKeeps, MarkFailedFailsLanes
<1>4. ASSUME NEW t \in Tasks, Drop(t)
      PROVE  RunInvariant' /\ LaneInvariant'
  BY <1>4, DropCorrect
<1>5. ASSUME NEW s \in Sessions, NEW ask \in Inputs, CreateMessage(s, ask)
      PROVE  RunInvariant' /\ LaneInvariant'
  BY <1>5, CreateMessageKeeps, StoreLanes DEF CreateMessage
<1>6. ASSUME NEW r \in DOMAIN run, NEW g \in Gated, NEW v \in {"approved", "denied"},
             ResolveApproval(r, g, v)
      PROVE  RunInvariant' /\ LaneInvariant'
  BY <1>6, ResolveApprovalKeeps, StoreLanes DEF ResolveApproval
<1>7. ASSUME Crash
      PROVE  RunInvariant' /\ LaneInvariant'
  BY <1>7, CrashCorrect
<1>8. ASSUME UNCHANGED vars
      PROVE  RunInvariant' /\ LaneInvariant'
  <2>1. UNCHANGED <<user, replies, run, approval, lane, task, sent, ghosts>>
    BY <1>8 DEF vars
  <2>2. TypeOK
    BY DEF RunInvariant
  <2>3. /\ user' \in [Sessions -> Seq(Inputs)]
        /\ approval' \in [RunIds -> [Gated -> {"none", "requested", "approved", "denied"}]]
    BY <2>1, <2>2 DEF TypeOK
  <2> QED BY <2>1, <2>3, StoreKeeps, StoreLanes
<1> QED BY <1>1, <1>2, <1>3, <1>4, <1>5, <1>6, <1>7, <1>8 DEF Next

-----------------------------------------------------------------------------
(* The properties. *)

\* A frame of the properties, by its depth.
LEMMA FrameDepth ==
  ASSUME TypeOK, NEW f \in Frames
  PROVE  \E t \in Tasks : \E d \in 1..Len(task[t]) :
           f = Spot(t, Len(task[t]) + 1 - d) /\ FrameAt(f) = Level(task[t], d)
<1>1. PICK t \in Tasks : \E i \in DOMAIN task[t] : f = Spot(t, i)
  BY DEF Frames, Spot
<1>2. task[t] \in Seq(Frame)
  BY DEF TypeOK
<1>3. PICK n \in Nat : n = Len(task[t])
  BY <1>2, LevelFacts
<1>4. DOMAIN task[t] = 1..n
  BY <1>2, <1>3
<1>5. PICK i \in 1..n : f = Spot(t, i)
  BY <1>1, <1>4
<1>6. n + 1 - i \in 1..n /\ n + 1 - (n + 1 - i) = i
  OBVIOUS
<1>7. FrameAt(f) = task[t][i]
  BY <1>5 DEF FrameAt, Spot
<1>8. task[t][i] = Level(task[t], n + 1 - i)
  BY <1>3, <1>6 DEF Level
<1> QED BY <1>3, <1>5, <1>6, <1>7, <1>8

\* The frame at a depth is a frame of the properties.
LEMMA DepthFrame ==
  ASSUME TypeOK, NEW t \in Tasks, NEW d \in 1..Len(task[t])
  PROVE  \E f \in Frames : /\ FrameAt(f) = Level(task[t], d)
                            /\ f[1] = t /\ Len(task[t]) + 1 - f[2] = d
<1>1. task[t] \in Seq(Frame)
  BY DEF TypeOK
<1>2. PICK n \in Nat : n = Len(task[t])
  BY <1>1, LevelFacts
<1>3. DOMAIN task[t] = 1..n /\ n + 1 - d \in 1..n
  BY <1>1, <1>2
<1>4. PICK i \in DOMAIN task[t] : i = n + 1 - d
  BY <1>3
<1>5. Spot(t, i) \in Frames
  BY DEF Frames, Spot
<1>6. FrameAt(Spot(t, i)) = task[t][i]
  BY DEF FrameAt, Spot
<1>7. task[t][i] = Level(task[t], d)
  BY <1>2, <1>4 DEF Level
<1>8. PICK f \in Frames : f = Spot(t, i)
  BY <1>5
<1>9. f[1] = t /\ f[2] = i /\ n + 1 - i = d
  <2>1. f[1] = t /\ f[2] = i
    BY <1>8 DEF Spot
  <2>2. n + 1 - i = d
    BY <1>2, <1>4
  <2> QED BY <2>1, <2>2
<1> QED BY <1>2, <1>6, <1>7, <1>8, <1>9

\* The runs of sessions keep their shape, every frame has its row and its
\* claim on the lane, every row its executor or its answer, and every place
\* in a lane is a frame's, in every reachable state.
THEOREM RunsCorrect == Spec => [](RunInvariant /\ LaneInvariant)
BY RunsInit, RunsStep, PTL DEF Spec

\* The rows, the stacks, the lanes and the approvals have their types.
THEOREM RunsTyped == Spec => []TypeOK
<1>1. RunInvariant => TypeOK
  BY DEF RunInvariant
<1> QED BY <1>1, RunsCorrect, PTL

\* At most one run of a session executes at a time, whichever way the runs
\* were started, nested or resumed: who executes is at the head of the lane.
THEOREM OneExecutionCorrect == Spec => []OneExecutionPerSession
<1>1. ASSUME RunInvariant, LaneInvariant
      PROVE  OneExecutionPerSession
  <2>1. TypeOK
    BY <1>1 DEF RunInvariant
  <2>2. SUFFICES ASSUME NEW f \in Frames, NEW g \in Frames, Executes(f), Executes(g),
                        FrameAt(f).ses = FrameAt(g).ses
                 PROVE  f = g
    BY DEF OneExecutionPerSession
  <2>3. PICK t \in Tasks : \E d \in 1..Len(task[t]) :
               f = Spot(t, Len(task[t]) + 1 - d) /\ FrameAt(f) = Level(task[t], d)
    BY <2>1, FrameDepth
  <2>4. PICK d \in 1..Len(task[t]) :
               f = Spot(t, Len(task[t]) + 1 - d) /\ FrameAt(f) = Level(task[t], d)
    BY <2>3
  <2>5. PICK u \in Tasks : \E e \in 1..Len(task[u]) :
               g = Spot(u, Len(task[u]) + 1 - e) /\ FrameAt(g) = Level(task[u], e)
    BY <2>1, FrameDepth
  <2>6. PICK e \in 1..Len(task[u]) :
               g = Spot(u, Len(task[u]) + 1 - e) /\ FrameAt(g) = Level(task[u], e)
    BY <2>5
  <2>7. Holding(FrameAt(f)) /\ Holding(FrameAt(g))
    BY <2>2, QueuedFacts DEF Executes
  <2>8. lane[FrameAt(f).ses][1] = Spot(t, d)
    BY <1>1, <2>4, <2>7, HoldsParts
  <2>9. lane[FrameAt(g).ses][1] = Spot(u, e)
    BY <1>1, <2>6, <2>7, HoldsParts
  <2>10. t = u /\ d = e
    BY <2>2, <2>8, <2>9, SpotFacts
  <2> QED BY <2>4, <2>6, <2>10
<1> QED BY <1>1, RunsCorrect, PTL

\* A row that says running has a frame that executes it, unless a fault took
\* that frame away.
THEOREM RunningCorrect == Spec => []RunningIsExecuted
<1>1. ASSUME RunInvariant
      PROVE  RunningIsExecuted
  <2>1. TypeOK
    BY <1>1 DEF RunInvariant
  <2>2. DOMAIN run = 1..Len(run)
    BY <2>1 DEF TypeOK
  <2>3. SUFFICES ASSUME NEW r \in 1..Len(run), run[r].status = "running", r \notin orphan
                 PROVE  \E f \in Frames : FrameAt(f).run = r /\ FrameAt(f).pc \in Started
    BY <2>2 DEF RunningIsExecuted
  <2>4. \E t \in Tasks : \E d \in 1..Len(task[t]) : Executor(t, d, r)
    BY <1>1, <2>3 DEF RunInvariant, RowOk, Depth
  <2>5. PICK t \in Tasks : \E d \in 1..Len(task[t]) : Executor(t, d, r)
    BY <2>4
  <2>6. PICK d \in 1..Len(task[t]) : Executor(t, d, r)
    BY <2>5
  <2>7. PICK f \in Frames : FrameAt(f) = Level(task[t], d)
    BY <2>1, DepthFrame
  <2> QED BY <2>6, <2>7, ExecutorFacts
<1> QED BY <1>1, RunsCorrect, PTL

\* Every place at a lane is the only place of a frame that is alive, however
\* deep it is nested: no run leaves its lane behind, and none has it twice.
THEOREM NoLaneIsLeftCorrect == Spec => []NoLaneIsLeft
<1>1. ASSUME RunInvariant, LaneInvariant
      PROVE  NoLaneIsLeft
  <2>1. TypeOK
    BY <1>1 DEF RunInvariant
  <2>2. ASSUME NEW s \in Sessions
        PROVE  DOMAIN lane[s] = 1..Len(lane[s])
    <3> DEFINE Place == Tasks \X Nat
    <3>1. lane[s] \in Seq(Place)
      BY <2>1 DEF TypeOK
    <3> HIDE DEF Place
    <3> QED BY <3>1
  <2>3. ASSUME NEW s \in Sessions, NEW k \in 1..Len(lane[s])
        PROVE  \E f \in Frames :
                 /\ lane[s][k] = <<f[1], Len(task[f[1]]) + 1 - f[2]>>
                 /\ FrameAt(f).ses = s
                 /\ FrameAt(f).pc \in Executing \cup {"waiting", "create"}
    <3>1. PICK t \in Tasks : \E d \in 1..Len(task[t]) :
            lane[s][k] = Spot(t, d) /\ Level(task[t], d).ses = s /\ Queued(Level(task[t], d))
      BY <1>1, PlaceParts
    <3>2. PICK d \in 1..Len(task[t]) :
            lane[s][k] = Spot(t, d) /\ Level(task[t], d).ses = s /\ Queued(Level(task[t], d))
      BY <3>1
    <3>3. PICK f \in Frames : /\ FrameAt(f) = Level(task[t], d)
                              /\ f[1] = t /\ Len(task[t]) + 1 - f[2] = d
      BY <2>1, DepthFrame
    <3>4. lane[s][k] = <<f[1], Len(task[f[1]]) + 1 - f[2]>>
      BY <3>2, <3>3, Zenon DEF Spot
    <3>5. FrameAt(f).ses = s /\ Queued(FrameAt(f))
      BY <3>2, <3>3
    <3>6. FrameAt(f).pc \in Executing \cup {"waiting", "create"}
      BY <3>5 DEF Queued, Holding
    <3> QED BY <3>4, <3>5, <3>6
  <2>4. \A s \in Sessions : \A k, j \in 1..Len(lane[s]) : lane[s][j] = lane[s][k] => j = k
    BY <1>1, PlaceParts
  <2> QED BY <2>2, <2>3, <2>4 DEF NoLaneIsLeft
<1> QED BY <1>1, RunsCorrect, PTL

\* What is delivered for a run is its reply or a later one of its session.
THEOREM SentCorrect == Spec => []SentIsOwnOrLater
<1>1. ASSUME RunInvariant
      PROVE  SentIsOwnOrLater
  <2>1. TypeOK
    BY <1>1 DEF RunInvariant
  <2>2. ASSUME NEW x \in sent, NEW said, said = replies[run[x.run].ses]
        PROVE  \E i \in DOMAIN said : \E j \in i..Len(said) : said[i] = x.run /\ said[j] = x.reply
    <3>1. SentOk(x)
      BY <1>1 DEF RunInvariant
    <3>2. said \in Seq(RunIds)
      BY <2>1, <2>2, <3>1, RowFields DEF SentOk
    <3>3. PICK n \in Nat : n = Len(said) /\ DOMAIN said = 1..n
      BY <3>2
    <3>4. PICK i \in 1..n : \E j \in 1..n : i <= j /\ said[i] = x.run /\ said[j] = x.reply
      BY <2>2, <3>1, <3>3 DEF SentOk
    <3>5. PICK j \in 1..n : i <= j /\ said[i] = x.run /\ said[j] = x.reply
      BY <3>4
    <3>6. j \in i..n
      BY <3>5
    <3> QED BY <3>3, <3>5, <3>6
  <2> QED BY <2>2 DEF SentIsOwnOrLater
<1> QED BY <1>1, RunsCorrect, PTL

\* Who waits for a lane holds none: only a channel's run waits, and it is the
\* only frame of its task.
THEOREM NoHoldAndWaitCorrect == Spec => []NoHoldAndWait
<1>1. ASSUME RunInvariant, LaneInvariant
      PROVE  NoHoldAndWait
  <2>1. TypeOK
    BY <1>1 DEF RunInvariant
  <2>2. SUFFICES ASSUME NEW t \in Tasks, At(t, "waiting"), Head(lane[Top(t).ses]) # Ticket(t),
                        NEW s \in Sessions, lane[s] # <<>>, Head(lane[s])[1] = t
                 PROVE  FALSE
    BY DEF NoHoldAndWait
  <2>3. ~Idle(t) /\ Top(t).pc = "waiting"
    BY <2>2 DEF At
  <2>4. /\ task[t] \in Seq(Frame) /\ Len(task[t]) \in Nat \ {0}
        /\ Top(t) \in Frame /\ Top(t) = Level(task[t], Len(task[t]))
        /\ Len(task[t]) > 1 => Top(t).kind = "worker"
    BY <1>1, <2>3, TopFacts
  <2>5. PICK n \in Nat \ {0} : n = Len(task[t])
    BY <2>4
  <2>6. Ticket(t) = Spot(t, n)
    BY <2>5 DEF Ticket, Spot
  <2>7. \A z \in Sessions : lane[z] # <<>> =>
          Head(lane[z]) = lane[z][1] /\ 1 \in 1..Len(lane[z])
    <3> DEFINE Place == Tasks \X Nat
    <3>1. \A z \in Sessions : lane[z] \in Seq(Place)
      BY <2>1 DEF TypeOK
    <3> HIDE DEF Place
    <3> QED BY <3>1
  <2>8. Top(t).ses \in Sessions
    BY <2>4, FrameFields
  <2>9. n \in 1..Len(task[t])
    BY <2>5
  <2>10. \E k \in 1..Len(lane[Top(t).ses]) : lane[Top(t).ses][k] = Spot(t, n)
    BY <1>1, <2>3, <2>4, <2>5, <2>9, HoldsParts, QueuedFacts
  <2>11. lane[Top(t).ses] # <<>>
    BY <2>10
  <2>12. ~Holding(Top(t))
    <3>1. Holding(Top(t)) => lane[Top(t).ses][1] = Spot(t, n)
      BY <1>1, <2>4, <2>5, <2>9, HoldsParts
    <3> QED BY <2>2, <2>6, <2>7, <2>8, <2>11, <3>1
  <2>13. Top(t).kind = "channel"
    BY <2>3, <2>12, QueuedFacts DEF Waits
  <2>14. n = 1
    <3>1. "channel" # "worker"
      OBVIOUS
    <3>2. ~(n > 1)
      BY <2>4, <2>5, <2>13, <3>1
    <3> QED BY <3>2
  <2>15. 1 \in 1..Len(lane[s]) /\ lane[s][1][1] = t
    BY <2>2, <2>7
  <2>16. PICK u \in Tasks : \E d \in 1..Len(task[u]) :
                lane[s][1] = Spot(u, d) /\ Level(task[u], d).ses = s
    BY <1>1, <2>15, PlaceParts
  <2>17. PICK d \in 1..Len(task[u]) : lane[s][1] = Spot(u, d) /\ Level(task[u], d).ses = s
    BY <2>16
  <2>18. u = t
    BY <2>15, <2>17, SpotFacts
  <2>19. d = 1
    <3>1. d \in 1..n
      BY <2>5, <2>17, <2>18
    <3> QED BY <2>14, <3>1
  <2>20. Top(t).ses = s /\ lane[s][1] = Spot(t, n)
    BY <2>4, <2>5, <2>14, <2>17, <2>18, <2>19
  <2> QED BY <2>2, <2>6, <2>7, <2>8, <2>11, <2>20
<1> QED BY <1>1, RunsCorrect, PTL

\* Without a fault, a channel message that asked for a run and that nobody has
\* read has one on its way: its own, or one of its session about to read.
THEOREM UnheardCorrect == Spec => []UnheardHasARun
<1>1. ASSUME RunInvariant
      PROVE  UnheardHasARun
  <2>1. TypeOK /\ Heard
    BY <1>1 DEF RunInvariant
  <2>2. SUFFICES ASSUME faults = 0, NEW s \in unheard
                 PROVE  \E f \in Frames : Comes(FrameAt(f), s)
    BY DEF UnheardHasARun, Comes
  <2>3. PICK t \in Tasks : \E d \in 1..Len(task[t]) : Coming(t, d, s)
    BY <2>1, <2>2 DEF Heard, Depth
  <2>4. PICK d \in 1..Len(task[t]) : Coming(t, d, s)
    BY <2>3
  <2>5. PICK f \in Frames : FrameAt(f) = Level(task[t], d)
    BY <2>1, DepthFrame
  <2> QED BY <2>4, <2>5, ComingFacts
<1> QED BY <1>1, RunsCorrect, PTL
=============================================================================
