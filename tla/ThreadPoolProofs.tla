-------------------------- MODULE ThreadPoolProofs --------------------------
(***************************************************************************)
(* The parallel loops of the thread pool, for any number of workers, any   *)
(* sizes of loops and pools and any program of thread 0: as long as a      *)
(* group is handed out only when nobody refers to it any more, the pool    *)
(* keeps what ParallelFor promises.  (Without that it does not: what       *)
(* happens then is ReassignedGroupIsComplete of ThreadPool.)               *)
(***************************************************************************)
EXTENDS ThreadPool, FiniteSetTheorems, SequenceTheorems, TLAPS

-----------------------------------------------------------------------------
(***************************************************************************)
(* The frames of all stacks, by their places: thread and height.  Counted  *)
(* from the bottom a frame stays in its place until it is popped.          *)
(***************************************************************************)
Place == {x \in Threads \X (Nat \ {0}) : x[2] <= Len(stack[x[1]])}
FrameAt(x) == stack[x[1]][Len(stack[x[1]]) + 1 - x[2]]
TopOf(t) == <<t, Len(stack[t])>>

Stacks == stack \in [Threads -> Seq(Frames)]

LEMMA ThreadNumbers ==
    /\ NumWorkers \in Nat /\ NumWorkers > 0
    /\ 0 \in Threads /\ 0 \notin Workers /\ Workers \subseteq Threads
    /\ 1 \in Workers /\ NumWorkers \in Workers
    /\ \A w \in Workers : w \in Nat /\ (w < NumWorkers => w + 1 \in Workers)
  BY ThreadPoolAssumption DEF Threads, Workers

LEMMA PlaceOf ==
    ASSUME Stacks, NEW x \in Place
    PROVE  /\ x[1] \in Threads /\ x[2] \in Nat \ {0} /\ x = <<x[1], x[2]>>
           /\ x[2] <= Len(stack[x[1]])
           /\ FrameAt(x) \in Frames
  <1>1. /\ x[1] \in Threads /\ x[2] \in Nat \ {0} /\ x = <<x[1], x[2]>>
        /\ x[2] <= Len(stack[x[1]])
    BY DEF Place
  <1>2. stack[x[1]] \in Seq(Frames)
    BY <1>1 DEF Stacks
  <1>3. Len(stack[x[1]]) + 1 - x[2] \in 1..Len(stack[x[1]])
    BY <1>1, <1>2
  <1> QED  BY <1>1, <1>2, <1>3 DEF FrameAt

(* the places are the elements of the stacks *)
LEMMA PlacesAreFrames ==
    ASSUME Stacks, NEW t \in Threads, NEW k \in DOMAIN stack[t]
    PROVE  \E x \in Place : x[1] = t /\ FrameAt(x) = stack[t][k]
  <1>1. stack[t] \in Seq(Frames)
    BY DEF Stacks
  <1>2. k \in 1..Len(stack[t]) /\ Len(stack[t]) \in Nat
    BY <1>1
  <1> DEFINE d == Len(stack[t]) + 1 - k
  <1>3. d \in Nat \ {0} /\ d <= Len(stack[t]) /\ Len(stack[t]) + 1 - d = k
    BY <1>2
  <1> HIDE DEF d
  <1>4. <<t, d>> \in Place
    BY <1>3 DEF Place
  <1> QED  BY <1>3, <1>4 DEF FrameAt

LEMMA TopPlace ==
    ASSUME Stacks, NEW t \in Threads, stack[t] # <<>>
    PROVE  /\ TopOf(t) \in Place /\ TopOf(t)[1] = t
           /\ FrameAt(TopOf(t)) = Top(t) /\ Top(t) \in Frames
  <1>1. stack[t] \in Seq(Frames)
    BY DEF Stacks
  <1>2. Len(stack[t]) \in Nat \ {0}
    BY <1>1
  <1>3. TopOf(t) \in Place /\ TopOf(t)[1] = t /\ TopOf(t)[2] = Len(stack[t])
    BY <1>2 DEF TopOf, Place
  <1>4. Len(stack[t]) + 1 - Len(stack[t]) = 1
    BY <1>2
  <1>5. FrameAt(TopOf(t)) = stack[t][1]
    BY <1>3, <1>4 DEF FrameAt
  <1>6. Head(stack[t]) = stack[t][1] /\ stack[t][1] \in Frames
    BY <1>1, <1>2
  <1> QED  BY <1>3, <1>5, <1>6 DEF Top

(* what the operations on a stack do to the places *)
LEMMA GotoPlaces ==
    ASSUME Stacks, NEW t \in Threads, stack[t] # <<>>, NEW f \in Frames, Goto(t, f)
    PROVE  /\ Stacks'
           /\ Place' = Place
           /\ \A x \in Place : FrameAt(x)' = IF x = TopOf(t) THEN f ELSE FrameAt(x)
  <1>1. stack[t] \in Seq(Frames) /\ Len(stack[t]) \in Nat \ {0}
    BY DEF Stacks
  <1> DEFINE s == <<f>> \o Tail(stack[t])
  <1>2. /\ s \in Seq(Frames) /\ Len(s) = Len(stack[t]) /\ s[1] = f
        /\ \A k \in 2..Len(s) : s[k] = stack[t][k]
    BY <1>1
  <1>3. stack' = [stack EXCEPT ![t] = s]
    BY DEF Goto
  <1> HIDE DEF s
  <1>4. Stacks' /\ stack'[t] = s /\ \A u \in Threads \ {t} : stack'[u] = stack[u]
    BY <1>2, <1>3 DEF Stacks
  <1>5. Place' = Place
    BY <1>2, <1>4 DEF Place
  <1>6. ASSUME NEW x \in Place
        PROVE  FrameAt(x)' = IF x = TopOf(t) THEN f ELSE FrameAt(x)
    <2>1. /\ x[1] \in Threads /\ x[2] \in Nat \ {0} /\ x = <<x[1], x[2]>>
          /\ x[2] <= Len(stack[x[1]])
      BY PlaceOf
    <2>2. CASE x[1] # t
      BY <1>4, <2>1, <2>2 DEF FrameAt, TopOf
    <2>3. CASE x[1] = t /\ x[2] = Len(stack[t])
      <3>1. Len(s) + 1 - x[2] = 1
        BY <1>1, <1>2, <2>3
      <3>2. x = TopOf(t)
        BY <2>1, <2>3 DEF TopOf
      <3> QED  BY <1>2, <1>4, <2>3, <3>1, <3>2 DEF FrameAt
    <2>4. CASE x[1] = t /\ x[2] # Len(stack[t])
      <3>1. Len(s) + 1 - x[2] \in 2..Len(s)
        BY <1>1, <1>2, <2>1, <2>4
      <3>2. x # TopOf(t)
        BY <2>4 DEF TopOf
      <3> QED  BY <1>2, <1>4, <2>4, <3>1, <3>2 DEF FrameAt
    <2> QED  BY <2>2, <2>3, <2>4
  <1> QED  BY <1>4, <1>5, <1>6

LEMMA PushPlaces ==
    ASSUME Stacks, NEW t \in Threads, NEW f \in Frames, Push(t, f)
    PROVE  /\ Stacks'
           /\ \E y : /\ y \notin Place /\ y[1] = t /\ Place' = Place \union {y}
                     /\ FrameAt(y)' = f
                     /\ \A x \in Place : FrameAt(x)' = FrameAt(x)
  <1>1. stack[t] \in Seq(Frames) /\ Len(stack[t]) \in Nat
    BY DEF Stacks
  <1> DEFINE s == <<f>> \o stack[t]
  <1>2. /\ s \in Seq(Frames) /\ Len(s) = Len(stack[t]) + 1 /\ s[1] = f
        /\ \A k \in 1..Len(stack[t]) : s[k + 1] = stack[t][k]
    BY <1>1
  <1>3. stack' = [stack EXCEPT ![t] = s]
    BY DEF Push
  <1> HIDE DEF s
  <1>4. Stacks' /\ stack'[t] = s /\ \A u \in Threads \ {t} : stack'[u] = stack[u]
    BY <1>2, <1>3 DEF Stacks
  <1>5. PICK y : y = <<t, Len(stack[t]) + 1>>
    OBVIOUS
  <1>6. y \notin Place /\ y[1] = t /\ y[2] = Len(stack[t]) + 1
    BY <1>1, <1>5 DEF Place
  <1>7. Place' = Place \union {y}
    <2>1. ASSUME NEW x \in Place' PROVE x \in Place \union {y}
      <3>1. /\ x[1] \in Threads /\ x[2] \in Nat \ {0} /\ x = <<x[1], x[2]>>
            /\ x[2] <= Len(stack'[x[1]]) /\ x \in Threads \X (Nat \ {0})
        BY DEF Place
      <3>2. CASE x[1] # t
        BY <1>4, <3>1, <3>2 DEF Place
      <3>3. CASE x[1] = t
        <4>1. x[2] <= Len(stack[t]) \/ x[2] = Len(stack[t]) + 1
          BY <1>1, <1>2, <1>4, <3>1, <3>3
        <4>2. x[2] = Len(stack[t]) + 1 => x = y
          BY <1>5, <3>1, <3>3
        <4> QED  BY <3>1, <3>3, <4>1, <4>2 DEF Place
      <3> QED  BY <3>2, <3>3
    <2>2. ASSUME NEW x \in Place PROVE x \in Place'
      <3>1. /\ x \in Threads \X (Nat \ {0}) /\ x[1] \in Threads /\ x[2] \in Nat
            /\ x[2] <= Len(stack[x[1]])
        BY DEF Place
      <3>2. x[2] <= Len(stack'[x[1]])
        BY <1>1, <1>2, <1>4, <3>1
      <3> QED  BY <3>1, <3>2 DEF Place
    <2>3. y \in Place'
      BY <1>1, <1>2, <1>4, <1>5, <1>6 DEF Place
    <2> QED  BY <2>1, <2>2, <2>3
  <1>8. FrameAt(y)' = f
    <2>1. Len(s) + 1 - (Len(stack[t]) + 1) = 1
      BY <1>1, <1>2
    <2> QED  BY <1>2, <1>4, <1>6, <2>1 DEF FrameAt
  <1>9. ASSUME NEW x \in Place PROVE FrameAt(x)' = FrameAt(x)
    <2>1. /\ x[1] \in Threads /\ x[2] \in Nat \ {0}
          /\ x[2] <= Len(stack[x[1]])
      BY PlaceOf
    <2>2. CASE x[1] # t
      BY <1>4, <2>1, <2>2 DEF FrameAt
    <2>3. CASE x[1] = t
      <3>1. /\ Len(stack[t]) + 1 - x[2] \in 1..Len(stack[t])
            /\ Len(s) + 1 - x[2] = (Len(stack[t]) + 1 - x[2]) + 1
        <4>1. PICK n \in Nat, k \in Nat \ {0} :
                 Len(stack[t]) = n /\ x[2] = k /\ k <= n /\ Len(s) = n + 1
          BY <1>1, <1>2, <2>1, <2>3
        <4>2. n + 1 - k \in 1..n /\ n + 1 + 1 - k = (n + 1 - k) + 1
          BY <4>1
        <4> QED  BY ONLY <4>1, <4>2
      <3> QED  BY <1>2, <1>4, <2>3, <3>1 DEF FrameAt
    <2> QED  BY <2>2, <2>3
  <1> QED  BY <1>4, <1>6, <1>7, <1>8, <1>9

LEMMA PopPlaces ==
    ASSUME Stacks, NEW t \in Threads, stack[t] # <<>>, Pop(t)
    PROVE  /\ Stacks'
           /\ Place' = Place \ {TopOf(t)}
           /\ \A x \in Place \ {TopOf(t)} : FrameAt(x)' = FrameAt(x)
  <1>1. stack[t] \in Seq(Frames) /\ Len(stack[t]) \in Nat \ {0}
    BY DEF Stacks
  <1> DEFINE s == Tail(stack[t])
  <1>2. /\ s \in Seq(Frames) /\ Len(s) = Len(stack[t]) - 1
        /\ \A k \in 1..Len(s) : s[k] = stack[t][k + 1]
    BY <1>1
  <1>3. stack' = [stack EXCEPT ![t] = s]
    BY DEF Pop
  <1> HIDE DEF s
  <1>4. Stacks' /\ stack'[t] = s /\ \A u \in Threads \ {t} : stack'[u] = stack[u]
    BY <1>2, <1>3 DEF Stacks
  <1>5. Place' = Place \ {TopOf(t)}
    <2>1. ASSUME NEW x \in Threads \X (Nat \ {0})
          PROVE  x \in Place' <=> x \in Place \ {TopOf(t)}
      <3>1. x[1] \in Threads /\ x[2] \in Nat \ {0} /\ x = <<x[1], x[2]>>
        OBVIOUS
      <3>2. CASE x[1] # t
        BY <1>4, <3>1, <3>2 DEF Place, TopOf
      <3>3. CASE x[1] = t
        <4>1. x = TopOf(t) <=> x[2] = Len(stack[t])
          BY <3>1, <3>3 DEF TopOf
        <4>2. x[2] <= Len(s) <=> (x[2] <= Len(stack[t]) /\ x[2] # Len(stack[t]))
          BY <1>1, <1>2, <3>1
        <4> QED  BY <1>4, <3>3, <4>1, <4>2 DEF Place
      <3> QED  BY <3>2, <3>3
    <2> QED  BY <2>1 DEF Place
  <1>6. ASSUME NEW x \in Place \ {TopOf(t)} PROVE FrameAt(x)' = FrameAt(x)
    <2>1. /\ x[1] \in Threads /\ x[2] \in Nat \ {0} /\ x = <<x[1], x[2]>>
          /\ x[2] <= Len(stack[x[1]])
      BY PlaceOf
    <2>2. CASE x[1] # t
      BY <1>4, <2>1, <2>2 DEF FrameAt
    <2>3. CASE x[1] = t
      <3>1. x[2] # Len(stack[t])
        BY <2>1, <2>3 DEF TopOf
      <3>2. /\ Len(s) + 1 - x[2] \in 1..Len(s)
            /\ Len(stack[t]) + 1 - x[2] = (Len(s) + 1 - x[2]) + 1
        <4>1. PICK n \in Nat, k \in Nat \ {0} :
                 Len(stack[t]) = n /\ x[2] = k /\ k <= n /\ k # n /\ Len(s) = n - 1
          BY <1>1, <1>2, <2>1, <2>3, <3>1
        <4>2. (n - 1) + 1 - k \in 1..(n - 1) /\ n + 1 - k = ((n - 1) + 1 - k) + 1
          BY <4>1
        <4> QED  BY ONLY <4>1, <4>2
      <3> QED  BY <1>2, <1>4, <2>3, <3>2 DEF FrameAt
    <2> QED  BY <2>2, <2>3
  <1> QED  BY <1>4, <1>5, <1>6

-----------------------------------------------------------------------------
(* Calls, items, groups and the fields of frames.                          *)

LEMMA CallShape ==
    ASSUME NEW c \in Calls
    PROVE  /\ c # NoCall /\ Len(c) \in {1, 2}
           /\ Size(c) \in Nat \ {0}
           /\ PoolOf(c) \in {0, 1, 2}
  <1>1. c # NoCall /\ Len(c) \in {1, 2}
    <2>1. CASE c \in {<<k>> : k \in Steps}
      BY <2>1 DEF NoCall
    <2>2. CASE c \in Steps \X (0..(Outer - 1))
      <3>1. PICK k \in Steps, i \in 0..(Outer - 1) : c = <<k, i>>
        BY <2>2
      <3> QED  BY <3>1 DEF NoCall
    <2> QED  BY <2>1, <2>2 DEF Calls
  <1> QED  BY <1>1, ThreadPoolAssumption DEF Size, PoolOf

LEMMA ItemsOf ==
    ASSUME NEW c \in Calls
    PROVE  /\ Items(c) \subseteq AllItems
           /\ IsFiniteSet(Items(c)) /\ Cardinality(Items(c)) = Size(c)
           /\ \A w \in Items(c) : w[1] = c /\ w[2] \in 0..(Size(c) - 1) /\ w = <<c, w[2]>>
           /\ \A i \in 0..(Size(c) - 1) : <<c, i>> \in Items(c)
  <1>1. /\ Items(c) \subseteq AllItems
        /\ \A w \in Items(c) : w[1] = c /\ w[2] \in 0..(Size(c) - 1) /\ w = <<c, w[2]>>
        /\ \A i \in 0..(Size(c) - 1) : <<c, i>> \in Items(c)
    BY DEF Items, AllItems
  <1> DEFINE I == 0..(Size(c) - 1)
             f == [i \in I |-> <<c, i>>]
  <1>2. f \in Bijection(I, Items(c))
    <2>1. f \in [I -> Items(c)] /\ \A i, j \in I : f[i] = f[j] => i = j
      BY <1>1
    <2>2. \A w \in Items(c) : \E i \in I : f[i] = w
      BY <1>1
    <2> QED  BY <2>1, <2>2 DEF Bijection, Injection, Surjection, IsInjective
  <1>3. IsFiniteSet(I) /\ Cardinality(I) = Size(c)
    <2>1. 0 \in Int /\ Size(c) - 1 \in Int /\ 0 <= Size(c) - 1 + 1
      BY CallShape
    <2> QED  BY <2>1, FS_Interval, CallShape
  <1> HIDE DEF I, f
  <1>4. ExistsBijection(I, Items(c))
    BY <1>2 DEF ExistsBijection
  <1> QED  BY <1>1, <1>3, <1>4, FS_Bijection

LEMMA ItemOf ==
    ASSUME NEW w \in AllItems
    PROVE  /\ w[1] \in Calls /\ w \in Items(w[1])
           /\ w[2] \in 0..(Size(w[1]) - 1) /\ w = <<w[1], w[2]>>
  <1>1. PICK c \in Calls : w \in Items(c)
    BY DEF AllItems
  <1> QED  BY <1>1, ItemsOf

LEMMA ItemsApart ==
    ASSUME NEW c \in Calls, NEW d \in Calls, NEW w \in Items(c), w \in Items(d)
    PROVE  c = d
  BY ItemsOf

(* the call that the body of an item makes *)
LEMMA Pairs ==
    ASSUME NEW k, NEW i
    PROVE  Append(<<k>>, i) = <<k, i>>
  <1> DEFINE S == {k, i}
  <1>1. PICK s \in Seq(S) : s = <<k>> /\ Len(s) = 1 /\ s[1] = k
    <2>1. <<k>> \in Seq(S) /\ Len(<<k>>) = 1 /\ <<k>>[1] = k
      OBVIOUS
    <2> QED  BY <2>1, Zenon
  <1>2. PICK b \in Seq(S) : b = <<k, i>> /\ Len(b) = 2 /\ b[1] = k /\ b[2] = i
    <2>1. <<k, i>> \in Seq(S) /\ Len(<<k, i>>) = 2 /\ <<k, i>>[1] = k /\ <<k, i>>[2] = i
      OBVIOUS
    <2> QED  BY <2>1, Zenon
  <1>3. PICK a : a = Append(s, i)
    OBVIOUS
  <1>4. i \in S
    OBVIOUS
  <1> HIDE DEF S
  <1>5. /\ a \in Seq(S) /\ Len(a) = Len(s) + 1 /\ a[Len(s) + 1] = i
        /\ \A j \in 1..Len(s) : a[j] = s[j]
    BY <1>3, <1>4, AppendProperties
  <1>6. Len(a) = 2 /\ a[1] = k /\ a[2] = i
    BY <1>1, <1>5
  <1>7. \A j \in 1..Len(a) : a[j] = b[j]
    BY <1>2, <1>6
  <1>8. a = b
    BY <1>2, <1>5, <1>6, <1>7, SeqEqual
  <1> QED  BY <1>1, <1>2, <1>3, <1>8

LEMMA NestedCall ==
    ASSUME NEW w \in AllItems, Len(w[1]) = 1
    PROVE  /\ Nested(w) = <<w[1][1], w[2]>> /\ Nested(w) \in Calls /\ Len(Nested(w)) = 2
           /\ w[1] = <<w[1][1]>>
  <1>1. w[1] \in Calls /\ w[2] \in 0..(Outer - 1)
    BY ItemOf DEF Size
  <1>2. PICK k \in Steps : w[1] = <<k>>
    <2>1. \A c \in Steps \X (0..(Outer - 1)) : Len(c) = 2
      OBVIOUS
    <2> QED  BY <1>1, <2>1 DEF Calls
  <1>3. Append(<<k>>, w[2]) = <<k, w[2]>>
    BY Pairs
  <1>4. Nested(w) = <<k, w[2]>> /\ w[1][1] = k
    BY <1>2, <1>3 DEF Nested
  <1> QED  BY <1>1, <1>2, <1>4 DEF Calls

LEMMA NestedApart ==
    ASSUME NEW v \in AllItems, NEW w \in AllItems, Len(v[1]) = 1, Len(w[1]) = 1,
           Nested(v) = Nested(w)
    PROVE  v = w
  <1>1. <<v[1][1], v[2]>> = <<w[1][1], w[2]>>
    BY NestedCall
  <1>2. v[1][1] = w[1][1] /\ v[2] = w[2]
    BY <1>1
  <1>3. v[1] = w[1]
    BY <1>2, NestedCall
  <1> QED  BY <1>2, <1>3, ItemOf

LEMMA NextGroupType ==
    ASSUME pos \in [{0, 1, 2} -> Nat], NEW c \in Calls
    PROVE  NextGroup(c) \in Groups
  <1>1. PoolOf(c) \in {0, 1, 2} /\ pos[PoolOf(c)] \in Nat
    BY CallShape
  <1>2. PoolSize \in Nat /\ PoolSize > 0
    BY ThreadPoolAssumption
  <1>3. \A n \in Nat : n % PoolSize \in 0..(PoolSize - 1)
    BY <1>2
  <1> QED  BY <1>1, <1>3 DEF NextGroup, Groups

LEMMA GroupShape == NoGroup \notin Groups
  BY DEF NoGroup, Groups

-----------------------------------------------------------------------------
(***************************************************************************)
(* The inductive invariant.  A frame enters a group while it writes the    *)
(* group's counters and fields, it owns the group until the call returns,  *)
(* and it works on an index that it has claimed.                           *)
(***************************************************************************)
FuncOf(g) == group[g].func
Entering(f) == f.at \in {"counters", "fields"}
Owner(f) == f.at \in {"counters", "fields", "push"} \/ f.wff = TRUE
Working(f) == f.at \in {"body", "done"}
BeingSetUp(g) == \E x \in Place : Entering(FrameAt(x)) /\ FrameAt(x).g = g
UnderWay(c) == c \in Called /\ c \notin returned
ItemAt(f) == <<FuncOf(f.g), f.i>>

FrameRight(f) ==
    /\ f.at = "drain" => f.g = NoGroup /\ f.wff = FALSE
    /\ f.at # "drain" => f.g \in Groups
    /\ f.at \in {"counters", "fields", "push"} =>
           f.c \in Calls /\ f.i \in Workers /\ f.wff = FALSE
    /\ f.at = "check" => f.wff = TRUE
    /\ f.at = "reschedule" => f.wff = FALSE
    /\ f.at \notin {"drain", "counters", "fields"} => FuncOf(f.g) # NoCall
    /\ f.at = "push" => FuncOf(f.g) = f.c
FramesRight == \A x \in Place : FrameRight(FrameAt(x))

(* nobody else can reach a group that is being set up *)
SetUpAlone ==
    /\ \A x, y \in Place :
           Entering(FrameAt(x)) /\ FrameAt(x).g = FrameAt(y).g => x = y
    /\ \A w \in Workers : \A k \in DOMAIN queue[w] : ~BeingSetUp(queue[w][k].g)
    /\ ~BeingSetUp(held)

QueuesFilled ==
    \A w \in Workers : \A k \in DOMAIN queue[w] : FuncOf(queue[w][k].g) # NoCall
HeldRight ==
    held # NoGroup => held[1] = 0 /\ FuncOf(held) # NoCall /\ UnderWay(FuncOf(held))

(* each call that is under way is waited for by one frame *)
OneOwner ==
    /\ \A x, y \in Place :
           Owner(FrameAt(x)) /\ Owner(FrameAt(y)) /\ FrameAt(x).g = FrameAt(y).g => x = y
    /\ \A x \in Place : Owner(FrameAt(x)) /\ FrameAt(x).g[1] = 0 => x[1] = 0
    /\ \A x \in Place :
           Owner(FrameAt(x)) /\ ~Entering(FrameAt(x)) => UnderWay(FuncOf(FrameAt(x).g))

(* no two groups, and no two frames that enter one, have the same call *)
CallsApart ==
    /\ \A g, h \in Groups : FuncOf(g) = FuncOf(h) /\ FuncOf(g) # NoCall => g = h
    /\ \A g \in Groups : FuncOf(g) # NoCall => FuncOf(g) \in Called
    /\ \A x \in Place : Entering(FrameAt(x)) =>
           /\ UnderWay(FrameAt(x).c)
           /\ \A g \in Groups : FuncOf(g) # FrameAt(x).c
           /\ \A w \in Items(FrameAt(x).c) : begun[w] = 0
    /\ \A x, y \in Place :
           Entering(FrameAt(x)) /\ Entering(FrameAt(y)) /\ FrameAt(x).c = FrameAt(y).c => x = y

CountersRight ==
    /\ \A g \in Groups : FuncOf(g) # NoCall /\ ~BeingSetUp(g) =>
           /\ group[g].remaining = Cardinality(Items(FuncOf(g)) \ ended)
           /\ \A w \in Items(FuncOf(g)) : w[2] >= group[g].ctr => begun[w] = 0
    /\ \A x \in Place : FrameAt(x).at = "fields" =>
           /\ group[FrameAt(x).g].ctr = 0
           /\ group[FrameAt(x).g].remaining = Size(FrameAt(x).c)

(* an index that is claimed and not done is claimed by one frame *)
ClaimsRight ==
    /\ \A x \in Place : Working(FrameAt(x)) =>
           /\ FrameAt(x).i < group[FrameAt(x).g].ctr
           /\ ItemAt(FrameAt(x)) \in AllItems /\ ItemAt(FrameAt(x)) \notin ended
    /\ \A x \in Place : FrameAt(x).at = "body" => begun[ItemAt(FrameAt(x))] = 0
    /\ \A x \in Place : FrameAt(x).at = "done" =>
           FrameAt(x).c = FuncOf(FrameAt(x).g) /\ begun[ItemAt(FrameAt(x))] = 1
    /\ \A x, y \in Place :
           /\ Working(FrameAt(x)) /\ Working(FrameAt(y))
           /\ FrameAt(x).g = FrameAt(y).g /\ FrameAt(x).i = FrameAt(y).i
           => x = y

HistoryRight ==
    /\ \A w \in AllItems : begun[w] \in {0, 1}
    /\ \A w \in AllItems : begun[w] = 1 => w[1] \in Called
    /\ \A w \in ended : begun[w] = 1
    /\ \A c \in returned : c \in Called /\ Items(c) \subseteq ended

LInv ==
    /\ FramesRight /\ SetUpAlone /\ QueuesFilled /\ HeldRight /\ OneOwner
    /\ CallsApart /\ CountersRight /\ ClaimsRight /\ HistoryRight

-----------------------------------------------------------------------------
(* A step of a thread leaves all frames but one of them as they are.       *)
Moved(y, f) ==
    /\ \A x \in Place : x # y => x \in Place'
    /\ \A x \in Place' :
           IF x = y THEN FrameAt(x)' = f ELSE x \in Place /\ FrameAt(x)' = FrameAt(x)

LEMMA GotoMoves ==
    ASSUME Stacks, NEW t \in Threads, stack[t] # <<>>, NEW f \in Frames, Goto(t, f)
    PROVE  Stacks' /\ Moved(TopOf(t), f) /\ Place' = Place
  BY GotoPlaces DEF Moved

LEMMA PushMoves ==
    ASSUME Stacks, NEW t \in Threads, NEW f \in Frames, Push(t, f)
    PROVE  Stacks' /\ \E y : y \notin Place /\ y[1] = t /\ Moved(y, f)
  <1>1. PICK y : /\ y \notin Place /\ y[1] = t /\ Place' = Place \union {y}
                 /\ FrameAt(y)' = f
                 /\ \A x \in Place : FrameAt(x)' = FrameAt(x)
    BY PushPlaces
  <1>2. Moved(y, f)
    BY <1>1 DEF Moved
  <1> QED  BY <1>1, <1>2, PushPlaces

LEMMA PopMoves ==
    ASSUME Stacks, NEW t \in Threads, stack[t] # <<>>, Pop(t), NEW f
    PROVE  Stacks' /\ Moved(TopOf(t), f) /\ TopOf(t) \notin Place'
  <1>1. Place' = Place \ {TopOf(t)}
    BY PopPlaces
  <1> QED  BY <1>1, PopPlaces DEF Moved

LEMMA CalledSame ==
    ASSUME program' = program, step' = step, begun' = begun
    PROVE  Called' = Called
  BY DEF Called, Nests

LEMMA FramesTyped ==
    ASSUME Stacks
    PROVE  \A x \in Place : FrameAt(x) \in Frames
  BY PlaceOf

(***************************************************************************)
(* Steps that begin, end and claim nothing: a frame moves that neither     *)
(* enters a group nor works on an index, before the step and after it.     *)
(***************************************************************************)
Unmoved ==
    /\ \A g \in Groups : /\ group'[g].func = group[g].func
                         /\ group'[g].ctr = group[g].ctr
                         /\ group'[g].remaining = group[g].remaining
    /\ begun' = begun /\ ended' = ended /\ returned' = returned /\ Called' = Called

Settled(y, f) ==
    /\ FrameRight(f) /\ ~Entering(f) /\ ~Working(f)
    /\ ~BeingSetUp(f.g)
    /\ Owner(f) =>
           /\ \A x \in Place : x # y /\ Owner(FrameAt(x)) => FrameAt(x).g # f.g
           /\ f.g[1] = 0 => y[1] = 0
           /\ UnderWay(FuncOf(f.g))

QueuesKept ==
    \A w \in Workers : \A k \in DOMAIN queue'[w] :
        /\ queue'[w][k].g \in Groups
        /\ FuncOf(queue'[w][k].g) # NoCall
        /\ ~BeingSetUp(queue'[w][k].g)
HeldKept ==
    \/ held' = held \/ held' = NoGroup
    \/ /\ held' \in Groups /\ held'[1] = 0 /\ FuncOf(held') # NoCall
       /\ UnderWay(FuncOf(held')) /\ ~BeingSetUp(held')

LEMMA FramesMove ==
    ASSUME TypeOK, LInv, Unmoved, Stacks', NEW y, NEW f, Moved(y, f),
           y \in Place => ~Entering(FrameAt(y)),
           y \in Place' => f \in Frames /\ Settled(y, f),
           QueuesKept, HeldKept
    PROVE  LInv'
  <1>0. Stacks
    BY DEF TypeOK, Stacks
  <1>1. \A x \in Place : FrameAt(x) \in Frames
    BY <1>0, FramesTyped
  <1>2. \A x \in Place' : x # y => x \in Place /\ FrameAt(x)' = FrameAt(x)
    BY DEF Moved
  <1>3. \A x \in Place' : x = y => FrameAt(x)' = f
    BY DEF Moved
  <1>4. \A x \in Place : x # y => x \in Place'
    BY DEF Moved
  <1>5. \A x \in Place : Entering(FrameAt(x)) => x # y
    OBVIOUS
  <1>6. ASSUME NEW x \in Place', Entering(FrameAt(x)')
        PROVE  x # y /\ x \in Place /\ FrameAt(x)' = FrameAt(x)
    BY <1>2, <1>3, <1>6 DEF Settled
  <1>7. \A g : BeingSetUp(g)' <=> BeingSetUp(g)
    BY <1>2, <1>4, <1>5, <1>6 DEF BeingSetUp, Entering
  <1>8. FramesRight'
    <2> SUFFICES ASSUME NEW x \in Place' PROVE FrameRight(FrameAt(x))'
      BY DEF FramesRight
    <2>1. CASE x = y
      BY <2>1, <1>3, <1>1 DEF Settled, FrameRight, FuncOf, Unmoved
    <2>2. CASE x # y
      BY <2>2, <1>2, <1>1 DEF LInv, FramesRight, FrameRight, FuncOf, Unmoved
    <2> QED  BY <2>1, <2>2
  <1>9. SetUpAlone'
    <2>1. \A x, z \in Place' :
              Entering(FrameAt(x)') /\ FrameAt(x)'.g = FrameAt(z)'.g => x = z
      <3> SUFFICES ASSUME NEW x \in Place', NEW z \in Place', x # z,
                          Entering(FrameAt(x)'), FrameAt(x)'.g = FrameAt(z)'.g
                   PROVE  FALSE
        OBVIOUS
      <3>1. /\ x # y /\ x \in Place /\ Entering(FrameAt(x))
            /\ FrameAt(x)'.g = FrameAt(x).g
        BY <1>6
      <3>2. CASE z = y
        <4>1. FrameAt(z)' = f /\ ~BeingSetUp(f.g)
          BY <1>3, <3>2 DEF Settled
        <4> QED  BY <3>1, <4>1 DEF BeingSetUp
      <3>3. CASE z # y
        BY <1>2, <3>1, <3>3 DEF LInv, SetUpAlone
      <3> QED  BY <3>2, <3>3
    <2>2. \A w \in Workers : \A k \in DOMAIN queue'[w] : ~BeingSetUp(queue[w][k].g)'
      BY <1>7 DEF QueuesKept
    <2>3. ~BeingSetUp(held)'
      <3>1. ~BeingSetUp(NoGroup)
        <4>1. \A x \in Place : Entering(FrameAt(x)) => FrameAt(x).g \in Groups
          BY <1>1 DEF LInv, FramesRight, FrameRight, Entering
        <4> QED  BY <4>1, GroupShape DEF BeingSetUp
      <3> QED  BY <3>1, <1>7 DEF HeldKept, LInv, SetUpAlone
    <2> QED  BY <2>1, <2>2, <2>3 DEF SetUpAlone, Entering
  <1>10. QueuesFilled'
    BY DEF QueuesKept, QueuesFilled, Unmoved, FuncOf
  <1>11. HeldRight'
    <2>1. held \in Groups \union {NoGroup}
      BY DEF TypeOK
    <2> QED  BY <2>1 DEF HeldKept, LInv, HeldRight, Unmoved, FuncOf, UnderWay
  <1>12. OneOwner'
    <2>1. \A x, z \in Place' :
              Owner(FrameAt(x)') /\ Owner(FrameAt(z)') /\ FrameAt(x)'.g = FrameAt(z)'.g
              => x = z
      BY <1>2, <1>3 DEF LInv, OneOwner, Settled
    <2>2. \A x \in Place' : Owner(FrameAt(x)') /\ FrameAt(x)'.g[1] = 0 => x[1] = 0
      BY <1>2, <1>3 DEF LInv, OneOwner, Settled
    <2>3. \A x \in Place' : Owner(FrameAt(x)') /\ ~Entering(FrameAt(x)')
              => UnderWay(FuncOf(FrameAt(x).g))'
      <3>1. \A x \in Place' : Owner(FrameAt(x)') /\ ~Entering(FrameAt(x)')
                => UnderWay(group[FrameAt(x)'.g].func) /\ FrameAt(x)'.g \in Groups
        <4>1. \A x \in Place' : Owner(FrameAt(x)') => FrameAt(x)'.g \in Groups
          BY <1>2, <1>3, <1>1 DEF Settled, FrameRight, Owner, LInv, FramesRight
        <4>2. \A x \in Place' : Owner(FrameAt(x)') /\ ~Entering(FrameAt(x)')
                => UnderWay(group[FrameAt(x)'.g].func)
          BY <1>2, <1>3 DEF Settled, LInv, OneOwner, FuncOf
        <4> QED  BY <4>1, <4>2
      <3> QED  BY <3>1 DEF UnderWay, FuncOf, Unmoved
    <2> QED  BY <2>1, <2>2, <2>3 DEF OneOwner, Owner, Entering
  <1>13. CallsApart'
    <2>1. \A g, h \in Groups : FuncOf(g)' = FuncOf(h)' /\ FuncOf(g)' # NoCall => g = h
      BY DEF LInv, CallsApart, Unmoved, FuncOf
    <2>2. \A g \in Groups : FuncOf(g)' # NoCall => FuncOf(g)' \in Called'
      BY DEF LInv, CallsApart, Unmoved, FuncOf
    <2>3. \A x \in Place' : Entering(FrameAt(x)') =>
              /\ UnderWay(FrameAt(x).c)'
              /\ \A g \in Groups : FuncOf(g)' # FrameAt(x)'.c
              /\ \A w \in Items(FrameAt(x)'.c) : begun'[w] = 0
      BY <1>6 DEF LInv, CallsApart, Unmoved, FuncOf, UnderWay
    <2>4. \A x, z \in Place' :
              Entering(FrameAt(x)') /\ Entering(FrameAt(z)') /\ FrameAt(x)'.c = FrameAt(z)'.c
              => x = z
      BY <1>6 DEF LInv, CallsApart
    <2> QED  BY <2>1, <2>2, <2>3, <2>4 DEF CallsApart, Entering
  <1>14. CountersRight'
    <2>1. \A g \in Groups : FuncOf(g)' # NoCall /\ ~BeingSetUp(g)' =>
           /\ group'[g].remaining = Cardinality(Items(FuncOf(g)') \ ended')
           /\ \A w \in Items(FuncOf(g)') : w[2] >= group'[g].ctr => begun'[w] = 0
      BY <1>7 DEF LInv, CountersRight, Unmoved, FuncOf
    <2>2. \A x \in Place' : FrameAt(x)'.at = "fields" =>
           /\ group'[FrameAt(x)'.g].ctr = 0
           /\ group'[FrameAt(x)'.g].remaining = Size(FrameAt(x)'.c)
      <3> SUFFICES ASSUME NEW x \in Place', FrameAt(x)'.at = "fields"
                   PROVE  /\ group'[FrameAt(x)'.g].ctr = 0
                          /\ group'[FrameAt(x)'.g].remaining = Size(FrameAt(x)'.c)
        OBVIOUS
      <3>1. Entering(FrameAt(x)')
        BY DEF Entering
      <3>2. x \in Place /\ FrameAt(x)' = FrameAt(x) /\ FrameAt(x).g \in Groups
        BY <3>1, <1>6, <1>1 DEF LInv, FramesRight, FrameRight, Entering
      <3> QED  BY <3>2 DEF LInv, CountersRight, Unmoved
    <2> QED  BY <2>1, <2>2 DEF CountersRight
  <1>15. ClaimsRight'
    <2>1. \A x \in Place' : Working(FrameAt(x)') =>
              /\ x \in Place /\ FrameAt(x)' = FrameAt(x) /\ FrameAt(x).g \in Groups
              /\ ItemAt(FrameAt(x))' = ItemAt(FrameAt(x))
              /\ group'[FrameAt(x).g].ctr = group[FrameAt(x).g].ctr
      <3>1. \A x \in Place' : Working(FrameAt(x)') =>
              x \in Place /\ FrameAt(x)' = FrameAt(x) /\ FrameAt(x).g \in Groups
        BY <1>2, <1>3, <1>1 DEF Settled, LInv, FramesRight, FrameRight, Working
      <3> QED  BY <3>1 DEF Unmoved, ItemAt, FuncOf
    <2>2. /\ \A x \in Place' : Working(FrameAt(x)') =>
              /\ FrameAt(x)'.i < group'[FrameAt(x)'.g].ctr
              /\ ItemAt(FrameAt(x))' \in AllItems /\ ItemAt(FrameAt(x))' \notin ended'
      BY <2>1 DEF LInv, ClaimsRight, Unmoved
    <2>3. \A x \in Place' : FrameAt(x)'.at = "body" => begun'[ItemAt(FrameAt(x))'] = 0
      BY <2>1 DEF LInv, ClaimsRight, Unmoved, Working
    <2>4. \A x \in Place' : FrameAt(x)'.at = "done" =>
              FrameAt(x)'.c = FuncOf(FrameAt(x).g)' /\ begun'[ItemAt(FrameAt(x))'] = 1
      BY <2>1 DEF LInv, ClaimsRight, Unmoved, Working, FuncOf
    <2>5. \A x, z \in Place' :
              /\ Working(FrameAt(x)') /\ Working(FrameAt(z)')
              /\ FrameAt(x)'.g = FrameAt(z)'.g /\ FrameAt(x)'.i = FrameAt(z)'.i
              => x = z
      BY <2>1 DEF LInv, ClaimsRight
    <2> QED  BY <2>2, <2>3, <2>4, <2>5 DEF ClaimsRight, Working
  <1>16. HistoryRight'
    BY DEF LInv, HistoryRight, Unmoved
  <1> QED  BY <1>8, <1>9, <1>10, <1>11, <1>12, <1>13, <1>14, <1>15, <1>16 DEF LInv

LEMMA TopFrame ==
    ASSUME TypeOK, NEW t \in Threads, NEW a, At(t, a)
    PROVE  /\ Stacks /\ stack[t] # <<>>
           /\ TopOf(t) \in Place /\ TopOf(t)[1] = t
           /\ FrameAt(TopOf(t)) = Top(t) /\ Top(t) \in Frames /\ Top(t).at = a
  <1>1. Stacks /\ stack[t] # <<>> /\ Top(t).at = a
    BY DEF TypeOK, Stacks, At, Top
  <1> QED  BY <1>1, TopPlace

LEMMA QueuesSame ==
    ASSUME TypeOK, LInv, queue' = queue
    PROVE  QueuesKept
  <1>1. \A w \in Workers : \A k \in DOMAIN queue[w] : queue[w][k].g \in Groups
    <2> SUFFICES ASSUME NEW w \in Workers, NEW k \in DOMAIN queue[w]
                 PROVE  queue[w][k].g \in Groups
      OBVIOUS
    <2> DEFINE E == [g : Groups, by : Threads]
    <2>1. \A e \in E : e.g \in Groups
      OBVIOUS
    <2>2. queue[w] \in Seq(E)
      BY DEF TypeOK
    <2> HIDE DEF E
    <2>3. queue[w][k] \in E
      BY <2>2
    <2> QED  BY <2>1, <2>3
  <1> QED  BY <1>1 DEF QueuesKept, LInv, SetUpAlone, QueuesFilled

(* a frame that does not enter its group refers to a group set up by nobody *)
LEMMA NoGroupNotBeingSetUp ==
    ASSUME TypeOK, LInv
    PROVE  ~BeingSetUp(NoGroup)
  <1>1. \A x \in Place : FrameAt(x) \in Frames
    BY FramesTyped DEF TypeOK, Stacks
  <1>2. \A x \in Place : Entering(FrameAt(x)) => FrameAt(x).g \in Groups
    BY <1>1 DEF LInv, FramesRight, FrameRight, Entering
  <1> QED  BY <1>2, GroupShape DEF BeingSetUp

LEMMA UnmovedGroups ==
    ASSUME group' = group, begun' = begun, ended' = ended, returned' = returned,
           program' = program, step' = step
    PROVE  Unmoved
  BY CalledSame DEF Unmoved

(* the worker loop called by WaitForFinished *)
LEMMA HelpOthersStep ==
    ASSUME TypeOK, LInv, NEW t \in Threads, HelpOthers(t)
    PROVE  TypeOK' /\ LInv'
  <1>1. /\ Push(t, WorkerLoop)
        /\ UNCHANGED <<program, step, held, pos, group, queue, begun, ended, returned>>
    BY DEF HelpOthers
  <1>2. Stacks
    BY DEF TypeOK, Stacks
  <1>3. /\ WorkerLoop \in Frames /\ WorkerLoop.at = "drain" /\ WorkerLoop.g = NoGroup
        /\ WorkerLoop.wff = FALSE
    BY DEF WorkerLoop, Frame, Frames
  <1>4. PICK y : y \notin Place /\ y[1] = t /\ Moved(y, WorkerLoop)
    BY <1>1, <1>2, <1>3, PushMoves
  <1>5. Stacks'
    BY <1>1, <1>2, <1>3, PushMoves
  <1>6. Settled(y, WorkerLoop)
    BY <1>3, NoGroupNotBeingSetUp DEF Settled, FrameRight, Entering, Working, Owner
  <1>7. Unmoved /\ QueuesKept /\ HeldKept
    BY <1>1, UnmovedGroups, QueuesSame DEF HeldKept
  <1>8. TypeOK'
    BY <1>1, <1>5 DEF TypeOK, Stacks
  <1> QED  BY <1>3, <1>4, <1>5, <1>6, <1>7, <1>8, FramesMove

LEMMA DrainedStep ==
    ASSUME TypeOK, LInv, NEW t \in Threads, Drained(t)
    PROVE  TypeOK' /\ LInv'
  <1>1. /\ At(t, "drain") /\ Pop(t)
        /\ UNCHANGED <<program, step, held, pos, group, queue, begun, ended, returned>>
    BY DEF Drained
  <1>2. /\ Stacks /\ stack[t] # <<>>
        /\ FrameAt(TopOf(t)) = Top(t) /\ Top(t).at = "drain"
    BY <1>1, TopFrame
  <1>3. PICK y : y = TopOf(t)
    OBVIOUS
  <1>4. Stacks' /\ Moved(y, 0) /\ y \notin Place'
    BY <1>1, <1>2, <1>3, PopMoves
  <1>5. ~Entering(FrameAt(y))
    BY <1>2, <1>3 DEF Entering
  <1>6. Unmoved /\ QueuesKept /\ HeldKept
    BY <1>1, UnmovedGroups, QueuesSame DEF HeldKept
  <1>7. TypeOK'
    BY <1>1, <1>4 DEF TypeOK, Stacks
  <1> QED  BY <1>4, <1>5, <1>6, <1>7, FramesMove

LEMMA WaitCalls ==
    ASSUME TypeOK, Wait
    PROVE  Called' = Called
  <1>1. step \in Nat
    BY DEF TypeOK
  <1>2. /\ step' = step + 1 /\ program[step + 1] = "wait"
        /\ program' = program /\ begun' = begun
    BY DEF Wait
  <1>3. {j \in 1..step' : program[j] # "wait"} = {j \in 1..step : program[j] # "wait"}
    BY <1>1, <1>2
  <1> QED  BY <1>2, <1>3 DEF Called, Nests

LEMMA WaitStep ==
    ASSUME TypeOK, LInv, Wait
    PROVE  TypeOK' /\ LInv'
  <1>1. /\ stack[0] = <<>> /\ step < Len(program) /\ program[step + 1] = "wait"
        /\ step' = step + 1
        /\ UNCHANGED <<program, held, pos, group, queue, begun, ended, returned>>
    BY DEF Wait
  <1>2. Stacks
    BY DEF TypeOK, Stacks
  <1>3. Called' = Called
    BY WaitCalls
  <1>4. Unmoved /\ QueuesKept /\ HeldKept
    BY <1>1, <1>3, QueuesSame DEF HeldKept, Unmoved
  <1>5. step' \in 0..Len(program')
    <2>1. step \in Nat /\ program \in Seq({"for", "nest", "background", "wait"})
      BY ThreadPoolAssumption DEF TypeOK
    <2> QED  BY <1>1, <2>1
  <1>6. CASE held = NoGroup
    <2>1. stack' = stack
      BY <1>6 DEF Wait
    <2>2. PICK y : y \notin Place \union Place'
      <3>1. PICK y : y \notin Place
        <4>1. <<0, 0>> \notin Place
          BY DEF Place
        <4> QED  BY <4>1
      <3>2. Place' = Place
        BY <2>1 DEF Place
      <3> QED  BY <3>1, <3>2
    <2>3. Moved(y, 0)
      BY <2>1, <2>2 DEF Moved, Place, FrameAt
    <2>4. Stacks'
      BY <1>2, <2>1 DEF Stacks
    <2>5. TypeOK'
      BY <1>1, <1>5, <2>4 DEF TypeOK, Stacks
    <2> QED  BY <1>4, <2>2, <2>3, <2>4, <2>5, FramesMove
  <1>7. CASE held # NoGroup
    <2>1. PICK f : f = Frame("claim", held, NoCall, 0, TRUE, FALSE)
      OBVIOUS
    <2>2. held \in Groups /\ held \in Groups \union {NoGroup}
      BY <1>7 DEF TypeOK
    <2>3. f \in Frames /\ f.at = "claim" /\ f.g = held /\ f.wff = TRUE
      BY <2>1, <2>2 DEF Frame, Frames
    <2>4. Push(0, f)
      BY <1>7, <2>1 DEF Wait
    <2>5. PICK y : y \notin Place /\ y[1] = 0 /\ Moved(y, f)
      BY <1>2, <2>3, <2>4, PushMoves, ThreadNumbers
    <2>6. Stacks'
      BY <1>2, <2>3, <2>4, PushMoves, ThreadNumbers
    <2>7. \A x \in Place : x[1] # 0
      BY <1>1, <1>2, PlaceOf
    <2>8. Settled(y, f)
      <3>1. \A x \in Place : Owner(FrameAt(x)) => FrameAt(x).g # f.g
        BY <1>7, <2>3, <2>7 DEF LInv, OneOwner, HeldRight
      <3>2. FrameRight(f)
        BY <1>7, <2>2, <2>3 DEF FrameRight, LInv, HeldRight
      <3> QED
        BY <1>7, <2>3, <2>5, <3>1, <3>2
        DEF Settled, LInv, HeldRight, SetUpAlone, Entering, Working
    <2>9. TypeOK'
      BY <1>1, <1>5, <2>6 DEF TypeOK, Stacks
    <2> QED  BY <1>4, <2>3, <2>5, <2>6, <2>8, <2>9, FramesMove
  <1> QED  BY <1>6, <1>7

(* what the operations on a queue do to its entries *)
QueueEntry == [g : Groups, by : Threads]

LEMMA QueuesTyped ==
    ASSUME TypeOK
    PROVE  /\ queue \in [Workers -> Seq(QueueEntry)]
           /\ \A w \in Workers : \A k \in DOMAIN queue[w] :
                  queue[w][k] \in QueueEntry /\ queue[w][k].g \in Groups
  <1>1. queue \in [Workers -> Seq(QueueEntry)]
    BY DEF TypeOK, QueueEntry
  <1>2. \A w \in Workers : \A k \in DOMAIN queue[w] : queue[w][k] \in QueueEntry
    BY <1>1
  <1> QED  BY <1>1, <1>2 DEF QueueEntry

LEMMA QueueAppended ==
    ASSUME queue \in [Workers -> Seq(QueueEntry)], NEW w \in Workers, NEW e \in QueueEntry,
           queue' = [queue EXCEPT ![w] = Append(@, e)]
    PROVE  /\ queue' \in [Workers -> Seq(QueueEntry)]
           /\ \A v \in Workers : \A k \in DOMAIN queue'[v] :
                  \/ queue'[v][k] = e
                  \/ \E j \in DOMAIN queue[v] : queue'[v][k] = queue[v][j]
  <1>1. PICK s : s = Append(queue[w], e)
    OBVIOUS
  <1>2. queue[w] \in Seq(QueueEntry)
    OBVIOUS
  <1>3. s \in Seq(QueueEntry)
    BY <1>1, <1>2
  <1>4. queue' = [queue EXCEPT ![w] = s]
    BY <1>1
  <1>5. queue' \in [Workers -> Seq(QueueEntry)] /\ queue'[w] = s
    BY <1>3, <1>4
  <1>6. \A k \in DOMAIN s : s[k] = e \/ \E j \in DOMAIN queue[w] : s[k] = queue[w][j]
    BY <1>1, <1>2
  <1> QED  BY <1>4, <1>5, <1>6

LEMMA QueueRemoved ==
    ASSUME queue \in [Workers -> Seq(QueueEntry)], NEW w \in Workers,
           NEW n \in DOMAIN queue[w], queue' = [queue EXCEPT ![w] = RemoveAt(@, n)]
    PROVE  /\ queue' \in [Workers -> Seq(QueueEntry)]
           /\ \A v \in Workers : \A k \in DOMAIN queue'[v] :
                  \E j \in DOMAIN queue[v] : queue'[v][k] = queue[v][j]
  <1>1. PICK s : s = RemoveAt(queue[w], n)
    OBVIOUS
  <1>2. queue[w] \in Seq(QueueEntry) /\ n \in 1..Len(queue[w]) /\ Len(queue[w]) \in Nat
    OBVIOUS
  <1>3. PICK a \in Seq(QueueEntry) : a = SubSeq(queue[w], 1, n - 1)
    <2>1. SubSeq(queue[w], 1, n - 1) \in Seq(QueueEntry)
      BY <1>2, SubSeqProperties
    <2> QED  BY <2>1, Zenon
  <1>4. PICK b \in Seq(QueueEntry) : b = SubSeq(queue[w], n + 1, Len(queue[w]))
    <2>1. SubSeq(queue[w], n + 1, Len(queue[w])) \in Seq(QueueEntry)
      BY <1>2, SubSeqProperties
    <2> QED  BY <2>1, Zenon
  <1>5. s = a \o b
    BY <1>1, <1>3, <1>4 DEF RemoveAt
  <1>6. s \in Seq(QueueEntry)
    BY <1>5
  <1>7. \A k \in DOMAIN a : \E j \in DOMAIN queue[w] : a[k] = queue[w][j]
    BY <1>2, <1>3
  <1>8. \A k \in DOMAIN b : \E j \in DOMAIN queue[w] : b[k] = queue[w][j]
    <2>1. Len(b) = Len(queue[w]) - n /\ \A k \in 1..Len(b) : b[k] = queue[w][n + k]
      <3>1. n + 1 \in Int /\ Len(queue[w]) \in Int /\ n <= Len(queue[w]) /\ n \in Int
        BY <1>2
      <3>2. \A i \in (n + 1)..Len(queue[w]) : queue[w][i] \in QueueEntry
        BY <1>2
      <3>3. /\ Len(b) = IF n + 1 <= Len(queue[w]) THEN Len(queue[w]) - (n + 1) + 1 ELSE 0
            /\ \A i \in 1..(Len(queue[w]) - (n + 1) + 1) : b[i] = queue[w][n + 1 + i - 1]
        BY <3>1, <3>2, <1>4, SubSeqProperties
      <3>4. Len(b) = Len(queue[w]) - n /\ Len(queue[w]) - (n + 1) + 1 = Len(queue[w]) - n
        BY <3>1, <3>3
      <3>5. \A i \in 1..Len(b) : n + 1 + i - 1 = n + i
        BY <3>1
      <3> QED  BY <3>3, <3>4, <3>5
    <2>2. \A k \in 1..Len(b) : n + k \in DOMAIN queue[w]
      BY <1>2, <2>1
    <2> QED  BY <2>1, <2>2
  <1>9. \A k \in DOMAIN s :
            (k \in DOMAIN a /\ s[k] = a[k]) \/ (\E m \in DOMAIN b : s[k] = b[m])
    <2>1. \A k \in DOMAIN s : k \in 1..(Len(a) + Len(b)) /\ k \in Int
      BY <1>5
    <2>2. \A k \in DOMAIN s : k <= Len(a) => k \in DOMAIN a /\ s[k] = a[k]
      BY <1>5
    <2>3. \A k \in DOMAIN s : k > Len(a) => k - Len(a) \in DOMAIN b /\ s[k] = b[k - Len(a)]
      BY <1>5
    <2> QED  BY <2>1, <2>2, <2>3
  <1>10. \A k \in DOMAIN s : \E j \in DOMAIN queue[w] : s[k] = queue[w][j]
    BY <1>7, <1>8, <1>9
  <1>11. queue' = [queue EXCEPT ![w] = s]
    BY <1>1
  <1>12. queue' \in [Workers -> Seq(QueueEntry)] /\ queue'[w] = s
    BY <1>6, <1>11
  <1> QED  BY <1>10, <1>11, <1>12

(* the queues keep what they should when only such entries are added *)
LEMMA QueuesStay ==
    ASSUME TypeOK, LInv, queue' \in [Workers -> Seq(QueueEntry)],
           \A v \in Workers : \A k \in DOMAIN queue'[v] :
               \/ FuncOf(queue'[v][k].g) # NoCall /\ ~BeingSetUp(queue'[v][k].g)
               \/ \E j \in DOMAIN queue[v] : queue'[v][k] = queue[v][j]
    PROVE  QueuesKept
  <1>1. \A w \in Workers : \A k \in DOMAIN queue'[w] : queue'[w][k].g \in Groups
    <2>1. \A w \in Workers : \A k \in DOMAIN queue'[w] : queue'[w][k] \in QueueEntry
      OBVIOUS
    <2> QED  BY <2>1 DEF QueueEntry
  <1>2. \A w \in Workers : \A k \in DOMAIN queue[w] :
            FuncOf(queue[w][k].g) # NoCall /\ ~BeingSetUp(queue[w][k].g)
    BY DEF LInv, SetUpAlone, QueuesFilled
  <1> QED  BY <1>1, <1>2 DEF QueuesKept

LEMMA DequeueStep ==
    ASSUME TypeOK, LInv, NEW t \in Workers, Dequeue(t)
    PROVE  TypeOK' /\ LInv'
  <1>1. PICK k \in Dequeuable(t) :
            LET g == queue[t][k].g IN
            /\ At(t, "drain")
            /\ queue' = [queue EXCEPT ![t] = RemoveAt(@, k)]
            /\ Push(t, Frame("claim", g, NoCall, 0, FALSE,
                         ~IsHighPriority(g) /\ ~IsFinished(g)))
            /\ UNCHANGED <<program, step, held, pos, group, begun, ended, returned>>
    BY DEF Dequeue
  <1>2. k \in DOMAIN queue[t] /\ t \in Threads
    BY ThreadNumbers DEF Dequeuable
  <1>3. PICK g \in Groups : g = queue[t][k].g
    BY <1>2, QueuesTyped
  <1>4. PICK f : f = Frame("claim", g, NoCall, 0, FALSE,
                           ~IsHighPriority(g) /\ ~IsFinished(g))
    OBVIOUS
  <1>5. f \in Frames /\ f.at = "claim" /\ f.g = g /\ f.wff = FALSE
    <2>1. PICK b \in BOOLEAN : b = (~IsHighPriority(g) /\ ~IsFinished(g))
      OBVIOUS
    <2> QED  BY <1>4, <2>1 DEF Frame, Frames
  <1>6. Push(t, f) /\ Stacks
    BY <1>1, <1>3, <1>4 DEF TypeOK, Stacks
  <1>7. PICK y : y \notin Place /\ y[1] = t /\ Moved(y, f)
    BY <1>2, <1>5, <1>6, PushMoves
  <1>8. Stacks'
    BY <1>2, <1>5, <1>6, PushMoves
  <1>9. FuncOf(g) # NoCall /\ ~BeingSetUp(g)
    BY <1>2, <1>3 DEF LInv, SetUpAlone, QueuesFilled
  <1>10. Settled(y, f)
    BY <1>5, <1>9 DEF Settled, FrameRight, Entering, Working, Owner
  <1>11. /\ queue' \in [Workers -> Seq(QueueEntry)]
         /\ \A v \in Workers : \A j \in DOMAIN queue'[v] :
                \E i \in DOMAIN queue[v] : queue'[v][j] = queue[v][i]
    <2>1. queue' = [queue EXCEPT ![t] = RemoveAt(@, k)]
      BY <1>1
    <2>2. queue \in [Workers -> Seq(QueueEntry)]
      BY QueuesTyped
    <2>3. \A w \in Workers : \A n \in DOMAIN queue[w] :
              queue' = [queue EXCEPT ![w] = RemoveAt(@, n)] =>
              /\ queue' \in [Workers -> Seq(QueueEntry)]
              /\ \A v \in Workers : \A j \in DOMAIN queue'[v] :
                     \E i \in DOMAIN queue[v] : queue'[v][j] = queue[v][i]
      BY <2>2, QueueRemoved
    <2> QED  BY <1>2, <2>1, <2>3, Zenon
  <1>12. QueuesKept
    BY <1>11, QueuesStay
  <1>13. Unmoved /\ HeldKept
    BY <1>1, UnmovedGroups DEF HeldKept
  <1>14. TypeOK'
    BY <1>1, <1>8, <1>11 DEF TypeOK, Stacks, QueueEntry
  <1> QED  BY <1>5, <1>7, <1>8, <1>10, <1>12, <1>13, <1>14, FramesMove

LEMMA RescheduleStep ==
    ASSUME TypeOK, LInv, NEW t \in Threads, Reschedule(t)
    PROVE  TypeOK' /\ LInv'
  <1>1. /\ At(t, "reschedule") /\ Pop(t)
        /\ queue' = [queue EXCEPT ![t] = Append(@, [g |-> Top(t).g, by |-> t])]
        /\ UNCHANGED <<program, step, held, pos, group, begun, ended, returned>>
    BY DEF Reschedule
  <1>2. PICK y : y = TopOf(t)
    OBVIOUS
  <1>3. PICK g : g = Top(t).g
    OBVIOUS
  <1>4. /\ Stacks /\ stack[t] # <<>> /\ y \in Place
        /\ FrameAt(y) = Top(t) /\ Top(t) \in Frames /\ Top(t).at = "reschedule"
    BY <1>1, <1>2, TopFrame
  <1>5. Stacks' /\ Moved(y, 0) /\ y \notin Place'
    BY <1>1, <1>2, <1>4, PopMoves
  <1>6. ~Entering(FrameAt(y))
    BY <1>4 DEF Entering
  <1>7. g \in Groups /\ FuncOf(g) # NoCall
    BY <1>3, <1>4 DEF LInv, FramesRight, FrameRight
  <1>8. ~BeingSetUp(g)
    BY <1>3, <1>4, <1>6 DEF LInv, SetUpAlone, BeingSetUp
  <1>9. PICK e \in QueueEntry : e = [g |-> Top(t).g, by |-> t] /\ e.g = g
    <2>1. PICK e : e = [g |-> g, by |-> t]
      OBVIOUS
    <2>2. e \in QueueEntry /\ e.g = g
      BY <2>1, <1>7 DEF QueueEntry
    <2>3. e = [g |-> Top(t).g, by |-> t]
      BY <2>1, <1>3, <1>7
    <2> QED  BY <2>2, <2>3, Zenon
  <1>10. queue' \in [Workers -> Seq(QueueEntry)] /\ QueuesKept
    <2>1. CASE t \in Workers
      <3>1. queue' = [queue EXCEPT ![t] = Append(@, e)]
        BY <1>1, <1>9
      <3>2. queue \in [Workers -> Seq(QueueEntry)]
        BY QueuesTyped
      <3>3. \A w \in Workers : \A d \in QueueEntry :
                queue' = [queue EXCEPT ![w] = Append(@, d)] =>
                /\ queue' \in [Workers -> Seq(QueueEntry)]
                /\ \A v \in Workers : \A k \in DOMAIN queue'[v] :
                       \/ queue'[v][k] = d
                       \/ \E j \in DOMAIN queue[v] : queue'[v][k] = queue[v][j]
        BY <3>2, QueueAppended
      <3>4. /\ queue' \in [Workers -> Seq(QueueEntry)]
            /\ \A v \in Workers : \A k \in DOMAIN queue'[v] :
                   \/ queue'[v][k] = e
                   \/ \E j \in DOMAIN queue[v] : queue'[v][k] = queue[v][j]
        BY <2>1, <3>1, <3>3, Zenon
      <3>5. QueuesKept
        BY <1>7, <1>8, <1>9, <3>4, QueuesStay
      <3> QED  BY <3>4, <3>5
    <2>2. CASE t \notin Workers
      <3>1. queue' = queue
        BY <1>1, <2>2, QueuesTyped
      <3> QED  BY <3>1, QueuesSame, QueuesTyped
    <2> QED  BY <2>1, <2>2
  <1>11. Unmoved /\ HeldKept
    BY <1>1, UnmovedGroups DEF HeldKept
  <1>12. TypeOK'
    BY <1>1, <1>5, <1>10 DEF TypeOK, Stacks, QueueEntry
  <1> QED  BY <1>5, <1>6, <1>10, <1>11, <1>12, FramesMove

LEMMA PushTaskGroupStep ==
    ASSUME TypeOK, LInv, NEW t \in Threads, PushTaskGroup(t)
    PROVE  TypeOK' /\ LInv'
  <1>1. /\ At(t, "push")
        /\ queue' = [queue EXCEPT ![Top(t).i] = Append(@, [g |-> Top(t).g, by |-> t])]
        /\ UNCHANGED <<program, step, pos, group, begun, ended, returned>>
    BY DEF PushTaskGroup
  <1>2. PICK y : y = TopOf(t)
    OBVIOUS
  <1>3. PICK f : f = Top(t)
    OBVIOUS
  <1>4. PICK g : g = f.g
    OBVIOUS
  <1>5. /\ Stacks /\ stack[t] # <<>> /\ y \in Place /\ y[1] = t
        /\ FrameAt(y) = f /\ f \in Frames /\ f.at = "push"
    BY <1>1, <1>2, <1>3, TopFrame
  <1>6. ~Entering(FrameAt(y)) /\ Owner(FrameAt(y))
    BY <1>5 DEF Entering, Owner
  <1>7. /\ g \in Groups /\ FuncOf(g) # NoCall /\ FuncOf(g) = f.c /\ f.c \in Calls
        /\ f.i \in Workers /\ f.wff = FALSE
    BY <1>4, <1>5 DEF LInv, FramesRight, FrameRight
  <1>8. ~BeingSetUp(g)
    BY <1>4, <1>5, <1>6 DEF LInv, SetUpAlone, BeingSetUp
  <1>9. /\ \A x \in Place : x # y /\ Owner(FrameAt(x)) => FrameAt(x).g # g
        /\ g[1] = 0 => t = 0
        /\ UnderWay(FuncOf(g))
    BY <1>4, <1>5, <1>6 DEF LInv, OneOwner
  <1>10. PICK e \in QueueEntry : e = [g |-> Top(t).g, by |-> t] /\ e.g = g
    <2>1. PICK e : e = [g |-> g, by |-> t]
      OBVIOUS
    <2>2. e \in QueueEntry /\ e.g = g
      BY <2>1, <1>7 DEF QueueEntry
    <2>3. e = [g |-> Top(t).g, by |-> t]
      BY <2>1, <1>3, <1>4, <1>7
    <2> QED  BY <2>2, <2>3, Zenon
  <1>11. /\ queue' \in [Workers -> Seq(QueueEntry)]
         /\ \A v \in Workers : \A k \in DOMAIN queue'[v] :
                \/ queue'[v][k] = e
                \/ \E j \in DOMAIN queue[v] : queue'[v][k] = queue[v][j]
    <2>1. queue' = [queue EXCEPT ![f.i] = Append(@, e)]
      BY <1>1, <1>3, <1>10
    <2>2. queue \in [Workers -> Seq(QueueEntry)]
      BY QueuesTyped
    <2>3. \A w \in Workers : \A d \in QueueEntry :
              queue' = [queue EXCEPT ![w] = Append(@, d)] =>
              /\ queue' \in [Workers -> Seq(QueueEntry)]
              /\ \A v \in Workers : \A k \in DOMAIN queue'[v] :
                     \/ queue'[v][k] = d
                     \/ \E j \in DOMAIN queue[v] : queue'[v][k] = queue[v][j]
      BY <2>2, QueueAppended
    <2> QED  BY <1>7, <2>1, <2>3, Zenon
  <1>12. QueuesKept
    BY <1>7, <1>8, <1>10, <1>11, QueuesStay
  <1>13. Unmoved
    BY <1>1, UnmovedGroups
  <1>14. ASSUME NEW h \in Frames, Goto(t, h), held' = held,
                h.g = g, h.at = "push" \/ (h.at = "claim" /\ h.wff = TRUE),
                h.at = "push" => h.c = f.c /\ h.i \in Workers /\ h.wff = FALSE
         PROVE  TypeOK' /\ LInv'
    <2>1. Stacks' /\ Moved(y, h)
      BY <1>2, <1>5, <1>14, GotoMoves
    <2>2. FrameRight(h)
      BY <1>7, <1>14 DEF FrameRight
    <2>3. Settled(y, h)
      BY <1>5, <1>8, <1>9, <1>14, <2>2 DEF Settled, Entering, Working
    <2>4. TypeOK'
      BY <1>1, <1>11, <1>14, <2>1 DEF TypeOK, Stacks, QueueEntry
    <2>5. HeldKept
      BY <1>14 DEF HeldKept
    <2> QED  BY <1>6, <1>12, <1>13, <1>14, <2>1, <2>3, <2>4, <2>5, FramesMove
  <1>15. CASE f.i < NumWorkers
    <2>1. PICK h : h = [f EXCEPT !.i = f.i + 1]
      OBVIOUS
    <2>2. f.i + 1 \in Workers /\ f.i + 1 \in Nat
      BY <1>7, <1>15, ThreadNumbers
    <2>3. /\ h \in Frames /\ h.g = g /\ h.at = "push" /\ h.c = f.c /\ h.i = f.i + 1
          /\ h.wff = FALSE
      BY <1>4, <1>5, <1>7, <2>1, <2>2 DEF Frames
    <2>4. Goto(t, h) /\ held' = held
      BY <1>3, <1>15, <2>1 DEF PushTaskGroup
    <2> QED  BY <1>14, <2>2, <2>3, <2>4
  <1>16. CASE ~(f.i < NumWorkers) /\ IsHighPriority(g)
    <2>1. PICK h : h = [f EXCEPT !.at = "claim", !.wff = TRUE]
      OBVIOUS
    <2>2. h \in Frames /\ h.g = g /\ h.at = "claim" /\ h.wff = TRUE
      BY <1>4, <1>5, <2>1 DEF Frames
    <2>3. Goto(t, h) /\ held' = held
      BY <1>3, <1>4, <1>16, <2>1 DEF PushTaskGroup
    <2> QED  BY <1>14, <2>2, <2>3
  <1>17. CASE ~(f.i < NumWorkers) /\ ~IsHighPriority(g)
    <2>1. Pop(t) /\ held' = g
      BY <1>3, <1>4, <1>17 DEF PushTaskGroup
    <2>2. Stacks' /\ Moved(y, 0) /\ y \notin Place'
      BY <1>2, <1>5, <2>1, PopMoves
    <2>3. HeldKept
      BY <1>7, <1>8, <1>9, <1>17, <2>1 DEF HeldKept, IsHighPriority
    <2>4. TypeOK'
      BY <1>1, <1>7, <1>11, <2>1, <2>2 DEF TypeOK, Stacks, QueueEntry
    <2> QED  BY <1>6, <1>12, <1>13, <2>2, <2>3, <2>4, FramesMove
  <1> QED  BY <1>15, <1>16, <1>17

GroupRecord ==
    [remaining : Nat, ctr : Nat, func : Calls \union {NoCall},
     inTaskQueue : BOOLEAN, inUse : BOOLEAN]

LEMMA GroupsTyped ==
    ASSUME TypeOK
    PROVE  /\ group \in [Groups -> GroupRecord]
           /\ \A g \in Groups : /\ group[g].remaining \in Nat /\ group[g].ctr \in Nat
                                /\ group[g].func \in Calls \union {NoCall}
  <1>1. group \in [Groups -> GroupRecord]
    BY DEF TypeOK, GroupRecord
  <1> QED  BY <1>1 DEF GroupRecord

(* the end of ExecuteLoop: the frame goes on in WaitForFinished or in      *)
(* DoTask, or it is gone                                                   *)
LEMMA LeaveLoopMoves ==
    ASSUME Stacks, NEW t \in Threads, stack[t] # <<>>, NEW f \in Frames, LeaveLoop(t, f)
    PROVE  /\ Stacks'
           /\ \E h : /\ Moved(TopOf(t), h)
                     /\ TopOf(t) \in Place' =>
                            /\ h \in Frames /\ h.g = f.g /\ h.wff = f.wff
                            /\ \/ h.at = "check" /\ h.wff = TRUE
                               \/ h.at = "reschedule" /\ h.wff = FALSE
  <1>1. CASE f.wff
    <2>1. Goto(t, [f EXCEPT !.at = "check"])
      BY <1>1 DEF LeaveLoop
    <2>2. PICK h : h = [f EXCEPT !.at = "check"]
      OBVIOUS
    <2>3. f.wff = TRUE
      BY <1>1 DEF Frames
    <2>4. h \in Frames /\ h.g = f.g /\ h.wff = f.wff /\ h.at = "check"
      BY <2>2 DEF Frames
    <2>5. Stacks' /\ Moved(TopOf(t), h)
      BY <2>1, <2>2, <2>4, GotoMoves
    <2> QED  BY <2>3, <2>4, <2>5
  <1>2. CASE ~f.wff /\ f.again
    <2>1. Goto(t, [f EXCEPT !.at = "reschedule"])
      BY <1>2 DEF LeaveLoop
    <2>2. PICK h : h = [f EXCEPT !.at = "reschedule"]
      OBVIOUS
    <2>3. f.wff = FALSE
      BY <1>2 DEF Frames
    <2>4. h \in Frames /\ h.g = f.g /\ h.wff = f.wff /\ h.at = "reschedule"
      BY <2>2 DEF Frames
    <2>5. Stacks' /\ Moved(TopOf(t), h)
      BY <2>1, <2>2, <2>4, GotoMoves
    <2> QED  BY <2>3, <2>4, <2>5
  <1>3. CASE ~f.wff /\ ~f.again
    <2>1. Pop(t)
      BY <1>3 DEF LeaveLoop
    <2>2. Stacks' /\ Moved(TopOf(t), 0) /\ TopOf(t) \notin Place'
      BY <2>1, PopMoves
    <2> QED  BY <2>2
  <1> QED  BY <1>1, <1>2, <1>3

LEMMA NothingLeftStep ==
    ASSUME TypeOK, LInv, NEW t \in Threads, NothingLeft(t)
    PROVE  TypeOK' /\ LInv'
  <1>1. PICK y : y = TopOf(t)
    OBVIOUS
  <1>2. PICK f : f = Top(t)
    OBVIOUS
  <1>3. /\ At(t, "claim") /\ LeaveLoop(t, f)
        /\ group' = [group EXCEPT ![f.g].inTaskQueue = @ /\ ~f.wff]
        /\ UNCHANGED <<program, step, held, pos, queue, begun, ended, returned>>
    BY <1>2 DEF NothingLeft
  <1>4. /\ Stacks /\ stack[t] # <<>> /\ y \in Place /\ y[1] = t
        /\ FrameAt(y) = f /\ f \in Frames /\ f.at = "claim"
    BY <1>1, <1>2, <1>3, TopFrame
  <1>5. ~Entering(FrameAt(y))
    BY <1>4 DEF Entering
  <1>6. f.g \in Groups /\ FuncOf(f.g) # NoCall /\ ~BeingSetUp(f.g)
    <2>1. f.g \in Groups /\ FuncOf(f.g) # NoCall
      BY <1>4 DEF LInv, FramesRight, FrameRight
    <2>2. ~BeingSetUp(f.g)
      BY <1>4, <1>5 DEF LInv, SetUpAlone, BeingSetUp
    <2> QED  BY <2>1, <2>2
  <1>7. f.wff = TRUE => /\ \A x \in Place : x # y /\ Owner(FrameAt(x)) => FrameAt(x).g # f.g
                        /\ f.g[1] = 0 => t = 0
                        /\ UnderWay(FuncOf(f.g))
    BY <1>4, <1>5 DEF LInv, OneOwner, Owner
  <1>8. /\ group' \in [Groups -> GroupRecord]
        /\ \A g \in Groups : /\ group'[g].func = group[g].func
                             /\ group'[g].ctr = group[g].ctr
                             /\ group'[g].remaining = group[g].remaining
    <2>1. PICK b \in BOOLEAN : b = (group[f.g].inTaskQueue /\ ~f.wff)
      OBVIOUS
    <2>2. PICK h : h = [group[f.g] EXCEPT !.inTaskQueue = b]
      OBVIOUS
    <2>3. group[f.g] \in GroupRecord
      BY <1>6, GroupsTyped
    <2>4. /\ h \in GroupRecord /\ h.func = group[f.g].func
          /\ h.ctr = group[f.g].ctr /\ h.remaining = group[f.g].remaining
      BY <2>2, <2>3 DEF GroupRecord
    <2>5. group' = [group EXCEPT ![f.g] = h]
      BY <1>3, <2>1, <2>2
    <2>6. group \in [Groups -> GroupRecord]
      BY GroupsTyped
    <2> QED  BY <1>6, <2>4, <2>5, <2>6
  <1>9. Unmoved /\ QueuesKept /\ HeldKept
    BY <1>3, <1>8, CalledSame, QueuesSame DEF Unmoved, HeldKept
  <1>10. PICK h : /\ Moved(y, h)
                  /\ y \in Place' =>
                        /\ h \in Frames /\ h.g = f.g /\ h.wff = f.wff
                        /\ \/ h.at = "check" /\ h.wff = TRUE
                           \/ h.at = "reschedule" /\ h.wff = FALSE
    <2>1. PICK h : /\ Moved(TopOf(t), h)
                   /\ TopOf(t) \in Place' =>
                         /\ h \in Frames /\ h.g = f.g /\ h.wff = f.wff
                         /\ \/ h.at = "check" /\ h.wff = TRUE
                            \/ h.at = "reschedule" /\ h.wff = FALSE
      BY <1>3, <1>4, LeaveLoopMoves, Zenon
    <2> QED  BY <1>1, <2>1, Zenon
  <1>11. Stacks'
    BY <1>3, <1>4, LeaveLoopMoves
  <1>12. y \in Place' => Settled(y, h)
    BY <1>4, <1>6, <1>7, <1>10 DEF Settled, FrameRight, Entering, Working, Owner
  <1>13. TypeOK'
    BY <1>3, <1>8, <1>11 DEF TypeOK, Stacks, GroupRecord
  <1> QED  BY <1>5, <1>9, <1>10, <1>11, <1>12, <1>13, FramesMove

(***************************************************************************)
(* Steps in which a frame goes on with its group: what the invariant says  *)
(* of who refers to which group and which call stays as it is.             *)
(***************************************************************************)
GoesOn(y, f) ==
    /\ FrameRight(f)
    /\ f.g = FrameAt(y).g
    /\ Entering(f) <=> Entering(FrameAt(y))
    /\ Entering(f) => f.c = FrameAt(y).c
    /\ Owner(f) => Owner(FrameAt(y))

Structure ==
    /\ FramesRight /\ SetUpAlone /\ QueuesFilled /\ HeldRight /\ OneOwner /\ CallsApart

LEMMA FrameGoesOn ==
    ASSUME TypeOK, LInv, Stacks',
           \A g \in Groups : group'[g].func = group[g].func,
           queue' = queue, held' = held, returned' = returned, Called' = Called,
           \A w \in AllItems : begun'[w] = begun[w] \/ \E g \in Groups : FuncOf(g) = w[1],
           NEW y \in Place, NEW f, Moved(y, f),
           y \notin Place' => ~Entering(FrameAt(y)),
           y \in Place' => f \in Frames /\ GoesOn(y, f)
    PROVE  /\ Structure'
           /\ \A g : BeingSetUp(g)' <=> BeingSetUp(g)
  <1>0. Stacks
    BY DEF TypeOK, Stacks
  <1>1. \A x \in Place : FrameAt(x) \in Frames
    BY <1>0, FramesTyped
  <1>2. \A x \in Place' : x # y => x \in Place /\ FrameAt(x)' = FrameAt(x)
    BY DEF Moved
  <1>3. \A x \in Place' : x = y => FrameAt(x)' = f
    BY DEF Moved
  <1>4. \A x \in Place : x # y => x \in Place'
    BY DEF Moved
  <1>5. \A x \in Place' :
            /\ x \in Place
            /\ FrameAt(x)'.g = FrameAt(x).g
            /\ Entering(FrameAt(x)') <=> Entering(FrameAt(x))
            /\ Entering(FrameAt(x)') => FrameAt(x)'.c = FrameAt(x).c
            /\ Owner(FrameAt(x)') => Owner(FrameAt(x))
    BY <1>2, <1>3 DEF GoesOn
  <1>6. \A x \in Place : Entering(FrameAt(x)) => x \in Place'
    BY <1>4
  <1>7. \A g : BeingSetUp(g)' <=> BeingSetUp(g)
    BY <1>5, <1>6 DEF BeingSetUp, Entering
  <1>8. FramesRight'
    <2> SUFFICES ASSUME NEW x \in Place' PROVE FrameRight(FrameAt(x))'
      BY DEF FramesRight
    <2>1. CASE x = y
      BY <2>1, <1>3, <1>1 DEF GoesOn, FrameRight, FuncOf
    <2>2. CASE x # y
      BY <2>2, <1>2, <1>1 DEF LInv, FramesRight, FrameRight, FuncOf
    <2> QED  BY <2>1, <2>2
  <1>9. SetUpAlone'
    <2>1. \A x, z \in Place' :
              Entering(FrameAt(x)') /\ FrameAt(x)'.g = FrameAt(z)'.g => x = z
      BY <1>5 DEF LInv, SetUpAlone
    <2>2. \A w \in Workers : \A k \in DOMAIN queue[w] : ~BeingSetUp(queue[w][k].g)'
      BY <1>7 DEF LInv, SetUpAlone
    <2>3. ~BeingSetUp(held)'
      BY <1>7 DEF LInv, SetUpAlone
    <2> QED  BY <2>1, <2>2, <2>3 DEF SetUpAlone, Entering
  <1>10. QueuesFilled'
    BY QueuesTyped DEF QueuesFilled, FuncOf, LInv
  <1>11. HeldRight'
    <2>1. held \in Groups \union {NoGroup}
      BY DEF TypeOK
    <2> QED  BY <2>1 DEF LInv, HeldRight, FuncOf, UnderWay
  <1>12. OneOwner'
    <2>1. \A x, z \in Place' :
              Owner(FrameAt(x)') /\ Owner(FrameAt(z)') /\ FrameAt(x)'.g = FrameAt(z)'.g
              => x = z
      BY <1>5 DEF LInv, OneOwner
    <2>2. \A x \in Place' : Owner(FrameAt(x)') /\ FrameAt(x)'.g[1] = 0 => x[1] = 0
      BY <1>5 DEF LInv, OneOwner
    <2>3. \A x \in Place' : Owner(FrameAt(x)') /\ ~Entering(FrameAt(x)')
              => UnderWay(FuncOf(FrameAt(x).g))'
      <3>1. \A x \in Place' : Owner(FrameAt(x)') /\ ~Entering(FrameAt(x)')
                => UnderWay(group[FrameAt(x).g].func)
        BY <1>5 DEF LInv, OneOwner, FuncOf
      <3>2. \A x \in Place' : Owner(FrameAt(x)') => FrameAt(x).g \in Groups
        BY <1>5, <1>1 DEF LInv, FramesRight, FrameRight, Owner
      <3>3. \A x \in Place' : FuncOf(FrameAt(x).g)' = group'[FrameAt(x).g].func
        BY <1>5 DEF FuncOf
      <3> QED  BY <3>1, <3>2, <3>3 DEF UnderWay
    <2> QED  BY <2>1, <2>2, <2>3 DEF OneOwner, Owner, Entering
  <1>13. CallsApart'
    <2>1. \A g, h \in Groups : FuncOf(g)' = FuncOf(h)' /\ FuncOf(g)' # NoCall => g = h
      BY DEF LInv, CallsApart, FuncOf
    <2>2. \A g \in Groups : FuncOf(g)' # NoCall => FuncOf(g)' \in Called'
      BY DEF LInv, CallsApart, FuncOf
    <2>3. \A x \in Place' : Entering(FrameAt(x)') =>
              /\ UnderWay(FrameAt(x).c)'
              /\ \A g \in Groups : FuncOf(g)' # FrameAt(x)'.c
      BY <1>5 DEF LInv, CallsApart, FuncOf, UnderWay
    <2>4. ASSUME NEW x \in Place', Entering(FrameAt(x)'), NEW w \in Items(FrameAt(x)'.c)
          PROVE  begun'[w] = 0
      <3>1. x \in Place /\ Entering(FrameAt(x)) /\ FrameAt(x)'.c = FrameAt(x).c
        BY <1>5, <2>4
      <3>2. FrameAt(x).c \in Calls
        BY <1>1, <3>1 DEF LInv, FramesRight, FrameRight, Entering
      <3>3. w \in AllItems /\ w[1] = FrameAt(x).c
        BY <2>4, <3>1, <3>2, ItemsOf
      <3>4. begun[w] = 0 /\ \A g \in Groups : FuncOf(g) # w[1]
        BY <2>4, <3>1, <3>3 DEF LInv, CallsApart
      <3> QED  BY <3>3, <3>4
    <2>5. \A x, z \in Place' :
              Entering(FrameAt(x)') /\ Entering(FrameAt(z)') /\ FrameAt(x)'.c = FrameAt(z)'.c
              => x = z
      BY <1>5 DEF LInv, CallsApart
    <2> QED  BY <2>1, <2>2, <2>3, <2>4, <2>5 DEF CallsApart, Entering
  <1> QED  BY <1>7, <1>8, <1>9, <1>10, <1>11, <1>12, <1>13 DEF Structure

LEMMA EnqueueCountersStep ==
    ASSUME TypeOK, LInv, NEW t \in Threads, EnqueueCounters(t)
    PROVE  TypeOK' /\ LInv'
  <1>1. PICK y : y = TopOf(t)
    OBVIOUS
  <1>2. PICK f : f = Top(t)
    OBVIOUS
  <1>3. PICK h : h = [f EXCEPT !.at = "fields"]
    OBVIOUS
  <1>4. /\ At(t, "counters") /\ Goto(t, h)
        /\ group' = [group EXCEPT ![f.g].remaining = Size(f.c), ![f.g].ctr = 0]
        /\ UNCHANGED <<program, step, held, pos, queue, begun, ended, returned>>
    BY <1>2, <1>3 DEF EnqueueCounters
  <1>5. /\ Stacks /\ stack[t] # <<>> /\ y \in Place /\ y[1] = t
        /\ FrameAt(y) = f /\ f \in Frames /\ f.at = "counters"
    BY <1>1, <1>2, <1>4, TopFrame
  <1>6. /\ h \in Frames /\ h.at = "fields" /\ h.g = f.g /\ h.c = f.c /\ h.i = f.i
        /\ h.wff = f.wff
    BY <1>3, <1>5 DEF Frames
  <1>7. Stacks' /\ Moved(y, h) /\ Place' = Place
    BY <1>1, <1>4, <1>5, <1>6, GotoMoves
  <1>8. FrameRight(f)
    BY <1>5 DEF LInv, FramesRight
  <1>9. f.g \in Groups /\ f.c \in Calls
    BY <1>5, <1>8 DEF FrameRight
  <1>10. GoesOn(y, h)
    BY <1>5, <1>6, <1>8 DEF GoesOn, FrameRight, Entering, Owner
  <1>11. /\ group' \in [Groups -> GroupRecord]
         /\ \A g \in Groups : group'[g].func = group[g].func
         /\ \A g \in Groups : g # f.g => group'[g] = group[g]
         /\ group'[f.g].ctr = 0 /\ group'[f.g].remaining = Size(f.c)
    <2>1. PICK r : r = [group[f.g] EXCEPT !.remaining = Size(f.c), !.ctr = 0]
      OBVIOUS
    <2>2. group[f.g] \in GroupRecord /\ group \in [Groups -> GroupRecord]
      BY <1>9, GroupsTyped
    <2>3. Size(f.c) \in Nat
      BY <1>9, CallShape
    <2>4. /\ r \in GroupRecord /\ r.func = group[f.g].func
          /\ r.ctr = 0 /\ r.remaining = Size(f.c)
      BY <2>1, <2>2, <2>3 DEF GroupRecord
    <2>5. group' = [group EXCEPT ![f.g] = r]
      BY <1>4, <2>1
    <2> QED  BY <1>9, <2>2, <2>4, <2>5
  <1>12. Called' = Called
    BY <1>4, CalledSame
  <1>13. Structure' /\ \A g : BeingSetUp(g)' <=> BeingSetUp(g)
    BY <1>4, <1>5, <1>6, <1>7, <1>10, <1>11, <1>12, FrameGoesOn
  <1>14. BeingSetUp(f.g)
    BY <1>5 DEF BeingSetUp, Entering
  <1>15. \A x \in Place : x # y => FrameAt(x)' = FrameAt(x) /\ FrameAt(x).g # f.g
    BY <1>5, <1>7 DEF Moved, LInv, SetUpAlone, Entering
  <1>16. FrameAt(y)' = h
    BY <1>5, <1>7 DEF Moved
  <1>17. \A x \in Place : FrameAt(x) \in Frames
    BY <1>5, FramesTyped
  <1>18. CountersRight'
    <2>1. \A g \in Groups : FuncOf(g)' # NoCall /\ ~BeingSetUp(g)' =>
           /\ group'[g].remaining = Cardinality(Items(FuncOf(g)') \ ended')
           /\ \A w \in Items(FuncOf(g)') : w[2] >= group'[g].ctr => begun'[w] = 0
      BY <1>4, <1>11, <1>13, <1>14 DEF LInv, CountersRight, FuncOf
    <2>2. \A x \in Place' : FrameAt(x)'.at = "fields" =>
           /\ group'[FrameAt(x)'.g].ctr = 0
           /\ group'[FrameAt(x)'.g].remaining = Size(FrameAt(x)'.c)
      <3>1. \A x \in Place : FrameAt(x).at = "fields" => FrameAt(x).g \in Groups
        BY <1>17 DEF LInv, FramesRight, FrameRight
      <3> QED  BY <1>6, <1>7, <1>11, <1>15, <1>16, <3>1 DEF LInv, CountersRight
    <2> QED  BY <2>1, <2>2 DEF CountersRight
  <1>19. ClaimsRight'
    <2>1. \A x \in Place' : Working(FrameAt(x)') =>
              /\ x \in Place /\ FrameAt(x)' = FrameAt(x) /\ FrameAt(x).g \in Groups
              /\ FrameAt(x).g # f.g
      BY <1>6, <1>7, <1>15, <1>16, <1>17
      DEF LInv, FramesRight, FrameRight, Working
    <2>2. \A x \in Place' : Working(FrameAt(x)') =>
              /\ ItemAt(FrameAt(x))' = ItemAt(FrameAt(x))
              /\ group'[FrameAt(x).g] = group[FrameAt(x).g]
      BY <1>11, <2>1 DEF ItemAt, FuncOf
    <2>3. /\ \A x \in Place' : Working(FrameAt(x)') =>
              /\ FrameAt(x)'.i < group'[FrameAt(x)'.g].ctr
              /\ ItemAt(FrameAt(x))' \in AllItems /\ ItemAt(FrameAt(x))' \notin ended'
      BY <1>4, <2>1, <2>2 DEF LInv, ClaimsRight
    <2>4. \A x \in Place' : FrameAt(x)'.at = "body" => begun'[ItemAt(FrameAt(x))'] = 0
      BY <1>4, <2>1, <2>2 DEF LInv, ClaimsRight, Working
    <2>5. \A x \in Place' : FrameAt(x)'.at = "done" =>
              FrameAt(x)'.c = FuncOf(FrameAt(x).g)' /\ begun'[ItemAt(FrameAt(x))'] = 1
      BY <1>4, <2>1, <2>2 DEF LInv, ClaimsRight, Working, FuncOf
    <2>6. \A x, z \in Place' :
              /\ Working(FrameAt(x)') /\ Working(FrameAt(z)')
              /\ FrameAt(x)'.g = FrameAt(z)'.g /\ FrameAt(x)'.i = FrameAt(z)'.i
              => x = z
      BY <2>1 DEF LInv, ClaimsRight
    <2> QED  BY <2>3, <2>4, <2>5, <2>6 DEF ClaimsRight, Working
  <1>20. HistoryRight'
    BY <1>4, <1>12 DEF LInv, HistoryRight
  <1>21. TypeOK'
    BY <1>4, <1>7, <1>11 DEF TypeOK, Stacks, GroupRecord
  <1> QED  BY <1>13, <1>18, <1>19, <1>20, <1>21 DEF LInv, Structure

(* The group gets its function: from now on remainingTasks means the call. *)
LEMMA EnqueueFieldsStep ==
    ASSUME TypeOK, LInv, NEW t \in Threads, EnqueueFields(t)
    PROVE  TypeOK' /\ LInv'
  <1>1. PICK y : y = TopOf(t)
    OBVIOUS
  <1>2. PICK f : f = Top(t)
    OBVIOUS
  <1>3. PICK h : h = [f EXCEPT !.at = "push"]
    OBVIOUS
  <1>4. /\ At(t, "fields") /\ Goto(t, h)
        /\ group' = [group EXCEPT ![f.g].func = f.c]
        /\ UNCHANGED <<program, step, held, pos, queue, begun, ended, returned>>
    BY <1>2, <1>3 DEF EnqueueFields
  <1>5. /\ Stacks /\ stack[t] # <<>> /\ y \in Place /\ y[1] = t
        /\ FrameAt(y) = f /\ f \in Frames /\ f.at = "fields"
    BY <1>1, <1>2, <1>4, TopFrame
  <1>6. /\ h \in Frames /\ h.at = "push" /\ h.g = f.g /\ h.c = f.c /\ h.i = f.i
        /\ h.wff = f.wff
    BY <1>3, <1>5 DEF Frames
  <1>7. Stacks' /\ Moved(y, h) /\ Place' = Place
    BY <1>1, <1>4, <1>5, <1>6, GotoMoves
  <1>8. FrameRight(f) /\ Entering(FrameAt(y)) /\ Owner(FrameAt(y))
    BY <1>5 DEF LInv, FramesRight, Entering, Owner
  <1>9. f.g \in Groups /\ f.c \in Calls /\ f.i \in Workers /\ f.wff = FALSE /\ f.c # NoCall
    BY <1>5, <1>8, CallShape DEF FrameRight
  <1>10. /\ group' \in [Groups -> GroupRecord]
         /\ \A g \in Groups : g # f.g => group'[g] = group[g]
         /\ group'[f.g].func = f.c
         /\ group'[f.g].ctr = group[f.g].ctr
         /\ group'[f.g].remaining = group[f.g].remaining
    <2>1. PICK r : r = [group[f.g] EXCEPT !.func = f.c]
      OBVIOUS
    <2>2. group[f.g] \in GroupRecord /\ group \in [Groups -> GroupRecord]
      BY <1>9, GroupsTyped
    <2>3. /\ r \in GroupRecord /\ r.func = f.c
          /\ r.ctr = group[f.g].ctr /\ r.remaining = group[f.g].remaining
      BY <1>9, <2>1, <2>2 DEF GroupRecord
    <2>4. group' = [group EXCEPT ![f.g] = r]
      BY <1>4, <2>1
    <2> QED  BY <1>9, <2>2, <2>3, <2>4
  <1>11. Called' = Called /\ returned' = returned
    BY <1>4, CalledSame
  <1>12. \A x \in Place : x # y => FrameAt(x)' = FrameAt(x) /\ FrameAt(x).g # f.g
    BY <1>5, <1>7, <1>8 DEF Moved, LInv, SetUpAlone
  <1>13. FrameAt(y)' = h
    BY <1>5, <1>7 DEF Moved
  <1>14. \A x \in Place : FrameAt(x) \in Frames
    BY <1>5, FramesTyped
  <1>15. /\ UnderWay(f.c)
         /\ \A g \in Groups : FuncOf(g) # f.c
         /\ \A w \in Items(f.c) : begun[w] = 0
         /\ \A x \in Place : x # y /\ Entering(FrameAt(x)) => FrameAt(x).c # f.c
    BY <1>5, <1>8 DEF LInv, CallsApart
  <1>16. \A g : BeingSetUp(g)' <=> BeingSetUp(g) /\ g # f.g
    <2>1. ~Entering(h)
      BY <1>6 DEF Entering
    <2>2. \A g : BeingSetUp(g)' => BeingSetUp(g) /\ g # f.g
      BY <1>7, <1>12, <1>13, <2>1 DEF BeingSetUp, Entering
    <2>3. \A g : BeingSetUp(g) /\ g # f.g => BeingSetUp(g)'
      BY <1>5, <1>7, <1>12 DEF BeingSetUp, Entering
    <2> QED  BY <2>2, <2>3
  <1>17. BeingSetUp(f.g)
    BY <1>5, <1>8 DEF BeingSetUp
  <1>18. \A g \in Groups : g # f.g => FuncOf(g)' = FuncOf(g)
    BY <1>10 DEF FuncOf
  <1>19. FuncOf(f.g)' = f.c
    BY <1>10 DEF FuncOf
  <1>20. FramesRight'
    <2> SUFFICES ASSUME NEW x \in Place PROVE FrameRight(FrameAt(x))'
      BY <1>7 DEF FramesRight
    <2>1. CASE x = y
      BY <2>1, <1>6, <1>9, <1>10, <1>13 DEF FrameRight, FuncOf
    <2>2. CASE x # y
      BY <2>2, <1>10, <1>12, <1>14 DEF LInv, FramesRight, FrameRight, FuncOf
    <2> QED  BY <2>1, <2>2
  <1>21. SetUpAlone'
    <2>1. \A x, z \in Place :
              Entering(FrameAt(x)') /\ FrameAt(x)'.g = FrameAt(z)'.g => x = z
      BY <1>6, <1>12, <1>13 DEF LInv, SetUpAlone, Entering
    <2>2. \A w \in Workers : \A k \in DOMAIN queue'[w] : ~BeingSetUp(queue[w][k].g)'
      BY <1>4, <1>16 DEF LInv, SetUpAlone
    <2>3. ~BeingSetUp(held)'
      BY <1>4, <1>16 DEF LInv, SetUpAlone
    <2> QED  BY <1>7, <2>1, <2>2, <2>3 DEF SetUpAlone, Entering
  <1>22. QueuesFilled'
    BY <1>4, <1>9, <1>10, QueuesTyped DEF QueuesFilled, FuncOf, LInv
  <1>23. HeldRight'
    <2>1. held \in Groups \union {NoGroup} /\ held # f.g
      BY <1>17 DEF TypeOK, LInv, SetUpAlone
    <2> QED  BY <1>4, <1>10, <1>11, <2>1 DEF LInv, HeldRight, FuncOf, UnderWay
  <1>24. OneOwner'
    <2>1. \A x \in Place : Owner(FrameAt(x)') =>
              Owner(FrameAt(x)) /\ FrameAt(x)'.g = FrameAt(x).g
      BY <1>5, <1>6, <1>8, <1>12, <1>13
    <2>2. \A x, z \in Place :
              Owner(FrameAt(x)') /\ Owner(FrameAt(z)') /\ FrameAt(x)'.g = FrameAt(z)'.g
              => x = z
      BY <2>1 DEF LInv, OneOwner
    <2>3. \A x \in Place : Owner(FrameAt(x)') /\ FrameAt(x)'.g[1] = 0 => x[1] = 0
      BY <2>1 DEF LInv, OneOwner
    <2>4. ASSUME NEW x \in Place, Owner(FrameAt(x)'), ~Entering(FrameAt(x)')
          PROVE  UnderWay(FuncOf(FrameAt(x).g))'
      <3>1. CASE x = y
        BY <1>6, <1>10, <1>11, <1>13, <1>15, <3>1 DEF UnderWay, FuncOf
      <3>2. CASE x # y
        <4>1. FrameAt(x)' = FrameAt(x) /\ FrameAt(x).g # f.g /\ FrameAt(x).g \in Groups
          BY <1>12, <1>14, <2>4, <3>2 DEF LInv, FramesRight, FrameRight, Owner
        <4>2. UnderWay(FuncOf(FrameAt(x).g))
          BY <2>4, <4>1 DEF LInv, OneOwner
        <4> QED  BY <1>10, <1>11, <4>1, <4>2 DEF UnderWay, FuncOf
      <3> QED  BY <3>1, <3>2
    <2> QED  BY <1>7, <2>2, <2>3, <2>4 DEF OneOwner, Owner, Entering
  <1>25. CallsApart'
    <2>1. \A g, k \in Groups : FuncOf(g)' = FuncOf(k)' /\ FuncOf(g)' # NoCall => g = k
      BY <1>15, <1>18, <1>19 DEF LInv, CallsApart
    <2>2. \A g \in Groups : FuncOf(g)' # NoCall => FuncOf(g)' \in Called'
      BY <1>11, <1>15, <1>18, <1>19 DEF LInv, CallsApart, UnderWay
    <2>3. \A x \in Place : Entering(FrameAt(x)') =>
              x # y /\ Entering(FrameAt(x)) /\ FrameAt(x)' = FrameAt(x)
      BY <1>6, <1>12, <1>13 DEF Entering
    <2>4. \A x \in Place : Entering(FrameAt(x)') =>
              /\ UnderWay(FrameAt(x).c)'
              /\ \A g \in Groups : FuncOf(g)' # FrameAt(x)'.c
              /\ \A w \in Items(FrameAt(x)'.c) : begun'[w] = 0
      BY <1>4, <1>11, <1>15, <1>18, <1>19, <2>3 DEF LInv, CallsApart, UnderWay
    <2>5. \A x, z \in Place :
              Entering(FrameAt(x)') /\ Entering(FrameAt(z)') /\ FrameAt(x)'.c = FrameAt(z)'.c
              => x = z
      BY <2>3 DEF LInv, CallsApart
    <2> QED  BY <1>7, <2>1, <2>2, <2>4, <2>5 DEF CallsApart, Entering
  <1>26. CountersRight'
    <2>1. /\ group[f.g].ctr = 0 /\ group[f.g].remaining = Size(f.c)
      BY <1>5 DEF LInv, CountersRight
    <2>2. Items(f.c) \ ended = Items(f.c)
      <3>1. \A w \in Items(f.c) : begun[w] = 0
        BY <1>15
      <3> QED  BY <3>1 DEF LInv, HistoryRight
    <2>3. Cardinality(Items(f.c) \ ended) = Size(f.c)
      BY <1>9, <2>2, ItemsOf
    <2>4. ASSUME NEW g \in Groups, FuncOf(g)' # NoCall, ~BeingSetUp(g)'
          PROVE  /\ group'[g].remaining = Cardinality(Items(FuncOf(g)') \ ended')
                 /\ \A w \in Items(FuncOf(g)') : w[2] >= group'[g].ctr => begun'[w] = 0
      <3>1. CASE g = f.g
        BY <1>4, <1>10, <1>15, <1>19, <2>1, <2>3, <3>1
      <3>2. CASE g # f.g
        <4>1. FuncOf(g)' = FuncOf(g) /\ group'[g] = group[g] /\ ~BeingSetUp(g)
          BY <1>10, <1>16, <1>18, <2>4, <3>2
        <4> QED  BY <1>4, <2>4, <4>1 DEF LInv, CountersRight
      <3> QED  BY <3>1, <3>2
    <2>5. \A x \in Place : FrameAt(x)'.at = "fields" =>
           /\ group'[FrameAt(x)'.g].ctr = 0
           /\ group'[FrameAt(x)'.g].remaining = Size(FrameAt(x)'.c)
      <3>1. \A x \in Place : FrameAt(x).at = "fields" => FrameAt(x).g \in Groups
        BY <1>14 DEF LInv, FramesRight, FrameRight
      <3> QED  BY <1>6, <1>10, <1>12, <1>13, <3>1 DEF LInv, CountersRight
    <2> QED  BY <1>7, <2>4, <2>5 DEF CountersRight
  <1>27. ClaimsRight'
    <2>1. \A x \in Place' : Working(FrameAt(x)') =>
              /\ x \in Place /\ FrameAt(x)' = FrameAt(x) /\ FrameAt(x).g \in Groups
              /\ FrameAt(x).g # f.g
      BY <1>6, <1>7, <1>12, <1>13, <1>14
      DEF LInv, FramesRight, FrameRight, Working
    <2>2. \A x \in Place' : Working(FrameAt(x)') =>
              /\ ItemAt(FrameAt(x))' = ItemAt(FrameAt(x))
              /\ group'[FrameAt(x).g] = group[FrameAt(x).g]
      BY <1>10, <2>1 DEF ItemAt, FuncOf
    <2>3. /\ \A x \in Place' : Working(FrameAt(x)') =>
              /\ FrameAt(x)'.i < group'[FrameAt(x)'.g].ctr
              /\ ItemAt(FrameAt(x))' \in AllItems /\ ItemAt(FrameAt(x))' \notin ended'
      BY <1>4, <2>1, <2>2 DEF LInv, ClaimsRight
    <2>4. \A x \in Place' : FrameAt(x)'.at = "body" => begun'[ItemAt(FrameAt(x))'] = 0
      BY <1>4, <2>1, <2>2 DEF LInv, ClaimsRight, Working
    <2>5. \A x \in Place' : FrameAt(x)'.at = "done" =>
              FrameAt(x)'.c = FuncOf(FrameAt(x).g)' /\ begun'[ItemAt(FrameAt(x))'] = 1
      BY <1>4, <2>1, <2>2 DEF LInv, ClaimsRight, Working, FuncOf
    <2>6. \A x, z \in Place' :
              /\ Working(FrameAt(x)') /\ Working(FrameAt(z)')
              /\ FrameAt(x)'.g = FrameAt(z)'.g /\ FrameAt(x)'.i = FrameAt(z)'.i
              => x = z
      BY <2>1 DEF LInv, ClaimsRight
    <2> QED  BY <2>3, <2>4, <2>5, <2>6 DEF ClaimsRight, Working
  <1>28. HistoryRight'
    BY <1>4, <1>11 DEF LInv, HistoryRight
  <1>29. TypeOK'
    BY <1>4, <1>7, <1>10 DEF TypeOK, Stacks, GroupRecord
  <1> QED
    BY <1>20, <1>21, <1>22, <1>23, <1>24, <1>25, <1>26, <1>27, <1>28, <1>29 DEF LInv

(* The next index is claimed: nobody has begun it.                         *)
LEMMA ClaimStep ==
    ASSUME TypeOK, LInv, NEW t \in Threads, Claim(t)
    PROVE  TypeOK' /\ LInv'
  <1>1. PICK y : y = TopOf(t)
    OBVIOUS
  <1>2. PICK f : f = Top(t)
    OBVIOUS
  <1>3. PICK n : n = group[f.g].ctr
    OBVIOUS
  <1>4. PICK h : h = [f EXCEPT !.at = "body", !.i = n]
    OBVIOUS
  <1>5. /\ At(t, "claim") /\ Goto(t, h)
        /\ n < LimitOf(f.g)
        /\ group' = [group EXCEPT ![f.g].ctr = @ + 1]
        /\ UNCHANGED <<program, step, held, pos, queue, begun, ended, returned>>
    BY <1>2, <1>3, <1>4 DEF Claim
  <1>6. /\ Stacks /\ stack[t] # <<>> /\ y \in Place /\ y[1] = t
        /\ FrameAt(y) = f /\ f \in Frames /\ f.at = "claim"
    BY <1>1, <1>2, <1>5, TopFrame
  <1>7. FrameRight(f) /\ ~Entering(FrameAt(y))
    BY <1>6 DEF LInv, FramesRight, Entering
  <1>8. f.g \in Groups /\ FuncOf(f.g) # NoCall /\ FuncOf(f.g) \in Calls /\ n \in Nat
    <2>1. f.g \in Groups /\ FuncOf(f.g) # NoCall
      BY <1>6, <1>7 DEF FrameRight
    <2> QED  BY <2>1, <1>3, GroupsTyped DEF FuncOf
  <1>9. ~BeingSetUp(f.g)
    BY <1>6, <1>7 DEF LInv, SetUpAlone, BeingSetUp
  <1>10. /\ h \in Frames /\ h.at = "body" /\ h.g = f.g /\ h.i = n /\ h.wff = f.wff
    BY <1>4, <1>6, <1>8 DEF Frames
  <1>11. Stacks' /\ Moved(y, h) /\ Place' = Place
    BY <1>1, <1>5, <1>6, <1>10, GotoMoves
  <1>12. GoesOn(y, h)
    BY <1>6, <1>7, <1>8, <1>10 DEF GoesOn, FrameRight, Entering, Owner
  <1>13. /\ group' \in [Groups -> GroupRecord]
         /\ \A g \in Groups : group'[g].func = group[g].func
         /\ \A g \in Groups : group'[g].remaining = group[g].remaining
         /\ \A g \in Groups : g # f.g => group'[g] = group[g]
         /\ group'[f.g].ctr = n + 1
    <2>1. PICK r : r = [group[f.g] EXCEPT !.ctr = n + 1]
      OBVIOUS
    <2>2. group[f.g] \in GroupRecord /\ group \in [Groups -> GroupRecord]
      BY <1>8, GroupsTyped
    <2>3. n + 1 \in Nat
      BY <1>8
    <2>4. /\ r \in GroupRecord /\ r.func = group[f.g].func
          /\ r.ctr = n + 1 /\ r.remaining = group[f.g].remaining
      BY <2>1, <2>2, <2>3 DEF GroupRecord
    <2>5. group' = [group EXCEPT ![f.g] = r]
      BY <1>3, <1>5, <2>1
    <2> QED  BY <1>8, <2>2, <2>4, <2>5
  <1>14. Called' = Called
    BY <1>5, CalledSame
  <1>15. Structure' /\ \A g : BeingSetUp(g)' <=> BeingSetUp(g)
    BY <1>5, <1>6, <1>10, <1>11, <1>12, <1>13, <1>14, FrameGoesOn
  <1>16. \A x \in Place : x # y => FrameAt(x)' = FrameAt(x)
    BY <1>11 DEF Moved
  <1>17. FrameAt(y)' = h
    BY <1>6, <1>11 DEF Moved
  <1>18. \A x \in Place : FrameAt(x) \in Frames
    BY <1>6, FramesTyped
  <1>19. PICK w : w = <<FuncOf(f.g), n>>
    OBVIOUS
  <1>20. w \in Items(FuncOf(f.g)) /\ w \in AllItems /\ begun[w] = 0 /\ w \notin ended
    <2>1. n < Size(FuncOf(f.g)) /\ Size(FuncOf(f.g)) \in Nat
      BY <1>5, <1>8, CallShape DEF LimitOf, FuncOf
    <2>2. w \in Items(FuncOf(f.g))
      <3>1. n \in 0..(Size(FuncOf(f.g)) - 1)
        BY <1>8, <2>1
      <3> QED  BY <1>8, <1>19, <3>1, ItemsOf
    <2>3. w[2] = n /\ n >= group[f.g].ctr
      BY <1>3, <1>8, <1>19
    <2>4. w \in AllItems /\ begun[w] = 0
      BY <1>8, <1>9, <2>2, <2>3, ItemsOf DEF LInv, CountersRight
    <2> QED  BY <2>2, <2>4 DEF LInv, HistoryRight
  <1>21. CountersRight'
    <2>1. ASSUME NEW g \in Groups, FuncOf(g)' # NoCall, ~BeingSetUp(g)'
          PROVE  /\ group'[g].remaining = Cardinality(Items(FuncOf(g)') \ ended')
                 /\ \A v \in Items(FuncOf(g)') : v[2] >= group'[g].ctr => begun'[v] = 0
      <3>1. FuncOf(g)' = FuncOf(g) /\ ~BeingSetUp(g) /\ FuncOf(g) \in Calls
        BY <1>13, <1>15, <2>1, GroupsTyped DEF FuncOf
      <3>2. /\ group[g].remaining = Cardinality(Items(FuncOf(g)) \ ended)
            /\ \A v \in Items(FuncOf(g)) : v[2] >= group[g].ctr => begun[v] = 0
        BY <2>1, <3>1 DEF LInv, CountersRight
      <3>3. \A v \in Items(FuncOf(g)) : v[2] \in Nat
        BY <3>1, ItemsOf, CallShape
      <3>4. \A v \in Items(FuncOf(g)) : v[2] >= group'[g].ctr => v[2] >= group[g].ctr
        BY <1>3, <1>8, <1>13, <3>3
      <3> QED  BY <1>5, <1>13, <3>1, <3>2, <3>4
    <2>2. \A x \in Place : FrameAt(x)'.at = "fields" =>
           /\ group'[FrameAt(x)'.g].ctr = 0
           /\ group'[FrameAt(x)'.g].remaining = Size(FrameAt(x)'.c)
      <3>1. \A x \in Place : FrameAt(x)'.at = "fields" =>
                /\ FrameAt(x)' = FrameAt(x) /\ FrameAt(x).g \in Groups
                /\ FrameAt(x).g # f.g
        BY <1>9, <1>10, <1>16, <1>17, <1>18
        DEF LInv, FramesRight, FrameRight, BeingSetUp, Entering
      <3> QED  BY <1>13, <3>1 DEF LInv, CountersRight
    <2> QED  BY <1>11, <2>1, <2>2 DEF CountersRight
  <1>22. ClaimsRight'
    <2>1. \A x \in Place : x # y /\ Working(FrameAt(x)') =>
              /\ FrameAt(x)' = FrameAt(x) /\ FrameAt(x).g \in Groups
              /\ Working(FrameAt(x)) /\ FrameAt(x).i \in Nat
              /\ ItemAt(FrameAt(x))' = ItemAt(FrameAt(x))
              /\ FrameAt(x).i < group[FrameAt(x).g].ctr
      <3>1. \A x \in Place : x # y /\ Working(FrameAt(x)') =>
                /\ FrameAt(x)' = FrameAt(x) /\ FrameAt(x).g \in Groups
                /\ Working(FrameAt(x)) /\ FrameAt(x).i \in Nat
        BY <1>16, <1>18 DEF LInv, FramesRight, FrameRight, Working, Frames
      <3> QED  BY <1>13, <3>1 DEF ItemAt, FuncOf, LInv, ClaimsRight
    <2>2. ItemAt(FrameAt(y))' = w
      BY <1>8, <1>10, <1>13, <1>17, <1>19 DEF ItemAt, FuncOf
    <2>3. \A x \in Place' : Working(FrameAt(x)') =>
              /\ FrameAt(x)'.i < group'[FrameAt(x)'.g].ctr
              /\ ItemAt(FrameAt(x))' \in AllItems /\ ItemAt(FrameAt(x))' \notin ended'
      <3> SUFFICES ASSUME NEW x \in Place, Working(FrameAt(x)')
                   PROVE  /\ FrameAt(x)'.i < group'[FrameAt(x)'.g].ctr
                          /\ ItemAt(FrameAt(x))' \in AllItems
                          /\ ItemAt(FrameAt(x))' \notin ended'
        BY <1>11
      <3>1. CASE x = y
        BY <1>5, <1>8, <1>10, <1>13, <1>17, <1>20, <2>2, <3>1
      <3>2. CASE x # y
        <4>1. FrameAt(x).i < group'[FrameAt(x).g].ctr
          BY <1>3, <1>8, <1>13, <2>1, <3>2, GroupsTyped
        <4> QED  BY <1>5, <2>1, <3>2, <4>1 DEF LInv, ClaimsRight
      <3> QED  BY <3>1, <3>2
    <2>4. \A x \in Place : FrameAt(x)'.at = "body" => begun'[ItemAt(FrameAt(x))'] = 0
      BY <1>5, <1>20, <2>1, <2>2 DEF LInv, ClaimsRight, Working
    <2>5. \A x \in Place : FrameAt(x)'.at = "done" =>
              FrameAt(x)'.c = FuncOf(FrameAt(x).g)' /\ begun'[ItemAt(FrameAt(x))'] = 1
      <3>1. \A x \in Place : FrameAt(x)'.at = "done" => x # y /\ Working(FrameAt(x)')
        BY <1>10, <1>17 DEF Working
      <3> QED  BY <1>5, <1>13, <2>1, <3>1 DEF LInv, ClaimsRight, FuncOf
    <2>6. ASSUME NEW x \in Place, NEW z \in Place,
                 Working(FrameAt(x)'), Working(FrameAt(z)'),
                 FrameAt(x)'.g = FrameAt(z)'.g, FrameAt(x)'.i = FrameAt(z)'.i
          PROVE  x = z
      <3>1. CASE x # y /\ z # y
        BY <2>1, <2>6, <3>1 DEF LInv, ClaimsRight
      <3>2. \A u \in Place : u # y /\ Working(FrameAt(u)') /\ FrameAt(u)'.g = f.g
                => FrameAt(u)'.i # n
        BY <1>3, <1>8, <2>1
      <3> QED  BY <1>10, <1>17, <2>6, <3>1, <3>2
    <2> QED  BY <1>11, <2>3, <2>4, <2>5, <2>6 DEF ClaimsRight, Working
  <1>23. HistoryRight'
    BY <1>5, <1>14 DEF LInv, HistoryRight
  <1>24. TypeOK'
    BY <1>5, <1>11, <1>13 DEF TypeOK, Stacks, GroupRecord
  <1> QED  BY <1>15, <1>21, <1>22, <1>23, <1>24 DEF LInv, Structure

LEMMA ClaimedItem ==
    ASSUME TypeOK, LInv, NEW y \in Place, NEW f \in Frames, FrameAt(y) = f, Working(f)
    PROVE  /\ f.g \in Groups /\ FuncOf(f.g) \in Calls /\ FuncOf(f.g) # NoCall
           /\ UnderWay(FuncOf(f.g))
           /\ ItemAt(f) \in Items(FuncOf(f.g)) /\ ItemAt(f) \in AllItems
           /\ ItemAt(f) \notin ended
           /\ ~BeingSetUp(f.g) /\ ~Entering(f)
  <1>1. ~Entering(f)
    BY DEF Working, Entering
  <1>2. f.g \in Groups /\ FuncOf(f.g) # NoCall
    BY DEF LInv, FramesRight, FrameRight, Working
  <1>3. FuncOf(f.g) \in Calls
    BY <1>2, GroupsTyped DEF FuncOf
  <1>4. ~BeingSetUp(f.g)
    BY <1>1 DEF LInv, SetUpAlone, BeingSetUp
  <1>5. ItemAt(f) \in AllItems /\ ItemAt(f) \notin ended
    BY DEF LInv, ClaimsRight
  <1>6. ItemAt(f)[1] = FuncOf(f.g)
    BY DEF ItemAt
  <1>7. ItemAt(f) \in Items(FuncOf(f.g))
    BY <1>5, <1>6, ItemOf
  <1>8. FuncOf(f.g) \notin returned
    BY <1>5, <1>7 DEF LInv, HistoryRight
  <1>9. FuncOf(f.g) \in Called
    BY <1>2 DEF LInv, CallsApart
  <1> QED  BY <1>1, <1>2, <1>3, <1>4, <1>5, <1>7, <1>8, <1>9 DEF UnderWay

(* The function has returned: one index less is missing.                   *)
LEMMA DoneStep ==
    ASSUME TypeOK, LInv, NEW t \in Threads, Done(t)
    PROVE  TypeOK' /\ LInv'
  <1>1. PICK y : y = TopOf(t)
    OBVIOUS
  <1>2. PICK f : f = Top(t)
    OBVIOUS
  <1>3. PICK e : e = [f EXCEPT !.c = NoCall]
    OBVIOUS
  <1>4. PICK w : w = <<f.c, f.i>>
    OBVIOUS
  <1>5. /\ At(t, "done")
        /\ ended' = ended \union {w}
        /\ group' = [group EXCEPT ![f.g].remaining = @ - 1]
        /\ IF KeepsGoing(t, f)
           THEN Goto(t, [f EXCEPT !.at = "claim", !.c = NoCall])
           ELSE LeaveLoop(t, e)
        /\ UNCHANGED <<program, step, held, pos, queue, begun, returned>>
    BY <1>2, <1>3, <1>4 DEF Done
  <1>6. /\ Stacks /\ stack[t] # <<>> /\ y \in Place /\ y[1] = t
        /\ FrameAt(y) = f /\ f \in Frames /\ f.at = "done"
    BY <1>1, <1>2, <1>5, TopFrame
  <1>7. /\ FrameRight(f) /\ Working(f)
        /\ f.c = FuncOf(f.g) /\ begun[ItemAt(f)] = 1
    BY <1>6 DEF LInv, FramesRight, Working, ClaimsRight
  <1>8. /\ f.g \in Groups /\ FuncOf(f.g) \in Calls /\ FuncOf(f.g) # NoCall
        /\ UnderWay(FuncOf(f.g)) /\ ~BeingSetUp(f.g) /\ ~Entering(FrameAt(y))
        /\ w = ItemAt(f) /\ w \in Items(FuncOf(f.g)) /\ w \in AllItems /\ w \notin ended
        /\ begun[w] = 1
    <2>1. w = ItemAt(f)
      BY <1>4, <1>7 DEF ItemAt
    <2> QED  BY <1>6, <1>7, <2>1, ClaimedItem
  <1>9. PICK h : /\ Moved(y, h)
                 /\ y \in Place' =>
                       /\ h \in Frames /\ h.g = f.g /\ h.wff = f.wff
                       /\ \/ h.at = "claim"
                          \/ h.at = "check" /\ h.wff = TRUE
                          \/ h.at = "reschedule" /\ h.wff = FALSE
    <2>1. CASE KeepsGoing(t, f)
      <3>1. PICK h : h = [f EXCEPT !.at = "claim", !.c = NoCall]
        OBVIOUS
      <3>2. h \in Frames /\ h.at = "claim" /\ h.g = f.g /\ h.wff = f.wff
        BY <1>6, <3>1 DEF Frames
      <3>3. Moved(y, h)
        BY <1>1, <1>5, <1>6, <2>1, <3>1, <3>2, GotoMoves
      <3> QED  BY <3>2, <3>3
    <2>2. CASE ~KeepsGoing(t, f)
      <3>1. e \in Frames /\ e.g = f.g /\ e.wff = f.wff
        BY <1>3, <1>6 DEF Frames
      <3>2. LeaveLoop(t, e)
        BY <1>5, <2>2
      <3>3. PICK h : /\ Moved(TopOf(t), h)
                     /\ TopOf(t) \in Place' =>
                            /\ h \in Frames /\ h.g = e.g /\ h.wff = e.wff
                            /\ \/ h.at = "check" /\ h.wff = TRUE
                               \/ h.at = "reschedule" /\ h.wff = FALSE
        BY <1>6, <3>1, <3>2, LeaveLoopMoves
      <3>4. /\ Moved(y, h)
            /\ y \in Place' =>
                  /\ h \in Frames /\ h.g = f.g /\ h.wff = f.wff
                  /\ \/ h.at = "claim"
                     \/ h.at = "check" /\ h.wff = TRUE
                     \/ h.at = "reschedule" /\ h.wff = FALSE
        BY <1>1, <3>1, <3>3
      <3> QED  BY <3>4
    <2> QED  BY <2>1, <2>2
  <1>10. Stacks'
    <2>1. CASE KeepsGoing(t, f)
      <3>1. PICK d : d = [f EXCEPT !.at = "claim", !.c = NoCall]
        OBVIOUS
      <3>2. d \in Frames
        BY <1>6, <3>1 DEF Frames
      <3> QED  BY <1>5, <1>6, <2>1, <3>1, <3>2, GotoMoves
    <2>2. CASE ~KeepsGoing(t, f)
      <3>1. e \in Frames
        BY <1>3, <1>6 DEF Frames
      <3> QED  BY <1>5, <1>6, <2>2, <3>1, LeaveLoopMoves
    <2> QED  BY <2>1, <2>2
  <1>11. y \in Place' => GoesOn(y, h) /\ ~Working(h)
    BY <1>6, <1>8, <1>9 DEF GoesOn, FrameRight, Entering, Owner, Working
  <1>12. PICK n : n = group[f.g].remaining
    OBVIOUS
  <1>13. /\ n = Cardinality(Items(FuncOf(f.g)) \ ended) /\ n \in Nat \ {0}
         /\ n - 1 = Cardinality(Items(FuncOf(f.g)) \ ended')
    <2>1. PICK S : S = Items(FuncOf(f.g)) \ ended
      OBVIOUS
    <2>2. w \in S /\ IsFiniteSet(S)
      BY <1>8, <2>1, ItemsOf, FS_Difference
    <2>3. Cardinality(S \ {w}) = Cardinality(S) - 1
      BY <2>2, FS_RemoveElement
    <2>4. Cardinality(S) \in Nat /\ Cardinality(S \ {w}) \in Nat
      <3>1. IsFiniteSet(S \ {w})
        BY <2>2, FS_Difference
      <3> QED  BY <2>2, <3>1, FS_CardinalityType
    <2>5. Items(FuncOf(f.g)) \ ended' = S \ {w}
      BY <1>5, <2>1
    <2>6. n = Cardinality(S)
      BY <1>8, <1>12, <2>1 DEF LInv, CountersRight
    <2> QED  BY <2>1, <2>3, <2>4, <2>5, <2>6
  <1>14. /\ group' \in [Groups -> GroupRecord]
         /\ \A g \in Groups : group'[g].func = group[g].func
         /\ \A g \in Groups : group'[g].ctr = group[g].ctr
         /\ \A g \in Groups : g # f.g => group'[g] = group[g]
         /\ group'[f.g].remaining = n - 1
    <2>1. PICK r : r = [group[f.g] EXCEPT !.remaining = n - 1]
      OBVIOUS
    <2>2. group[f.g] \in GroupRecord /\ group \in [Groups -> GroupRecord]
      BY <1>8, GroupsTyped
    <2>3. n - 1 \in Nat
      BY <1>13
    <2>4. /\ r \in GroupRecord /\ r.func = group[f.g].func
          /\ r.remaining = n - 1 /\ r.ctr = group[f.g].ctr
      BY <2>1, <2>2, <2>3 DEF GroupRecord
    <2>5. group' = [group EXCEPT ![f.g] = r]
      BY <1>5, <1>12, <2>1
    <2> QED  BY <1>8, <2>2, <2>4, <2>5
  <1>15. Called' = Called
    BY <1>5, CalledSame
  <1>16. Structure' /\ \A g : BeingSetUp(g)' <=> BeingSetUp(g)
    BY <1>5, <1>6, <1>8, <1>9, <1>10, <1>11, <1>14, <1>15, FrameGoesOn
  <1>17. \A x \in Place' : x # y => x \in Place /\ FrameAt(x)' = FrameAt(x)
    BY <1>9 DEF Moved
  <1>18. \A x \in Place' : x = y => FrameAt(x)' = h
    BY <1>9 DEF Moved
  <1>19. \A x \in Place : FrameAt(x) \in Frames
    BY <1>6, FramesTyped
  <1>20. CountersRight'
    <2>1. ASSUME NEW g \in Groups, FuncOf(g)' # NoCall, ~BeingSetUp(g)'
          PROVE  /\ group'[g].remaining = Cardinality(Items(FuncOf(g)') \ ended')
                 /\ \A v \in Items(FuncOf(g)') : v[2] >= group'[g].ctr => begun'[v] = 0
      <3>1. FuncOf(g)' = FuncOf(g) /\ ~BeingSetUp(g) /\ FuncOf(g) \in Calls
        BY <1>14, <1>16, <2>1, GroupsTyped DEF FuncOf
      <3>2. /\ group[g].remaining = Cardinality(Items(FuncOf(g)) \ ended)
            /\ \A v \in Items(FuncOf(g)) : v[2] >= group[g].ctr => begun[v] = 0
        BY <2>1, <3>1 DEF LInv, CountersRight
      <3>3. CASE g = f.g
        BY <1>5, <1>13, <1>14, <3>1, <3>2, <3>3
      <3>4. CASE g # f.g
        <4>1. FuncOf(g) # FuncOf(f.g)
          BY <1>8, <3>4 DEF LInv, CallsApart
        <4>2. w \notin Items(FuncOf(g))
          BY <1>8, <3>1, <4>1, ItemsApart
        <4>3. Items(FuncOf(g)) \ ended' = Items(FuncOf(g)) \ ended
          BY <1>5, <4>2
        <4> QED  BY <1>5, <1>14, <3>1, <3>2, <3>4, <4>3
      <3> QED  BY <3>3, <3>4
    <2>2. \A x \in Place' : FrameAt(x)'.at = "fields" =>
           /\ group'[FrameAt(x)'.g].ctr = 0
           /\ group'[FrameAt(x)'.g].remaining = Size(FrameAt(x)'.c)
      <3>1. \A x \in Place' : FrameAt(x)'.at = "fields" =>
                /\ x \in Place /\ FrameAt(x)' = FrameAt(x) /\ FrameAt(x).g \in Groups
                /\ FrameAt(x).g # f.g
        BY <1>8, <1>9, <1>17, <1>18, <1>19
        DEF LInv, FramesRight, FrameRight, BeingSetUp, Entering
      <3> QED  BY <1>14, <3>1 DEF LInv, CountersRight
    <2> QED  BY <2>1, <2>2 DEF CountersRight
  <1>21. ClaimsRight'
    <2>1. \A x \in Place' : Working(FrameAt(x)') =>
              /\ x # y /\ x \in Place /\ FrameAt(x)' = FrameAt(x) /\ FrameAt(x).g \in Groups
              /\ Working(FrameAt(x))
              /\ ItemAt(FrameAt(x))' = ItemAt(FrameAt(x))
      <3>1. \A x \in Place' : Working(FrameAt(x)') =>
                /\ x # y /\ x \in Place /\ FrameAt(x)' = FrameAt(x)
                /\ Working(FrameAt(x))
        BY <1>11, <1>17, <1>18
      <3>2. \A x \in Place : Working(FrameAt(x)) => FrameAt(x).g \in Groups
        BY <1>19 DEF LInv, FramesRight, FrameRight, Working
      <3> QED  BY <1>14, <3>1, <3>2 DEF ItemAt, FuncOf
    <2>2. \A x \in Place : x # y /\ Working(FrameAt(x)) => ItemAt(FrameAt(x)) # w
      <3> SUFFICES ASSUME NEW x \in Place, x # y, Working(FrameAt(x)),
                          ItemAt(FrameAt(x)) = w
                   PROVE  FALSE
        OBVIOUS
      <3>1. FuncOf(FrameAt(x).g) = FuncOf(f.g) /\ FrameAt(x).i = f.i
        BY <1>8 DEF ItemAt
      <3>2. FrameAt(x).g \in Groups
        BY <1>19, ClaimedItem
      <3>3. FrameAt(x).g = f.g
        BY <1>8, <3>1, <3>2 DEF LInv, CallsApart
      <3> QED  BY <1>6, <1>7, <3>1, <3>3 DEF LInv, ClaimsRight
    <2>3. \A x \in Place' : Working(FrameAt(x)') =>
              /\ FrameAt(x)'.i < group'[FrameAt(x)'.g].ctr
              /\ ItemAt(FrameAt(x))' \in AllItems /\ ItemAt(FrameAt(x))' \notin ended'
      BY <1>5, <1>14, <2>1, <2>2 DEF LInv, ClaimsRight
    <2>4. \A x \in Place' : FrameAt(x)'.at = "body" => begun'[ItemAt(FrameAt(x))'] = 0
      BY <1>5, <2>1 DEF LInv, ClaimsRight, Working
    <2>5. \A x \in Place' : FrameAt(x)'.at = "done" =>
              FrameAt(x)'.c = FuncOf(FrameAt(x).g)' /\ begun'[ItemAt(FrameAt(x))'] = 1
      BY <1>5, <1>14, <2>1 DEF LInv, ClaimsRight, Working, FuncOf
    <2>6. \A x, z \in Place' :
              /\ Working(FrameAt(x)') /\ Working(FrameAt(z)')
              /\ FrameAt(x)'.g = FrameAt(z)'.g /\ FrameAt(x)'.i = FrameAt(z)'.i
              => x = z
      BY <2>1 DEF LInv, ClaimsRight
    <2> QED  BY <2>3, <2>4, <2>5, <2>6 DEF ClaimsRight, Working
  <1>22. HistoryRight'
    BY <1>5, <1>8, <1>15 DEF LInv, HistoryRight
  <1>23. TypeOK'
    BY <1>5, <1>8, <1>10, <1>14 DEF TypeOK, Stacks, GroupRecord
  <1> QED  BY <1>16, <1>20, <1>21, <1>22, <1>23 DEF LInv, Structure

(* remainingTasks is 0 for a group that was set up: its call is complete.  *)
LEMMA CompleteCall ==
    ASSUME TypeOK, LInv, NEW g \in Groups, FuncOf(g) # NoCall, ~BeingSetUp(g),
           group[g].remaining = 0
    PROVE  Items(FuncOf(g)) \subseteq ended
  <1>1. FuncOf(g) \in Calls
    BY GroupsTyped DEF FuncOf
  <1>2. Cardinality(Items(FuncOf(g)) \ ended) = 0
    BY DEF LInv, CountersRight
  <1>3. IsFiniteSet(Items(FuncOf(g)) \ ended)
    BY <1>1, ItemsOf, FS_Difference
  <1>4. Items(FuncOf(g)) \ ended = {}
    BY <1>2, <1>3, FS_EmptySet
  <1> QED  BY <1>4

LEMMA FinishStep ==
    ASSUME TypeOK, LInv, NEW t \in Threads, Finish(t)
    PROVE  /\ TypeOK' /\ LInv'
           /\ \E c \in Calls : UnderWay(c) /\ Items(c) \subseteq ended
                               /\ returned' = returned \union {c}
           /\ Called' = Called /\ begun' = begun /\ ended' = ended
  <1>1. PICK y : y = TopOf(t)
    OBVIOUS
  <1>2. PICK f : f = Top(t)
    OBVIOUS
  <1>3. PICK g : g = f.g
    OBVIOUS
  <1>4. PICK c : c = FuncOf(g)
    OBVIOUS
  <1>5. /\ At(t, "check") /\ IsFinished(g)
        /\ group' = [group EXCEPT ![g].remaining = 0, ![g].inUse = FALSE]
        /\ returned' = returned \union {c}
        /\ IF IsHighPriority(g) THEN UNCHANGED held ELSE held' = NoGroup
        /\ Pop(t)
        /\ UNCHANGED <<program, step, pos, queue, begun, ended>>
    BY <1>2, <1>3, <1>4 DEF Finish, FuncOf
  <1>6. /\ Stacks /\ stack[t] # <<>> /\ y \in Place /\ y[1] = t
        /\ FrameAt(y) = f /\ f \in Frames /\ f.at = "check"
    BY <1>1, <1>2, <1>5, TopFrame
  <1>7. g \in Groups /\ c # NoCall /\ f.wff = TRUE
    BY <1>3, <1>4, <1>6 DEF LInv, FramesRight, FrameRight
  <1>8. c \in Calls
    BY <1>4, <1>7, GroupsTyped DEF FuncOf
  <1>9. ~Entering(f) /\ Owner(f) /\ ~Working(f)
    BY <1>6, <1>7 DEF Entering, Owner, Working
  <1>10. ~BeingSetUp(g)
    BY <1>3, <1>6, <1>9 DEF LInv, SetUpAlone, BeingSetUp
  <1>11. /\ \A x \in Place : x # y /\ Owner(FrameAt(x)) => FrameAt(x).g # g
         /\ UnderWay(c)
    BY <1>3, <1>4, <1>6, <1>9 DEF LInv, OneOwner
  <1>12. group[g].remaining = 0 /\ Items(c) \subseteq ended
    BY <1>4, <1>5, <1>7, <1>10, CompleteCall DEF IsFinished
  <1>13. Stacks' /\ Moved(y, 0) /\ y \notin Place'
    BY <1>1, <1>5, <1>6, PopMoves
  <1>14. /\ group' \in [Groups -> GroupRecord]
         /\ \A k \in Groups : /\ group'[k].func = group[k].func
                              /\ group'[k].ctr = group[k].ctr
                              /\ group'[k].remaining = group[k].remaining
    <2>1. PICK r : r = [group[g] EXCEPT !.remaining = 0, !.inUse = FALSE]
      OBVIOUS
    <2>2. group[g] \in GroupRecord /\ group \in [Groups -> GroupRecord]
      BY <1>7, GroupsTyped
    <2>3. /\ r \in GroupRecord /\ r.func = group[g].func
          /\ r.remaining = 0 /\ r.ctr = group[g].ctr
      BY <2>1, <2>2 DEF GroupRecord
    <2>4. group' = [group EXCEPT ![g] = r]
      BY <1>5, <2>1
    <2> QED  BY <1>7, <1>12, <2>2, <2>3, <2>4
  <1>15. Called' = Called
    BY <1>5, CalledSame
  <1>16. \A x \in Place' : x # y /\ x \in Place /\ FrameAt(x)' = FrameAt(x)
    BY <1>13 DEF Moved
  <1>17. \A x \in Place : Entering(FrameAt(x)) => x \in Place'
    BY <1>6, <1>9, <1>13 DEF Moved
  <1>18. \A k : BeingSetUp(k)' <=> BeingSetUp(k)
    BY <1>16, <1>17 DEF BeingSetUp, Entering
  <1>19. \A x \in Place : FrameAt(x) \in Frames
    BY <1>6, FramesTyped
  <1>20. \A k \in Groups : FuncOf(k)' = FuncOf(k)
    BY <1>14 DEF FuncOf
  <1>21. FramesRight'
    BY <1>14, <1>16, <1>19 DEF LInv, FramesRight, FrameRight, FuncOf
  <1>22. \A d : UnderWay(d) /\ d # c => UnderWay(d)'
    BY <1>5, <1>15 DEF UnderWay
  <1>23. held' = held \/ held' = NoGroup
    BY <1>5
  <1>24. SetUpAlone'
    <2>1. \A x, z \in Place' :
              Entering(FrameAt(x)') /\ FrameAt(x)'.g = FrameAt(z)'.g => x = z
      BY <1>16 DEF LInv, SetUpAlone
    <2>2. \A w \in Workers : \A k \in DOMAIN queue'[w] : ~BeingSetUp(queue[w][k].g)'
      BY <1>5, <1>18 DEF LInv, SetUpAlone
    <2>3. ~BeingSetUp(held)'
      BY <1>18, <1>23, NoGroupNotBeingSetUp DEF LInv, SetUpAlone
    <2> QED  BY <2>1, <2>2, <2>3 DEF SetUpAlone, Entering
  <1>25. QueuesFilled'
    BY <1>5, <1>14, QueuesTyped DEF QueuesFilled, FuncOf, LInv
  <1>26. HeldRight'
    <2> SUFFICES ASSUME held' # NoGroup
                 PROVE  held'[1] = 0 /\ FuncOf(held)' # NoCall /\ UnderWay(FuncOf(held))'
      BY DEF HeldRight
    <2>1. held' = held /\ g[1] # 0
      BY <1>5 DEF IsHighPriority
    <2>2. held \in Groups /\ held[1] = 0 /\ FuncOf(held) # NoCall /\ UnderWay(FuncOf(held))
      BY <2>1 DEF TypeOK, LInv, HeldRight
    <2>3. FuncOf(held)' = FuncOf(held)
      BY <1>14, <2>1, <2>2 DEF FuncOf
    <2>4. FuncOf(held) # c
      BY <1>4, <1>7, <2>1, <2>2 DEF LInv, CallsApart
    <2> QED  BY <1>5, <1>15, <2>1, <2>2, <2>3, <2>4 DEF UnderWay
  <1>27. OneOwner'
    <2>1. \A x, z \in Place' :
              Owner(FrameAt(x)') /\ Owner(FrameAt(z)') /\ FrameAt(x)'.g = FrameAt(z)'.g
              => x = z
      BY <1>16 DEF LInv, OneOwner
    <2>2. \A x \in Place' : Owner(FrameAt(x)') /\ FrameAt(x)'.g[1] = 0 => x[1] = 0
      BY <1>16 DEF LInv, OneOwner
    <2>3. ASSUME NEW x \in Place', Owner(FrameAt(x)'), ~Entering(FrameAt(x)')
          PROVE  UnderWay(FuncOf(FrameAt(x).g))'
      <3>1. x # y /\ x \in Place /\ FrameAt(x)' = FrameAt(x)
        BY <1>16
      <3>2. FrameAt(x).g \in Groups /\ FrameAt(x).g # g /\ UnderWay(FuncOf(FrameAt(x).g))
        BY <1>11, <1>19, <2>3, <3>1 DEF LInv, OneOwner, FramesRight, FrameRight, Owner
      <3>3. FuncOf(FrameAt(x).g) # c
        BY <1>4, <1>7, <3>2 DEF LInv, CallsApart
      <3>4. FuncOf(FrameAt(x).g)' = FuncOf(FrameAt(x).g)
        BY <1>14, <3>1, <3>2 DEF FuncOf
      <3> QED  BY <1>5, <1>15, <3>2, <3>3, <3>4 DEF UnderWay
    <2> QED  BY <2>1, <2>2, <2>3 DEF OneOwner, Owner, Entering
  <1>28. CallsApart'
    <2>1. \A k, l \in Groups : FuncOf(k)' = FuncOf(l)' /\ FuncOf(k)' # NoCall => k = l
      BY <1>20 DEF LInv, CallsApart
    <2>2. \A k \in Groups : FuncOf(k)' # NoCall => FuncOf(k)' \in Called'
      BY <1>15, <1>20 DEF LInv, CallsApart
    <2>3. \A x \in Place' : Entering(FrameAt(x)') =>
              /\ UnderWay(FrameAt(x).c)'
              /\ \A k \in Groups : FuncOf(k)' # FrameAt(x)'.c
              /\ \A w \in Items(FrameAt(x)'.c) : begun'[w] = 0
      <3> SUFFICES ASSUME NEW x \in Place', Entering(FrameAt(x)')
                   PROVE  /\ UnderWay(FrameAt(x).c)'
                          /\ \A k \in Groups : FuncOf(k)' # FrameAt(x)'.c
                          /\ \A w \in Items(FrameAt(x)'.c) : begun'[w] = 0
        OBVIOUS
      <3>1. x \in Place /\ FrameAt(x)' = FrameAt(x) /\ Entering(FrameAt(x))
        BY <1>16
      <3>2. /\ UnderWay(FrameAt(x).c)
            /\ \A k \in Groups : FuncOf(k) # FrameAt(x).c
            /\ \A w \in Items(FrameAt(x).c) : begun[w] = 0
        BY <3>1 DEF LInv, CallsApart
      <3>3. FrameAt(x).c # c
        BY <1>4, <1>7, <3>2
      <3> QED  BY <1>5, <1>15, <1>20, <3>1, <3>2, <3>3 DEF UnderWay
    <2>4. \A x, z \in Place' :
              Entering(FrameAt(x)') /\ Entering(FrameAt(z)') /\ FrameAt(x)'.c = FrameAt(z)'.c
              => x = z
      BY <1>16 DEF LInv, CallsApart
    <2> QED  BY <2>1, <2>2, <2>3, <2>4 DEF CallsApart, Entering
  <1>29. CountersRight'
    <2>1. \A k \in Groups : FuncOf(k)' # NoCall /\ ~BeingSetUp(k)' =>
           /\ group'[k].remaining = Cardinality(Items(FuncOf(k)') \ ended')
           /\ \A w \in Items(FuncOf(k)') : w[2] >= group'[k].ctr => begun'[w] = 0
      BY <1>5, <1>14, <1>18, <1>20 DEF LInv, CountersRight
    <2>2. \A x \in Place' : FrameAt(x)'.at = "fields" =>
           /\ group'[FrameAt(x)'.g].ctr = 0
           /\ group'[FrameAt(x)'.g].remaining = Size(FrameAt(x)'.c)
      <3>1. \A x \in Place : FrameAt(x).at = "fields" => FrameAt(x).g \in Groups
        BY <1>19 DEF LInv, FramesRight, FrameRight
      <3> QED  BY <1>14, <1>16, <3>1 DEF LInv, CountersRight
    <2> QED  BY <2>1, <2>2 DEF CountersRight
  <1>30. ClaimsRight'
    <2>1. \A x \in Place' : Working(FrameAt(x)') =>
              /\ x \in Place /\ FrameAt(x)' = FrameAt(x) /\ FrameAt(x).g \in Groups
              /\ Working(FrameAt(x))
              /\ ItemAt(FrameAt(x))' = ItemAt(FrameAt(x))
      <3>1. \A x \in Place : Working(FrameAt(x)) => FrameAt(x).g \in Groups
        BY <1>19 DEF LInv, FramesRight, FrameRight, Working
      <3> QED  BY <1>14, <1>16, <3>1 DEF ItemAt, FuncOf
    <2>2. \A x \in Place' : Working(FrameAt(x)') =>
              /\ FrameAt(x)'.i < group'[FrameAt(x)'.g].ctr
              /\ ItemAt(FrameAt(x))' \in AllItems /\ ItemAt(FrameAt(x))' \notin ended'
      BY <1>5, <1>14, <2>1 DEF LInv, ClaimsRight
    <2>3. \A x \in Place' : FrameAt(x)'.at = "body" => begun'[ItemAt(FrameAt(x))'] = 0
      BY <1>5, <2>1 DEF LInv, ClaimsRight, Working
    <2>4. \A x \in Place' : FrameAt(x)'.at = "done" =>
              FrameAt(x)'.c = FuncOf(FrameAt(x).g)' /\ begun'[ItemAt(FrameAt(x))'] = 1
      BY <1>5, <1>14, <2>1 DEF LInv, ClaimsRight, Working, FuncOf
    <2>5. \A x, z \in Place' :
              /\ Working(FrameAt(x)') /\ Working(FrameAt(z)')
              /\ FrameAt(x)'.g = FrameAt(z)'.g /\ FrameAt(x)'.i = FrameAt(z)'.i
              => x = z
      BY <2>1 DEF LInv, ClaimsRight
    <2> QED  BY <2>2, <2>3, <2>4, <2>5 DEF ClaimsRight, Working
  <1>31. HistoryRight'
    BY <1>5, <1>11, <1>12, <1>15 DEF LInv, HistoryRight, UnderWay
  <1>32. TypeOK'
    <2>1. returned' \subseteq Calls
      BY <1>5, <1>8 DEF TypeOK
    <2>2. held' \in Groups \union {NoGroup}
      BY <1>23 DEF TypeOK
    <2> QED  BY <1>5, <1>13, <1>14, <2>1, <2>2 DEF TypeOK, Stacks, GroupRecord
  <1>33. LInv'
    BY <1>21, <1>24, <1>25, <1>26, <1>27, <1>28, <1>29, <1>30, <1>31 DEF LInv
  <1>34. \E d \in Calls : UnderWay(d) /\ Items(d) \subseteq ended
                          /\ returned' = returned \union {d}
    BY <1>5, <1>8, <1>11, <1>12
  <1> QED  BY <1>5, <1>15, <1>32, <1>33, <1>34

-----------------------------------------------------------------------------
(* A call is made: a group that nobody refers to is handed out.            *)
LEMMA FreeGroup ==
    ASSUME TypeOK, GroupsFree, NEW c \in Calls, GetTaskGroup(c), NEW g, g = NextGroup(c)
    PROVE  /\ g \in Groups /\ g[1] = PoolOf(c)
           /\ held # g
           /\ \A x \in Place : FrameAt(x).g # g
           /\ \A w \in Workers : \A k \in DOMAIN queue[w] : queue[w][k].g # g
           /\ pos' \in [{0, 1, 2} -> Nat]
           /\ group' \in [Groups -> GroupRecord]
           /\ \A h \in Groups : group'[h].func = group[h].func /\ group'[h].ctr = group[h].ctr
           /\ \A h \in Groups : h # g => group'[h] = group[h]
  <1>1. PICK p : p = PoolOf(c)
    OBVIOUS
  <1>2. p \in {0, 1, 2} /\ pos \in [{0, 1, 2} -> Nat]
    BY <1>1, CallShape DEF TypeOK
  <1>3. g \in Groups /\ g = <<p, pos[p] % PoolSize>> /\ g[1] = p
    BY <1>1, <1>2, NextGroupType DEF NextGroup
  <1>4. pos' = [pos EXCEPT ![p] = pos[p] + 1]
    BY <1>1 DEF GetTaskGroup
  <1>5. pos' \in [{0, 1, 2} -> Nat] /\ pos'[p] # pos[p]
    BY <1>2, <1>4
  <1>6. ~Referenced(g)
    BY <1>2, <1>3, <1>5 DEF GroupsFree
  <1>7. \A x \in Place : FrameAt(x).g # g
    <2> SUFFICES ASSUME NEW x \in Place PROVE FrameAt(x).g # g
      OBVIOUS
    <2>1. /\ x[1] \in Threads /\ x[2] \in Nat \ {0} /\ x[2] <= Len(stack[x[1]])
      BY PlaceOf DEF TypeOK, Stacks
    <2>2. stack[x[1]] \in Seq(Frames)
      BY <2>1 DEF TypeOK
    <2>3. Len(stack[x[1]]) + 1 - x[2] \in DOMAIN stack[x[1]]
      BY <2>1, <2>2
    <2> QED  BY <1>6, <2>1, <2>3 DEF Referenced, FrameAt
  <1>8. /\ group' \in [Groups -> GroupRecord]
        /\ \A h \in Groups : group'[h].func = group[h].func /\ group'[h].ctr = group[h].ctr
        /\ \A h \in Groups : h # g => group'[h] = group[h]
    <2>1. PICK r : r = [group[g] EXCEPT !.remaining = 0, !.inTaskQueue = TRUE, !.inUse = TRUE]
      OBVIOUS
    <2>2. group[g] \in GroupRecord /\ group \in [Groups -> GroupRecord]
      BY <1>3, GroupsTyped
    <2>3. r \in GroupRecord /\ r.func = group[g].func /\ r.ctr = group[g].ctr
      BY <2>1, <2>2 DEF GroupRecord
    <2>4. group' = [group EXCEPT ![g] = r]
      BY <2>1 DEF GetTaskGroup
    <2> QED  BY <1>3, <2>2, <2>3, <2>4
  <1> QED  BY <1>1, <1>3, <1>5, <1>6, <1>7, <1>8 DEF Referenced

(* a new call: nothing is known of it yet *)
LEMMA NewCall ==
    ASSUME TypeOK, LInv, NEW d \in Calls, d \notin Called
    PROVE  /\ d \notin returned
           /\ \A g \in Groups : FuncOf(g) # d
           /\ \A w \in Items(d) : begun[w] = 0
           /\ \A x \in Place : Entering(FrameAt(x)) => FrameAt(x).c # d
  <1>1. d \notin returned
    BY DEF LInv, HistoryRight
  <1>2. \A g \in Groups : FuncOf(g) # d
    BY CallShape DEF LInv, CallsApart
  <1>3. \A w \in Items(d) : begun[w] = 0
    <2>1. \A w \in Items(d) : w \in AllItems /\ w[1] = d
      BY ItemsOf
    <2> QED  BY <2>1 DEF LInv, HistoryRight
  <1>4. \A x \in Place : Entering(FrameAt(x)) => FrameAt(x).c # d
    BY DEF LInv, CallsApart, UnderWay
  <1> QED  BY <1>1, <1>2, <1>3, <1>4

(* A frame e, at the new place z, enters the group g for the call d; at    *)
(* the same time the frame at y, if there is one, goes on with its own     *)
(* group.                                                                  *)
EntersWith(d, g, z, e, y, h) ==
    /\ d \in Calls /\ d \notin Called /\ Called' = Called \union {d}
    /\ g \in Groups /\ held # g /\ \A x \in Place : FrameAt(x).g # g
    /\ \A w \in Workers : \A k \in DOMAIN queue[w] : queue[w][k].g # g
    /\ \A k \in Groups : group'[k].func = group[k].func
    /\ queue' = queue /\ held' = held /\ returned' = returned
    /\ \A w \in AllItems : begun'[w] = begun[w] \/ \E k \in Groups : FuncOf(k) = w[1]
    /\ z \notin Place /\ Place' = Place \union {z} /\ (g[1] = 0 => z[1] = 0)
    /\ FrameAt(z)' = e
    /\ e.at = "counters" /\ e.g = g /\ e.c = d /\ e.i \in Workers /\ e.wff = FALSE
    /\ y \in Place => GoesOn(y, h) /\ ~Entering(h)
    /\ \A x \in Place : FrameAt(x)' = IF x = y THEN h ELSE FrameAt(x)

LEMMA CallMade ==
    ASSUME TypeOK, LInv, Stacks', NEW d, NEW g, NEW z, NEW e, NEW y, NEW h,
           EntersWith(d, g, z, e, y, h)
    PROVE  /\ Structure'
           /\ \A k : BeingSetUp(k)' <=> BeingSetUp(k) \/ k = g
  <1> USE DEF EntersWith
  <1>0. Stacks
    BY DEF TypeOK, Stacks
  <1>1. \A x \in Place : FrameAt(x) \in Frames
    BY <1>0, FramesTyped
  <1>2. Entering(e) /\ Owner(e)
    BY DEF Entering, Owner
  <1>3. \A x \in Place :
            /\ x \in Place' /\ x # z
            /\ FrameAt(x)'.g = FrameAt(x).g /\ FrameAt(x)'.g # g
            /\ Entering(FrameAt(x)') <=> Entering(FrameAt(x))
            /\ Entering(FrameAt(x)') => FrameAt(x)'.c = FrameAt(x).c
            /\ Owner(FrameAt(x)') => Owner(FrameAt(x))
    BY DEF GoesOn
  <1>4. \A k : BeingSetUp(k)' <=> BeingSetUp(k) \/ k = g
    BY <1>2, <1>3 DEF BeingSetUp, Entering
  <1>5. /\ d \notin returned
        /\ \A k \in Groups : FuncOf(k) # d
        /\ \A w \in Items(d) : begun[w] = 0
        /\ \A x \in Place : Entering(FrameAt(x)) => FrameAt(x).c # d
    BY NewCall
  <1>6. FramesRight'
    <2> SUFFICES ASSUME NEW x \in Place' PROVE FrameRight(FrameAt(x))'
      BY DEF FramesRight
    <2>1. CASE x = z
      BY <2>1 DEF FrameRight, FuncOf
    <2>2. CASE x # z /\ x = y
      BY <2>2 DEF GoesOn, FrameRight, FuncOf
    <2>3. CASE x # z /\ x # y
      BY <2>3, <1>1 DEF LInv, FramesRight, FrameRight, FuncOf
    <2> QED  BY <2>1, <2>2, <2>3
  <1>7. SetUpAlone'
    <2>1. \A x, v \in Place' :
              Entering(FrameAt(x)') /\ FrameAt(x)'.g = FrameAt(v)'.g => x = v
      BY <1>3 DEF LInv, SetUpAlone
    <2>2. \A w \in Workers : \A k \in DOMAIN queue[w] : ~BeingSetUp(queue[w][k].g)'
      BY <1>4 DEF LInv, SetUpAlone
    <2>3. ~BeingSetUp(held)'
      BY <1>4 DEF LInv, SetUpAlone
    <2> QED  BY <2>1, <2>2, <2>3 DEF SetUpAlone, Entering
  <1>8. QueuesFilled'
    BY QueuesTyped DEF QueuesFilled, FuncOf, LInv
  <1>9. \A c : UnderWay(c) => UnderWay(c)'
    BY DEF UnderWay
  <1>10. HeldRight'
    <2>1. held \in Groups \union {NoGroup}
      BY DEF TypeOK
    <2> QED  BY <2>1 DEF LInv, HeldRight, FuncOf, UnderWay
  <1>11. OneOwner'
    <2>1. \A x, v \in Place' :
              Owner(FrameAt(x)') /\ Owner(FrameAt(v)') /\ FrameAt(x)'.g = FrameAt(v)'.g
              => x = v
      BY <1>3 DEF LInv, OneOwner
    <2>2. \A x \in Place' : Owner(FrameAt(x)') /\ FrameAt(x)'.g[1] = 0 => x[1] = 0
      BY <1>3 DEF LInv, OneOwner
    <2>3. ASSUME NEW x \in Place', Owner(FrameAt(x)'), ~Entering(FrameAt(x)')
          PROVE  UnderWay(FuncOf(FrameAt(x).g))'
      <3>1. x \in Place
        BY <1>2, <2>3
      <3>2. FrameAt(x).g \in Groups /\ UnderWay(FuncOf(FrameAt(x).g))
        BY <1>1, <1>3, <2>3, <3>1 DEF LInv, OneOwner, FramesRight, FrameRight, Owner
      <3>3. FuncOf(FrameAt(x).g)' = FuncOf(FrameAt(x).g)
        BY <1>3, <3>1, <3>2 DEF FuncOf
      <3> QED  BY <3>2, <3>3 DEF UnderWay
    <2> QED  BY <2>1, <2>2, <2>3 DEF OneOwner, Owner, Entering
  <1>12. CallsApart'
    <2>1. \A j, k \in Groups : FuncOf(j)' = FuncOf(k)' /\ FuncOf(j)' # NoCall => j = k
      BY DEF LInv, CallsApart, FuncOf
    <2>2. \A k \in Groups : FuncOf(k)' # NoCall => FuncOf(k)' \in Called'
      BY DEF LInv, CallsApart, FuncOf
    <2>3. ASSUME NEW x \in Place', Entering(FrameAt(x)')
          PROVE  /\ UnderWay(FrameAt(x).c)'
                 /\ \A k \in Groups : FuncOf(k)' # FrameAt(x)'.c
                 /\ \A w \in Items(FrameAt(x)'.c) : begun'[w] = 0
      <3>1. PICK c : c = FrameAt(x)'.c
        OBVIOUS
      <3>2. /\ c \in Calls /\ c \in Called' /\ c \notin returned
            /\ \A k \in Groups : FuncOf(k) # c
            /\ \A w \in Items(c) : begun[w] = 0
        <4>1. CASE x = z
          BY <1>5, <3>1, <4>1
        <4>2. CASE x # z
          <5>1. x \in Place /\ Entering(FrameAt(x)) /\ c = FrameAt(x).c
            BY <1>3, <2>3, <3>1, <4>2
          <5>2. c \in Calls
            BY <1>1, <5>1 DEF LInv, FramesRight, FrameRight, Entering
          <5> QED  BY <5>1, <5>2 DEF LInv, CallsApart, UnderWay
        <4> QED  BY <4>1, <4>2
      <3>3. \A w \in Items(c) : w \in AllItems /\ w[1] = c
        BY <3>2, ItemsOf
      <3>4. \A w \in Items(c) : begun'[w] = 0
        BY <3>2, <3>3
      <3> QED  BY <3>1, <3>2, <3>4 DEF UnderWay, FuncOf
    <2>4. \A x, v \in Place' :
              Entering(FrameAt(x)') /\ Entering(FrameAt(v)') /\ FrameAt(x)'.c = FrameAt(v)'.c
              => x = v
      BY <1>3, <1>5 DEF LInv, CallsApart
    <2> QED  BY <2>1, <2>2, <2>3, <2>4 DEF CallsApart, Entering
  <1> QED  BY <1>4, <1>6, <1>7, <1>8, <1>10, <1>11, <1>12 DEF Structure

LEMMA EnteredFrame ==
    ASSUME pos \in [{0, 1, 2} -> Nat], NEW c \in Calls, NEW e, e = Entered(c)
    PROVE  /\ e \in Frames /\ e.at = "counters" /\ e.g = NextGroup(c) /\ e.c = c
           /\ e.i \in Workers /\ e.wff = FALSE
  <1>1. PICK g \in Groups : g = NextGroup(c)
    BY NextGroupType
  <1>2. e = [at |-> "counters", g |-> g, c |-> c, i |-> 1, wff |-> FALSE, again |-> FALSE]
    BY <1>1 DEF Entered, Frame
  <1>3. e \in Frames /\ e.at = "counters" /\ e.g = g /\ e.c = c /\ e.i = 1 /\ e.wff = FALSE
    BY <1>1, <1>2 DEF Frames
  <1> QED  BY <1>1, <1>3, ThreadNumbers

(* Thread 0 makes a call of its program.                                   *)
LEMMA StartCalls ==
    ASSUME TypeOK, Start
    PROVE  /\ <<step + 1>> \in Calls /\ <<step + 1>> \notin Called
           /\ Called' = Called \union {<<step + 1>>}
           /\ step' \in 0..Len(program')
  <1>1. /\ step < Len(program) /\ program[step + 1] # "wait" /\ step' = step + 1
        /\ program' = program /\ begun' = begun
    BY DEF Start
  <1>2. step \in Nat /\ program \in Programs /\ Len(program) \in Nat
        /\ DOMAIN program = 1..Len(program)
    BY ThreadPoolAssumption DEF TypeOK
  <1>3. PICK n : n = step + 1
    OBVIOUS
  <1>4. n \in Nat /\ n \in DOMAIN program /\ n \in Steps
    BY <1>1, <1>2, <1>3 DEF Steps
  <1>5. <<n>> \in Calls
    BY <1>4 DEF Calls
  <1>6. <<n>> \notin Called
    <2>1. \A k \in 1..step : <<k>> # <<n>>
      BY <1>2, <1>3
    <2>2. \A w \in AllItems : Nests(w) => Nested(w) # <<n>>
      <3> SUFFICES ASSUME NEW w \in AllItems, Nests(w) PROVE Len(Nested(w)) # Len(<<n>>)
        OBVIOUS
      <3>1. Len(Nested(w)) = 2
        BY NestedCall DEF Nests
      <3> QED  BY <3>1
    <2> QED  BY <2>1, <2>2 DEF Called
  <1>7. Called' = Called \union {<<n>>}
    <2>1. {j \in 1..step' : program[j] # "wait"} = {j \in 1..step : program[j] # "wait"} \union {n}
      BY <1>1, <1>2, <1>3, <1>4
    <2>2. {<<k>> : k \in {j \in 1..step' : program[j] # "wait"}}
            = {<<k>> : k \in {j \in 1..step : program[j] # "wait"}} \union {<<n>>}
      BY <2>1
    <2> QED  BY <1>1, <2>2 DEF Called, Nests
  <1> QED  BY <1>1, <1>2, <1>3, <1>5, <1>6, <1>7

LEMMA StartStep ==
    ASSUME TypeOK, LInv, GroupsFree, Start
    PROVE  TypeOK' /\ LInv'
  <1>1. PICK d \in Calls : d = <<step + 1>>
    BY StartCalls
  <1>2. PICK g : g = NextGroup(d)
    OBVIOUS
  <1>3. PICK e : e = Entered(d)
    OBVIOUS
  <1>4. /\ stack[0] = <<>> /\ GetTaskGroup(d) /\ Push(0, e)
        /\ UNCHANGED <<program, held, queue, begun, ended, returned>>
    BY <1>1, <1>3 DEF Start
  <1>5. d \notin Called /\ Called' = Called \union {d} /\ step' \in 0..Len(program')
    BY <1>1, StartCalls
  <1>6. /\ g \in Groups /\ held # g
        /\ \A x \in Place : FrameAt(x).g # g
        /\ \A w \in Workers : \A k \in DOMAIN queue[w] : queue[w][k].g # g
        /\ pos' \in [{0, 1, 2} -> Nat]
        /\ group' \in [Groups -> GroupRecord]
        /\ \A h \in Groups : group'[h].func = group[h].func /\ group'[h].ctr = group[h].ctr
        /\ \A h \in Groups : h # g => group'[h] = group[h]
    BY <1>2, <1>4, FreeGroup
  <1>7. /\ e \in Frames /\ e.at = "counters" /\ e.g = g /\ e.c = d
        /\ e.i \in Workers /\ e.wff = FALSE
    BY <1>2, <1>3, EnteredFrame DEF TypeOK
  <1>8. Stacks /\ 0 \in Threads
    BY ThreadNumbers DEF TypeOK, Stacks
  <1>9. PICK z : /\ z \notin Place /\ z[1] = 0 /\ Place' = Place \union {z}
                 /\ FrameAt(z)' = e
                 /\ \A x \in Place : FrameAt(x)' = FrameAt(x)
    BY <1>4, <1>7, <1>8, PushPlaces
  <1>10. Stacks'
    BY <1>4, <1>7, <1>8, PushPlaces
  <1>11. z \notin Place /\ \A x \in Place : FrameAt(x)' = IF x = z THEN e ELSE FrameAt(x)
    BY <1>9
  <1>12. Structure' /\ \A k : BeingSetUp(k)' <=> BeingSetUp(k) \/ k = g
    <2>1. EntersWith(d, g, z, e, z, e)
      BY <1>4, <1>5, <1>6, <1>7, <1>9, <1>11 DEF EntersWith
    <2> QED  BY <1>10, <2>1, CallMade
  <1>13. \A x \in Place : FrameAt(x) \in Frames
    BY <1>8, FramesTyped
  <1>14. \A x \in Place' : FrameAt(x)'.at # "counters" => x \in Place /\ FrameAt(x)' = FrameAt(x)
    BY <1>7, <1>9
  <1>15. CountersRight'
    <2>1. \A k \in Groups : FuncOf(k)' # NoCall /\ ~BeingSetUp(k)' =>
           /\ group'[k].remaining = Cardinality(Items(FuncOf(k)') \ ended')
           /\ \A w \in Items(FuncOf(k)') : w[2] >= group'[k].ctr => begun'[w] = 0
      BY <1>4, <1>6, <1>12 DEF LInv, CountersRight, FuncOf
    <2>2. \A x \in Place' : FrameAt(x)'.at = "fields" =>
           /\ group'[FrameAt(x)'.g].ctr = 0
           /\ group'[FrameAt(x)'.g].remaining = Size(FrameAt(x)'.c)
      <3>1. \A x \in Place : FrameAt(x).at = "fields" => FrameAt(x).g \in Groups
        BY <1>13 DEF LInv, FramesRight, FrameRight
      <3> QED  BY <1>6, <1>14, <3>1 DEF LInv, CountersRight
    <2> QED  BY <2>1, <2>2 DEF CountersRight
  <1>16. ClaimsRight'
    <2>1. \A x \in Place' : Working(FrameAt(x)') =>
              /\ x \in Place /\ FrameAt(x)' = FrameAt(x) /\ FrameAt(x).g \in Groups
              /\ Working(FrameAt(x))
              /\ ItemAt(FrameAt(x))' = ItemAt(FrameAt(x))
      <3>1. \A x \in Place : Working(FrameAt(x)) => FrameAt(x).g \in Groups
        BY <1>13 DEF LInv, FramesRight, FrameRight, Working
      <3>2. \A x \in Place' : Working(FrameAt(x)') => x \in Place /\ FrameAt(x)' = FrameAt(x)
        BY <1>14 DEF Working
      <3> QED  BY <1>6, <3>1, <3>2 DEF ItemAt, FuncOf
    <2>2. \A x \in Place' : Working(FrameAt(x)') =>
              /\ FrameAt(x)'.i < group'[FrameAt(x)'.g].ctr
              /\ ItemAt(FrameAt(x))' \in AllItems /\ ItemAt(FrameAt(x))' \notin ended'
      BY <1>4, <1>6, <2>1 DEF LInv, ClaimsRight
    <2>3. \A x \in Place' : FrameAt(x)'.at = "body" => begun'[ItemAt(FrameAt(x))'] = 0
      BY <1>4, <2>1 DEF LInv, ClaimsRight, Working
    <2>4. \A x \in Place' : FrameAt(x)'.at = "done" =>
              FrameAt(x)'.c = FuncOf(FrameAt(x).g)' /\ begun'[ItemAt(FrameAt(x))'] = 1
      BY <1>4, <1>6, <2>1 DEF LInv, ClaimsRight, Working, FuncOf
    <2>5. \A x, v \in Place' :
              /\ Working(FrameAt(x)') /\ Working(FrameAt(v)')
              /\ FrameAt(x)'.g = FrameAt(v)'.g /\ FrameAt(x)'.i = FrameAt(v)'.i
              => x = v
      BY <2>1 DEF LInv, ClaimsRight
    <2> QED  BY <2>2, <2>3, <2>4, <2>5 DEF ClaimsRight, Working
  <1>17. HistoryRight'
    BY <1>4, <1>5 DEF LInv, HistoryRight
  <1>18. TypeOK'
    BY <1>4, <1>5, <1>6, <1>10 DEF TypeOK, Stacks, GroupRecord
  <1> QED  BY <1>12, <1>15, <1>16, <1>17, <1>18 DEF LInv, Structure

-----------------------------------------------------------------------------
(* A body begins; in its first step it may make a call of its own.         *)
LEMMA GotoPushPlaces ==
    ASSUME Stacks, NEW t \in Threads, stack[t] # <<>>, NEW h \in Frames, NEW e \in Frames,
           stack' = [stack EXCEPT ![t] = <<e, h>> \o Tail(@)]
    PROVE  /\ Stacks'
           /\ \E z : /\ z \notin Place /\ z[1] = t /\ Place' = Place \union {z}
                     /\ FrameAt(z)' = e
                     /\ \A x \in Place : FrameAt(x)' = IF x = TopOf(t) THEN h ELSE FrameAt(x)
  <1>1. stack[t] \in Seq(Frames) /\ Len(stack[t]) \in Nat \ {0}
    BY DEF Stacks
  <1> DEFINE s == <<e, h>> \o Tail(stack[t])
  <1>2. /\ s \in Seq(Frames) /\ Len(s) = Len(stack[t]) + 1 /\ s[1] = e /\ s[2] = h
        /\ \A k \in 2..Len(stack[t]) : s[k + 1] = stack[t][k]
    <2>1. PICK a : a = Tail(stack[t])
      OBVIOUS
    <2>2. /\ a \in Seq(Frames) /\ Len(a) = Len(stack[t]) - 1
          /\ \A k \in 1..Len(a) : a[k] = stack[t][k + 1]
      BY <1>1, <2>1
    <2>3. PICK b : b = <<e, h>>
      OBVIOUS
    <2>4. b \in Seq(Frames) /\ Len(b) = 2 /\ b[1] = e /\ b[2] = h
      BY <2>3
    <2>5. s = b \o a
      BY <2>1, <2>3
    <2>6. /\ s \in Seq(Frames) /\ Len(s) = 2 + Len(a) /\ s[1] = b[1] /\ s[2] = b[2]
          /\ \A k \in 1..Len(a) : s[2 + k] = a[k]
      <3> HIDE DEF s
      <3>1. /\ s \in Seq(Frames) /\ Len(s) = Len(b) + Len(a)
            /\ \A i \in 1..(Len(b) + Len(a)) :
                   s[i] = IF i <= Len(b) THEN b[i] ELSE a[i - Len(b)]
        BY <2>2, <2>4, <2>5, ConcatProperties
      <3>2. Len(a) \in Nat
        BY <2>2
      <3>3. s[1] = b[1] /\ s[2] = b[2]
        BY <2>4, <3>1, <3>2
      <3>4. \A k \in 1..Len(a) :
                2 + k \in 1..(2 + Len(a)) /\ ~(2 + k <= 2) /\ (2 + k) - 2 = k
        BY <3>2
      <3>5. \A k \in 1..Len(a) : s[2 + k] = a[k]
        BY <2>4, <3>1, <3>4
      <3> QED  BY <2>4, <3>1, <3>3, <3>5
    <2>7. \A k \in 2..Len(stack[t]) :
              /\ k - 1 \in 1..Len(a) /\ 2 + (k - 1) = k + 1 /\ (k - 1) + 1 = k
      BY <1>1, <2>2
    <2>8. \A k \in 2..Len(stack[t]) : s[k + 1] = stack[t][k]
      <3> SUFFICES ASSUME NEW k \in 2..Len(stack[t]) PROVE s[k + 1] = stack[t][k]
        OBVIOUS
      <3> HIDE DEF s
      <3>1. s[2 + (k - 1)] = a[k - 1] /\ a[k - 1] = stack[t][(k - 1) + 1]
        BY <2>2, <2>6, <2>7
      <3> QED  BY <2>7, <3>1
    <2>9. Len(s) = Len(stack[t]) + 1
      <3> HIDE DEF s
      <3> QED  BY <1>1, <2>2, <2>6
    <2> QED  BY <2>4, <2>6, <2>8, <2>9
  <1>3. stack' = [stack EXCEPT ![t] = s]
    OBVIOUS
  <1> HIDE DEF s
  <1>4. Stacks' /\ stack'[t] = s /\ \A u \in Threads \ {t} : stack'[u] = stack[u]
    BY <1>2, <1>3 DEF Stacks
  <1>5. PICK z : z = <<t, Len(stack[t]) + 1>>
    OBVIOUS
  <1>6. z \notin Place /\ z[1] = t /\ z[2] = Len(stack[t]) + 1
    BY <1>1, <1>5 DEF Place
  <1>7. Place' = Place \union {z}
    <2>1. ASSUME NEW x \in Place' PROVE x \in Place \union {z}
      <3>1. /\ x[1] \in Threads /\ x[2] \in Nat \ {0} /\ x = <<x[1], x[2]>>
            /\ x[2] <= Len(stack'[x[1]]) /\ x \in Threads \X (Nat \ {0})
        BY DEF Place
      <3>2. CASE x[1] # t
        BY <1>4, <3>1, <3>2 DEF Place
      <3>3. CASE x[1] = t
        <4>1. x[2] <= Len(stack[t]) \/ x[2] = Len(stack[t]) + 1
          BY <1>1, <1>2, <1>4, <3>1, <3>3
        <4>2. x[2] = Len(stack[t]) + 1 => x = z
          BY <1>5, <3>1, <3>3
        <4> QED  BY <3>1, <3>3, <4>1, <4>2 DEF Place
      <3> QED  BY <3>2, <3>3
    <2>2. ASSUME NEW x \in Place PROVE x \in Place'
      <3>1. /\ x \in Threads \X (Nat \ {0}) /\ x[1] \in Threads /\ x[2] \in Nat
            /\ x[2] <= Len(stack[x[1]])
        BY DEF Place
      <3>2. x[2] <= Len(stack'[x[1]])
        BY <1>1, <1>2, <1>4, <3>1
      <3> QED  BY <3>1, <3>2 DEF Place
    <2>3. z \in Place'
      BY <1>1, <1>2, <1>4, <1>5, <1>6 DEF Place
    <2> QED  BY <2>1, <2>2, <2>3
  <1>8. FrameAt(z)' = e
    <2>1. Len(s) + 1 - (Len(stack[t]) + 1) = 1
      BY <1>1, <1>2
    <2> QED  BY <1>2, <1>4, <1>6, <2>1 DEF FrameAt
  <1>9. ASSUME NEW x \in Place
        PROVE  FrameAt(x)' = IF x = TopOf(t) THEN h ELSE FrameAt(x)
    <2>1. /\ x[1] \in Threads /\ x[2] \in Nat \ {0} /\ x = <<x[1], x[2]>>
          /\ x[2] <= Len(stack[x[1]])
      BY PlaceOf
    <2>2. CASE x[1] # t
      BY <1>4, <2>1, <2>2 DEF FrameAt, TopOf
    <2>3. CASE x[1] = t /\ x[2] = Len(stack[t])
      <3>1. Len(s) + 1 - x[2] = 2
        BY <1>1, <1>2, <2>3
      <3>2. x = TopOf(t)
        BY <2>1, <2>3 DEF TopOf
      <3> QED  BY <1>2, <1>4, <2>3, <3>1, <3>2 DEF FrameAt
    <2>4. CASE x[1] = t /\ x[2] # Len(stack[t])
      <3>1. /\ Len(stack[t]) + 1 - x[2] \in 2..Len(stack[t])
            /\ Len(s) + 1 - x[2] = (Len(stack[t]) + 1 - x[2]) + 1
        BY <1>1, <1>2, <2>1, <2>4
      <3>2. x # TopOf(t)
        BY <2>4 DEF TopOf
      <3> QED  BY <1>2, <1>4, <2>4, <3>1, <3>2 DEF FrameAt
    <2> QED  BY <2>2, <2>3, <2>4
  <1> QED  BY <1>4, <1>6, <1>7, <1>8, <1>9

LEMMA ClaimsApart ==
    ASSUME TypeOK, LInv, NEW x \in Place, NEW y \in Place, x # y,
           Working(FrameAt(x)), Working(FrameAt(y))
    PROVE  ItemAt(FrameAt(x)) # ItemAt(FrameAt(y))
  <1> SUFFICES ASSUME ItemAt(FrameAt(x)) = ItemAt(FrameAt(y)) PROVE FALSE
    OBVIOUS
  <1>1. FuncOf(FrameAt(x).g) = FuncOf(FrameAt(y).g) /\ FrameAt(x).i = FrameAt(y).i
    BY DEF ItemAt
  <1>2. /\ FrameAt(x).g \in Groups /\ FuncOf(FrameAt(x).g) # NoCall
        /\ FrameAt(y).g \in Groups
    <2>1. FrameAt(x) \in Frames /\ FrameAt(y) \in Frames
      BY PlaceOf DEF TypeOK, Stacks
    <2> QED  BY <2>1, ClaimedItem
  <1>3. FrameAt(x).g = FrameAt(y).g
    BY <1>1, <1>2 DEF LInv, CallsApart
  <1> QED  BY <1>1, <1>3 DEF LInv, ClaimsRight

(* what beginning the item of y does to the counters and the claims, with  *)
(* or without a new frame that enters its group                            *)
Begins(w, y, h) ==
    /\ begun' = [begun EXCEPT ![w] = 1] /\ ended' = ended /\ returned' = returned
    /\ Called \subseteq Called'
    /\ \A x \in Place' : FrameAt(x)'.at # "counters" => x \in Place
    /\ \A x \in Place : FrameAt(x)' = IF x = y THEN h ELSE FrameAt(x)
    /\ \A g \in Groups : group'[g].func = group[g].func /\ group'[g].ctr = group[g].ctr
    /\ \A g \in Groups : ~BeingSetUp(g)' =>
           ~BeingSetUp(g) /\ group'[g].remaining = group[g].remaining
    /\ \A x \in Place : FrameAt(x).g \in Groups =>
           group'[FrameAt(x).g].remaining = group[FrameAt(x).g].remaining

LEMMA BodyBegins ==
    ASSUME TypeOK, LInv, Stacks', NEW w, NEW y \in Place, NEW f, NEW h,
           FrameAt(y) = f, f \in Frames, f.at = "body", w = ItemAt(f),
           h.at = "done", h.g = f.g, h.i = f.i, h.c = FuncOf(f.g),
           Begins(w, y, h)
    PROVE  CountersRight' /\ ClaimsRight' /\ HistoryRight'
  <1> USE DEF Begins
  <1>1. \A x \in Place : FrameAt(x) \in Frames
    BY FramesTyped DEF TypeOK, Stacks
  <1>2. Working(f) /\ Working(h)
    BY DEF Working
  <1>3. /\ f.g \in Groups /\ FuncOf(f.g) \in Calls /\ FuncOf(f.g) # NoCall
        /\ UnderWay(FuncOf(f.g)) /\ w \in Items(FuncOf(f.g)) /\ w \in AllItems
        /\ w \notin ended /\ w = <<FuncOf(f.g), f.i>> /\ f.i \in Nat
    <2>1. f.i \in Nat
      BY DEF Frames
    <2> QED  BY <1>2, <2>1, ClaimedItem DEF ItemAt
  <1>4. begun[w] = 0 /\ f.i < group[f.g].ctr
    BY <1>2 DEF LInv, ClaimsRight
  <1>5. /\ begun' \in [AllItems -> Nat] /\ begun'[w] = 1
        /\ \A v \in AllItems : v # w => begun'[v] = begun[v]
    BY <1>3 DEF TypeOK
  <1>6. \A g \in Groups : FuncOf(g)' = FuncOf(g)
    BY DEF FuncOf
  <1>7. CountersRight'
    <2>1. ASSUME NEW g \in Groups, FuncOf(g)' # NoCall, ~BeingSetUp(g)'
          PROVE  /\ group'[g].remaining = Cardinality(Items(FuncOf(g)') \ ended')
                 /\ \A v \in Items(FuncOf(g)') : v[2] >= group'[g].ctr => begun'[v] = 0
      <3>1. FuncOf(g)' = FuncOf(g) /\ ~BeingSetUp(g) /\ FuncOf(g) \in Calls
        BY <1>6, <2>1, GroupsTyped DEF FuncOf
      <3>2. /\ group[g].remaining = Cardinality(Items(FuncOf(g)) \ ended)
            /\ \A v \in Items(FuncOf(g)) : v[2] >= group[g].ctr => begun[v] = 0
        BY <2>1, <3>1 DEF LInv, CountersRight
      <3>3. ASSUME NEW v \in Items(FuncOf(g)), v[2] >= group[g].ctr
            PROVE  begun'[v] = 0
        <4>1. v \in AllItems /\ v[1] = FuncOf(g)
          BY <3>1, ItemsOf
        <4>2. v # w
          <5> SUFFICES ASSUME v = w PROVE FALSE
            OBVIOUS
          <5>1. FuncOf(g) = FuncOf(f.g) /\ v[2] = f.i
            BY <1>3, <4>1
          <5>2. g = f.g
            BY <1>3, <5>1 DEF LInv, CallsApart
          <5>3. group[f.g].ctr \in Nat
            BY <1>3, GroupsTyped
          <5> QED  BY <1>3, <1>4, <3>3, <5>1, <5>2, <5>3
        <4> QED  BY <1>5, <3>2, <3>3, <4>1, <4>2
      <3> QED  BY <2>1, <3>1, <3>2, <3>3
    <2>2. \A x \in Place' : FrameAt(x)'.at = "fields" =>
           /\ group'[FrameAt(x)'.g].ctr = 0
           /\ group'[FrameAt(x)'.g].remaining = Size(FrameAt(x)'.c)
      <3>1. \A x \in Place : FrameAt(x).at = "fields" => FrameAt(x).g \in Groups
        BY <1>1 DEF LInv, FramesRight, FrameRight
      <3>2. \A x \in Place' : FrameAt(x)'.at = "fields" =>
                x \in Place /\ FrameAt(x)' = FrameAt(x)
        OBVIOUS
      <3> QED  BY <3>1, <3>2 DEF LInv, CountersRight
    <2> QED  BY <2>1, <2>2 DEF CountersRight
  <1>8. ClaimsRight'
    <2>1. \A x \in Place' : Working(FrameAt(x)') =>
              /\ x \in Place /\ Working(FrameAt(x)) /\ FrameAt(x).g \in Groups
              /\ FrameAt(x)'.g = FrameAt(x).g /\ FrameAt(x)'.i = FrameAt(x).i
      <3>1. \A x \in Place' : Working(FrameAt(x)') => x \in Place
        BY DEF Working
      <3>2. \A x \in Place : Working(FrameAt(x)) => FrameAt(x).g \in Groups
        BY <1>1 DEF LInv, FramesRight, FrameRight, Working
      <3> QED  BY <1>2, <3>1, <3>2
    <2>2. \A x \in Place' : Working(FrameAt(x)') => ItemAt(FrameAt(x))' = ItemAt(FrameAt(x))
      BY <2>1 DEF ItemAt, FuncOf
    <2>3. \A x \in Place' : Working(FrameAt(x)') /\ x # y => ItemAt(FrameAt(x)) # w
      BY <1>2, <2>1, ClaimsApart
    <2>4. \A x \in Place' : Working(FrameAt(x)') =>
              /\ FrameAt(x)'.i < group'[FrameAt(x)'.g].ctr
              /\ ItemAt(FrameAt(x))' \in AllItems /\ ItemAt(FrameAt(x))' \notin ended'
      BY <2>1, <2>2 DEF LInv, ClaimsRight
    <2>5. \A x \in Place' : FrameAt(x)'.at = "body" => begun'[ItemAt(FrameAt(x))'] = 0
      <3> SUFFICES ASSUME NEW x \in Place', FrameAt(x)'.at = "body"
                   PROVE  begun'[ItemAt(FrameAt(x))'] = 0
        OBVIOUS
      <3>1. Working(FrameAt(x)')
        BY DEF Working
      <3>2. x \in Place /\ x # y /\ FrameAt(x)' = FrameAt(x)
        BY <2>1, <3>1
      <3>3. begun[ItemAt(FrameAt(x))] = 0 /\ ItemAt(FrameAt(x)) \in AllItems
        BY <2>1, <3>1, <3>2 DEF LInv, ClaimsRight
      <3> QED  BY <1>5, <2>2, <2>3, <3>1, <3>2, <3>3
    <2>6. \A x \in Place' : FrameAt(x)'.at = "done" =>
              FrameAt(x)'.c = FuncOf(FrameAt(x).g)' /\ begun'[ItemAt(FrameAt(x))'] = 1
      <3> SUFFICES ASSUME NEW x \in Place', FrameAt(x)'.at = "done"
                   PROVE  FrameAt(x)'.c = FuncOf(FrameAt(x).g)'
                          /\ begun'[ItemAt(FrameAt(x))'] = 1
        OBVIOUS
      <3>1. Working(FrameAt(x)')
        BY DEF Working
      <3>2. CASE x = y
        <4>1. ItemAt(FrameAt(x))' = w /\ FrameAt(x)'.c = FuncOf(f.g)
          BY <2>1, <2>2, <3>1, <3>2
        <4>2. FuncOf(FrameAt(x).g)' = FuncOf(f.g)
          BY <1>3, <3>2 DEF FuncOf
        <4> QED  BY <1>5, <4>1, <4>2
      <3>3. CASE x # y
        <4>1. x \in Place /\ FrameAt(x)' = FrameAt(x) /\ FrameAt(x).g \in Groups
          BY <2>1, <3>1, <3>3
        <4>2. /\ begun[ItemAt(FrameAt(x))] = 1 /\ FrameAt(x).c = FuncOf(FrameAt(x).g)
              /\ ItemAt(FrameAt(x)) \in AllItems
          BY <2>1, <3>1, <4>1 DEF LInv, ClaimsRight
        <4>3. FuncOf(FrameAt(x).g)' = FuncOf(FrameAt(x).g)
          BY <4>1 DEF FuncOf
        <4> QED  BY <1>5, <2>2, <2>3, <3>1, <3>3, <4>1, <4>2, <4>3
      <3> QED  BY <3>2, <3>3
    <2>7. \A x, v \in Place' :
              /\ Working(FrameAt(x)') /\ Working(FrameAt(v)')
              /\ FrameAt(x)'.g = FrameAt(v)'.g /\ FrameAt(x)'.i = FrameAt(v)'.i
              => x = v
      BY <2>1 DEF LInv, ClaimsRight
    <2> QED  BY <2>4, <2>5, <2>6, <2>7 DEF ClaimsRight, Working
  <1>9. HistoryRight'
    <2>1. w[1] = FuncOf(f.g) /\ w[1] \in Called
      BY <1>3 DEF UnderWay
    <2>2. \A v \in AllItems : begun'[v] \in {0, 1} /\ (begun'[v] = 1 => v[1] \in Called')
      BY <1>5, <2>1 DEF LInv, HistoryRight
    <2>3. \A v \in ended' : begun'[v] = 1
      BY <1>3, <1>5 DEF LInv, HistoryRight, TypeOK
    <2>4. \A c \in returned' : c \in Called' /\ Items(c) \subseteq ended'
      BY DEF LInv, HistoryRight
    <2> QED  BY <2>2, <2>3, <2>4 DEF HistoryRight
  <1> QED  BY <1>7, <1>8, <1>9

LEMMA BodyCalled ==
    ASSUME TypeOK, LInv, NEW w \in AllItems, begun[w] = 0,
           begun' = [begun EXCEPT ![w] = 1], program' = program, step' = step
    PROVE  /\ ~Nests(w) => Called' = Called
           /\ Nests(w) => /\ Nested(w) \in Calls /\ Nested(w) \notin Called
                          /\ Called' = Called \union {Nested(w)}
                          /\ PoolOf(Nested(w)) # 0
  <1>1. /\ begun'[w] = 1
        /\ \A v \in AllItems : v # w => begun'[v] = begun[v]
    BY DEF TypeOK
  <1>2. \A v \in AllItems : Nests(v)' <=> Nests(v)
    BY DEF Nests
  <1>3. ~(begun[w] > 0) /\ begun'[w] > 0
    BY <1>1
  <1>4. ASSUME ~Nests(w) PROVE Called' = Called
    <2>1. \A v \in AllItems : begun'[v] > 0 /\ Nests(v)' <=> begun[v] > 0 /\ Nests(v)
      BY <1>1, <1>2, <1>4
    <2> QED  BY <2>1 DEF Called
  <1>5. ASSUME Nests(w)
        PROVE  /\ Nested(w) \in Calls /\ Nested(w) \notin Called
               /\ Called' = Called \union {Nested(w)}
               /\ PoolOf(Nested(w)) # 0
    <2>1. Nested(w) \in Calls /\ Len(Nested(w)) = 2
      BY <1>5, NestedCall DEF Nests
    <2>2. PoolOf(Nested(w)) # 0
      BY <2>1 DEF PoolOf, Background
    <2>3. \A k \in Nat : <<k>> # Nested(w)
      <3>1. \A k \in Nat : Len(<<k>>) = 1
        OBVIOUS
      <3> QED  BY <2>1, <3>1
    <2>4. \A v \in AllItems : begun[v] > 0 /\ Nests(v) => Nested(v) # Nested(w)
      BY <1>3, <1>5, NestedApart DEF Nests
    <2>5. step \in Nat
      BY DEF TypeOK
    <2>6. Nested(w) \notin Called
      BY <2>3, <2>4, <2>5 DEF Called
    <2>7. {v \in AllItems : begun'[v] > 0 /\ Nests(v)'}
              = {v \in AllItems : begun[v] > 0 /\ Nests(v)} \union {w}
      BY <1>1, <1>2, <1>3, <1>5
    <2>8. Called' = Called \union {Nested(w)}
      <3>1. PICK A : A = {v \in AllItems : begun[v] > 0 /\ Nests(v)}
        OBVIOUS
      <3>2. PICK B : B = {v \in AllItems : begun'[v] > 0 /\ Nests(v)'}
        OBVIOUS
      <3>3. {Nested(v) : v \in B} = {Nested(v) : v \in A} \union {Nested(w)}
        BY <2>7, <3>1, <3>2
      <3>4. PICK C : C = {<<k>> : k \in {j \in 1..step : program[j] # "wait"}}
        OBVIOUS
      <3>5. Called = C \union {Nested(v) : v \in A}
        BY <3>1, <3>4 DEF Called
      <3>6. Called' = C \union {Nested(v) : v \in B}
        BY <3>2, <3>4 DEF Called
      <3> QED  BY <3>3, <3>5, <3>6
    <2> QED  BY <2>1, <2>2, <2>6, <2>8
  <1> QED  BY <1>4, <1>5

(* What a body does to the calls and the items, whichever thread runs it.  *)
Begun(c, w) ==
    /\ c \in Calls /\ UnderWay(c) /\ w \in Items(c) /\ begun[w] = 0
    /\ begun' = [begun EXCEPT ![w] = 1]
    /\ ended' = ended /\ returned' = returned
    /\ \/ Called' = Called
       \/ \E d \in Calls : d \notin Called /\ Called' = Called \union {d}

LEMMA BodyStep ==
    ASSUME TypeOK, LInv, GroupsFree, NEW t \in Threads, Body(t)
    PROVE  TypeOK' /\ LInv' /\ \E c, w : Begun(c, w)
  <1>1. PICK y : y = TopOf(t)
    OBVIOUS
  <1>2. PICK f : f = Top(t)
    OBVIOUS
  <1>3. PICK w : w = <<group[f.g].func, f.i>>
    OBVIOUS
  <1>4. PICK h : h = [f EXCEPT !.at = "done", !.c = w[1]]
    OBVIOUS
  <1>5. /\ At(t, "body")
        /\ begun' = [begun EXCEPT ![w] = @ + 1]
        /\ UNCHANGED <<program, step, held, queue, ended, returned>>
    BY <1>2, <1>3 DEF Body
  <1>6. /\ Stacks /\ stack[t] # <<>> /\ y \in Place /\ y[1] = t
        /\ FrameAt(y) = f /\ f \in Frames /\ f.at = "body"
    BY <1>1, <1>2, <1>5, TopFrame
  <1>7. FrameRight(f) /\ Working(f) /\ w = ItemAt(f) /\ begun[w] = 0
    BY <1>3, <1>6 DEF LInv, FramesRight, Working, ClaimsRight, ItemAt, FuncOf
  <1>8. /\ f.g \in Groups /\ FuncOf(f.g) \in Calls /\ FuncOf(f.g) # NoCall
        /\ UnderWay(FuncOf(f.g)) /\ ~BeingSetUp(f.g) /\ ~Entering(f)
        /\ w \in Items(FuncOf(f.g)) /\ w \in AllItems
        /\ w[1] = FuncOf(f.g)
    BY <1>6, <1>7, ClaimedItem DEF ItemAt
  <1>9. begun' = [begun EXCEPT ![w] = 1]
    BY <1>5, <1>7
  <1>10. /\ h \in Frames /\ h.at = "done" /\ h.g = f.g /\ h.i = f.i
         /\ h.c = FuncOf(f.g) /\ h.wff = f.wff
    BY <1>4, <1>6, <1>8 DEF Frames
  <1>11. GoesOn(y, h) /\ ~Entering(h)
    BY <1>6, <1>7, <1>8, <1>10 DEF GoesOn, FrameRight, Entering, Owner
  <1>12. \A v \in AllItems : begun'[v] = begun[v] \/ \E k \in Groups : FuncOf(k) = v[1]
    <2>1. \A v \in AllItems : v # w => begun'[v] = begun[v]
      BY <1>9 DEF TypeOK
    <2> QED  BY <1>8, <2>1
  <1>13. begun' \in [AllItems -> Nat]
    BY <1>9 DEF TypeOK
  <1>14. CASE ~Nests(w)
    <2>1. Goto(t, h) /\ pos' = pos /\ group' = group
      BY <1>2, <1>3, <1>4, <1>14 DEF Body
    <2>2. Stacks' /\ Moved(y, h) /\ Place' = Place
      BY <1>1, <1>6, <1>10, <2>1, GotoMoves
    <2>3. Called' = Called
      BY <1>5, <1>7, <1>8, <1>9, <1>14, BodyCalled
    <2>4. Structure' /\ \A g : BeingSetUp(g)' <=> BeingSetUp(g)
      BY <1>5, <1>6, <1>10, <1>11, <1>12, <2>1, <2>2, <2>3, FrameGoesOn
    <2>5. Begins(w, y, h)
      BY <1>5, <1>6, <1>9, <2>1, <2>2, <2>3, <2>4 DEF Begins, Moved
    <2>6. CountersRight' /\ ClaimsRight' /\ HistoryRight'
      BY <1>6, <1>7, <1>10, <2>2, <2>5, BodyBegins
    <2>7. TypeOK'
      BY <1>5, <1>13, <2>1, <2>2 DEF TypeOK, Stacks
    <2>8. Begun(FuncOf(f.g), w)
      BY <1>5, <1>7, <1>8, <1>9, <2>3 DEF Begun
    <2> QED  BY <2>4, <2>6, <2>7, <2>8 DEF LInv, Structure
  <1>15. CASE Nests(w)
    <2>1. PICK d : d = Nested(w)
      OBVIOUS
    <2>2. PICK e : e = Entered(d)
      OBVIOUS
    <2>3. PICK g : g = NextGroup(d)
      OBVIOUS
    <2>4. /\ GetTaskGroup(d)
          /\ stack' = [stack EXCEPT ![t] = <<e, h>> \o Tail(@)]
      BY <1>2, <1>3, <1>4, <1>15, <2>1, <2>2 DEF Body
    <2>5. /\ d \in Calls /\ d \notin Called /\ Called' = Called \union {d} /\ PoolOf(d) # 0
      BY <1>5, <1>7, <1>8, <1>9, <1>15, <2>1, BodyCalled
    <2>6. /\ g \in Groups /\ g[1] = PoolOf(d) /\ held # g
          /\ \A x \in Place : FrameAt(x).g # g
          /\ \A v \in Workers : \A k \in DOMAIN queue[v] : queue[v][k].g # g
          /\ pos' \in [{0, 1, 2} -> Nat]
          /\ group' \in [Groups -> GroupRecord]
          /\ \A k \in Groups : group'[k].func = group[k].func /\ group'[k].ctr = group[k].ctr
          /\ \A k \in Groups : k # g => group'[k] = group[k]
      BY <2>3, <2>4, <2>5, FreeGroup
    <2>7. /\ e \in Frames /\ e.at = "counters" /\ e.g = g /\ e.c = d
          /\ e.i \in Workers /\ e.wff = FALSE
      BY <2>2, <2>3, <2>5, EnteredFrame DEF TypeOK
    <2>8. PICK z : /\ z \notin Place /\ z[1] = t /\ Place' = Place \union {z}
                   /\ FrameAt(z)' = e
                   /\ \A x \in Place : FrameAt(x)' = IF x = y THEN h ELSE FrameAt(x)
      <3>1. PICK z : /\ z \notin Place /\ z[1] = t /\ Place' = Place \union {z}
                     /\ FrameAt(z)' = e
                     /\ \A x \in Place :
                            FrameAt(x)' = IF x = TopOf(t) THEN h ELSE FrameAt(x)
        BY <1>6, <1>10, <2>4, <2>7, GotoPushPlaces
      <3>2. \A x \in Place : FrameAt(x)' = IF x = y THEN h ELSE FrameAt(x)
        BY <1>1, <3>1
      <3> QED  BY <3>1, <3>2
    <2>9. Stacks'
      BY <1>6, <1>10, <2>4, <2>7, GotoPushPlaces
    <2>10. EntersWith(d, g, z, e, y, h)
      BY <1>5, <1>11, <1>12, <2>5, <2>6, <2>7, <2>8 DEF EntersWith
    <2>11. Structure' /\ \A k : BeingSetUp(k)' <=> BeingSetUp(k) \/ k = g
      BY <2>9, <2>10, CallMade
    <2>12. Begins(w, y, h)
      <3>1. \A x \in Place' : FrameAt(x)'.at # "counters" => x \in Place
        BY <2>7, <2>8
      <3>2. \A x \in Place : FrameAt(x).g \in Groups =>
                group'[FrameAt(x).g].remaining = group[FrameAt(x).g].remaining
        BY <2>6
      <3> QED  BY <1>5, <1>9, <2>5, <2>6, <2>8, <2>11, <3>1, <3>2 DEF Begins
    <2>13. CountersRight' /\ ClaimsRight' /\ HistoryRight'
      BY <1>6, <1>7, <1>10, <2>9, <2>12, BodyBegins
    <2>14. TypeOK'
      BY <1>5, <1>13, <2>6, <2>9 DEF TypeOK, Stacks, GroupRecord
    <2>15. Begun(FuncOf(f.g), w)
      BY <1>5, <1>7, <1>8, <1>9, <2>5 DEF Begun
    <2> QED  BY <2>11, <2>13, <2>14, <2>15 DEF LInv, Structure
  <1> QED  BY <1>14, <1>15

-----------------------------------------------------------------------------
(* The invariant holds at first, and every step keeps it.                  *)
LEMMA InitInv ==
    ASSUME Init
    PROVE  TypeOK /\ LInv
  <1>1. /\ program \in Programs /\ step = 0 /\ held = NoGroup
        /\ pos = [p \in {0, 1, 2} |-> 0]
        /\ group = [g \in Groups |-> FreshGroup]
        /\ queue = [w \in Workers |-> <<>>]
        /\ stack = [t \in Threads |-> IF t = 0 THEN <<>> ELSE <<WorkerLoop>>]
        /\ begun = [w \in AllItems |-> 0] /\ ended = {} /\ returned = {}
    BY DEF Init
  <1>2. /\ WorkerLoop \in Frames /\ WorkerLoop.at = "drain" /\ WorkerLoop.g = NoGroup
        /\ WorkerLoop.wff = FALSE
    BY DEF WorkerLoop, Frame, Frames
  <1>3. FreshGroup \in GroupRecord /\ FreshGroup.func = NoCall
    BY DEF FreshGroup, GroupRecord
  <1>4. Stacks
    <2>1. <<WorkerLoop>> \in Seq(Frames)
      BY <1>2
    <2> QED  BY <1>1, <2>1 DEF Stacks
  <1>5. TypeOK
    <2>1. step \in 0..Len(program)
      BY <1>1, ThreadPoolAssumption
    <2>2. queue \in [Workers -> Seq([g : Groups, by : Threads])]
      BY <1>1
    <2>3. group \in [Groups -> GroupRecord]
      BY <1>1, <1>3
    <2>4. /\ held \in Groups \union {NoGroup} /\ pos \in [{0, 1, 2} -> Nat]
          /\ begun \in [AllItems -> Nat] /\ ended \subseteq AllItems /\ returned \subseteq Calls
      BY <1>1
    <2> QED  BY <1>1, <1>4, <2>1, <2>2, <2>3, <2>4 DEF TypeOK, Stacks, GroupRecord
  <1>6. \A x \in Place : FrameAt(x) = WorkerLoop
    <2> SUFFICES ASSUME NEW x \in Place PROVE FrameAt(x) = WorkerLoop
      OBVIOUS
    <2>1. /\ x[1] \in Threads /\ x[2] \in Nat \ {0} /\ x[2] <= Len(stack[x[1]])
      BY <1>4, PlaceOf
    <2>2. CASE x[1] = 0
      BY <1>1, <2>1, <2>2
    <2>3. CASE x[1] # 0
      <3>1. stack[x[1]] = <<WorkerLoop>>
        BY <1>1, <2>1, <2>3
      <3>2. x[2] = 1
        BY <2>1, <3>1
      <3> QED  BY <3>1, <3>2 DEF FrameAt
    <2> QED  BY <2>2, <2>3
  <1>7. /\ \A x \in Place : ~Entering(FrameAt(x)) /\ ~Owner(FrameAt(x)) /\ ~Working(FrameAt(x))
        /\ \A g : ~BeingSetUp(g)
    BY <1>2, <1>6 DEF Entering, Owner, Working, BeingSetUp
  <1>8. \A g \in Groups : FuncOf(g) = NoCall
    BY <1>1, <1>3 DEF FuncOf
  <1>9. FramesRight
    BY <1>2, <1>6 DEF FramesRight, FrameRight
  <1>10. SetUpAlone
    BY <1>7 DEF SetUpAlone
  <1>11. QueuesFilled
    BY <1>1 DEF QueuesFilled
  <1>12. HeldRight
    BY <1>1 DEF HeldRight
  <1>13. OneOwner
    BY <1>7 DEF OneOwner
  <1>14. CallsApart
    BY <1>7, <1>8 DEF CallsApart
  <1>15. CountersRight
    BY <1>7, <1>8 DEF CountersRight, Entering
  <1>16. ClaimsRight
    BY <1>7 DEF ClaimsRight, Working
  <1>17. HistoryRight
    BY <1>1 DEF HistoryRight
  <1> QED  BY <1>5, <1>9, <1>10, <1>11, <1>12, <1>13, <1>14, <1>15, <1>16, <1>17 DEF LInv

LEMMA StutterStep ==
    ASSUME TypeOK, LInv, UNCHANGED vars
    PROVE  TypeOK' /\ LInv'
  <1>1. /\ program' = program /\ step' = step /\ held' = held /\ pos' = pos
        /\ group' = group /\ queue' = queue /\ stack' = stack
        /\ begun' = begun /\ ended' = ended /\ returned' = returned
    BY DEF vars
  <1>2. TypeOK'
    BY <1>1 DEF TypeOK
  <1>3. PICK y : y \notin Place
    <2>1. <<0, 0>> \notin Place
      BY DEF Place
    <2> QED  BY <2>1
  <1>4. Place' = Place /\ \A x : FrameAt(x)' = FrameAt(x)
    BY <1>1 DEF Place, FrameAt
  <1>5. Moved(y, 0) /\ y \notin Place'
    BY <1>3, <1>4 DEF Moved
  <1>6. Stacks'
    BY <1>1 DEF TypeOK, Stacks
  <1>7. Unmoved /\ QueuesKept /\ HeldKept
    BY <1>1, UnmovedGroups, QueuesSame DEF HeldKept
  <1> QED  BY <1>2, <1>3, <1>5, <1>6, <1>7, FramesMove

LEMMA NextInv ==
    ASSUME TypeOK, LInv, [Next /\ GroupsFree]_vars
    PROVE  TypeOK' /\ LInv'
  <1>1. CASE UNCHANGED vars
    BY <1>1, StutterStep
  <1>2. CASE Next /\ GroupsFree
    <2>1. CASE Start
      BY <1>2, <2>1, StartStep
    <2>2. CASE Wait
      BY <2>2, WaitStep
    <2>3. CASE Finished
      BY <2>3, StutterStep DEF Finished
    <2>4. ASSUME NEW t \in Threads, Execute(t)
          PROVE  TypeOK' /\ LInv'
      <3>1. CASE EnqueueCounters(t)
        BY <3>1, EnqueueCountersStep
      <3>2. CASE EnqueueFields(t)
        BY <3>2, EnqueueFieldsStep
      <3>3. CASE PushTaskGroup(t)
        BY <3>3, PushTaskGroupStep
      <3>4. CASE Claim(t)
        BY <3>4, ClaimStep
      <3>5. CASE NothingLeft(t)
        BY <3>5, NothingLeftStep
      <3>6. CASE Body(t)
        BY <1>2, <3>6, BodyStep
      <3>7. CASE Done(t)
        BY <3>7, DoneStep
      <3>8. CASE Reschedule(t)
        BY <3>8, RescheduleStep
      <3>9. CASE HelpOthers(t)
        BY <3>9, HelpOthersStep
      <3>10. CASE Finish(t)
        BY <3>10, FinishStep
      <3> QED
        BY <2>4, <3>1, <3>2, <3>3, <3>4, <3>5, <3>6, <3>7, <3>8, <3>9, <3>10 DEF Execute
    <2>5. ASSUME NEW w \in Workers, Serve(w)
          PROVE  TypeOK' /\ LInv'
      BY <2>5, DequeueStep, DrainedStep, ThreadNumbers DEF Serve
    <2> QED  BY <1>2, <2>1, <2>2, <2>3, <2>4, <2>5 DEF Next
  <1> QED  BY <1>1, <1>2

LEMMA Invariant == FreeSpec => [](TypeOK /\ LInv)
  <1>1. Init => TypeOK /\ LInv
    BY InitInv
  <1>2. (TypeOK /\ LInv) /\ [Next /\ GroupsFree]_vars => (TypeOK /\ LInv)'
    BY NextInv
  <1> QED  BY <1>1, <1>2, PTL DEF FreeSpec

(* Every variable has its type.  That remainingTasks never falls below     *)
(* zero and that a call that returns is a call rest on the invariant.      *)
THEOREM TypeCorrect == FreeSpec => []TypeOK
  BY Invariant, PTL

(* remainingTasks counts the indices of the group's call that have not     *)
(* been completed, from the moment its fields are written until the call   *)
(* returns, for any number of workers, loops and nested loops.             *)
THEOREM RemainingCounts == FreeSpec => []RemainingIsRight
  <1>1. TypeOK /\ LInv => RemainingIsRight
    <2> SUFFICES ASSUME TypeOK, LInv, NEW g \in Groups, group[g].func # NoCall,
                        \A t \in Threads : \A k \in DOMAIN stack[t] :
                            \/ stack[t][k].at \notin {"counters", "fields"}
                            \/ stack[t][k].g # g
                 PROVE  group[g].remaining = Cardinality(Items(group[g].func) \ ended)
      BY DEF RemainingIsRight
    <2>1. ~BeingSetUp(g)
      <3> SUFFICES ASSUME NEW x \in Place, Entering(FrameAt(x)), FrameAt(x).g = g
                   PROVE  FALSE
        BY DEF BeingSetUp
      <3>1. /\ x[1] \in Threads /\ x[2] \in Nat \ {0} /\ x[2] <= Len(stack[x[1]])
            /\ stack[x[1]] \in Seq(Frames)
        BY PlaceOf DEF TypeOK, Stacks
      <3>2. Len(stack[x[1]]) + 1 - x[2] \in DOMAIN stack[x[1]]
        BY <3>1
      <3> QED  BY <3>1, <3>2 DEF FrameAt, Entering
    <2> QED  BY <2>1 DEF LInv, CountersRight, FuncOf
  <1> QED  BY <1>1, Invariant, PTL

-----------------------------------------------------------------------------
(* The steps of the loops are steps of ParallelFor, or change nothing of   *)
(* it.                                                                     *)
LEMMA ItemsAgree == Loop!AllItems = AllItems
  BY DEF Loop!AllItems, AllItems

LEMMA InitPromise ==
    ASSUME Init
    PROVE  Loop!Init
  <1>1. /\ step = 0 /\ begun = [w \in AllItems |-> 0] /\ ended = {} /\ returned = {}
    BY DEF Init
  <1>2. Called = {}
    <2>1. 1..step = {}
      BY <1>1
    <2>2. \A w \in AllItems : ~(begun[w] > 0)
      BY <1>1
    <2> QED  BY <2>1, <2>2 DEF Called
  <1> QED  BY <1>1, <1>2, ItemsAgree DEF Loop!Init

LEMMA BodyPromise ==
    ASSUME TypeOK, LInv, NEW c, NEW w, Begun(c, w)
    PROVE  Loop!Next
  <1>1. c \in Calls /\ c \in Called /\ c \notin returned /\ w \in Items(c)
    BY DEF Begun, UnderWay
  <1>2. CASE Called' = Called
    <2>1. Loop!Begin(c, w)
      BY <1>1, <1>2 DEF Begun, Loop!Begin
    <2> QED  BY <1>1, <2>1 DEF Loop!Next
  <1>3. CASE \E d \in Calls : d \notin Called /\ Called' = Called \union {d}
    <2>1. PICK d \in Calls : d \notin Called /\ Called' = Called \union {d}
      BY <1>3
    <2>2. Loop!BeginAndCall(c, w, d)
      BY <1>1, <2>1 DEF Begun, Loop!BeginAndCall
    <2> QED  BY <1>1, <2>1, <2>2 DEF Loop!Next
  <1> QED  BY <1>2, <1>3 DEF Begun

LEMMA DonePromise ==
    ASSUME TypeOK, LInv, NEW t \in Threads, Done(t)
    PROVE  Loop!Next
  <1>1. PICK y : y = TopOf(t)
    OBVIOUS
  <1>2. PICK f : f = Top(t)
    OBVIOUS
  <1>3. PICK w : w = <<f.c, f.i>>
    OBVIOUS
  <1>4. /\ At(t, "done") /\ ended' = ended \union {w}
        /\ program' = program /\ step' = step /\ begun' = begun /\ returned' = returned
    BY <1>2, <1>3 DEF Done
  <1>5. /\ y \in Place /\ FrameAt(y) = f /\ f \in Frames /\ f.at = "done"
    BY <1>1, <1>2, <1>4, TopFrame
  <1>6. Working(f) /\ f.c = FuncOf(f.g) /\ begun[ItemAt(f)] = 1 /\ w = ItemAt(f)
    BY <1>3, <1>5 DEF LInv, Working, ClaimsRight, ItemAt
  <1>7. PICK c : c = FuncOf(f.g)
    OBVIOUS
  <1>8. c \in Called /\ c \notin returned /\ w \in Items(c) /\ w \notin ended /\ begun[w] = 1
    BY <1>5, <1>6, <1>7, ClaimedItem DEF UnderWay
  <1>9. Loop!End(c, w)
    BY <1>4, <1>8, CalledSame DEF Loop!End
  <1> QED  BY <1>8, <1>9 DEF Loop!Next

LEMMA FinishPromise ==
    ASSUME TypeOK, LInv, NEW t \in Threads, Finish(t)
    PROVE  Loop!Next
  <1>1. PICK c \in Calls : /\ UnderWay(c) /\ Items(c) \subseteq ended
                           /\ returned' = returned \union {c}
    BY FinishStep
  <1>2. Called' = Called /\ begun' = begun /\ ended' = ended
    BY FinishStep
  <1>3. c \in Called /\ c \notin returned
    BY <1>1 DEF UnderWay
  <1>4. Loop!Return(c)
    BY <1>1, <1>2, <1>3 DEF Loop!Return
  <1> QED  BY <1>3, <1>4 DEF Loop!Next

LEMMA StartPromise ==
    ASSUME TypeOK, LInv, Start
    PROVE  Loop!Next
  <1>1. PICK c \in Calls : c \notin Called /\ Called' = Called \union {c}
    BY StartCalls
  <1>2. begun' = begun /\ ended' = ended /\ returned' = returned
    BY DEF Start
  <1>3. Loop!Call(c)
    BY <1>1, <1>2 DEF Loop!Call
  <1> QED  BY <1>1, <1>3 DEF Loop!Next

LEMMA OtherPromise ==
    ASSUME program' = program, step' = step, begun' = begun, ended' = ended,
           returned' = returned
    PROVE  UNCHANGED Loop!vars
  BY CalledSame DEF Loop!vars

LEMMA NextPromise ==
    ASSUME TypeOK, LInv, [Next /\ GroupsFree]_vars
    PROVE  [Loop!Next]_(Loop!vars)
  <1>1. CASE UNCHANGED vars
    BY <1>1, OtherPromise DEF vars
  <1>2. CASE Next /\ GroupsFree
    <2>1. CASE Start
      BY <2>1, StartPromise
    <2>2. CASE Wait
      <3>1. begun' = begun /\ ended' = ended /\ returned' = returned
        BY <2>2 DEF Wait
      <3> QED  BY <2>2, <3>1, WaitCalls DEF Loop!vars
    <2>3. CASE Finished
      BY <2>3, OtherPromise DEF Finished, vars
    <2>4. ASSUME NEW t \in Threads, Execute(t)
          PROVE  [Loop!Next]_(Loop!vars)
      <3>1. CASE EnqueueCounters(t)
        BY <3>1, OtherPromise DEF EnqueueCounters
      <3>2. CASE EnqueueFields(t)
        BY <3>2, OtherPromise DEF EnqueueFields
      <3>3. CASE PushTaskGroup(t)
        BY <3>3, OtherPromise DEF PushTaskGroup
      <3>4. CASE Claim(t)
        BY <3>4, OtherPromise DEF Claim
      <3>5. CASE NothingLeft(t)
        BY <3>5, OtherPromise DEF NothingLeft
      <3>6. CASE Body(t)
        BY <1>2, <3>6, BodyStep, BodyPromise
      <3>7. CASE Done(t)
        BY <3>7, DonePromise
      <3>8. CASE Reschedule(t)
        BY <3>8, OtherPromise DEF Reschedule
      <3>9. CASE HelpOthers(t)
        BY <3>9, OtherPromise DEF HelpOthers
      <3>10. CASE Finish(t)
        BY <3>10, FinishPromise
      <3> QED
        BY <2>4, <3>1, <3>2, <3>3, <3>4, <3>5, <3>6, <3>7, <3>8, <3>9, <3>10 DEF Execute
    <2>5. ASSUME NEW w \in Workers, Serve(w)
          PROVE  [Loop!Next]_(Loop!vars)
      BY <2>5, OtherPromise DEF Serve, Dequeue, Drained
    <2> QED  BY <1>2, <2>1, <2>2, <2>3, <2>4, <2>5 DEF Next
  <1> QED  BY <1>1, <1>2

(* for_mt, for_mt_background and the wait for it keep what ParallelFor     *)
(* promises their caller, as long as the groups handed out are free: each  *)
(* index is executed once, after its call was made and before it returns,  *)
(* and a call returns only when all its indices have been executed,        *)
(* whichever threads execute them while they wait for which loops.         *)
THEOREM PromiseKept == FreeSpec => LoopSpec
  <1>1. Init => Loop!Init
    BY InitPromise
  <1>2. (TypeOK /\ LInv) /\ [Next /\ GroupsFree]_vars => [Loop!Next]_(Loop!vars)
    BY NextPromise
  <1> QED  BY <1>1, <1>2, Invariant, PTL DEF FreeSpec, LoopSpec, Loop!Spec

-----------------------------------------------------------------------------
(***************************************************************************)
(* As long as no pool has come round, the group whose turn it is was never *)
(* handed out: nothing has to be assumed of the groups then.               *)
(***************************************************************************)
FirstRound == \A p \in {0, 1, 2} : pos[p] <= PoolSize

Reached(g) ==
    \/ held = g
    \/ \E x \in Place : FrameAt(x).g = g
    \/ \E w \in Workers : \E k \in DOMAIN queue[w] : queue[w][k].g = g
HandedOut(g) == g[2] < pos[g[1]]
ReachedWereHandedOut == \A g \in Groups : Reached(g) => HandedOut(g)

LEMMA ReferencedIsReached ==
    ASSUME TypeOK, NEW g, Referenced(g)
    PROVE  Reached(g)
  <1>1. CASE \E t \in Threads : \E k \in DOMAIN stack[t] : stack[t][k].g = g
    BY <1>1, PlacesAreFrames DEF Reached, TypeOK, Stacks
  <1> QED  BY <1>1 DEF Referenced, Reached

(* a group is free when it was never handed out *)
LEMMA FirstRoundFrees ==
    ASSUME TypeOK, ReachedWereHandedOut, FirstRound', NEW c \in Calls, GetTaskGroup(c)
    PROVE  GroupsFree
  <1>1. PICK q \in {0, 1, 2} : q = PoolOf(c)
    BY CallShape
  <1>2. pos \in [{0, 1, 2} -> Nat] /\ pos' = [pos EXCEPT ![q] = pos[q] + 1]
    BY <1>1 DEF GetTaskGroup, TypeOK
  <1>3. pos[q] \in Nat /\ PoolSize \in Nat /\ pos[q] < PoolSize
    <2>1. pos'[q] = pos[q] + 1 /\ pos'[q] <= PoolSize
      BY <1>2 DEF FirstRound
    <2> QED  BY <1>2, <2>1, ThreadPoolAssumption
  <1>4. pos[q] % PoolSize = pos[q] /\ pos[q] \in 0..(PoolSize - 1)
    BY <1>3
  <1>5. PICK g \in Groups : g = <<q, pos[q]>>
    BY <1>4 DEF Groups
  <1>6. ~HandedOut(g)
    BY <1>3, <1>5 DEF HandedOut
  <1>7. ~Referenced(g)
    BY <1>6, ReferencedIsReached DEF ReachedWereHandedOut
  <1>8. \A p \in {0, 1, 2} : pos'[p] # pos[p] => p = q
    BY <1>2
  <1> QED  BY <1>4, <1>5, <1>7, <1>8 DEF GroupsFree

(* A step reaches only groups that were reached before, or are handed out  *)
(* in it.                                                                  *)
ReachesNoMore == pos' = pos /\ \A g \in Groups : Reached(g)' => Reached(g)

LEMMA MovedReaches ==
    ASSUME NEW y, NEW f, Moved(y, f), pos' = pos,
           y \in Place' => f.g = NoGroup \/ Reached(f.g),
           held' = NoGroup \/ Reached(held'),
           \A w \in Workers : \A k \in DOMAIN queue'[w] : Reached(queue'[w][k].g)
    PROVE  ReachesNoMore
  <1> SUFFICES ASSUME NEW g \in Groups, Reached(g)' PROVE Reached(g)
    BY DEF ReachesNoMore
  <1>1. g # NoGroup
    BY GroupShape
  <1>2. CASE held' = g
    BY <1>1, <1>2
  <1>3. ASSUME NEW x \in Place', FrameAt(x)'.g = g PROVE Reached(g)
    <2>1. CASE x = y
      BY <1>1, <1>3, <2>1 DEF Moved
    <2>2. CASE x # y
      BY <1>3, <2>2 DEF Moved, Reached
    <2> QED  BY <2>1, <2>2
  <1>4. ASSUME NEW w \in Workers, NEW k \in DOMAIN queue'[w], queue'[w][k].g = g
        PROVE  Reached(g)
    BY <1>4
  <1> QED  BY <1>2, <1>3, <1>4 DEF Reached

(* what is reached through the background group and the queues *)
LEMMA HeldIsReached == held = NoGroup \/ Reached(held)
  BY DEF Reached
LEMMA QueuedAreReached ==
    \A w \in Workers : \A k \in DOMAIN queue[w] : Reached(queue[w][k].g)
  BY DEF Reached
LEMMA PlacedAreReached == \A x \in Place : Reached(FrameAt(x).g)
  BY DEF Reached

(* a frame goes on with its group, or is gone *)
LEMMA GotoReaches ==
    ASSUME TypeOK, NEW t \in Threads, stack[t] # <<>>, NEW f \in Frames, Goto(t, f),
           f.g = Top(t).g, pos' = pos, held' = held,
           \A w \in Workers : \A k \in DOMAIN queue'[w] : Reached(queue'[w][k].g)
    PROVE  ReachesNoMore
  <1>1. PICK y \in Place : y = TopOf(t) /\ FrameAt(y) = Top(t)
    BY TopPlace DEF TypeOK, Stacks
  <1>2. Moved(y, f)
    BY <1>1, GotoMoves DEF TypeOK, Stacks
  <1>3. Reached(f.g)
    BY <1>1, PlacedAreReached
  <1>4. held' = NoGroup \/ Reached(held')
    BY HeldIsReached
  <1> QED  BY <1>2, <1>3, <1>4, MovedReaches

LEMMA PopReaches ==
    ASSUME TypeOK, NEW t \in Threads, stack[t] # <<>>, Pop(t), pos' = pos,
           held' = NoGroup \/ Reached(held'),
           \A w \in Workers : \A k \in DOMAIN queue'[w] : Reached(queue'[w][k].g)
    PROVE  ReachesNoMore
  <1>1. PICK y : y = TopOf(t)
    OBVIOUS
  <1>2. Moved(y, 0) /\ y \notin Place'
    BY <1>1, PopMoves DEF TypeOK, Stacks
  <1> QED  BY <1>2, MovedReaches

LEMMA PushReaches ==
    ASSUME TypeOK, NEW t \in Threads, NEW f \in Frames, Push(t, f),
           f.g = NoGroup \/ Reached(f.g), pos' = pos, held' = held,
           \A w \in Workers : \A k \in DOMAIN queue'[w] : Reached(queue'[w][k].g)
    PROVE  ReachesNoMore
  <1>1. PICK y : Moved(y, f)
    BY PushMoves DEF TypeOK, Stacks
  <1>2. held' = NoGroup \/ Reached(held')
    BY HeldIsReached
  <1> QED  BY <1>1, <1>2, MovedReaches

LEMMA LeaveLoopReaches ==
    ASSUME TypeOK, NEW t \in Threads, stack[t] # <<>>, NEW f \in Frames, LeaveLoop(t, f),
           f.g = Top(t).g, pos' = pos, held' = held, queue' = queue
    PROVE  ReachesNoMore
  <1>1. PICK y \in Place : y = TopOf(t) /\ FrameAt(y) = Top(t)
    BY TopPlace DEF TypeOK, Stacks
  <1>2. PICK h : Moved(y, h) /\ (y \in Place' => h.g = f.g)
    <2>1. Stacks
      BY DEF TypeOK, Stacks
    <2>2. \E h : /\ Moved(TopOf(t), h)
                 /\ TopOf(t) \in Place' => h.g = f.g
      BY <2>1, LeaveLoopMoves
    <2> QED  BY <1>1, <2>2
  <1>3. Reached(f.g)
    BY <1>1, PlacedAreReached
  <1>4. held' = NoGroup \/ Reached(held')
    BY HeldIsReached
  <1>5. \A w \in Workers : \A k \in DOMAIN queue'[w] : Reached(queue'[w][k].g)
    BY QueuedAreReached
  <1> QED  BY <1>2, <1>3, <1>4, <1>5, MovedReaches

LEMMA ExecuteReaches ==
    ASSUME TypeOK, LInv, NEW t \in Threads, Execute(t), ~Body(t)
    PROVE  ReachesNoMore
  <1>1. PICK f : f = Top(t)
    OBVIOUS
  <1>2. \A w \in Workers : \A k \in DOMAIN queue[w] : Reached(queue[w][k].g)
    BY QueuedAreReached
  <1>3. CASE EnqueueCounters(t)
    <2>1. /\ At(t, "counters") /\ Goto(t, [f EXCEPT !.at = "fields"])
          /\ UNCHANGED <<held, pos, queue>>
      BY <1>1, <1>3 DEF EnqueueCounters
    <2>2. stack[t] # <<>> /\ f \in Frames
      BY <1>1, <2>1, TopFrame
    <2>3. PICK h \in Frames : h = [f EXCEPT !.at = "fields"] /\ h.g = f.g
      <3>1. [f EXCEPT !.at = "fields"] \in Frames /\ [f EXCEPT !.at = "fields"].g = f.g
        BY <2>2 DEF Frames
      <3> QED  BY <3>1, Zenon
    <2> QED  BY <1>1, <1>2, <2>1, <2>2, <2>3, GotoReaches
  <1>4. CASE EnqueueFields(t)
    <2>1. /\ At(t, "fields") /\ Goto(t, [f EXCEPT !.at = "push"])
          /\ UNCHANGED <<held, pos, queue>>
      BY <1>1, <1>4 DEF EnqueueFields
    <2>2. stack[t] # <<>> /\ f \in Frames
      BY <1>1, <2>1, TopFrame
    <2>3. PICK h \in Frames : h = [f EXCEPT !.at = "push"] /\ h.g = f.g
      <3>1. [f EXCEPT !.at = "push"] \in Frames /\ [f EXCEPT !.at = "push"].g = f.g
        BY <2>2 DEF Frames
      <3> QED  BY <3>1, Zenon
    <2> QED  BY <1>1, <1>2, <2>1, <2>2, <2>3, GotoReaches
  <1>5. CASE Claim(t)
    <2>1. PICK i : i = group[f.g].ctr
      OBVIOUS
    <2>2. /\ At(t, "claim") /\ Goto(t, [f EXCEPT !.at = "body", !.i = i])
          /\ UNCHANGED <<held, pos, queue>>
      BY <1>1, <1>5, <2>1 DEF Claim
    <2>3. stack[t] # <<>> /\ f \in Frames
      BY <1>1, <2>2, TopFrame
    <2>4. i \in Nat
      <3>1. PICK y \in Place : FrameAt(y) = f /\ f.at = "claim"
        BY <1>1, <2>2, TopFrame
      <3>2. f.g \in Groups
        BY <3>1 DEF LInv, FramesRight, FrameRight
      <3> QED  BY <2>1, <3>2, GroupsTyped
    <2>5. PICK h \in Frames : h = [f EXCEPT !.at = "body", !.i = i] /\ h.g = f.g
      <3>1. [f EXCEPT !.at = "body", !.i = i] \in Frames /\ [f EXCEPT !.at = "body", !.i = i].g = f.g
        BY <2>3, <2>4 DEF Frames
      <3> QED  BY <3>1, Zenon
    <2> QED  BY <1>1, <1>2, <2>2, <2>3, <2>5, GotoReaches
  <1>6. CASE NothingLeft(t)
    <2>1. At(t, "claim") /\ LeaveLoop(t, f) /\ UNCHANGED <<held, pos, queue>>
      BY <1>1, <1>6 DEF NothingLeft
    <2> QED  BY <1>1, <2>1, TopFrame, LeaveLoopReaches
  <1>7. CASE Done(t)
    <2>1. At(t, "done") /\ UNCHANGED <<held, pos, queue>>
      BY <1>7 DEF Done
    <2>2. stack[t] # <<>> /\ f \in Frames
      BY <1>1, <2>1, TopFrame
    <2>3. CASE KeepsGoing(t, f)
      <3>1. Goto(t, [f EXCEPT !.at = "claim", !.c = NoCall])
        BY <1>1, <1>7, <2>3 DEF Done
      <3>2. PICK h \in Frames : h = [f EXCEPT !.at = "claim", !.c = NoCall] /\ h.g = f.g
        <4>1. [f EXCEPT !.at = "claim", !.c = NoCall] \in Frames /\ [f EXCEPT !.at = "claim", !.c = NoCall].g = f.g
          BY <2>2 DEF Frames
        <4> QED  BY <4>1, Zenon
      <3> QED  BY <1>1, <1>2, <2>1, <2>2, <3>1, <3>2, GotoReaches
    <2>4. CASE ~KeepsGoing(t, f)
      <3>1. LeaveLoop(t, [f EXCEPT !.c = NoCall])
        BY <1>1, <1>7, <2>4 DEF Done
      <3>2. PICK h \in Frames : h = [f EXCEPT !.c = NoCall] /\ h.g = f.g
        <4>1. [f EXCEPT !.c = NoCall] \in Frames /\ [f EXCEPT !.c = NoCall].g = f.g
          BY <2>2 DEF Frames
        <4> QED  BY <4>1, Zenon
      <3> QED  BY <1>1, <2>1, <2>2, <3>1, <3>2, LeaveLoopReaches
    <2> QED  BY <2>3, <2>4
  <1>8. CASE HelpOthers(t)
    <2>1. Push(t, WorkerLoop) /\ UNCHANGED <<held, pos, queue>>
      BY <1>8 DEF HelpOthers
    <2>2. WorkerLoop \in Frames /\ WorkerLoop.g = NoGroup
      BY DEF WorkerLoop, Frame, Frames
    <2> QED  BY <1>2, <2>1, <2>2, PushReaches
  <1>9. CASE Finish(t)
    <2>1. /\ At(t, "check") /\ Pop(t) /\ UNCHANGED <<pos, queue>>
          /\ held' = held \/ held' = NoGroup
      BY <1>9 DEF Finish
    <2> QED  BY <1>2, <2>1, TopFrame, HeldIsReached, PopReaches
  <1>10. PICK g : g = f.g
    OBVIOUS
  <1>11. ASSUME At(t, "push") \/ At(t, "reschedule"), NEW v,
                queue' = [queue EXCEPT ![v] = Append(@, [g |-> g, by |-> t])]
         PROVE  /\ Reached(g)
                /\ \A w \in Workers : \A k \in DOMAIN queue'[w] : Reached(queue'[w][k].g)
    <2>1. Reached(g)
      BY <1>1, <1>10, <1>11, TopFrame, PlacedAreReached
    <2>2. ASSUME NEW w \in Workers, w = v, NEW k \in DOMAIN queue'[w]
          PROVE  Reached(queue'[w][k].g)
      <3>1. PICK e : e = [g |-> g, by |-> t] /\ e.g = g
        <4>1. [g |-> g, by |-> t].g = g
          OBVIOUS
        <4> QED  BY <4>1, Zenon
      <3>2. queue'[w] = Append(queue[w], e) /\ queue[w] \in Seq(QueueEntry)
        BY <1>11, <2>2, <3>1, QueuesTyped
      <3>3. queue'[w][k] = e \/ (k \in DOMAIN queue[w] /\ queue'[w][k] = queue[w][k])
        BY <2>2, <3>2
      <3> QED  BY <1>2, <2>1, <3>1, <3>3
    <2>3. ASSUME NEW w \in Workers, w # v
          PROVE  queue'[w] = queue[w]
      BY <1>11, <2>3, QueuesTyped
    <2> QED  BY <1>2, <2>1, <2>2, <2>3
  <1>12. CASE PushTaskGroup(t)
    <2>1. /\ At(t, "push") /\ pos' = pos
          /\ queue' = [queue EXCEPT ![f.i] = Append(@, [g |-> g, by |-> t])]
      BY <1>1, <1>10, <1>12 DEF PushTaskGroup
    <2>2. /\ Reached(g)
          /\ \A w \in Workers : \A k \in DOMAIN queue'[w] : Reached(queue'[w][k].g)
      BY <1>11, <2>1
    <2>3. stack[t] # <<>> /\ f \in Frames /\ f.i \in Nat /\ f.i + 1 \in Nat
      <3>1. stack[t] # <<>> /\ f \in Frames
        BY <1>1, <2>1, TopFrame
      <3> QED  BY <3>1 DEF Frames
    <2>4. CASE f.i < NumWorkers
      <3>1. Goto(t, [f EXCEPT !.i = f.i + 1]) /\ held' = held
        BY <1>1, <1>12, <2>4 DEF PushTaskGroup
      <3>2. PICK h \in Frames : h = [f EXCEPT !.i = f.i + 1] /\ h.g = f.g
        <4>1. [f EXCEPT !.i = f.i + 1] \in Frames /\ [f EXCEPT !.i = f.i + 1].g = f.g
          BY <2>3 DEF Frames
        <4> QED  BY <4>1, Zenon
      <3> QED  BY <1>1, <2>1, <2>2, <2>3, <3>1, <3>2, GotoReaches
    <2>5. CASE ~(f.i < NumWorkers) /\ IsHighPriority(g)
      <3>1. Goto(t, [f EXCEPT !.at = "claim", !.wff = TRUE]) /\ held' = held
        BY <1>1, <1>10, <1>12, <2>5 DEF PushTaskGroup
      <3>2. PICK h \in Frames : h = [f EXCEPT !.at = "claim", !.wff = TRUE] /\ h.g = f.g
        <4>1. [f EXCEPT !.at = "claim", !.wff = TRUE] \in Frames /\ [f EXCEPT !.at = "claim", !.wff = TRUE].g = f.g
          BY <2>3 DEF Frames
        <4> QED  BY <4>1, Zenon
      <3> QED  BY <1>1, <2>1, <2>2, <2>3, <3>1, <3>2, GotoReaches
    <2>6. CASE ~(f.i < NumWorkers) /\ ~IsHighPriority(g)
      <3>1. Pop(t) /\ held' = g
        BY <1>1, <1>10, <1>12, <2>6 DEF PushTaskGroup
      <3> QED  BY <2>1, <2>2, <2>3, <3>1, PopReaches
    <2> QED  BY <2>4, <2>5, <2>6
  <1>13. CASE Reschedule(t)
    <2>1. /\ At(t, "reschedule") /\ Pop(t) /\ UNCHANGED <<held, pos>>
          /\ queue' = [queue EXCEPT ![t] = Append(@, [g |-> g, by |-> t])]
      BY <1>1, <1>10, <1>13 DEF Reschedule
    <2>2. \A w \in Workers : \A k \in DOMAIN queue'[w] : Reached(queue'[w][k].g)
      BY <1>11, <2>1
    <2> QED  BY <2>1, <2>2, TopFrame, HeldIsReached, PopReaches
  <1> QED
    BY <1>3, <1>4, <1>5, <1>6, <1>7, <1>8, <1>9, <1>12, <1>13 DEF Execute

LEMMA DequeueReaches ==
    ASSUME TypeOK, NEW t \in Workers, Dequeue(t)
    PROVE  ReachesNoMore
  <1>1. PICK k \in Dequeuable(t) :
            LET g == queue[t][k].g IN
            /\ At(t, "drain")
            /\ queue' = [queue EXCEPT ![t] = RemoveAt(@, k)]
            /\ Push(t, Frame("claim", g, NoCall, 0, FALSE,
                         ~IsHighPriority(g) /\ ~IsFinished(g)))
            /\ UNCHANGED <<program, step, held, pos, group, begun, ended, returned>>
    BY DEF Dequeue
  <1>2. k \in DOMAIN queue[t] /\ t \in Threads
    BY ThreadNumbers DEF Dequeuable
  <1>3. PICK g \in Groups : g = queue[t][k].g
    BY <1>2, QueuesTyped
  <1>4. PICK f \in Frames : /\ f.g = g
                            /\ f = Frame("claim", g, NoCall, 0, FALSE,
                                         ~IsHighPriority(g) /\ ~IsFinished(g))
    <2>1. PICK b \in BOOLEAN : b = (~IsHighPriority(g) /\ ~IsFinished(g))
      OBVIOUS
    <2>2. PICK f : f = Frame("claim", g, NoCall, 0, FALSE, b)
      OBVIOUS
    <2>3. f \in Frames /\ f.g = g
      BY <2>2 DEF Frame, Frames
    <2> QED  BY <2>1, <2>2, <2>3
  <1>5. Push(t, f) /\ UNCHANGED <<held, pos>>
    BY <1>1, <1>3, <1>4
  <1>6. Reached(f.g)
    BY <1>2, <1>3, <1>4, QueuedAreReached
  <1>7. \A v \in Workers : \A j \in DOMAIN queue'[v] :
            \E i \in DOMAIN queue[v] : queue'[v][j] = queue[v][i]
    <2>1. queue' = [queue EXCEPT ![t] = RemoveAt(@, k)]
      BY <1>1
    <2>2. queue \in [Workers -> Seq(QueueEntry)]
      BY QueuesTyped
    <2>3. \A w \in Workers : \A n \in DOMAIN queue[w] :
              queue' = [queue EXCEPT ![w] = RemoveAt(@, n)] =>
              \A v \in Workers : \A j \in DOMAIN queue'[v] :
                  \E i \in DOMAIN queue[v] : queue'[v][j] = queue[v][i]
      BY <2>2, QueueRemoved
    <2> QED  BY <1>2, <2>1, <2>3, Zenon
  <1>8. \A w \in Workers : \A j \in DOMAIN queue'[w] : Reached(queue'[w][j].g)
    BY <1>7, QueuedAreReached
  <1> QED  BY <1>2, <1>5, <1>6, <1>8, PushReaches

(* the two steps that hand out a group *)
LEMMA HandedOutNow ==
    ASSUME TypeOK, FirstRound', ReachedWereHandedOut, NEW c \in Calls, GetTaskGroup(c),
           held' = held, queue' = queue,
           \A g \in Groups : \A x \in Place' :
               FrameAt(x)'.g = g => Reached(g) \/ g = NextGroup(c)
    PROVE  ReachedWereHandedOut'
  <1>1. PICK q \in {0, 1, 2} : q = PoolOf(c)
    BY CallShape
  <1>2. pos \in [{0, 1, 2} -> Nat] /\ pos' = [pos EXCEPT ![q] = pos[q] + 1]
    BY <1>1 DEF GetTaskGroup, TypeOK
  <1>3. pos[q] \in Nat /\ PoolSize \in Nat /\ pos[q] < PoolSize /\ pos'[q] = pos[q] + 1
    <2>1. pos'[q] = pos[q] + 1 /\ pos'[q] <= PoolSize
      BY <1>2 DEF FirstRound
    <2> QED  BY <1>2, <2>1, ThreadPoolAssumption
  <1>4. NextGroup(c) = <<q, pos[q]>>
    <2>1. pos[q] % PoolSize = pos[q]
      BY <1>3
    <2> QED  BY <1>1, <2>1 DEF NextGroup
  <1> SUFFICES ASSUME NEW g \in Groups, Reached(g)' PROVE g[2] < pos'[g[1]]
    BY DEF ReachedWereHandedOut, HandedOut
  <1>5. Reached(g) \/ g = NextGroup(c)
    BY DEF Reached
  <1>6. CASE Reached(g)
    <2>1. g[2] < pos[g[1]]
      BY <1>6 DEF ReachedWereHandedOut, HandedOut
    <2>2. g[1] \in {0, 1, 2} /\ g[2] \in Int
      BY ThreadPoolAssumption DEF Groups
    <2>3. pos'[g[1]] \in Nat /\ pos[g[1]] \in Nat /\ pos'[g[1]] >= pos[g[1]]
      BY <1>2, <2>2
    <2> QED  BY <2>1, <2>2, <2>3
  <1>7. CASE g = NextGroup(c)
    BY <1>3, <1>4, <1>7
  <1> QED  BY <1>5, <1>6, <1>7

LEMMA StartHandsOut ==
    ASSUME TypeOK, FirstRound', ReachedWereHandedOut, Start
    PROVE  GroupsFree /\ ReachedWereHandedOut'
  <1>1. PICK c : c = <<step + 1>>
    OBVIOUS
  <1>2. /\ GetTaskGroup(c) /\ Push(0, Entered(c)) /\ held' = held /\ queue' = queue
    BY <1>1 DEF Start
  <1>3. c \in Calls
    BY <1>1, StartCalls
  <1>4. Entered(c) \in Frames /\ Entered(c).g = NextGroup(c)
    BY <1>3, EnteredFrame DEF TypeOK
  <1>5. PICK y : Moved(y, Entered(c))
    BY <1>2, <1>4, PushMoves, ThreadNumbers DEF TypeOK, Stacks
  <1>6. \A g \in Groups : \A x \in Place' :
            FrameAt(x)'.g = g => Reached(g) \/ g = NextGroup(c)
    BY <1>4, <1>5, PlacedAreReached DEF Moved
  <1> QED  BY <1>2, <1>3, <1>6, HandedOutNow, FirstRoundFrees

LEMMA BodyHandsOut ==
    ASSUME TypeOK, LInv, FirstRound', ReachedWereHandedOut, NEW t \in Threads, Body(t)
    PROVE  GroupsFree /\ ReachedWereHandedOut'
  <1>1. PICK y : y = TopOf(t)
    OBVIOUS
  <1>2. PICK f : f = Top(t)
    OBVIOUS
  <1>3. PICK w : w = <<group[f.g].func, f.i>>
    OBVIOUS
  <1>4. PICK h : h = [f EXCEPT !.at = "done", !.c = w[1]]
    OBVIOUS
  <1>5. /\ At(t, "body") /\ held' = held /\ queue' = queue
    BY DEF Body
  <1>6. /\ Stacks /\ stack[t] # <<>> /\ y \in Place
        /\ FrameAt(y) = f /\ f \in Frames /\ f.at = "body"
    BY <1>1, <1>2, <1>5, TopFrame
  <1>7. w \in AllItems /\ w[1] \in Calls
    <2>1. Working(f) /\ w = ItemAt(f)
      BY <1>3, <1>6 DEF Working, ItemAt, FuncOf
    <2> QED  BY <1>6, <2>1, ClaimedItem DEF ItemAt
  <1>8. h \in Frames /\ h.g = f.g
    BY <1>4, <1>6, <1>7 DEF Frames
  <1>9. CASE ~Nests(w)
    <2>1. Goto(t, h) /\ pos' = pos
      BY <1>2, <1>3, <1>4, <1>9 DEF Body
    <2>2. ReachesNoMore
      BY <1>2, <1>5, <1>6, <1>8, <2>1, QueuedAreReached, GotoReaches
    <2>3. GroupsFree
      BY <2>1 DEF GroupsFree
    <2> QED  BY <2>2, <2>3 DEF ReachesNoMore, ReachedWereHandedOut, HandedOut
  <1>10. CASE Nests(w)
    <2>1. PICK d : d = Nested(w)
      OBVIOUS
    <2>2. PICK e : e = Entered(d)
      OBVIOUS
    <2>3. /\ GetTaskGroup(d)
          /\ stack' = [stack EXCEPT ![t] = <<e, h>> \o Tail(@)]
      BY <1>2, <1>3, <1>4, <1>10, <2>1, <2>2 DEF Body
    <2>4. d \in Calls
      BY <1>7, <1>10, <2>1, NestedCall DEF Nests
    <2>5. e \in Frames /\ e.g = NextGroup(d)
      BY <2>2, <2>4, EnteredFrame DEF TypeOK
    <2>6. PICK z : /\ z \notin Place /\ z[1] = t /\ Place' = Place \union {z}
                   /\ FrameAt(z)' = e
                   /\ \A x \in Place :
                          FrameAt(x)' = IF x = TopOf(t) THEN h ELSE FrameAt(x)
      BY <1>6, <1>8, <2>3, <2>5, GotoPushPlaces
    <2>7. \A g \in Groups : \A x \in Place' :
              FrameAt(x)'.g = g => Reached(g) \/ g = NextGroup(d)
      BY <1>6, <1>8, <2>5, <2>6, PlacedAreReached
    <2> QED  BY <1>5, <2>3, <2>4, <2>7, HandedOutNow, FirstRoundFrees
  <1> QED  BY <1>9, <1>10

LEMMA NextHandsOut ==
    ASSUME TypeOK, LInv, FirstRound', ReachedWereHandedOut, [Next]_vars
    PROVE  [Next /\ GroupsFree]_vars /\ ReachedWereHandedOut'
  <1>1. ASSUME ReachesNoMore PROVE GroupsFree /\ ReachedWereHandedOut'
    BY <1>1 DEF ReachesNoMore, GroupsFree, ReachedWereHandedOut, HandedOut
  <1>2. CASE UNCHANGED vars
    <2>1. ReachedWereHandedOut'
      BY <1>2 DEF vars, ReachedWereHandedOut, HandedOut, Reached, Place, FrameAt
    <2> QED  BY <1>2, <2>1
  <1>3. CASE Next
    <2>1. CASE Start
      BY <1>3, <2>1, StartHandsOut
    <2>2. CASE Wait
      <3>1. PICK f : f = Frame("claim", held, NoCall, 0, TRUE, FALSE)
        OBVIOUS
      <3>2. UNCHANGED <<held, pos, queue>> /\ (stack' = stack \/ Push(0, f))
        BY <2>2, <3>1 DEF Wait
      <3>3. f \in Frames /\ f.g = held
        BY <3>1 DEF TypeOK, Frame, Frames
      <3>4. CASE Push(0, f)
        BY <1>1, <1>3, <3>2, <3>3, <3>4, ThreadNumbers, PushReaches, HeldIsReached,
           QueuedAreReached
      <3>5. CASE stack' = stack
        <4>1. ReachesNoMore
          BY <3>2, <3>5 DEF ReachesNoMore, Reached, Place, FrameAt
        <4> QED  BY <1>1, <1>3, <4>1
      <3> QED  BY <3>2, <3>4, <3>5
    <2>3. CASE Finished
      BY <1>2, <2>3 DEF Finished
    <2>4. ASSUME NEW t \in Threads, Execute(t)
          PROVE  [Next /\ GroupsFree]_vars /\ ReachedWereHandedOut'
      <3>1. CASE Body(t)
        BY <1>3, <3>1, BodyHandsOut
      <3>2. CASE ~Body(t)
        BY <1>1, <1>3, <2>4, <3>2, ExecuteReaches
      <3> QED  BY <3>1, <3>2
    <2>5. ASSUME NEW w \in Workers, Serve(w)
          PROVE  [Next /\ GroupsFree]_vars /\ ReachedWereHandedOut'
      <3>1. CASE Dequeue(w)
        BY <1>1, <1>3, <3>1, DequeueReaches
      <3>2. CASE Drained(w)
        <4>1. At(w, "drain") /\ Pop(w) /\ UNCHANGED <<held, pos, queue>> /\ w \in Threads
          BY <3>2, ThreadNumbers DEF Drained
        <4> QED
          BY <1>1, <1>3, <4>1, TopFrame, PopReaches, HeldIsReached, QueuedAreReached
      <3> QED  BY <2>5, <3>1, <3>2 DEF Serve
    <2> QED  BY <1>3, <2>1, <2>2, <2>3, <2>4, <2>5 DEF Next
  <1> QED  BY <1>2, <1>3

(* In the first round of the pools what GetTaskGroup takes for granted is  *)
(* true: no group that is handed out is referred to by anybody.            *)
THEOREM FirstRoundIsFree == Spec /\ []FirstRound => FreeSpec
  <1>1. Init => TypeOK /\ LInv /\ ReachedWereHandedOut
    <2> SUFFICES ASSUME Init PROVE ReachedWereHandedOut
      BY InitInv
    <2>1. TypeOK
      BY InitInv
    <2>2. ASSUME NEW x \in Place PROVE FrameAt(x).g = NoGroup
      <3>1. /\ x[1] \in Threads /\ x[2] \in Nat \ {0} /\ x[2] <= Len(stack[x[1]])
        BY <2>1, PlaceOf DEF TypeOK, Stacks
      <3>2. stack[x[1]] = IF x[1] = 0 THEN <<>> ELSE <<WorkerLoop>>
        BY <3>1 DEF Init
      <3>3. stack[x[1]] = <<WorkerLoop>> /\ x[2] = 1
        BY <3>1, <3>2
      <3> QED  BY <3>3 DEF FrameAt, WorkerLoop, Frame
    <2>3. \A w \in Workers : queue[w] = <<>>
      BY DEF Init
    <2>4. held = NoGroup
      BY DEF Init
    <2> QED  BY <2>2, <2>3, <2>4, GroupShape DEF ReachedWereHandedOut, Reached
  <1>2. TypeOK /\ LInv /\ ReachedWereHandedOut /\ FirstRound' /\ [Next]_vars
        => /\ [Next /\ GroupsFree]_vars
           /\ (TypeOK /\ LInv /\ ReachedWereHandedOut)'
    <2> SUFFICES ASSUME TypeOK, LInv, ReachedWereHandedOut, FirstRound', [Next]_vars
                 PROVE  /\ [Next /\ GroupsFree]_vars
                        /\ (TypeOK /\ LInv /\ ReachedWereHandedOut)'
      OBVIOUS
    <2>1. [Next /\ GroupsFree]_vars /\ ReachedWereHandedOut'
      BY NextHandsOut
    <2>2. TypeOK' /\ LInv'
      BY <2>1, NextInv
    <2> QED  BY <2>1, <2>2
  <1> QED  BY <1>1, <1>2, PTL DEF Spec, FreeSpec

(* In the first round, then, the parallel loops keep their promise and     *)
(* remainingTasks is right, whatever the threads do.                       *)
THEOREM FirstRoundKeepsPromise ==
    Spec /\ []FirstRound => LoopSpec /\ []RemainingIsRight
  BY FirstRoundIsFree, PromiseKept, RemainingCounts, PTL

=============================================================================
