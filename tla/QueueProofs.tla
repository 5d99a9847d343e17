------------------------------ MODULE QueueProofs ------------------------------
(***************************************************************************)
(* StartsAreBounded for any callers, limits and windows, and what the         *)
(* transport of @bunt/queue promises for any lists, connections and calls  *)
(* of dispose().                                                           *)
(***************************************************************************)
EXTENDS Limiters, ListTransport, Integers, SequencesExt, FiniteSetTheorems, SequenceTheorems,
        FunctionTheorems, WellFoundedInduction, TLAPS
------------------------------------------------------------------------------
(***************************************************************************)
(* RateLimitedQueue                                                        *)
(***************************************************************************)

RateInv == Rate!TypeOK /\ Rate!RateIsKept

\* Between two refreshes what was let through and the slots left make the limit.
LEMMA RateStays == Rate!Spec => []RateInv
<1>1. RateLimit \in Nat \ {0}
  BY LimitersAssumption DEF Rate!RateAssumption
<1>2. Rate!Init => RateInv
  BY <1>1 DEF Rate!Init, RateInv, Rate!TypeOK, Rate!RateIsKept
<1>3. RateInv /\ [Rate!Next]_(Rate!vars) => RateInv'
  <2> SUFFICES ASSUME RateInv, [Rate!Next]_(Rate!vars) PROVE RateInv'
    OBVIOUS
  <2> USE DEF RateInv, Rate!TypeOK, Rate!RateIsKept
  <2>0. Rate!Released \in [RateCallers -> {"idle", "throttled", "ready", "full"}] /\ Len(pending) \in Nat
    BY DEF Rate!Released
  <2>1. CASE Rate!Refresh
    <3>1. slots' = RateLimit - Len(pending) /\ started' = Len(pending) /\ Len(pending) <= RateLimit
      BY <1>1, <2>0, <2>1 DEF Rate!Refresh
    <3>2. Rate!RateIsKept'
      BY <1>1, <2>0, <3>1
    <3>3. Rate!TypeOK'
      BY <1>1, <2>0, <2>1, <3>1 DEF Rate!Refresh
    <3> QED
      BY <3>2, <3>3
  <2>2. CASE Rate!RefreshThrows
    <3>1. /\ rateAlive' = FALSE
          /\ UNCHANGED <<slots, pending, caller, jobs, batch, timer, started>>
      BY <2>2 DEF Rate!RefreshThrows
    <3>2. Rate!TypeOK'
      BY <3>1
    <3>3. Rate!RateIsKept'
      BY <3>1
    <3> QED
      BY <3>2, <3>3
  <2>3. CASE Rate!Dispose
    <3>1. /\ slots' = 0 /\ pending' = <<>> /\ timer' = FALSE /\ caller' = Rate!Released
          /\ UNCHANGED <<jobs, batch, rateAlive, started>>
      BY <2>3 DEF Rate!Dispose
    <3>2. slots' \in 0..RateLimit /\ pending' \in Seq(RateCallers) /\ timer' \in BOOLEAN
      <4>1. 0 \in 0..RateLimit /\ <<>> \in Seq(RateCallers) /\ FALSE \in BOOLEAN
        BY <1>1
      <4> QED
        BY <3>1, <4>1
    <3>3. Rate!TypeOK'
      BY <2>0, <3>1, <3>2
    <3>4. Rate!RateIsKept'
      BY <3>1
    <3> QED
      BY <3>3, <3>4
  <2>4. ASSUME NEW c \in RateCallers, Rate!Throttle(c) PROVE RateInv'
    <3>1. /\ caller' \in [RateCallers -> {"idle", "throttled", "ready", "full"}]
          /\ pending' \in Seq(RateCallers)
          /\ UNCHANGED <<jobs, batch, timer, rateAlive>>
      BY <2>4 DEF Rate!Throttle
    <3>2. \/ slots > 0 /\ slots' = slots - 1 /\ started' = started + 1
          \/ slots' = slots /\ started' = started
      BY <2>4 DEF Rate!Throttle
    <3>3. slots' \in 0..RateLimit /\ started' \in Nat /\ started' + slots' = started + slots
      BY <1>1, <3>2
    <3>4. Rate!TypeOK'
      BY <3>1, <3>3
    <3>5. Rate!RateIsKept'
      BY <1>1, <3>1, <3>3
    <3> QED
      BY <3>4, <3>5
  <2>5. ASSUME NEW c \in RateCallers, Rate!Start(c) PROVE RateInv'
    BY <2>5 DEF Rate!Start
  <2>6. ASSUME NEW c \in RateCallers, Rate!JobEnds(c) PROVE RateInv'
    BY <2>6 DEF Rate!JobEnds
  <2>7. ASSUME NEW c \in RateCallers, Rate!Flushed(c) PROVE RateInv'
    BY <2>7 DEF Rate!Flushed
  <2>8. CASE UNCHANGED Rate!vars
    BY <2>8 DEF Rate!vars
  <2> QED
    BY <2>1, <2>2, <2>3, <2>4, <2>5, <2>6, <2>7, <2>8 DEF Rate!Next
<1> QED
  BY <1>2, <1>3, PTL DEF Rate!Spec

------------------------------------------------------------------------------
(***************************************************************************)
(* FixedWindowLimiter: what numbers make together                          *)
(***************************************************************************)

Cells(f, set) == UNION {{i} \X (1..f[i]) : i \in set}

\* A cell is one of its number's.
LEMMA CellsAre ==
    ASSUME NEW f, NEW set
    PROVE  \A p : p \in Cells(f, set) <=> \E i \in set : \E k \in 1..f[i] : p = <<i, k>>
BY DEF Cells

\* The instance counts as the library does.
LEMMA WindowCounts ==
    ASSUME NEW S
    PROVE  /\ Window!Cardinality(S) = Cardinality(S)
           /\ Window!IsFiniteSet(S) <=> IsFiniteSet(S)
<1>1. Window!IsFiniteSet(S) <=> IsFiniteSet(S)
  BY DEF Window!IsFiniteSet, IsFiniteSet
<1>2. Window!Cardinality(S) = Cardinality(S)
  BY Zenon DEF Window!Cardinality, Cardinality
<1> QED
  BY <1>1, <1>2

\* What numbers make together is how many cells they have.
LEMMA TotalIs ==
    ASSUME NEW f, NEW set PROVE Window!Total(f, set) = Cardinality(Cells(f, set))
<1>1. Window!Total(f, set) = Window!Cardinality(Cells(f, set))
  BY Zenon DEF Window!Total, Cells
<1> QED
  BY <1>1, WindowCounts

\* Finitely many natural numbers make a natural number.
LEMMA TotalIsNat ==
    ASSUME NEW f, NEW set, IsFiniteSet(set), \A i \in set : f[i] \in Nat
    PROVE  /\ IsFiniteSet(Cells(f, set))
           /\ Window!Total(f, set) = Cardinality(Cells(f, set)) /\ Window!Total(f, set) \in Nat
<1> DEFINE cells == [i \in set |-> {i} \X (1..f[i])]  parts == {cells[i] : i \in set}
<1>0. UNION parts = Cells(f, set)
  BY DEF Cells
<1>2. \A part \in parts : IsFiniteSet(part)
  <2> SUFFICES ASSUME NEW i \in set PROVE IsFiniteSet({i} \X (1..f[i]))
    OBVIOUS
  <2>1. IsFiniteSet({i})
    BY FS_Singleton
  <2>2. IsFiniteSet(1..f[i])
    <3>1. f[i] \in Int /\ 1 \in Int
      OBVIOUS
    <3> QED
      BY <3>1, FS_Interval
  <2> QED
    BY <2>1, <2>2, FS_Product
<1>1. IsFiniteSet(parts)
  <2>1. cells \in Surjection(set, parts)
    BY DEF Surjection
  <2> HIDE DEF cells, parts
  <2> QED
    BY <2>1, FS_Surjection
<1> HIDE DEF parts
<1>3. IsFiniteSet(UNION parts)
  BY <1>1, <1>2, FS_UNION
<1> QED
  <2>1. IsFiniteSet(Cells(f, set))
    BY <1>0, <1>3
  <2>2. Cardinality(Cells(f, set)) \in Nat
    BY <2>1, FS_CardinalityType
  <2> QED
    BY <2>1, <2>2, TotalIs

\* More numbers make no less.
LEMMA TotalGrows ==
    ASSUME NEW f, NEW set, IsFiniteSet(set), \A i \in set : f[i] \in Nat, NEW part \in SUBSET set
    PROVE  Window!Total(f, part) <= Window!Total(f, set)
<1>1. IsFiniteSet(part)
  BY FS_Subset
<1>2. Cells(f, part) \subseteq Cells(f, set)
  BY DEF Cells
<1>3. Cardinality(Cells(f, part)) <= Cardinality(Cells(f, set))
  BY <1>2, TotalIsNat, FS_Subset
<1> QED
  BY <1>1, <1>3, TotalIsNat

\* The same numbers make the same.
LEMMA TotalSame ==
    ASSUME NEW f, NEW g, NEW set, \A i \in set : f[i] = g[i]
    PROVE  Window!Total(f, set) = Window!Total(g, set)
BY DEF Window!Total

\* Numbers that are 0 add nothing.
LEMMA TotalVoid ==
    ASSUME NEW f, NEW set, NEW part \in SUBSET set, \A i \in set \ part : f[i] = 0
    PROVE  Window!Total(f, set) = Window!Total(f, part)
<1>1. \A p : p \in Cells(f, set) <=> p \in Cells(f, part)
  BY CellsAre
<1>2. Cells(f, set) = Cells(f, part)
  BY <1>1
<1> QED
  BY <1>2 DEF Cells, Window!Total

\* One more of one number is one more.
LEMMA TotalMore ==
    ASSUME NEW f, NEW g, NEW set, IsFiniteSet(set), \A i \in set : f[i] \in Nat, NEW j \in set,
           g[j] = f[j] + 1, \A i \in set \ {j} : g[i] = f[i]
    PROVE  Window!Total(g, set) = Window!Total(f, set) + 1
<1> DEFINE p == <<j, f[j] + 1>>
<1>1. \A q : q \in Cells(g, set) <=> q \in Cells(f, set) \/ q = p
  <2>1. 1..g[j] = 1..f[j] \cup {f[j] + 1}
    OBVIOUS
  <2> QED
    BY <2>1, CellsAre
<1>2. Cells(g, set) = Cells(f, set) \cup {p}
  BY <1>1
<1>3. p \notin Cells(f, set)
  BY CellsAre
<1> HIDE DEF p
<1>4. IsFiniteSet(Cells(f, set)) /\ Window!Total(f, set) = Cardinality(Cells(f, set))
  BY TotalIsNat
<1>5. Cardinality(Cells(g, set)) = Cardinality(Cells(f, set)) + 1
  <2> DEFINE S == Cells(f, set)
  <2>1. IsFiniteSet(S) /\ p \notin S
    BY <1>3, <1>4
  <2> HIDE DEF S
  <2>2. Cardinality(S \cup {p}) = Cardinality(S) + 1
    BY <2>1, FS_AddElement
  <2> QED
    BY <1>2, <2>2 DEF S
<1> QED
  BY <1>4, <1>5, TotalIs

\* g has the numbers f of a set d places further on.
MovesUp(f, set, g, moved, d) ==
    /\ set \in SUBSET Int /\ IsFiniteSet(set) /\ d \in Int
    /\ \A i \in set : f[i] \in Nat /\ i + d \in moved /\ g[i + d] = f[i]
    /\ \A k \in moved : \E i \in set : k = i + d

\* Numbers that move up in a row make the same.
LEMMA TotalShifts ==
    ASSUME NEW f, NEW set, NEW g, NEW moved, NEW d, MovesUp(f, set, g, moved, d)
    PROVE  Window!Total(g, moved) = Window!Total(f, set)
<1> USE DEF MovesUp
<1> DEFINE S == Cells(f, set)  T == Cells(g, moved)
           up == [p \in S |-> <<p[1] + d, p[2]>>]
<1>0. /\ \A p : p \in S <=> \E i \in set : \E k \in 1..f[i] : p = <<i, k>>
      /\ \A p : p \in T <=> \E i \in moved : \E k \in 1..g[i] : p = <<i, k>>
  BY DEF Cells
<1> HIDE DEF S, T
<1>1. \A p \in S : \E i \in set : \E k \in 1..f[i] : p = <<i, k>>
  BY <1>0
<1>2. \A i \in set : \A k \in 1..f[i] : <<i, k>> \in S /\ <<i + d, k>> \in T
  BY <1>0
<1>3. \A q \in T : \E i \in set : \E k \in 1..f[i] : q = <<i + d, k>>
  BY <1>0
<1>4. \A i \in set : \A k \in 1..f[i] : up[<<i, k>>] = <<i + d, k>>
  BY <1>2
<1>5. up \in Bijection(S, T)
  <2>1. up \in [S -> T]
    <3>1. \A p \in S : <<p[1] + d, p[2]>> \in T
      BY <1>1, <1>2
    <3> QED
      BY <3>1
  <2>2. \A p, q \in S : up[p] = up[q] => p = q
    <3> SUFFICES ASSUME NEW p \in S, NEW q \in S, up[p] = up[q] PROVE p = q
      OBVIOUS
    <3>1. PICK i \in set : \E k \in 1..f[i] : p = <<i, k>>
      BY <1>1
    <3>5. PICK k \in 1..f[i] : p = <<i, k>>
      BY <3>1
    <3>2. PICK j \in set : \E l \in 1..f[j] : q = <<j, l>>
      BY <1>1
    <3>6. PICK l \in 1..f[j] : q = <<j, l>>
      BY <3>2
    <3>3. <<i + d, k>> = <<j + d, l>>
      BY <1>4, <3>5, <3>6
    <3>4. i + d = j + d /\ k = l /\ i \in Int /\ j \in Int
      BY <3>3
    <3> QED
      BY <3>5, <3>6, <3>4
  <2>3. \A q \in T : \E p \in S : up[p] = q
    BY <1>2, <1>3, <1>4
  <2> HIDE DEF up
  <2> QED
    BY <2>1, <2>2, <2>3, Fun_IsBij
<1>6. ExistsBijection(S, T)
  BY <1>5 DEF ExistsBijection
<1>7. Cardinality(T) = Cardinality(S)
  <2>1. IsFiniteSet(S)
    BY TotalIsNat DEF S
  <2> QED
    BY <1>6, <2>1, FS_Bijection
<1> QED
  BY <1>7, TotalIs DEF S, T

------------------------------------------------------------------------------
(***************************************************************************)
(* FixedWindowLimiter: what the frames count, and what starts within a     *)
(* time                                                                    *)
(***************************************************************************)

FrameSeqs == Seq([age : 0..Window!Oldest, count : Nat])
StartCounts == [0..(WindowLength - 1) -> Nat]

\* What the frames count from the j-th on, and what started in the last w ticks.
From(fs, j) == Window!Total(Window!Counts(fs), j .. Len(fs))
Within(st, w) == Window!Total(st, {age \in 0..(WindowLength - 1) : age < w})

\* How many the frames count at most: each caller but the first may find the limit not
\* yet reached.
Most == WindowLimit + Cardinality(WindowCallers) - 1

\* The constants are numbers.
LEMMA WindowNumbers ==
    /\ WindowLength \in Nat \ {0} /\ WindowLimit \in Nat \ {0} /\ IsFiniteSet(WindowCallers)
    /\ Cardinality(WindowCallers) \in Nat /\ Most \in Int
    /\ Window!Frame \in Nat /\ Window!Oldest \in Nat /\ Window!Free = Window!Frame + 1
    /\ WindowLength < Window!Oldest /\ Window!Frame < Window!Oldest
<1>1. /\ WindowLength \in Nat \ {0} /\ WindowLimit \in Nat \ {0} /\ LowestFrame \in Nat \ {0}
      /\ IsFiniteSet(WindowCallers)
  BY LimitersAssumption, WindowCounts DEF Window!WindowAssumption
<1>2. Cardinality(WindowCallers) \in Nat
  BY <1>1, FS_CardinalityType
<1>3. \A a \in Nat : \A b \in Nat \ {0} : a \div b \in Nat
  OBVIOUS
<1>4. Window!Frame \in Nat
  <2>1. WindowLength + WindowLimit - 1 \in Nat
    BY <1>1
  <2>2. (WindowLength + WindowLimit - 1) \div WindowLimit \in Nat
    BY <1>1, <1>3, <2>1
  <2> QED
    BY <1>1, <2>2 DEF Window!Frame
<1> QED
  BY <1>1, <1>2, <1>4 DEF Window!Oldest, Window!Free, Most

\* Starts are counted, and more within a longer time.
LEMMA WithinIsNat ==
    ASSUME NEW st \in StartCounts
    PROVE  /\ \A w \in Int : Within(st, w) \in Nat
           /\ \A v, w \in Int : v <= w => Within(st, v) <= Within(st, w)
           /\ \A w \in Int : w <= 0 => Within(st, w) = 0
           /\ \A w \in Int : w >= WindowLength => Within(st, w) = Within(st, WindowLength)
<1> DEFINE ages(w) == {age \in 0..(WindowLength - 1) : age < w}
<1>1. \A w \in Int : IsFiniteSet(ages(w)) /\ \A i \in ages(w) : st[i] \in Nat
  <2>1. IsFiniteSet(0..(WindowLength - 1))
    BY WindowNumbers, FS_Interval
  <2> QED
    BY <2>1, FS_Subset DEF StartCounts
<1>2. \A w : Within(st, w) = Window!Total(st, ages(w))
  BY DEF Within
<1>3. \A v, w \in Int : v <= w => ages(v) \in SUBSET ages(w)
  OBVIOUS
<1>4. \A w \in Int : w <= 0 => ages(w) = {}
  OBVIOUS
<1>5. \A w \in Int : w >= WindowLength => ages(w) = ages(WindowLength)
  BY WindowNumbers
<1> HIDE DEF ages
<1>6. Window!Total(st, {}) = 0
  <2>1. Cells(st, {}) = {}
    BY DEF Cells
  <2> QED
    BY <2>1, TotalIs, FS_EmptySet
<1>7. ASSUME NEW w \in Int PROVE Within(st, w) \in Nat
  BY <1>1, <1>2, TotalIsNat
<1>8. ASSUME NEW v \in Int, NEW w \in Int, v <= w PROVE Within(st, v) <= Within(st, w)
  <2>1. IsFiniteSet(ages(w)) /\ (\A i \in ages(w) : st[i] \in Nat) /\ ages(v) \in SUBSET ages(w)
    BY <1>1, <1>3, <1>8
  <2> QED
    BY <1>2, <2>1, TotalGrows
<1> QED
  BY <1>2, <1>4, <1>5, <1>6, <1>7, <1>8

\* What frames count.
LEMMA FromIsNat ==
    ASSUME NEW fs \in FrameSeqs
    PROVE  /\ DOMAIN fs = 1..Len(fs) /\ Len(fs) \in Nat
           /\ \A i \in 1..Len(fs) : /\ fs[i] \in [age : 0..Window!Oldest, count : Nat]
                                    /\ Window!Counts(fs)[i] = fs[i].count
           /\ \A j \in Nat : From(fs, j + 1) \in Nat
           /\ From(fs, Len(fs) + 1) = 0
           /\ Window!Counted(fs) = From(fs, 1)
<1>1. DOMAIN fs = 1..Len(fs) /\ Len(fs) \in Nat
  BY DEF FrameSeqs
<1>2. \A i \in 1..Len(fs) : fs[i] \in [age : 0..Window!Oldest, count : Nat]
  <2> DEFINE S == [age : 0..Window!Oldest, count : Nat]
  <2>1. fs \in Seq(S)
    BY DEF FrameSeqs
  <2> HIDE DEF S
  <2>2. \A i \in 1..Len(fs) : fs[i] \in S
    BY <2>1
  <2> QED
    BY <2>2 DEF S
<1>3. \A i \in 1..Len(fs) : Window!Counts(fs)[i] = fs[i].count
  BY <1>1 DEF Window!Counts
<1>4. ASSUME NEW j \in Nat PROVE From(fs, j + 1) \in Nat
  <2>1. IsFiniteSet((j + 1) .. Len(fs))
    BY <1>1, FS_Interval
  <2>2. \A i \in (j + 1) .. Len(fs) : i \in 1..Len(fs)
    BY <1>1
  <2>3. \A i \in (j + 1) .. Len(fs) : Window!Counts(fs)[i] \in Nat
    BY <1>2, <1>3, <2>2
  <2> QED
    BY <2>1, <2>3, TotalIsNat DEF From
<1>5. From(fs, Len(fs) + 1) = 0
  <2>1. (Len(fs) + 1) .. Len(fs) = {}
    BY <1>1
  <2>2. Cells(Window!Counts(fs), {}) = {}
    BY DEF Cells
  <2> QED
    BY <2>1, <2>2, TotalIs, FS_EmptySet DEF From
<1>6. Window!Counted(fs) = From(fs, 1)
  BY <1>1 DEF Window!Counted, From
<1> QED
  BY <1>1, <1>2, <1>3, <1>4, <1>5, <1>6

\* What all frames count is a number.
LEMMA FirstIsNat == ASSUME NEW fs \in FrameSeqs PROVE From(fs, 1) \in Nat
<1>1. 0 \in Nat /\ 0 + 1 = 1
  OBVIOUS
<1>2. From(fs, 0 + 1) \in Nat
  BY <1>1, FromIsNat
<1> QED
  BY <1>1, <1>2

\* Frames are appended, so the older come first.
IsInOrder(fs) == \A i, j \in 1..Len(fs) : i <= j => fs[j].age <= fs[i].age

\* What started after a frame began is counted in it or in a later one.
FramesCount(fs, st) == \A j \in 1..Len(fs) : Within(st, fs[j].age) <= From(fs, j)

\* A frame that is older than a frame may be counts one more task, the one that comes
\* before the next frame is begun: so many may have come since the last one grew old.
LateAreFew(fs, st, late) ==
    \A j \in 1..Len(fs) :
        fs[j].age >= Window!Frame =>
            Within(st, fs[j].age - Window!Frame)
            <= From(fs, j + 1) + (IF j < Len(fs) THEN 1 ELSE late)

\* What started in the window is counted, or was in the frame last dropped.
AllAreCounted(fs, st) == Within(st, WindowLength) <= Most + From(fs, 1)

\* What started in the window but for a frame is counted, but for one.
ShortAreCounted(fs, st) ==
    WindowLength > Window!Frame => Within(st, WindowLength - Window!Frame) <= From(fs, 1) + 1

FramesInv(fs, st, late) ==
    /\ fs \in FrameSeqs /\ st \in StartCounts
    /\ IsInOrder(fs) /\ FramesCount(fs, st) /\ LateAreFew(fs, st, late)
    /\ AllAreCounted(fs, st) /\ ShortAreCounted(fs, st)

\* A set of numbers up to a bound has a greatest.
LEMMA GreatestExists ==
    ASSUME NEW n \in Nat, NEW I \in SUBSET (1..n), I # {}
    PROVE  \E l \in I : \A i \in I : i <= l
<1> DEFINE J == {n - i : i \in I}
<1>2. \A i \in I : n - i \in J
  OBVIOUS
<1>1. J \in SUBSET Nat /\ J # {}
  <2>1. \A i \in I : n - i \in Nat
    OBVIOUS
  <2> QED
    BY <1>2, <2>1
<1>3. \A k \in J : \E i \in I : k = n - i
  OBVIOUS
<1> HIDE DEF J
<1>4. PICK k \in J : \A m \in J : ~(<<m, k>> \in OpToRel(<, Nat))
  BY <1>1, NatLessThanWellFounded, WFMin
<1>5. \A m \in J : ~(m < k)
  BY <1>1, <1>4 DEF OpToRel
<1>6. PICK l \in I : k = n - l
  BY <1>3
<1>7. \A i \in I : i <= l
  BY <1>2, <1>5, <1>6
<1> QED
  BY <1>7

\* #recap() splices off the frames that are too old, all of which are in front.
LEMMA KeptIs ==
    ASSUME NEW fs \in FrameSeqs, IsInOrder(fs)
    PROVE  \E d \in 0..Len(fs) :
               /\ Window!Kept(fs) \in FrameSeqs /\ Len(Window!Kept(fs)) = Len(fs) - d
               /\ \A i \in 1..(Len(fs) - d) : Window!Kept(fs)[i] = fs[i + d]
               /\ \A i \in 1..d : fs[i].age > WindowLength
<1> DEFINE old == {i \in DOMAIN fs : fs[i].age > WindowLength}  kept == Window!Kept(fs)
<1>1. DOMAIN fs = 1..Len(fs) /\ Len(fs) \in Nat
  BY FromIsNat
<1>2. \A i \in 1..Len(fs) : fs[i].age \in Nat
  BY FromIsNat, WindowNumbers
<1>3. kept = IF 1 \in old THEN SubSeq(fs, Window!Cardinality(old) + 1, Len(fs)) ELSE fs
  BY DEF Window!Kept
<1>4. old = {i \in 1..Len(fs) : fs[i].age > WindowLength}
  BY <1>1
<1> HIDE DEF old, kept
<1>5. CASE 1 \notin old
  <2>1. kept = fs /\ 0 \in 0..Len(fs)
    BY <1>1, <1>3, <1>5
  <2>2. /\ kept \in FrameSeqs /\ Len(kept) = Len(fs) - 0
        /\ \A i \in 1..(Len(fs) - 0) : kept[i] = fs[i + 0]
        /\ \A i \in 1..0 : fs[i].age > WindowLength
    BY <1>1, <2>1
  <2> QED
    BY <2>1, <2>2 DEF kept
<1>6. CASE 1 \in old
  <2>1. old \in SUBSET (1..Len(fs)) /\ old # {}
    BY <1>4, <1>6
  <2>2. PICK l \in old : \A i \in old : i <= l
    BY <1>1, <2>1, GreatestExists
  <2>3. l \in 1..Len(fs) /\ fs[l].age > WindowLength
    BY <1>4
  <2>4. \A i \in 1..l : i \in 1..Len(fs) /\ fs[i].age > WindowLength
    <3> SUFFICES ASSUME NEW i \in 1..l PROVE i \in 1..Len(fs) /\ fs[i].age > WindowLength
      OBVIOUS
    <3>1. i \in 1..Len(fs) /\ i <= l
      BY <1>1, <2>3
    <3>2. fs[l].age <= fs[i].age
      BY <2>3, <3>1 DEF IsInOrder
    <3>3. fs[l].age \in Nat /\ fs[i].age \in Nat /\ WindowLength \in Nat
      BY <1>2, <2>3, <3>1, WindowNumbers
    <3> QED
      BY <2>3, <3>1, <3>2, <3>3
  <2>5. old = 1..l
    <3>1. \A i \in old : i \in 1..l
      BY <1>1, <2>1, <2>2
    <3>2. \A i \in 1..l : i \in old
      BY <1>4, <2>4
    <3> QED
      BY <3>1, <3>2
  <2>6. Window!Cardinality(old) = l
    <3>1. Cardinality(1..l) = l
      BY <1>1, <2>3, FS_Interval
    <3> QED
      BY <2>5, <3>1, WindowCounts
  <2>7. kept = SubSeq(fs, l + 1, Len(fs))
    BY <1>3, <1>6, <2>6
  <2>8. /\ kept \in FrameSeqs /\ Len(kept) = Len(fs) - l
        /\ \A i \in 1..(Len(fs) - l) : kept[i] = fs[i + l]
    <3> DEFINE S == [age : 0..Window!Oldest, count : Nat]
    <3>1. fs \in Seq(S)
      BY DEF FrameSeqs
    <3>2. \A i \in (l + 1)..Len(fs) : i \in 1..Len(fs) /\ fs[i] \in S
      BY <1>1, <2>3, FromIsNat
    <3> HIDE DEF S
    <3>3. /\ kept \in Seq(S) /\ Len(kept) = Len(fs) - l
          /\ \A i \in 1..(Len(fs) - l) : kept[i] = fs[i + l]
      <4> DEFINE m == l + 1  n == Len(fs)
      <4>1. m \in Int /\ n \in Int /\ \A i \in m..n : fs[i] \in S
        BY <1>1, <2>3, <3>2
      <4> HIDE DEF m, n
      <4>2. /\ SubSeq(fs, m, n) \in Seq(S)
            /\ Len(SubSeq(fs, m, n)) = IF m <= n THEN n - m + 1 ELSE 0
            /\ \A i \in 1..(n - m + 1) : SubSeq(fs, m, n)[i] = fs[m + i - 1]
        BY <4>1, SubSeqProperties
      <4>3. kept = SubSeq(fs, m, n) /\ m = l + 1 /\ n = Len(fs) /\ l \in 1..n /\ n \in Nat
        BY <1>1, <2>3, <2>7 DEF m, n
      <4>4. n - m + 1 = n - l /\ (IF m <= n THEN n - m + 1 ELSE 0) = n - l
        BY <4>3
      <4>5. \A i \in 1..(n - l) : m + i - 1 = i + l
        BY <4>3
      <4> QED
        BY <4>2, <4>3, <4>4, <4>5
    <3> QED
      BY <3>3 DEF S, FrameSeqs
  <2>9. l \in 0..Len(fs)
    BY <1>1, <2>3
  <2> QED
    BY <2>4, <2>8, <2>9 DEF kept
<1> QED
  BY <1>5, <1>6

\* Frames further on are the same, counted from there.
LEMMA FromShifts ==
    ASSUME NEW fs \in FrameSeqs, NEW gs \in FrameSeqs, NEW d \in 0..Len(fs), Len(gs) = Len(fs) - d,
           \A i \in 1..(Len(fs) - d) : gs[i] = fs[i + d], NEW j \in Nat
    PROVE  From(gs, j + 1) = From(fs, j + 1 + d)
<1>1. /\ Len(fs) \in Nat /\ Len(gs) \in Nat
      /\ \A i \in 1..Len(fs) : Window!Counts(fs)[i] = fs[i].count
      /\ \A i \in 1..Len(gs) : Window!Counts(gs)[i] = gs[i].count /\ gs[i].count \in Nat
  BY FromIsNat
<1> DEFINE set == (j + 1)..Len(gs)  f == Window!Counts(gs)  g == Window!Counts(fs)
           moved == (j + 1 + d)..Len(fs)
<1>2. set \in SUBSET Int /\ IsFiniteSet(set) /\ d \in Int
  <2>1. j + 1 \in Int /\ Len(gs) \in Int
    BY <1>1
  <2>2. IsFiniteSet(set)
    BY <2>1, FS_Interval
  <2> QED
    BY <2>2
<1>3. \A i \in set : i \in 1..Len(gs) /\ i + d \in 1..Len(fs)
  BY <1>1
<1>4. \A i \in set : f[i] \in Nat /\ g[i + d] = f[i]
  BY <1>1, <1>3
<1>5. (\A i \in set : i + d \in moved) /\ \A k \in moved : \E i \in set : k = i + d
  <2>1. \A k \in (j + 1 + d)..Len(fs) : k - d \in set /\ k = (k - d) + d
    BY <1>1
  <2>2. \A i \in set : i + d \in (j + 1 + d)..Len(fs)
    BY <1>1
  <2> HIDE DEF set
  <2> QED
    BY <2>1, <2>2
<1> HIDE DEF set, f, g, moved
<1>6. MovesUp(f, set, g, moved, d)
  BY <1>2, <1>4, <1>5 DEF MovesUp
<1>7. Window!Total(g, moved) = Window!Total(f, set)
  BY <1>6, TotalShifts
<1> QED
  BY <1>7 DEF From, set, f, g, moved


\* The invariant goes on to the frames that are kept.  Of what was in the last one dropped
\* only the task that came before the next frame started within the shorter window.
LEMMA KeptGoOn ==
    ASSUME NEW fs, NEW st, NEW late \in {0, 1}, FramesInv(fs, st, late), From(fs, 1) <= Most
    PROVE  FramesInv(Window!Kept(fs), st, late) /\ From(Window!Kept(fs), 1) <= From(fs, 1)
<1> DEFINE gs == Window!Kept(fs)  F == Window!Frame  W == WindowLength
<1>0. fs \in FrameSeqs /\ st \in StartCounts /\ IsInOrder(fs)
  BY DEF FramesInv
<1>1. PICK d \in 0..Len(fs) :
          /\ gs \in FrameSeqs /\ Len(gs) = Len(fs) - d
          /\ \A i \in 1..(Len(fs) - d) : gs[i] = fs[i + d]
          /\ \A i \in 1..d : fs[i].age > WindowLength
  BY <1>0, KeptIs
<1> HIDE DEF gs
<1>2. Len(fs) \in Nat /\ Len(gs) \in Nat /\ d \in Nat
  BY <1>0, <1>1, FromIsNat
<1>3. \A j \in Nat : From(fs, j + 1) \in Nat
  BY <1>0, FromIsNat
<1>4. \A j \in Nat : From(gs, j + 1) = From(fs, j + 1 + d)
  BY <1>0, <1>1, FromShifts
<1>5. W \in Nat /\ F \in Nat /\ Most \in Int /\ \A i \in 1..Len(fs) : fs[i].age \in Nat
  BY <1>0, WindowNumbers, FromIsNat
<1>6. /\ \A w \in Int : Within(st, w) \in Nat
      /\ \A v, w \in Int : v <= w => Within(st, v) <= Within(st, w)
  BY <1>0, WithinIsNat
<1>7. From(gs, 1) = From(fs, 1 + d) /\ From(fs, 1 + d) \in Nat /\ From(fs, 1) \in Nat
  <2>1. From(gs, 0 + 1) = From(fs, 0 + 1 + d) /\ From(fs, d + 1) \in Nat /\ From(fs, 0 + 1) \in Nat
    BY <1>2, <1>3, <1>4
  <2>2. 0 + 1 = 1 /\ 0 + 1 + d = 1 + d /\ d + 1 = 1 + d
    BY <1>2
  <2> QED
    BY <2>1, <2>2
<1>8. From(gs, 1) <= From(fs, 1)
  <2>1. \A i \in 1..Len(fs) : Window!Counts(fs)[i] \in Nat
    BY <1>0, FromIsNat
  <2>2. IsFiniteSet(1..Len(fs)) /\ (1 + d)..Len(fs) \in SUBSET (1..Len(fs))
    BY <1>2, FS_Interval
  <2> DEFINE all == 1..Len(fs)  rest == (1 + d)..Len(fs)
  <2> HIDE DEF all, rest
  <2>3. IsFiniteSet(all) /\ rest \in SUBSET all /\ \A i \in all : Window!Counts(fs)[i] \in Nat
    BY <2>1, <2>2 DEF all, rest
  <2>4. Window!Total(Window!Counts(fs), rest) <= Window!Total(Window!Counts(fs), all)
    BY <2>3, TotalGrows
  <2> QED
    BY <1>7, <2>4 DEF From, all, rest
<1>9. IsInOrder(gs)
  <2> SUFFICES ASSUME NEW i \in 1..Len(gs), NEW j \in 1..Len(gs), i <= j
               PROVE  gs[j].age <= gs[i].age
    BY DEF IsInOrder
  <2>1. /\ gs[i] = fs[i + d] /\ gs[j] = fs[j + d] /\ i + d <= j + d
        /\ i + d \in 1..Len(fs) /\ j + d \in 1..Len(fs)
    BY <1>1, <1>2
  <2> QED
    BY <1>0, <2>1 DEF IsInOrder
<1>10. FramesCount(gs, st)
  <2> SUFFICES ASSUME NEW j \in 1..Len(gs) PROVE Within(st, gs[j].age) <= From(gs, j)
    BY DEF FramesCount
  <2>1. gs[j] = fs[j + d] /\ j + d \in 1..Len(fs) /\ j - 1 \in Nat
    BY <1>1, <1>2
  <2>2. From(gs, (j - 1) + 1) = From(fs, (j - 1) + 1 + d)
    BY <1>4, <2>1
  <2>3. (j - 1) + 1 = j /\ (j - 1) + 1 + d = j + d
    BY <1>2
  <2>4. Within(st, fs[j + d].age) <= From(fs, j + d)
    BY <2>1 DEF FramesInv, FramesCount
  <2> QED
    BY <2>1, <2>2, <2>3, <2>4
<1>11. LateAreFew(gs, st, late)
  <2> SUFFICES ASSUME NEW j \in 1..Len(gs), gs[j].age >= F
               PROVE  Within(st, gs[j].age - F) <= From(gs, j + 1) + (IF j < Len(gs) THEN 1 ELSE late)
    BY DEF LateAreFew
  <2>1. /\ gs[j] = fs[j + d] /\ j + d \in 1..Len(fs) /\ j \in Nat
        /\ (j < Len(gs) <=> j + d < Len(fs))
    BY <1>1, <1>2
  <2>2. From(gs, j + 1) = From(fs, j + 1 + d) /\ j + 1 + d = (j + d) + 1
    BY <1>2, <1>4
  <2>3. Within(st, fs[j + d].age - F) <= From(fs, (j + d) + 1) + (IF j + d < Len(fs) THEN 1 ELSE late)
    BY <2>1 DEF FramesInv, LateAreFew
  <2> QED
    BY <1>1, <1>2, <2>1, <2>2, <2>3
<1>12. CASE d = 0
  <2>1. From(gs, 1) = From(fs, 1)
    BY <1>7, <1>12
  <2>2. AllAreCounted(gs, st) /\ ShortAreCounted(gs, st)
    BY <2>1 DEF FramesInv, AllAreCounted, ShortAreCounted
  <2> QED
    BY <1>0, <1>1, <1>8, <1>9, <1>10, <1>11, <2>2 DEF FramesInv, gs
<1>13. CASE d # 0
  <2>1. d \in 1..Len(fs) /\ 1 \in 1..Len(fs) /\ 1 \in 1..d
    BY <1>1, <1>2, <1>13
  <2>2. fs[1].age > W /\ fs[d].age > W /\ fs[1].age \in Nat /\ fs[d].age \in Nat
    BY <1>1, <1>5, <2>1
  <2>3. AllAreCounted(gs, st)
    <3>1. Within(st, W) <= Within(st, fs[1].age) /\ Within(st, W) \in Nat /\ Within(st, fs[1].age) \in Nat
      <4>1. W \in Int /\ fs[1].age \in Int /\ W <= fs[1].age
        BY <1>5, <2>2
      <4> QED
        BY <1>6, <4>1
    <3>2. Within(st, fs[1].age) <= From(fs, 1)
      BY <2>1 DEF FramesInv, FramesCount
    <3> QED
      BY <1>5, <1>7, <3>1, <3>2 DEF AllAreCounted
  <2>4. ShortAreCounted(gs, st)
    <3> SUFFICES ASSUME W > F PROVE Within(st, W - F) <= From(gs, 1) + 1
      BY DEF ShortAreCounted
    <3>1. W - F <= fs[d].age - F /\ fs[d].age >= F /\ W - F \in Int /\ fs[d].age - F \in Int
      BY <1>5, <2>2
    <3>2. Within(st, W - F) <= Within(st, fs[d].age - F)
      BY <1>6, <3>1
    <3>3. Within(st, fs[d].age - F) <= From(fs, d + 1) + (IF d < Len(fs) THEN 1 ELSE late)
      BY <2>1, <3>1 DEF FramesInv, LateAreFew
    <3>4. Within(st, W - F) \in Nat /\ Within(st, fs[d].age - F) \in Nat
      BY <1>6, <3>1
    <3>5. From(fs, d + 1) = From(gs, 1)
      <4>1. d + 1 = 1 + d
        BY <1>2
      <4> QED
        BY <1>7, <4>1
    <3>6. From(gs, 1) \in Nat
      BY <1>7
    <3> QED
      BY <3>2, <3>3, <3>4, <3>5, <3>6
  <2> QED
    BY <1>0, <1>1, <1>8, <1>9, <1>10, <1>11, <2>3, <2>4 DEF FramesInv, gs
<1> QED
  BY <1>12, <1>13


\* A frame that is begun counts nothing yet.
LEMMA FromBegun ==
    ASSUME NEW fs \in FrameSeqs, NEW gs, gs = Append(fs, [age |-> 0, count |-> 0])
    PROVE  /\ gs \in FrameSeqs /\ Len(gs) = Len(fs) + 1 /\ gs[Len(gs)].age = 0
           /\ \A i \in 1..Len(fs) : gs[i] = fs[i]
           /\ \A j \in 1..(Len(fs) + 1) : From(gs, j) = From(fs, j)
<1> DEFINE new == [age |-> 0, count |-> 0]
<1>1. new \in [age : 0..Window!Oldest, count : Nat] /\ new.age = 0 /\ new.count = 0
  BY WindowNumbers
<1> HIDE DEF new
<1>2. /\ gs \in FrameSeqs /\ Len(gs) = Len(fs) + 1 /\ gs[Len(fs) + 1] = new /\ Len(fs) \in Nat
      /\ \A i \in 1..Len(fs) : gs[i] = fs[i]
  <2> DEFINE S == [age : 0..Window!Oldest, count : Nat]
  <2>1. fs \in Seq(S) /\ new \in S /\ gs = Append(fs, new)
    BY <1>1 DEF FrameSeqs, new
  <2> HIDE DEF S
  <2>2. /\ gs \in Seq(S) /\ Len(gs) = Len(fs) + 1 /\ gs[Len(fs) + 1] = new /\ Len(fs) \in Nat
        /\ \A i \in 1..Len(fs) : gs[i] = fs[i]
    BY <2>1
  <2> QED
    BY <2>2 DEF S, FrameSeqs
<1>3. /\ \A i \in 1..Len(fs) : Window!Counts(gs)[i] = Window!Counts(fs)[i]
      /\ Window!Counts(gs)[Len(fs) + 1] = 0
  <2>1. \A i \in 1..Len(gs) : Window!Counts(gs)[i] = gs[i].count
    BY <1>2, FromIsNat
  <2>2. \A i \in 1..Len(fs) : Window!Counts(fs)[i] = fs[i].count
    BY FromIsNat
  <2> QED
    BY <1>1, <1>2, <2>1, <2>2
<1>4. ASSUME NEW j \in 1..(Len(fs) + 1) PROVE From(gs, j) = From(fs, j)
  <2> DEFINE all == j..Len(gs)  part == j..Len(fs)  f == Window!Counts(fs)  g == Window!Counts(gs)
  <2>1. part \in SUBSET all
    BY <1>2
  <2>2. \A i \in all \ part : g[i] = 0
    BY <1>2, <1>3
  <2>3. \A i \in part : g[i] = f[i]
    BY <1>2, <1>3
  <2> HIDE DEF all, part, f, g
  <2>4. Window!Total(g, all) = Window!Total(g, part)
    BY <2>1, <2>2, TotalVoid
  <2>5. Window!Total(g, part) = Window!Total(f, part)
    BY <2>3, TotalSame
  <2> QED
    BY <2>4, <2>5 DEF From, all, part, f, g
<1> QED
  BY <1>1, <1>2, <1>4

\* The invariant goes on when #recap() has dropped frames and begun one.
LEMMA RecapGoesOn ==
    ASSUME NEW fs, NEW st, NEW late \in {0, 1}, FramesInv(fs, st, late), From(fs, 1) <= Most
    PROVE  /\ FramesInv(Window!Recap(fs), st, 0) /\ From(Window!Recap(fs), 1) <= From(fs, 1)
           /\ Len(Window!Recap(fs)) > 0
<1> DEFINE ks == Window!Kept(fs)  gs == Window!Recap(fs)  F == Window!Frame
           hs == Append(ks, [age |-> 0, count |-> 0])
<1>1. FramesInv(ks, st, late) /\ From(ks, 1) <= From(fs, 1)
  BY KeptGoOn
<1>2. \/ gs = hs
      \/ gs = ks /\ ks # <<>> /\ ~(ks[Len(ks)].age > F)
  BY DEF Window!Recap, Window!Last
<1> HIDE DEF ks, gs
<1>3. ks \in FrameSeqs /\ st \in StartCounts
  BY <1>1 DEF FramesInv
<1>4. /\ Len(ks) \in Nat /\ F \in Nat /\ \A i \in 1..Len(ks) : ks[i].age \in Nat
      /\ \A j \in Nat : From(ks, j + 1) \in Nat
  <2>1. F \in Nat /\ Window!Oldest \in Nat
    BY WindowNumbers
  <2>2. /\ Len(ks) \in Nat /\ \A j \in Nat : From(ks, j + 1) \in Nat
        /\ \A i \in 1..Len(ks) : ks[i] \in [age : 0..Window!Oldest, count : Nat]
    BY <1>3, FromIsNat
  <2>3. \A i \in 1..Len(ks) : ks[i].age \in Nat
    BY <2>1, <2>2
  <2> QED
    BY <2>1, <2>2, <2>3
<1>5. \A w \in Int : w <= 0 => Within(st, w) = 0
  BY <1>3, WithinIsNat
<1>6. CASE gs = ks /\ ks # <<>> /\ ~(ks[Len(ks)].age > F)
  <2>1. LateAreFew(ks, st, 0)
    <3> SUFFICES ASSUME NEW j \in 1..Len(ks), ks[j].age >= F
                 PROVE  Within(st, ks[j].age - F) <= From(ks, j + 1) + (IF j < Len(ks) THEN 1 ELSE 0)
      BY DEF LateAreFew
    <3>1. CASE j < Len(ks)
      BY <1>1, <3>1 DEF FramesInv, LateAreFew
    <3>2. CASE ~(j < Len(ks))
      <4>1. j = Len(ks) /\ j \in Nat
        BY <1>4, <3>2
      <4>2. ks[j].age - F <= 0 /\ ks[j].age - F \in Int
        BY <1>4, <1>6, <4>1
      <4> QED
        BY <1>4, <1>5, <3>2, <4>1, <4>2
    <3> QED
      BY <3>1, <3>2
  <2>2. Len(ks) > 0
    BY <1>3, <1>4, <1>6 DEF FrameSeqs
  <2> QED
    BY <1>1, <1>6, <2>1, <2>2 DEF FramesInv, gs
<1>7. CASE gs = hs
  <2>1. /\ gs \in FrameSeqs /\ Len(gs) = Len(ks) + 1 /\ gs[Len(gs)].age = 0
        /\ \A i \in 1..Len(ks) : gs[i] = ks[i]
        /\ \A j \in 1..(Len(ks) + 1) : From(gs, j) = From(ks, j)
    BY <1>3, <1>7, FromBegun
  <2> HIDE DEF hs
  <2>2. From(gs, 1) = From(ks, 1)
    BY <1>4, <2>1
  <2>3. \A j \in Nat : From(gs, j + 1) \in Nat
    BY <2>1, FromIsNat
  <2>4. IsInOrder(gs)
    <3> SUFFICES ASSUME NEW i \in 1..Len(gs), NEW j \in 1..Len(gs), i <= j
                 PROVE  gs[j].age <= gs[i].age
      BY DEF IsInOrder
    <3>1. CASE j = Len(gs)
      <4>1. gs[i].age \in Nat
        BY <2>1, FromIsNat, WindowNumbers
      <4> QED
        BY <2>1, <3>1, <4>1
    <3>2. CASE j # Len(gs)
      <4>1. i \in 1..Len(ks) /\ j \in 1..Len(ks)
        BY <1>4, <2>1, <3>2
      <4> QED
        BY <1>1, <2>1, <4>1 DEF FramesInv, IsInOrder
    <3> QED
      BY <3>1, <3>2
  <2>5. FramesCount(gs, st)
    <3> SUFFICES ASSUME NEW j \in 1..Len(gs) PROVE Within(st, gs[j].age) <= From(gs, j)
      BY DEF FramesCount
    <3>1. CASE j \in 1..Len(ks)
      BY <1>1, <1>4, <2>1, <3>1 DEF FramesInv, FramesCount
    <3>2. CASE j \notin 1..Len(ks)
      <4>1. j = Len(gs) /\ j - 1 \in Nat /\ (j - 1) + 1 = j
        BY <1>4, <2>1, <3>2
      <4>2. From(gs, j) \in Nat
        BY <2>3, <4>1
      <4> QED
        BY <1>5, <2>1, <4>1, <4>2
    <3> QED
      BY <3>1, <3>2
  <2>6. LateAreFew(gs, st, 0)
    <3> SUFFICES ASSUME NEW j \in 1..Len(gs), gs[j].age >= F
                 PROVE  Within(st, gs[j].age - F) <= From(gs, j + 1) + (IF j < Len(gs) THEN 1 ELSE 0)
      BY DEF LateAreFew
    <3>1. CASE j \in 1..Len(ks)
      <4>1. gs[j] = ks[j] /\ j < Len(gs) /\ j + 1 \in 1..(Len(ks) + 1) /\ j \in Nat
        BY <1>4, <2>1, <3>1
      <4>2. From(gs, j + 1) = From(ks, j + 1) /\ From(ks, j + 1) \in Nat
        BY <1>4, <2>1, <4>1
      <4>3. Within(st, ks[j].age - F) <= From(ks, j + 1) + (IF j < Len(ks) THEN 1 ELSE late)
        BY <1>1, <3>1, <4>1 DEF FramesInv, LateAreFew
      <4>4. ks[j].age - F \in Int
        BY <1>4, <3>1
      <4>5. Within(st, ks[j].age - F) \in Nat
        BY <1>3, <4>4, WithinIsNat
      <4> QED
        BY <4>1, <4>2, <4>3, <4>5
    <3>2. CASE j \notin 1..Len(ks)
      <4>1. j = Len(gs) /\ j \in Nat
        BY <1>4, <2>1, <3>2
      <4>2. From(gs, j + 1) \in Nat
        BY <1>4, <2>1, <2>3, <4>1
      <4>3. gs[j].age - F <= 0 /\ gs[j].age - F \in Int
        BY <1>4, <2>1, <2>3, <4>1
      <4> QED
        BY <1>5, <4>1, <4>2, <4>3
    <3> QED
      BY <3>1, <3>2
  <2>7. AllAreCounted(gs, st) /\ ShortAreCounted(gs, st)
    BY <1>1, <2>2 DEF FramesInv, AllAreCounted, ShortAreCounted
  <2>8. Len(gs) > 0
    BY <1>4, <2>1
  <2>9. FramesInv(gs, st, 0) /\ From(gs, 1) <= From(fs, 1)
    BY <1>1, <1>3, <2>1, <2>2, <2>4, <2>5, <2>6, <2>7 DEF FramesInv
  <2> QED
    BY <2>8, <2>9 DEF gs
<1> QED
  BY <1>2, <1>6, <1>7


\* A task that starts is one more in every time up to now.
LEMMA WithinMore ==
    ASSUME NEW st \in StartCounts, NEW su \in StartCounts,
           su[0] = st[0] + 1, \A i \in 1..(WindowLength - 1) : su[i] = st[i], NEW w \in Int
    PROVE  Within(su, w) <= Within(st, w) + 1
<1> DEFINE set == {age \in 0..(WindowLength - 1) : age < w}
<1>1. Within(su, w) \in Nat /\ Within(st, w) \in Nat /\ (w <= 0 => Within(su, w) = 0)
  BY WithinIsNat
<1>2. CASE w > 0
  <2>1. WindowLength \in Nat \ {0}
    BY WindowNumbers
  <2>2. IsFiniteSet(set)
    <3>1. 0 \in Int /\ WindowLength - 1 \in Int
      BY <2>1
    <3>2. IsFiniteSet(0..(WindowLength - 1))
      BY <3>1, FS_Interval
    <3>3. set \in SUBSET (0..(WindowLength - 1))
      OBVIOUS
    <3> QED
      BY <3>2, <3>3, FS_Subset
  <2>3. 0 \in set
    BY <1>2, <2>1
  <2>4. \A i \in set : st[i] \in Nat
    BY <2>1 DEF StartCounts
  <2>5. \A i \in set \ {0} : i \in 1..(WindowLength - 1)
    BY <2>1
  <2>6. \A i \in set \ {0} : su[i] = st[i]
    BY <2>5
  <2> HIDE DEF set
  <2>7. Window!Total(su, set) = Window!Total(st, set) + 1
    BY <2>2, <2>3, <2>4, <2>6, TotalMore
  <2>8. Within(su, w) = Within(st, w) + 1
    BY <2>7 DEF Within, set
  <2> QED
    BY <1>1, <2>8
<1> QED
  BY <1>1, <1>2

\* A task that starts is one more, in the last frame and in every time up to now.
LEMMA IncreaseGoesOn ==
    ASSUME NEW fs, NEW st, FramesInv(fs, st, 0), Len(fs) > 0,
           NEW gs, gs = [fs EXCEPT ![Len(fs)].count = @ + 1],
           NEW su, su = [st EXCEPT ![0] = @ + 1]
    PROVE  FramesInv(gs, su, 1) /\ From(gs, 1) = From(fs, 1) + 1
<1> DEFINE m == Len(fs)  F == Window!Frame  more == [fs[m] EXCEPT !.count = @ + 1]
<1>0. fs \in FrameSeqs /\ st \in StartCounts
  BY DEF FramesInv
<1>1. /\ DOMAIN fs = 1..m /\ m \in Nat /\ m \in 1..m
      /\ \A i \in 1..m : fs[i] \in [age : 0..Window!Oldest, count : Nat]
      /\ \A i \in 1..m : Window!Counts(fs)[i] = fs[i].count
      /\ \A j \in Nat : From(fs, j + 1) \in Nat
      /\ From(fs, m + 1) = 0
  BY <1>0, FromIsNat
<1>2. F \in Nat /\ WindowLength \in Nat \ {0} /\ Window!Oldest \in Nat /\ Most \in Int
  BY WindowNumbers
<1>3. /\ more \in [age : 0..Window!Oldest, count : Nat] /\ more.age = fs[m].age
      /\ more.count = fs[m].count + 1
  BY <1>1
<1>4. gs = [fs EXCEPT ![m] = more]
  OBVIOUS
<1> HIDE DEF more
<1>5. /\ gs \in FrameSeqs /\ Len(gs) = m
      /\ \A i \in 1..m : i # m => gs[i] = fs[i]
      /\ gs[m] = more
  <2> DEFINE S == [age : 0..Window!Oldest, count : Nat]
  <2>1. fs \in Seq(S) /\ more \in S
    BY <1>0, <1>3 DEF FrameSeqs
  <2> HIDE DEF S
  <2>2. gs \in Seq(S) /\ Len(gs) = m
    BY <1>1, <1>4, <2>1
  <2>3. (\A i \in 1..m : i # m => gs[i] = fs[i]) /\ gs[m] = more
    BY <1>1, <1>4, <2>1
  <2> QED
    BY <2>2, <2>3 DEF S, FrameSeqs
<1>6. \A i \in 1..m : gs[i].age = fs[i].age /\ fs[i].age \in Nat
  BY <1>1, <1>2, <1>3, <1>5
<1>7. /\ \A i \in 1..m : i # m => Window!Counts(gs)[i] = Window!Counts(fs)[i]
      /\ Window!Counts(gs)[m] = Window!Counts(fs)[m] + 1
  <2>1. \A i \in 1..m : Window!Counts(gs)[i] = gs[i].count
    BY <1>5, FromIsNat
  <2> QED
    BY <1>1, <1>3, <1>5, <2>1
<1>8. ASSUME NEW j \in 1..m PROVE From(gs, j) = From(fs, j) + 1
  <2> DEFINE set == j..m  f == Window!Counts(fs)  g == Window!Counts(gs)
  <2>1. IsFiniteSet(set)
    BY <1>1, FS_Interval
  <2>2. \A i \in set : f[i] \in Nat
    <3>1. \A i \in 1..m : fs[i].count \in Nat
      <4> DEFINE S == [age : 0..Window!Oldest, count : Nat]
      <4>1. \A frame \in S : frame.count \in Nat
        OBVIOUS
      <4> HIDE DEF S
      <4> QED
        BY <1>1, <4>1 DEF S
    <3>2. \A i \in set : i \in 1..m
      BY <1>1
    <3> QED
      BY <1>1, <3>1, <3>2
  <2>3. m \in set /\ g[m] = f[m] + 1
    BY <1>1, <1>7
  <2>4. \A i \in set \ {m} : g[i] = f[i]
    <3>1. \A i \in set \ {m} : i \in 1..m /\ i # m
      BY <1>1
    <3> HIDE DEF m, set
    <3> QED
      BY <1>7, <3>1
  <2> HIDE DEF set, f, g, m
  <2>5. Window!Total(g, set) = Window!Total(f, set) + 1
    BY <2>1, <2>2, <2>3, <2>4, TotalMore
  <2> QED
    BY <1>5, <2>5 DEF From, set, f, g, m
<1>9. From(gs, m + 1) = 0
  BY <1>5, FromIsNat
<1>10. su \in StartCounts
  <2>1. st \in [0..(WindowLength - 1) -> Nat] /\ 0 \in 0..(WindowLength - 1) /\ st[0] + 1 \in Nat
    BY <1>0, <1>2 DEF StartCounts
  <2> QED
    BY <2>1 DEF StartCounts
<1>11. ASSUME NEW w \in Int PROVE Within(su, w) <= Within(st, w) + 1
  <2>1. DOMAIN st = 0..(WindowLength - 1) /\ 0 \in 0..(WindowLength - 1) /\ st[0] \in Nat
    BY <1>0, <1>2 DEF StartCounts
  <2>2. su[0] = st[0] + 1 /\ \A i \in 1..(WindowLength - 1) : su[i] = st[i]
    BY <1>2, <2>1
  <2> QED
    BY <1>0, <1>10, <2>2, WithinMore
<1>12. \A w \in Int : Within(st, w) \in Nat /\ Within(su, w) \in Nat
  <2>1. \A w \in Int : Within(st, w) \in Nat
    BY <1>0, WithinIsNat
  <2>2. \A w \in Int : Within(su, w) \in Nat
    BY <1>10, WithinIsNat
  <2> QED
    BY <2>1, <2>2
<1>13. From(gs, 1) = From(fs, 1) + 1 /\ From(fs, 1) \in Nat
  <2>1. 1 \in 1..m
    BY <1>1
  <2>2. From(fs, 0 + 1) \in Nat
    <3>1. \A j \in Nat : From(fs, j + 1) \in Nat
      BY <1>1
    <3> QED
      BY <3>1
  <2>3. 0 + 1 = 1
    OBVIOUS
  <2> QED
    BY <1>8, <2>1, <2>2, <2>3
<1> HIDE DEF m
<1>14. IsInOrder(gs)
  BY <1>5, <1>6 DEF FramesInv, IsInOrder, m
<1>15. FramesCount(gs, su)
  <2> SUFFICES ASSUME NEW j \in 1..m PROVE Within(su, gs[j].age) <= From(gs, j)
    BY <1>5 DEF FramesCount
  <2>1. gs[j].age = fs[j].age /\ fs[j].age \in Int
    BY <1>6
  <2>2. Within(su, fs[j].age) <= Within(st, fs[j].age) + 1
    BY <1>11, <2>1
  <2>3. Within(st, fs[j].age) <= From(fs, j)
    BY DEF FramesInv, FramesCount, m
  <2>4. From(gs, j) = From(fs, j) + 1 /\ From(fs, j) \in Nat
    <3>1. j - 1 \in Nat /\ (j - 1) + 1 = j
      BY <1>1
    <3>2. From(fs, (j - 1) + 1) \in Nat
      BY <1>1, <3>1
    <3> QED
      BY <1>8, <3>1, <3>2
  <2>5. Within(su, fs[j].age) \in Nat /\ Within(st, fs[j].age) \in Nat
    BY <1>12, <2>1
  <2> QED
    BY <2>1, <2>2, <2>3, <2>4, <2>5
<1>16. LateAreFew(gs, su, 1)
  <2> SUFFICES ASSUME NEW j \in 1..m, gs[j].age >= F
               PROVE  Within(su, gs[j].age - F) <= From(gs, j + 1) + (IF j < m THEN 1 ELSE 1)
    BY <1>5 DEF LateAreFew
  <2>1. gs[j].age = fs[j].age /\ fs[j].age \in Int /\ fs[j].age - F \in Int /\ fs[j].age >= F
    BY <1>2, <1>6
  <2>2. Within(su, fs[j].age - F) <= Within(st, fs[j].age - F) + 1
    BY <1>11, <2>1
  <2>3. Within(st, fs[j].age - F) <= From(fs, j + 1) + (IF j < m THEN 1 ELSE 0)
    BY <2>1 DEF FramesInv, LateAreFew, m
  <2>4. Within(su, fs[j].age - F) \in Nat /\ Within(st, fs[j].age - F) \in Nat
    BY <1>12, <2>1
  <2>5. CASE j < m
    <3>1. j + 1 \in 1..m /\ j \in Nat
      BY <1>1, <2>5
    <3>2. From(gs, j + 1) = From(fs, j + 1) + 1 /\ From(fs, j + 1) \in Nat
      BY <1>1, <1>8, <3>1
    <3> QED
      BY <2>1, <2>2, <2>3, <2>4, <2>5, <3>2
  <2>6. CASE ~(j < m)
    <3>1. j = m
      BY <1>1, <2>6
    <3>2. From(gs, j + 1) = 0 /\ From(fs, j + 1) = 0
      BY <1>1, <1>9, <3>1
    <3> QED
      BY <2>1, <2>2, <2>3, <2>4, <2>6, <3>2
  <2> QED
    BY <2>5, <2>6
<1>17. AllAreCounted(gs, su)
  <2>0. WindowLength \in Int
    BY <1>2
  <2>1. Within(su, WindowLength) <= Within(st, WindowLength) + 1
    BY <1>11, <2>0
  <2>2. Within(su, WindowLength) \in Nat /\ Within(st, WindowLength) \in Nat
    BY <1>12, <2>0
  <2>3. Within(st, WindowLength) <= Most + From(fs, 1)
    BY DEF FramesInv, AllAreCounted
  <2> QED
    BY <1>2, <1>13, <2>1, <2>2, <2>3 DEF AllAreCounted
<1>18. ShortAreCounted(gs, su)
  <2> SUFFICES ASSUME WindowLength > F PROVE Within(su, WindowLength - F) <= From(gs, 1) + 1
    BY DEF ShortAreCounted
  <2>0. WindowLength - F \in Int
    BY <1>2
  <2>1. Within(su, WindowLength - F) <= Within(st, WindowLength - F) + 1
    BY <1>11, <2>0
  <2>2. Within(su, WindowLength - F) \in Nat /\ Within(st, WindowLength - F) \in Nat
    BY <1>12, <2>0
  <2>3. Within(st, WindowLength - F) <= From(fs, 1) + 1
    BY DEF FramesInv, ShortAreCounted
  <2> QED
    BY <1>13, <2>1, <2>2, <2>3
<1> QED
  BY <1>5, <1>10, <1>13, <1>14, <1>15, <1>16, <1>17, <1>18 DEF FramesInv

\* What started within a time has started within one that is longer by a tick.
LEMMA WithinOlder ==
    ASSUME NEW st \in StartCounts, NEW su,
           su = [age \in DOMAIN st |-> IF age = 0 THEN 0 ELSE st[age - 1]]
    PROVE  /\ su \in StartCounts
           /\ \A w \in Nat : Within(su, w + 1) <= Within(st, w)
<1> DEFINE W == WindowLength
<1>1. W \in Nat \ {0} /\ DOMAIN st = 0..(W - 1) /\ \A i \in 0..(W - 1) : st[i] \in Nat
  BY WindowNumbers DEF StartCounts
<1>2. su[0] = 0 /\ \A i \in 1..(W - 1) : su[i] = st[i - 1] /\ i - 1 \in 0..(W - 1)
  BY <1>1
<1>3. su \in StartCounts
  <2>1. \A i \in 0..(W - 1) : (IF i = 0 THEN 0 ELSE st[i - 1]) \in Nat
    BY <1>1, <1>2
  <2> QED
    BY <1>1, <2>1 DEF StartCounts
<1>4. ASSUME NEW w \in Nat PROVE Within(su, w + 1) <= Within(st, w)
  <2> DEFINE all == {age \in 0..(W - 1) : age < w + 1}  later == {age \in 1..(W - 1) : age < w + 1}
             before == {age \in 0..(W - 2) : age < w}  ages == {age \in 0..(W - 1) : age < w}
  <2>1. later \in SUBSET all /\ \A i \in all \ later : su[i] = 0
    BY <1>1, <1>2
  <2>2. before \in SUBSET ages /\ (\A i \in ages : st[i] \in Nat) /\ before \in SUBSET Int
    BY <1>1
  <2>3. IsFiniteSet(ages) /\ IsFiniteSet(before)
    <3>1. 0 \in Int /\ W - 1 \in Int
      BY <1>1
    <3>2. IsFiniteSet(0..(W - 1))
      BY <3>1, FS_Interval
    <3>3. ages \in SUBSET (0..(W - 1)) /\ before \in SUBSET (0..(W - 1))
      BY <1>1
    <3> QED
      BY <3>2, <3>3, FS_Subset
  <2>4. \A i \in before : st[i] \in Nat /\ i + 1 \in later /\ su[i + 1] = st[i]
    BY <1>1, <1>2
  <2>5. \A k \in later : \E i \in before : k = i + 1
    <3>1. \A k \in later : k - 1 \in before /\ k = (k - 1) + 1
      BY <1>1
    <3> QED
      BY <3>1
  <2> HIDE DEF all, later, before, ages
  <2>6. Window!Total(su, all) = Window!Total(su, later)
    BY <2>1, TotalVoid
  <2>7. Window!Total(su, later) = Window!Total(st, before)
    <3>1. MovesUp(st, before, su, later, 1)
      BY <2>2, <2>3, <2>4, <2>5 DEF MovesUp
    <3> QED
      BY <3>1, TotalShifts
  <2>8. Window!Total(st, before) <= Window!Total(st, ages)
    BY <2>2, <2>3, TotalGrows
  <2>9. Within(su, w + 1) = Window!Total(su, all) /\ Within(st, w) = Window!Total(st, ages)
    BY DEF Within, all, ages
  <2> QED
    BY <2>6, <2>7, <2>8, <2>9
<1> QED
  BY <1>3, <1>4



\* Frames count the same however old they are.
LEMMA CountsSame ==
    ASSUME NEW fs, NEW gs, DOMAIN gs = DOMAIN fs, \A i \in DOMAIN fs : gs[i].count = fs[i].count
    PROVE  Window!Counts(gs) = Window!Counts(fs)
BY DEF Window!Counts

\* When time goes on what the frames count stays, and less is within any time.
LEMMA TickGoesOn ==
    ASSUME NEW fs, NEW st, FramesInv(fs, st, 0),
           NEW gs, gs = [i \in DOMAIN fs |-> [fs[i] EXCEPT !.age = Window!Older(@)]],
           NEW su, su = [age \in DOMAIN st |-> IF age = 0 THEN 0 ELSE st[age - 1]]
    PROVE  FramesInv(gs, su, 0) /\ From(gs, 1) = From(fs, 1) /\ Len(gs) = Len(fs)
<1> DEFINE F == Window!Frame  O == Window!Oldest  S == [age : 0..O, count : Nat]
           older == [i \in DOMAIN fs |-> [fs[i] EXCEPT !.age = Window!Older(@)]]
<1>0. fs \in FrameSeqs /\ st \in StartCounts
  BY DEF FramesInv
<1>1. /\ DOMAIN fs = 1..Len(fs) /\ Len(fs) \in Nat
      /\ \A i \in 1..Len(fs) : fs[i] \in S /\ Window!Counts(fs)[i] = fs[i].count
  BY <1>0, FromIsNat
<1>2. F \in Nat /\ WindowLength \in Nat \ {0} /\ O \in Nat /\ Most \in Int
      /\ WindowLength < O /\ F < O
  BY WindowNumbers
<1>3. \A a \in 0..O : /\ Window!Older(a) \in 0..O
                      /\ (a < O /\ Window!Older(a) = a + 1) \/ (a = O /\ Window!Older(a) = a)
  <2> SUFFICES ASSUME NEW a \in 0..O
               PROVE  /\ Window!Older(a) \in 0..O
                      /\ (a < O /\ Window!Older(a) = a + 1) \/ (a = O /\ Window!Older(a) = a)
    OBVIOUS
  <2>1. O \in Nat /\ Window!Older(a) = IF a < O THEN a + 1 ELSE a
    BY <1>2 DEF Window!Older
  <2> HIDE DEF O
  <2> QED
    BY <2>1
<1>4. \A frame \in S : LET next == [frame EXCEPT !.age = Window!Older(@)]
                       IN  /\ next \in S /\ next.count = frame.count /\ frame.age \in 0..O
                           /\ next.age = Window!Older(frame.age)
  BY <1>3
<1>5. /\ gs \in FrameSeqs /\ Len(gs) = Len(fs)
      /\ \A i \in 1..Len(fs) : /\ gs[i].age = Window!Older(fs[i].age) /\ fs[i].age \in 0..O
                               /\ gs[i].count = fs[i].count
  <2>1. \A i \in 1..Len(fs) : older[i] = [fs[i] EXCEPT !.age = Window!Older(@)]
    BY <1>1
  <2>2. gs = older /\ DOMAIN older = 1..Len(fs)
    BY <1>1
  <2> HIDE DEF S, older
  <2>3. \A i \in 1..Len(fs) : older[i] \in S
    BY <1>1, <1>4, <2>1
  <2>4. older \in [1..Len(fs) -> S]
    <3>1. older = [i \in DOMAIN older |-> older[i]]
      BY DEF older
    <3> QED
      BY <2>2, <2>3, <3>1
  <2>5. older \in Seq(S) /\ Len(older) = Len(fs)
    BY <1>1, <2>4
  <2> QED
    BY <1>1, <1>4, <2>1, <2>2, <2>5 DEF FrameSeqs, S
<1> HIDE DEF S, older
<1>6. \A j : From(gs, j) = From(fs, j)
  <2>1. \A i \in 1..Len(gs) : Window!Counts(gs)[i] = gs[i].count
    BY <1>5, FromIsNat
  <2>2. Window!Counts(gs) = Window!Counts(fs)
    <3>1. DOMAIN gs = DOMAIN fs
      BY <1>5, FromIsNat, <1>1
    <3>2. \A i \in DOMAIN fs : gs[i].count = fs[i].count
      BY <1>1, <1>5
    <3> QED
      BY <3>1, <3>2, CountsSame
  <2> QED
    BY <1>5, <2>2 DEF From
<1>7. su \in StartCounts /\ \A w \in Nat : Within(su, w + 1) <= Within(st, w)
  BY <1>0, WithinOlder
<1>8. /\ \A w \in Int : Within(su, w) \in Nat /\ Within(st, w) \in Nat
      /\ \A v, w \in Int : v <= w => Within(su, v) <= Within(su, w)
      /\ \A w \in Int : w <= 0 => Within(su, w) = 0
  <2>1. /\ \A w \in Int : Within(su, w) \in Nat
        /\ \A v, w \in Int : v <= w => Within(su, v) <= Within(su, w)
        /\ \A w \in Int : w <= 0 => Within(su, w) = 0
    BY <1>7, WithinIsNat
  <2>2. \A w \in Int : Within(st, w) \in Nat
    BY <1>0, WithinIsNat
  <2> QED
    BY <2>1, <2>2
<1>9. ASSUME NEW w \in Nat PROVE Within(su, w) <= Within(st, w)
  <2>1. w \in Int /\ w + 1 \in Int /\ w <= w + 1
    OBVIOUS
  <2>2. Within(su, w) <= Within(su, w + 1)
    BY <1>8, <2>1
  <2>3. Within(su, w + 1) <= Within(st, w)
    BY <1>7
  <2>4. Within(su, w) \in Nat /\ Within(su, w + 1) \in Nat /\ Within(st, w) \in Nat
    BY <1>8, <2>1
  <2> QED
    BY <2>2, <2>3, <2>4
<1>10. IsInOrder(gs)
  <2> SUFFICES ASSUME NEW i \in 1..Len(fs), NEW j \in 1..Len(fs), i <= j
               PROVE  gs[j].age <= gs[i].age
    BY <1>5 DEF IsInOrder
  <2>1. fs[j].age <= fs[i].age /\ fs[i].age \in 0..O /\ fs[j].age \in 0..O
    BY <1>5 DEF FramesInv, IsInOrder
  <2>2. \A a, b \in 0..O : a <= b => Window!Older(a) <= Window!Older(b)
    BY <1>2 DEF Window!Older
  <2> QED
    BY <1>5, <2>1, <2>2
<1>11. FramesCount(gs, su)
  <2> SUFFICES ASSUME NEW j \in 1..Len(fs) PROVE Within(su, gs[j].age) <= From(fs, j)
    BY <1>5, <1>6 DEF FramesCount
  <2> DEFINE a == fs[j].age
  <2>1. a \in 0..O /\ gs[j].age = Window!Older(a)
    BY <1>5
  <2>2. Within(st, a) <= From(fs, j)
    BY DEF FramesInv, FramesCount
  <2> HIDE DEF a
  <2>3. a \in Nat /\ a \in Int /\ a + 1 \in Int
    BY <1>2, <2>1
  <2>4. Within(su, a) <= Within(st, a) /\ Within(su, a + 1) <= Within(st, a)
    BY <1>7, <1>9, <2>3
  <2>5. Window!Older(a) = a + 1 \/ Window!Older(a) = a
    BY <1>3, <2>1
  <2>6. Within(su, gs[j].age) <= Within(st, a)
    BY <2>1, <2>4, <2>5
  <2>7. From(fs, j) \in Nat
    <3>1. j - 1 \in Nat /\ (j - 1) + 1 = j
      BY <1>1
    <3>2. From(fs, (j - 1) + 1) \in Nat
      BY <1>0, <3>1, FromIsNat
    <3> QED
      BY <3>1, <3>2
  <2>8. Within(su, gs[j].age) \in Nat /\ Within(st, a) \in Nat
    BY <1>8, <2>1, <2>3, <2>5
  <2> QED
    BY <2>2, <2>6, <2>7, <2>8
<1>12. LateAreFew(gs, su, 0)
  <2> SUFFICES ASSUME NEW j \in 1..Len(fs), gs[j].age >= F
               PROVE  Within(su, gs[j].age - F) <= From(fs, j + 1) + (IF j < Len(fs) THEN 1 ELSE 0)
    BY <1>5, <1>6 DEF LateAreFew
  <2> DEFINE a == fs[j].age  more == From(fs, j + 1) + (IF j < Len(fs) THEN 1 ELSE 0)
  <2>1. a \in 0..O /\ gs[j].age = Window!Older(a)
    BY <1>5
  <2>2. a >= F => Within(st, a - F) <= more
    BY DEF FramesInv, LateAreFew
  <2>3. more \in Nat
    <3>1. From(fs, j + 1) \in Nat
      BY <1>0, FromIsNat
    <3> QED
      BY <3>1
  <2> HIDE DEF a, more
  <2>4. \/ a < O /\ Window!Older(a) = a + 1
        \/ a = O /\ Window!Older(a) = a
    BY <1>3, <2>1
  <2>5. CASE a >= F
    <3> DEFINE v == a - F
    <3>1. v \in Nat /\ (Window!Older(a) - F = v + 1 \/ Window!Older(a) - F = v)
      <4>1. a \in Nat /\ F \in Nat /\ a >= F
        BY <1>2, <2>1, <2>5
      <4>2. Window!Older(a) = a + 1 \/ Window!Older(a) = a
        BY <2>4
      <4>3. a - F \in Nat /\ (a + 1) - F = (a - F) + 1
        BY <4>1
      <4> QED
        BY <4>2, <4>3
    <3>2. Within(st, v) <= more
      BY <2>2, <2>5
    <3> HIDE DEF v
    <3>3. Within(su, v) <= Within(st, v) /\ Within(su, v + 1) <= Within(st, v)
      BY <1>7, <1>9, <3>1
    <3>4. Within(su, v) \in Nat /\ Within(su, v + 1) \in Nat /\ Within(st, v) \in Nat
      <4>1. v \in Int /\ v + 1 \in Int
        BY <3>1
      <4> QED
        BY <1>8, <4>1
    <3>5. Within(su, Window!Older(a) - F) <= more
      BY <2>3, <3>1, <3>2, <3>3, <3>4
    <3> QED
      BY <2>1, <3>5 DEF more
  <2>6. CASE ~(a >= F)
    <3>1. Window!Older(a) - F \in Int /\ Window!Older(a) - F <= 0
      BY <1>2, <2>1, <2>4, <2>6
    <3>2. Within(su, Window!Older(a) - F) = 0
      BY <1>8, <3>1
    <3>3. 0 <= more
      BY <2>3
    <3> QED
      BY <2>1, <3>2, <3>3 DEF more
  <2> QED
    BY <2>5, <2>6
<1>13. AllAreCounted(gs, su)
  <2>1. Within(su, WindowLength) <= Within(st, WindowLength)
    BY <1>2, <1>9
  <2>2. Within(su, WindowLength) \in Nat /\ Within(st, WindowLength) \in Nat
    <3>1. WindowLength \in Int
      BY <1>2
    <3> QED
      BY <1>8, <3>1
  <2>3. Within(st, WindowLength) <= Most + From(fs, 1)
    BY DEF FramesInv, AllAreCounted
  <2>4. From(fs, 1) \in Int
    BY <1>0, FirstIsNat
  <2> QED
    BY <1>2, <1>6, <2>1, <2>2, <2>3, <2>4 DEF AllAreCounted
<1>14. ShortAreCounted(gs, su)
  <2> SUFFICES ASSUME WindowLength > F PROVE Within(su, WindowLength - F) <= From(fs, 1) + 1
    BY <1>6 DEF ShortAreCounted
  <2>0. WindowLength - F \in Nat /\ WindowLength - F \in Int
    BY <1>2
  <2>1. Within(su, WindowLength - F) <= Within(st, WindowLength - F)
    BY <1>9, <2>0
  <2>2. Within(su, WindowLength - F) \in Nat /\ Within(st, WindowLength - F) \in Nat
    BY <1>8, <2>0
  <2>3. Within(st, WindowLength - F) <= From(fs, 1) + 1
    BY DEF FramesInv, ShortAreCounted
  <2>4. From(fs, 1) \in Int
    BY <1>0, FirstIsNat
  <2> QED
    BY <2>1, <2>2, <2>3, <2>4
<1> QED
  BY <1>5, <1>6, <1>7, <1>10, <1>11, <1>12, <1>13, <1>14 DEF FramesInv


------------------------------------------------------------------------------
(***************************************************************************)
(* FixedWindowLimiter: the limit is kept                                   *)
(***************************************************************************)

FreeIn(times) == {c \in WindowCallers : times[c] = Window!Free}

\* Each caller that is free may start a task before it is held up.
HeldUp(fs, times) == From(fs, 1) + Cardinality(FreeIn(times)) <= Most

WindowInv ==
    /\ Window!TypeOK
    /\ FramesInv(frames, starts, 0)
    /\ HeldUp(frames, timeouts)

\* Some of the callers are no more than all, and without one of them one less.
LEMMA FreeAreFew ==
    ASSUME NEW free \in SUBSET WindowCallers
    PROVE  /\ IsFiniteSet(free) /\ Cardinality(free) \in Nat
           /\ Cardinality(free) <= Cardinality(WindowCallers)
           /\ \A c \in free : Cardinality(free \ {c}) = Cardinality(free) - 1
<1>1. IsFiniteSet(WindowCallers)
  BY WindowNumbers
<1>2. IsFiniteSet(free) /\ Cardinality(free) <= Cardinality(WindowCallers)
  BY <1>1, FS_Subset
<1>3. ASSUME NEW c \in free PROVE Cardinality(free \ {c}) = Cardinality(free) - 1
  BY <1>2, FS_RemoveElement
<1> QED
  BY <1>2, <1>3, FS_CardinalityType

\* limit() holds up a caller that finds the limit reached.
LEMMA LimitsGoesOn ==
    ASSUME NEW fs, NEW st, NEW late \in {0, 1}, FramesInv(fs, st, late), NEW c \in WindowCallers,
           NEW times \in [WindowCallers -> 0..Window!Free], From(fs, 1) <= Most,
           From(fs, 1) + Cardinality(FreeIn(times) \ {c}) <= Most,
           NEW next, next = [times EXCEPT ![c] =
                                 IF Window!Counted(Window!Recap(fs)) < WindowLimit
                                 THEN Window!Free ELSE Window!Frame]
    PROVE  /\ FramesInv(Window!Recap(fs), st, 0) /\ Len(Window!Recap(fs)) > 0
           /\ next \in [WindowCallers -> 0..Window!Free] /\ HeldUp(Window!Recap(fs), next)
<1> DEFINE gs == Window!Recap(fs)
<1>1. FramesInv(gs, st, 0) /\ From(gs, 1) <= From(fs, 1) /\ Len(gs) > 0
  BY RecapGoesOn
<1> HIDE DEF gs
<1>2. gs \in FrameSeqs /\ fs \in FrameSeqs
  BY <1>1 DEF FramesInv
<1>3. From(gs, 1) \in Nat /\ From(fs, 1) \in Nat
  BY <1>2, FirstIsNat
<1>4. Window!Counted(gs) = From(gs, 1)
  BY <1>2, FromIsNat
<1>5. /\ WindowLimit \in Nat /\ Window!Frame \in Nat /\ Window!Free = Window!Frame + 1
      /\ Cardinality(WindowCallers) \in Nat /\ Most = WindowLimit + Cardinality(WindowCallers) - 1
  BY WindowNumbers DEF Most
<1>6. next = [times EXCEPT ![c] = IF From(gs, 1) < WindowLimit THEN Window!Free ELSE Window!Frame]
  BY <1>4 DEF gs
<1>7. next \in [WindowCallers -> 0..Window!Free]
  <2>1. Window!Free \in 0..Window!Free /\ Window!Frame \in 0..Window!Free
    BY <1>5
  <2> QED
    BY <1>6, <2>1
<1>8. CASE From(gs, 1) < WindowLimit
  <2>1. /\ Cardinality(FreeIn(next)) <= Cardinality(WindowCallers)
        /\ Cardinality(FreeIn(next)) \in Nat
    <3>1. FreeIn(next) \in SUBSET WindowCallers
      BY DEF FreeIn
    <3> QED
      BY <3>1, FreeAreFew
  <2>2. From(gs, 1) + Cardinality(FreeIn(next)) <= Most
    BY <1>3, <1>5, <1>8, <2>1
  <2> QED
    BY <1>1, <1>7, <2>2 DEF HeldUp, gs
<1>9. CASE ~(From(gs, 1) < WindowLimit)
  <2>1. next = [times EXCEPT ![c] = Window!Frame] /\ Window!Frame # Window!Free
    <3>1. (IF From(gs, 1) < WindowLimit THEN Window!Free ELSE Window!Frame) = Window!Frame
      BY <1>9
    <3>2. Window!Frame # Window!Free
      BY <1>5
    <3> HIDE DEF gs
    <3> QED
      BY <1>6, <3>1, <3>2
  <2>2. FreeIn(next) = FreeIn(times) \ {c}
    BY <2>1 DEF FreeIn
  <2>3. Cardinality(FreeIn(times) \ {c}) \in Nat
    <3>1. FreeIn(times) \ {c} \in SUBSET WindowCallers
      BY DEF FreeIn
    <3> QED
      BY <3>1, FreeAreFew
  <2>4. From(gs, 1) + Cardinality(FreeIn(next)) <= Most
    <3>1. Cardinality(FreeIn(next)) = Cardinality(FreeIn(times) \ {c})
      BY <2>2
    <3> DEFINE rest == Cardinality(FreeIn(times) \ {c})  a == From(gs, 1)  b == From(fs, 1)
    <3>2. a \in Nat /\ b \in Nat /\ rest \in Nat /\ a <= b /\ b + rest <= Most /\ Most \in Int
      BY <1>1, <1>3, <1>5, <2>3
    <3> HIDE DEF rest, a, b
    <3>3. a + rest <= Most
      BY <3>2
    <3> QED
      BY <3>1, <3>3 DEF rest, a
  <2> QED
    BY <1>1, <1>7, <2>4 DEF HeldUp, gs
<1> QED
  BY <1>8, <1>9

\* Every task is counted, and the caller that started it held up where the limit is reached.
LEMMA WindowStep == WindowInv /\ [Window!Next]_(Window!vars) => WindowInv'
<1> SUFFICES ASSUME WindowInv, [Window!Next]_(Window!vars) PROVE WindowInv'
  OBVIOUS
<1>1. /\ FramesInv(frames, starts, 0) /\ HeldUp(frames, timeouts)
      /\ frames \in FrameSeqs /\ frames # <<>> /\ starts \in StartCounts
      /\ timeouts \in [WindowCallers -> 0..Window!Free]
  BY DEF WindowInv, Window!TypeOK, FramesInv
<1>2. Len(frames) \in Nat /\ Len(frames) > 0
  BY <1>1 DEF FrameSeqs
<1>3. /\ From(frames, 1) \in Nat /\ Most \in Int
      /\ Window!Frame \in Nat /\ Window!Free = Window!Frame + 1
  BY <1>1, FirstIsNat, WindowNumbers
<1>4. /\ IsFiniteSet(FreeIn(timeouts)) /\ Cardinality(FreeIn(timeouts)) \in Nat
      /\ \A c \in FreeIn(timeouts) : Cardinality(FreeIn(timeouts) \ {c})
                                      = Cardinality(FreeIn(timeouts)) - 1
  <2>1. FreeIn(timeouts) \in SUBSET WindowCallers
    BY DEF FreeIn
  <2> QED
    BY <2>1, FreeAreFew
<1>5. From(frames, 1) + Cardinality(FreeIn(timeouts)) <= Most
  BY <1>1 DEF HeldUp
<1>6. ASSUME FramesInv(frames', starts', 0), Len(frames') > 0, HeldUp(frames', timeouts'),
             timeouts' \in [WindowCallers -> 0..Window!Free]
      PROVE  WindowInv'
  <2>1. frames' \in FrameSeqs /\ starts' \in StartCounts
    BY <1>6 DEF FramesInv
  <2>2. frames' # <<>>
    BY <1>6
  <2>3. Window!TypeOK'
    BY <1>6, <2>1, <2>2 DEF Window!TypeOK, FrameSeqs, StartCounts
  <2> QED
    BY <1>6, <2>3 DEF WindowInv
<1>7. ASSUME NEW c \in WindowCallers, Window!Enqueue(c) PROVE WindowInv'
  <2> DEFINE gs == Window!Increased  su == [starts EXCEPT ![0] = @ + 1]
             next == [timeouts EXCEPT ![c] =
                          IF Window!Counted(Window!Recap(gs)) < WindowLimit
                          THEN Window!Free ELSE Window!Frame]
  <2>1. /\ timeouts[c] = Window!Free /\ starts' = su
        /\ frames' = Window!Recap(gs) /\ timeouts' = next
    BY <1>7 DEF Window!Enqueue, Window!Limits
  <2>2. FramesInv(gs, su, 1) /\ From(gs, 1) = From(frames, 1) + 1
    BY <1>1, <1>2, IncreaseGoesOn DEF Window!Increased
  <2>3. c \in FreeIn(timeouts)
    BY <2>1 DEF FreeIn
  <2>4. Cardinality(FreeIn(timeouts) \ {c}) = Cardinality(FreeIn(timeouts)) - 1
    BY <1>4, <2>3
  <2>5. Cardinality(FreeIn(timeouts)) > 0
    <3>1. Cardinality(FreeIn(timeouts)) # 0
      BY <1>4, <2>3, FS_EmptySet
    <3> QED
      BY <1>4, <3>1
  <2> HIDE DEF gs, su, next
  <2>6. From(gs, 1) <= Most /\ From(gs, 1) + Cardinality(FreeIn(timeouts) \ {c}) <= Most
    BY <1>3, <1>4, <1>5, <2>2, <2>4, <2>5
  <2>7. /\ FramesInv(Window!Recap(gs), su, 0) /\ Len(Window!Recap(gs)) > 0
        /\ next \in [WindowCallers -> 0..Window!Free] /\ HeldUp(Window!Recap(gs), next)
    BY <1>1, <2>2, <2>6, LimitsGoesOn DEF next
  <2> QED
    BY <1>6, <2>1, <2>7
<1>8. ASSUME NEW c \in WindowCallers, Window!LooksAgain(c) PROVE WindowInv'
  <2> DEFINE next == [timeouts EXCEPT ![c] =
                          IF Window!Counted(Window!Recap(frames)) < WindowLimit
                          THEN Window!Free ELSE Window!Frame]
  <2>1. /\ timeouts[c] = 0 /\ starts' = starts
        /\ frames' = Window!Recap(frames) /\ timeouts' = next
    BY <1>8 DEF Window!LooksAgain, Window!Limits
  <2>2. FreeIn(timeouts) \ {c} = FreeIn(timeouts)
    BY <1>3, <2>1 DEF FreeIn
  <2> HIDE DEF next
  <2>3. From(frames, 1) <= Most /\ From(frames, 1) + Cardinality(FreeIn(timeouts) \ {c}) <= Most
    BY <1>3, <1>4, <1>5, <2>2
  <2>4. 0 \in {0, 1}
    OBVIOUS
  <2>5. /\ FramesInv(Window!Recap(frames), starts, 0) /\ Len(Window!Recap(frames)) > 0
        /\ next \in [WindowCallers -> 0..Window!Free] /\ HeldUp(Window!Recap(frames), next)
    BY <1>1, <2>3, <2>4, LimitsGoesOn DEF next
  <2> QED
    BY <1>6, <2>1, <2>5
<1>9. CASE Window!Tick
  <2> DEFINE gs == [i \in DOMAIN frames |-> [frames[i] EXCEPT !.age = Window!Older(@)]]
             su == [age \in DOMAIN starts |-> IF age = 0 THEN 0 ELSE starts[age - 1]]
             next == [c \in WindowCallers |->
                          IF timeouts[c] \in 1..Window!Frame THEN timeouts[c] - 1 ELSE timeouts[c]]
  <2>1. frames' = gs /\ starts' = su /\ timeouts' = next
    BY <1>9 DEF Window!Tick
  <2>2. FramesInv(gs, su, 0) /\ From(gs, 1) = From(frames, 1) /\ Len(gs) = Len(frames)
    BY <1>1, TickGoesOn
  <2>3. \A c \in WindowCallers : /\ next[c] \in 0..Window!Free
                                 /\ next[c] = Window!Free <=> timeouts[c] = Window!Free
    BY <1>1, <1>3
  <2>4. next \in [WindowCallers -> 0..Window!Free]
    BY <2>3
  <2> HIDE DEF gs, su, next
  <2>5. FreeIn(next) = FreeIn(timeouts)
    BY <2>3 DEF FreeIn
  <2>6. HeldUp(gs, next)
    BY <1>1, <2>2, <2>5 DEF HeldUp
  <2> QED
    BY <1>2, <1>6, <2>1, <2>2, <2>4, <2>6
<1>10. CASE UNCHANGED Window!vars
  <2>1. UNCHANGED <<frames, timeouts, starts>>
    BY <1>10 DEF Window!vars
  <2> QED
    BY <1>1, <1>2, <1>6, <2>1
<1> QED
  BY <1>7, <1>8, <1>9, <1>10 DEF Window!Next

\* What is counted bounds what starts.
LEMMA WindowIsKept == WindowInv => Window!TypeOK /\ Window!StartsAreLimited
<1> SUFFICES ASSUME WindowInv PROVE Window!TypeOK /\ Window!StartsAreLimited
  OBVIOUS
<1>1. /\ Window!TypeOK /\ frames \in FrameSeqs /\ starts \in StartCounts
      /\ AllAreCounted(frames, starts) /\ ShortAreCounted(frames, starts)
  BY DEF WindowInv, FramesInv
<1>2. /\ WindowLength \in Nat /\ Window!Frame \in Nat /\ Cardinality(WindowCallers) \in Nat
      /\ WindowLimit \in Nat /\ Most = WindowLimit + Cardinality(WindowCallers) - 1
      /\ Window!Cardinality(WindowCallers) = Cardinality(WindowCallers)
  BY WindowNumbers, WindowCounts DEF Most
<1>3. From(frames, 1) \in Nat /\ From(frames, 1) <= Most
  <2>1. From(frames, 1) + Cardinality(FreeIn(timeouts)) <= Most
    BY DEF WindowInv, HeldUp
  <2>2. Cardinality(FreeIn(timeouts)) \in Nat
    <3>1. FreeIn(timeouts) \in SUBSET WindowCallers
      BY DEF FreeIn
    <3> QED
      BY <3>1, FreeAreFew
  <2>3. From(frames, 1) \in Nat
    BY <1>1, FirstIsNat
  <2> QED
    BY <1>2, <2>1, <2>2, <2>3
<1>4. \A w : Window!StartsWithin(w) = Within(starts, w)
  <2>1. DOMAIN starts = 0..(WindowLength - 1)
    BY <1>1 DEF StartCounts
  <2> QED
    BY <2>1 DEF Window!StartsWithin, Within
<1>5. \A w \in Int : Within(starts, w) \in Nat
  BY <1>1, WithinIsNat
<1>6. Window!StartsWithin(WindowLength)
      <= 2 * (WindowLimit + Window!Cardinality(WindowCallers) - 1)
  <2>1. Within(starts, WindowLength) <= Most + From(frames, 1)
    BY <1>1 DEF AllAreCounted
  <2>2. Within(starts, WindowLength) \in Nat
    BY <1>2, <1>5
  <2> QED
    BY <1>2, <1>3, <1>4, <2>1, <2>2
<1>7. ASSUME WindowLength > Window!Frame
      PROVE  Window!StartsWithin(WindowLength - Window!Frame)
             <= WindowLimit + Window!Cardinality(WindowCallers)
  <2>1. Within(starts, WindowLength - Window!Frame) <= From(frames, 1) + 1
    BY <1>1, <1>7 DEF ShortAreCounted
  <2>2. WindowLength - Window!Frame \in Int
    BY <1>2
  <2>3. Within(starts, WindowLength - Window!Frame) \in Nat
    BY <1>5, <2>2
  <2> QED
    BY <1>2, <1>3, <1>4, <2>1, <2>3
<1> QED
  BY <1>1, <1>6, <1>7 DEF Window!StartsAreLimited

\* The first frame counts nothing, and nothing has started.
LEMMA WindowBegins == Window!Init => WindowInv
<1> SUFFICES ASSUME Window!Init PROVE WindowInv
  OBVIOUS
<1> DEFINE new == [age |-> 0, count |-> 0]  S == [age : 0..Window!Oldest, count : Nat]
<1>1. frames = <<new>> /\ new \in S /\ new.age = 0 /\ new.count = 0
  BY WindowNumbers DEF Window!Init
<1>2. /\ timeouts = [c \in WindowCallers |-> Window!Free]
      /\ starts = [age \in 0..(WindowLength - 1) |-> 0]
  BY DEF Window!Init
<1> HIDE DEF new
<1>3. frames \in FrameSeqs /\ frames # <<>> /\ Len(frames) = 1 /\ frames[1] = new
  <2> HIDE DEF S
  <2>1. frames \in Seq(S) /\ frames # <<>> /\ Len(frames) = 1 /\ frames[1] = new
    BY <1>1
  <2> QED
    BY <2>1 DEF S, FrameSeqs
<1>4. starts \in StartCounts
  BY <1>2 DEF StartCounts
<1>5. timeouts \in [WindowCallers -> 0..Window!Free]
  BY <1>2, WindowNumbers
<1>6. ASSUME NEW w \in Int PROVE Within(starts, w) = 0
  <2> DEFINE set == {age \in 0..(WindowLength - 1) : age < w}
  <2>1. \A i \in set : starts[i] = 0
    BY <1>2
  <2> HIDE DEF set
  <2>2. Window!Total(starts, set) = Window!Total(starts, {})
    <3>1. {} \in SUBSET set /\ \A i \in set \ {} : starts[i] = 0
      BY <2>1
    <3> QED
      BY <3>1, TotalVoid
  <2>3. Window!Total(starts, {}) = 0
    <3>1. Cells(starts, {}) = {}
      BY DEF Cells
    <3> QED
      BY <3>1, TotalIs, FS_EmptySet
  <2> QED
    BY <2>2, <2>3 DEF Within, set
<1>7. From(frames, 1) = 0 /\ From(frames, 2) = 0
  <2>1. Window!Counts(frames)[1] = 0
    BY <1>1, <1>3, FromIsNat
  <2>2. From(frames, Len(frames) + 1) = 0
    BY <1>3, FromIsNat
  <2>3. From(frames, 2) = 0
    <3>1. Len(frames) + 1 = 2
      BY <1>3
    <3> QED
      BY <2>2, <3>1
  <2> DEFINE counts == Window!Counts(frames)
  <2>4. 2 .. Len(frames) \in SUBSET (1 .. Len(frames))
    BY <1>3
  <2>5. \A i \in (1 .. Len(frames)) \ (2 .. Len(frames)) : counts[i] = 0
    BY <1>3, <2>1
  <2> HIDE DEF counts
  <2>6. Window!Total(counts, 1 .. Len(frames)) = Window!Total(counts, 2 .. Len(frames))
    BY <2>4, <2>5, TotalVoid
  <2> QED
    BY <2>3, <2>6 DEF From, counts
<1>8. WindowLength \in Nat \ {0} /\ Window!Frame \in Nat /\ Most \in Int
      /\ WindowLimit \in Nat \ {0} /\ Cardinality(WindowCallers) \in Nat
      /\ Most = WindowLimit + Cardinality(WindowCallers) - 1
  BY WindowNumbers DEF Most
<1>9. IsInOrder(frames) /\ FramesCount(frames, starts) /\ LateAreFew(frames, starts, 0)
  <2>1. \A j \in 1..Len(frames) : j = 1 /\ frames[j].age = 0
    BY <1>1, <1>3
  <2>2. IsInOrder(frames)
    BY <2>1 DEF IsInOrder
  <2>3. FramesCount(frames, starts)
    BY <1>6, <1>7, <2>1 DEF FramesCount
  <2>4. LateAreFew(frames, starts, 0)
    <3> SUFFICES ASSUME NEW j \in 1..Len(frames)
                 PROVE  Within(starts, frames[j].age - Window!Frame)
                        <= From(frames, j + 1) + (IF j < Len(frames) THEN 1 ELSE 0)
      BY DEF LateAreFew
    <3>1. j = 1 /\ frames[j].age = 0
      BY <2>1
    <3>2. Within(starts, frames[j].age - Window!Frame) = 0
      BY <1>6, <1>8, <3>1
    <3>3. From(frames, j + 1) = 0
      BY <1>7, <3>1
    <3> QED
      BY <3>2, <3>3
  <2> QED
    BY <2>2, <2>3, <2>4
<1>10. Cardinality(FreeIn(timeouts)) \in Nat
       /\ Cardinality(FreeIn(timeouts)) <= Cardinality(WindowCallers)
  <2>1. FreeIn(timeouts) \in SUBSET WindowCallers
    BY DEF FreeIn
  <2> QED
    BY <2>1, FreeAreFew
<1>11. HeldUp(frames, timeouts)
  BY <1>7, <1>8, <1>10 DEF HeldUp
<1>12. AllAreCounted(frames, starts) /\ ShortAreCounted(frames, starts)
  <2>1. WindowLength \in Int /\ WindowLength - Window!Frame \in Int
    BY <1>8
  <2>2. Within(starts, WindowLength) = 0 /\ Within(starts, WindowLength - Window!Frame) = 0
    BY <1>6, <2>1
  <2>3. 0 <= Most + 0
    BY <1>8
  <2> QED
    BY <1>7, <2>2, <2>3 DEF AllAreCounted, ShortAreCounted
<1>13. Window!TypeOK
  BY <1>3, <1>4, <1>5 DEF Window!TypeOK, FrameSeqs, StartCounts
<1> QED
  BY <1>3, <1>4, <1>9, <1>11, <1>12, <1>13 DEF WindowInv, FramesInv

\* For any callers, limits and windows, a RateLimitedQueue lets no more functions through
\* between two refreshes than its limit, and a FixedWindowLimiter lets tasks start within
\* the bounds that StartsAreBounded names, which are higher than its limit.
THEOREM StartsStayBounded == Rate!Spec /\ Window!Spec => []StartsAreBounded
<1>1. Rate!Spec => []RateInv
  BY RateStays
<1>2. Window!Spec => []WindowInv
  BY WindowBegins, WindowStep, PTL DEF Window!Spec
<1>3. RateInv /\ WindowInv => StartsAreBounded
  BY WindowIsKept DEF RateInv, StartsAreBounded
<1> QED
  BY <1>1, <1>2, <1>3, PTL

------------------------------------------------------------------------------
(***************************************************************************)
(* RedisTransport: each push has its place, and places only go from the    *)
(* channel to one list's reader, and from there to its handler.            *)
(***************************************************************************)

Posts == ({"message"} \X (1 .. MaxSent)) \cup ({"reply"} \X Lists)
LoopStates ==
    [pc : {"none", "asked", "popped", "handling", "replying", "done", "ended"}, push : Nat]
Popped(l) == loop[l].pc = "popped"

PlaceTypes ==
    /\ sent \in Nat /\ outbox \in Seq(Posts) /\ arrived \in 0 .. Len(outbox)
    /\ pushes \in Seq(1 .. MaxSent) /\ store \in Seq(1 .. Len(pushes))
    /\ loop \in [Lists -> LoopStates]
    /\ heard \in [Lists -> Seq(1 .. Len(pushes))]

\* The newest is first in the channel, and all in it are newer than what was popped.
StoreIsInOrder ==
    /\ \A i, j \in DOMAIN store : i < j => store[j] < store[i]
    /\ \A l \in Lists : \A i \in DOMAIN heard[l] : \A j \in DOMAIN store : heard[l][i] < store[j]
    /\ \A l \in Lists : Popped(l) => \A j \in DOMAIN store : loop[l].push < store[j]

\* What a reader has popped is newer than what its handler had, and nobody else's.
PoppedIsOwn ==
    /\ \A l \in Lists : Popped(l) =>
        /\ loop[l].push \in 1 .. Len(pushes)
        /\ \A i \in DOMAIN heard[l] : heard[l][i] < loop[l].push
    /\ \A k, l \in Lists : k # l /\ Popped(k) =>
        /\ \A i \in DOMAIN heard[l] : heard[l][i] # loop[k].push
        /\ Popped(l) => loop[l].push # loop[k].push

HeardIsOwn ==
    /\ \A l \in Lists : \A i, j \in DOMAIN heard[l] : i < j => heard[l][i] < heard[l][j]
    /\ \A l \in Lists : \A i \in DOMAIN heard[l] : pushes[heard[l][i]] \notin Malformed
    /\ \A k, l \in Lists : k # l => \A i \in DOMAIN heard[k] : \A j \in DOMAIN heard[l] :
           heard[k][i] # heard[l][j]

PlacesInv == PlaceTypes /\ StoreIsInOrder /\ PoppedIsOwn /\ HeardIsOwn


\* Nothing is pushed, popped or read.
LEMMA PlacesStay ==
    ASSUME PlacesInv, UNCHANGED <<pushes, store, heard>>,
           sent' \in Nat, outbox' \in Seq(Posts), arrived' \in 0 .. Len(outbox'),
           loop' \in [Lists -> LoopStates],
           \A l \in Lists : loop'[l].pc = "popped" => loop'[l] = loop[l]
    PROVE  PlacesInv'
<1>1. PlaceTypes'
  BY DEF PlacesInv, PlaceTypes
<1>2. \A l \in Lists : Popped(l)' => Popped(l) /\ loop'[l].push = loop[l].push
  BY DEF Popped
<1>3. StoreIsInOrder'
  BY <1>2 DEF PlacesInv, StoreIsInOrder, Popped
<1>4. PoppedIsOwn'
  BY <1>2 DEF PlacesInv, PoppedIsOwn, Popped
<1>5. HeardIsOwn'
  BY DEF PlacesInv, HeardIsOwn
<1> QED
  BY <1>1, <1>3, <1>4, <1>5 DEF PlacesInv

\* At the start nothing is pushed.
LEMMA PlacesBegin == Transport!Init => PlacesInv
<1> SUFFICES ASSUME Transport!Init PROVE PlacesInv
  OBVIOUS
<1>1. /\ sent = 0 /\ outbox = <<>> /\ arrived = 0 /\ pushes = <<>> /\ store = <<>>
      /\ loop = [l \in Lists |-> [pc |-> "none", push |-> 0]]
      /\ heard = [l \in Lists |-> <<>>]
  BY DEF Transport!Init, Transport!Idle
<1>2. loop \in [Lists -> LoopStates]
  BY <1>1 DEF LoopStates
<1>3. heard \in [Lists -> Seq(1 .. Len(pushes))]
  BY <1>1
<1>4. PlaceTypes
  BY <1>1, <1>2, <1>3 DEF PlaceTypes
<1>5. \A l \in Lists : ~Popped(l) /\ DOMAIN heard[l] = {}
  BY <1>1 DEF Popped
<1>6. DOMAIN store = {}
  BY <1>1
<1> QED
  BY <1>4, <1>5, <1>6 DEF PlacesInv, StoreIsInOrder, PoppedIsOwn, HeardIsOwn

\* A push is put in front of the channel, behind all others in time.
LEMMA PlacesPush == PlacesInv /\ Transport!Push => PlacesInv'
<1> SUFFICES ASSUME PlacesInv, Transport!Push PROVE PlacesInv'
  OBVIOUS
<1>0. PlaceTypes
  BY DEF PlacesInv
<1>1. /\ arrived < Len(outbox) /\ arrived' = arrived + 1
      /\ UNCHANGED <<sent, outbox, loop, heard>>
  BY DEF Transport!Push, Transport!listVars
<1> DEFINE x == outbox[arrived + 1]  n == Len(pushes) + 1
<1>2. IF x[1] = "message"
      THEN pushes' = Append(pushes, x[2]) /\ store' = <<n>> \o store
      ELSE UNCHANGED <<pushes, store>>
  BY DEF Transport!Push
<1>3. x \in Posts /\ arrived' \in 0 .. Len(outbox') /\ outbox' \in Seq(Posts) /\ sent' \in Nat
  BY <1>0, <1>1 DEF PlaceTypes
<1> HIDE DEF x
<1>4. CASE x[1] # "message"
  BY <1>0, <1>1, <1>2, <1>3, <1>4, PlacesStay DEF PlaceTypes
<1>5. CASE x[1] = "message"
  <2>1. x[2] \in 1 .. MaxSent
    BY <1>3, <1>5 DEF Posts
  <2>2. /\ pushes \in Seq(1 .. MaxSent) /\ store \in Seq(1 .. Len(pushes)) /\ Len(pushes) \in Nat
        /\ loop \in [Lists -> LoopStates] /\ heard \in [Lists -> Seq(1 .. Len(pushes))]
    BY <1>0 DEF PlaceTypes
  <2>3. /\ pushes' \in Seq(1 .. MaxSent) /\ Len(pushes') = n
        /\ \A i \in 1 .. Len(pushes) : pushes'[i] = pushes[i]
    <3> DEFINE m == x[2]
    <3>1. pushes' = Append(pushes, m) /\ m \in 1 .. MaxSent
      BY <1>2, <1>5, <2>1
    <3> HIDE DEF m
    <3> QED
      BY <2>2, <3>1
  <2>4. n \in Nat /\ 1 .. Len(pushes) \subseteq 1 .. n /\ n \in 1 .. n /\ \A p \in 1 .. Len(pushes) : p < n
    BY <2>2
  <2> HIDE DEF n
  <2>5. /\ store' \in Seq(1 .. n) /\ Len(store') = Len(store) + 1 /\ store'[1] = n
        /\ \A i \in 2 .. Len(store) + 1 : store'[i] = store[i - 1]
    <3>1. store \in Seq(1 .. n) /\ <<n>> \in Seq(1 .. n) /\ store' = <<n>> \o store
      BY <1>2, <1>5, <2>2, <2>4
    <3>2. store' \in Seq(1 .. n) /\ Len(store') = 1 + Len(store)
      BY <3>1
    <3> QED
      BY <3>1, <3>2
  <2>6. DOMAIN store' = 1 .. Len(store) + 1 /\ DOMAIN store = 1 .. Len(store) /\ Len(store) \in Nat
    BY <2>2, <2>5
  <2>7. \A l \in Lists : heard[l] \in Seq(1 .. n)
    BY <2>2, <2>4
  <2>8. PlaceTypes'
    BY <1>1, <1>3, <2>2, <2>3, <2>5, <2>7 DEF PlaceTypes
  <2>9. ASSUME NEW i \in DOMAIN store'
        PROVE  \/ i = 1 /\ store'[i] = n
               \/ i - 1 \in DOMAIN store /\ store'[i] = store[i - 1]
    <3>1. CASE i = 1
      BY <2>5, <3>1
    <3>2. CASE i # 1
      <4>1. i \in 2 .. Len(store) + 1 /\ i - 1 \in DOMAIN store
        BY <2>6, <3>2
      <4> QED
        BY <2>5, <4>1
    <3> QED
      BY <3>1, <3>2
  <2>10. \A i \in DOMAIN store : store[i] \in 1 .. Len(pushes) /\ store[i] < n
    BY <2>2, <2>4
  <2>11. ASSUME NEW i \in DOMAIN store', NEW j \in DOMAIN store', i < j
         PROVE  store'[j] < store'[i]
    <3>1. j - 1 \in DOMAIN store /\ store'[j] = store[j - 1]
      BY <2>6, <2>9, <2>11
    <3>2. CASE i = 1 /\ store'[i] = n
      BY <2>10, <3>1, <3>2
    <3>3. CASE i - 1 \in DOMAIN store /\ store'[i] = store[i - 1]
      <4>1. i - 1 < j - 1
        BY <2>6, <2>11
      <4> QED
        BY <3>1, <3>3, <4>1 DEF PlacesInv, StoreIsInOrder
    <3> QED
      BY <2>9, <3>2, <3>3
  <2>12. ASSUME NEW l \in Lists, NEW i \in DOMAIN heard[l], NEW j \in DOMAIN store'
         PROVE  heard[l][i] < store'[j]
    <3>1. heard[l][i] \in 1 .. Len(pushes)
      BY <2>2
    <3>2. CASE store'[j] = n
      BY <2>4, <3>1, <3>2
    <3>3. CASE j - 1 \in DOMAIN store /\ store'[j] = store[j - 1]
      BY <3>3 DEF PlacesInv, StoreIsInOrder
    <3> QED
      BY <2>9, <3>2, <3>3
  <2>13. ASSUME NEW l \in Lists, Popped(l), NEW j \in DOMAIN store'
         PROVE  loop[l].push < store'[j]
    <3>1. loop[l].push \in 1 .. Len(pushes)
      BY <2>13 DEF PlacesInv, PoppedIsOwn
    <3>2. CASE store'[j] = n
      BY <2>4, <3>1, <3>2
    <3>3. CASE j - 1 \in DOMAIN store /\ store'[j] = store[j - 1]
      BY <2>13, <3>3 DEF PlacesInv, StoreIsInOrder
    <3> QED
      BY <2>9, <3>2, <3>3
  <2>14. StoreIsInOrder'
    BY <1>1, <2>11, <2>12, <2>13 DEF StoreIsInOrder, Popped
  <2>15. PoppedIsOwn'
    <3>1. \A p \in 1 .. Len(pushes) : p \in 1 .. Len(pushes')
      BY <2>3, <2>4
    <3> QED
      BY <1>1, <3>1 DEF PlacesInv, PoppedIsOwn, Popped
  <2>16. HeardIsOwn'
    <3>1. \A l \in Lists : \A i \in DOMAIN heard[l] : heard[l][i] \in 1 .. Len(pushes)
      BY <2>2
    <3>2. \A l \in Lists : \A i \in DOMAIN heard[l] : pushes'[heard[l][i]] \notin Malformed
      BY <2>3, <3>1 DEF PlacesInv, HeardIsOwn
    <3> QED
      BY <1>1, <3>2 DEF PlacesInv, HeardIsOwn
  <2> QED
    BY <2>8, <2>14, <2>15, <2>16 DEF PlacesInv
<1> QED
  BY <1>4, <1>5


\* The oldest in the channel is popped: older than all that stay, newer than all popped before.
LEMMA PlacesPop == ASSUME PlacesInv, NEW l \in Lists, Transport!Pop(l) PROVE PlacesInv'
<1> DEFINE p == Transport!Last(store)  n == Len(store)
<1>0. /\ pushes \in Seq(1 .. MaxSent) /\ store \in Seq(1 .. Len(pushes)) /\ Len(pushes) \in Nat
      /\ loop \in [Lists -> LoopStates] /\ heard \in [Lists -> Seq(1 .. Len(pushes))]
      /\ DOMAIN store = 1 .. n /\ n \in Nat
  BY DEF PlacesInv, PlaceTypes
<1>1. /\ store # <<>> /\ store' = Transport!Front(store)
      /\ loop' = [loop EXCEPT ![l] = [pc |-> "popped", push |-> p]]
      /\ UNCHANGED <<sent, outbox, arrived, pushes, heard>>
  BY DEF Transport!Pop, Transport!sendVars
<1>2. n >= 1 /\ n \in DOMAIN store /\ p = store[n]
  BY <1>0, <1>1 DEF Transport!Last
<1>3. /\ store' \in Seq(1 .. Len(pushes)) /\ DOMAIN store' = 1 .. n - 1
      /\ \A i \in 1 .. n - 1 : store'[i] = store[i]
  <2>1. store' = SubSeq(store, 1, n - 1)
    BY <1>1 DEF Transport!Front
  <2>2. 1 \in Int /\ n - 1 \in Int /\ \A i \in 1 .. n - 1 : store[i] \in 1 .. Len(pushes)
    BY <1>0
  <2> DEFINE m == n - 1
  <2>3. /\ SubSeq(store, 1, m) \in Seq(1 .. Len(pushes))
        /\ Len(SubSeq(store, 1, m)) = IF 1 <= m THEN m - 1 + 1 ELSE 0
        /\ \A i \in 1 .. m - 1 + 1 : SubSeq(store, 1, m)[i] = store[1 + i - 1]
    BY <2>2, SubSeqProperties
  <2> HIDE DEF m
  <2>4. store' = SubSeq(store, 1, m)
    BY <2>1 DEF m
  <2>5. m \in Nat /\ m - 1 + 1 = m /\ \A i \in 1 .. m : 1 + i - 1 = i
    BY <1>0, <1>2 DEF m
  <2>6. store' \in Seq(1 .. Len(pushes)) /\ Len(store') = m /\ \A i \in 1 .. m : store'[i] = store[i]
    BY <2>3, <2>4, <2>5
  <2> QED
    BY <2>6 DEF m
<1> HIDE DEF p, n
<1>4. p \in 1 .. Len(pushes) /\ p \in Nat
  BY <1>0, <1>2
<1>5. \A j \in DOMAIN store' : j \in DOMAIN store /\ store'[j] = store[j] /\ p < store'[j]
  <2> SUFFICES ASSUME NEW j \in DOMAIN store'
               PROVE  j \in DOMAIN store /\ store'[j] = store[j] /\ p < store'[j]
    OBVIOUS
  <2>1. j \in DOMAIN store /\ j < n /\ store'[j] = store[j]
    BY <1>0, <1>3
  <2> QED
    BY <1>2, <2>1 DEF PlacesInv, StoreIsInOrder
<1>6. /\ loop' \in [Lists -> LoopStates] /\ Popped(l)' /\ loop'[l].push = p
      /\ \A k \in Lists : k # l => (Popped(k)' <=> Popped(k)) /\ loop'[k] = loop[k]
  <2> DEFINE s == [pc |-> "popped", push |-> p]
  <2>1. s \in LoopStates /\ s.pc = "popped" /\ s.push = p
    BY <1>4 DEF LoopStates
  <2>2. loop' = [loop EXCEPT ![l] = s]
    BY <1>1
  <2> HIDE DEF s
  <2> QED
    BY <1>0, <2>1, <2>2 DEF Popped
<1>7. PlaceTypes'
  BY <1>1, <1>3, <1>6 DEF PlacesInv, PlaceTypes
<1>8. ASSUME NEW k \in Lists, NEW i \in DOMAIN heard[k]
      PROVE  heard[k][i] < p /\ heard[k][i] \in Nat
  <2>1. heard[k] \in Seq(1 .. Len(pushes))
    BY <1>0
  <2>2. heard[k][i] \in 1 .. Len(pushes)
    BY <2>1
  <2>3. heard[k][i] \in Nat
    BY <1>0, <2>2
  <2>4. heard[k][i] < store[n]
    BY <1>2 DEF PlacesInv, StoreIsInOrder
  <2> QED
    BY <1>2, <2>3, <2>4
<1>9. ASSUME NEW k \in Lists, Popped(k) PROVE loop[k].push < p /\ loop[k].push \in Nat
  <2>1. loop[k].push \in 1 .. Len(pushes)
    BY <1>9 DEF PlacesInv, PoppedIsOwn
  <2>2. loop[k].push < store[n]
    BY <1>2, <1>9 DEF PlacesInv, StoreIsInOrder
  <2> QED
    BY <1>0, <1>2, <2>1, <2>2
<1>10. StoreIsInOrder'
  <2>1. \A i, j \in DOMAIN store' : i < j => store'[j] < store'[i]
    BY <1>5 DEF PlacesInv, StoreIsInOrder
  <2>2. \A k \in Lists : \A i \in DOMAIN heard'[k] : \A j \in DOMAIN store' : heard'[k][i] < store'[j]
    BY <1>1, <1>5 DEF PlacesInv, StoreIsInOrder
  <2>3. \A k \in Lists : Popped(k)' => \A j \in DOMAIN store' : loop'[k].push < store'[j]
    BY <1>5, <1>6 DEF PlacesInv, StoreIsInOrder
  <2> QED
    BY <2>1, <2>2, <2>3 DEF StoreIsInOrder
<1>11. PoppedIsOwn'
  <2>1. ASSUME NEW k \in Lists, Popped(k)'
        PROVE  /\ loop'[k].push \in 1 .. Len(pushes')
               /\ \A i \in DOMAIN heard'[k] : heard'[k][i] < loop'[k].push
    <3>1. CASE k = l
      BY <1>1, <1>4, <1>6, <1>8, <3>1
    <3>2. CASE k # l
      BY <1>1, <1>6, <2>1, <3>2 DEF PlacesInv, PoppedIsOwn
    <3> QED
      BY <3>1, <3>2
  <2>2. ASSUME NEW k \in Lists, NEW m \in Lists, k # m, Popped(k)'
        PROVE  /\ \A i \in DOMAIN heard'[m] : heard'[m][i] # loop'[k].push
               /\ Popped(m)' => loop'[m].push # loop'[k].push
    <3>1. CASE k = l
      <4>1. \A i \in DOMAIN heard'[m] : heard'[m][i] # loop'[k].push
        BY <1>1, <1>4, <1>6, <1>8, <3>1
      <4>2. ASSUME Popped(m)' PROVE loop'[m].push # loop'[k].push
        <5>1. Popped(m) /\ loop'[m] = loop[m]
          BY <1>6, <2>2, <3>1, <4>2
        <5> QED
          BY <1>4, <1>6, <1>9, <3>1, <5>1
      <4> QED
        BY <4>1, <4>2
    <3>2. CASE m = l
      <4>1. Popped(k) /\ loop'[k] = loop[k]
        BY <1>6, <2>2, <3>2
      <4>2. \A i \in DOMAIN heard'[m] : heard'[m][i] # loop'[k].push
        BY <1>1, <2>2, <4>1 DEF PlacesInv, PoppedIsOwn
      <4>3. loop'[m].push # loop'[k].push
        BY <1>4, <1>6, <1>9, <3>2, <4>1
      <4> QED
        BY <4>2, <4>3
    <3>3. CASE k # l /\ m # l
      BY <1>1, <1>6, <2>2, <3>3 DEF PlacesInv, PoppedIsOwn
    <3> QED
      BY <3>1, <3>2, <3>3
  <2> QED
    BY <2>1, <2>2 DEF PoppedIsOwn
<1>12. HeardIsOwn'
  BY <1>1 DEF PlacesInv, HeardIsOwn
<1> QED
  BY <1>7, <1>10, <1>11, <1>12 DEF PlacesInv


\* What was popped is read: its handler starts, or the text is skipped.
LEMMA PlacesRead == ASSUME PlacesInv, NEW l \in Lists, Transport!Read(l) PROVE PlacesInv'
<1> DEFINE p == loop[l].push
<1>0. /\ sent \in Nat /\ outbox \in Seq(Posts) /\ arrived \in 0 .. Len(outbox)
      /\ pushes \in Seq(1 .. MaxSent) /\ store \in Seq(1 .. Len(pushes)) /\ Len(pushes) \in Nat
      /\ loop \in [Lists -> LoopStates] /\ heard \in [Lists -> Seq(1 .. Len(pushes))]
  BY DEF PlacesInv, PlaceTypes
<1>1. /\ loop[l].pc = "popped" /\ Popped(l)
      /\ UNCHANGED <<sent, outbox, arrived, pushes, store>>
  BY DEF Transport!Read, Transport!sendVars, Popped
<1>2. CASE pushes[p] \in Malformed
  <2> DEFINE s == Transport!Again(l)
  <2>1. loop' = [loop EXCEPT ![l] = s] /\ heard' = heard
    BY <1>2 DEF Transport!Read
  <2>2. s \in LoopStates /\ s.pc # "popped"
    BY DEF Transport!Again, Transport!Idle, LoopStates
  <2> HIDE DEF s
  <2>3. /\ loop' \in [Lists -> LoopStates]
        /\ \A k \in Lists : loop'[k].pc = "popped" => loop'[k] = loop[k]
    BY <1>0, <2>1, <2>2
  <2> QED
    BY <1>0, <1>1, <2>1, <2>3, PlacesStay
<1>3. CASE pushes[p] \notin Malformed
  <2>1. /\ loop' = [loop EXCEPT ![l].pc = "handling"]
        /\ heard' = [heard EXCEPT ![l] = Append(heard[l], p)]
    BY <1>3 DEF Transport!Read
  <2>2. /\ p \in 1 .. Len(pushes) /\ p \in Nat
        /\ \A i \in DOMAIN heard[l] : heard[l][i] < p
        /\ \A j \in DOMAIN store : p < store[j]
        /\ \A k \in Lists : k # l => \A i \in DOMAIN heard[k] : heard[k][i] # p
        /\ \A k \in Lists : k # l /\ Popped(k) => loop[k].push # p
    BY <1>0, <1>1 DEF PlacesInv, PoppedIsOwn, StoreIsInOrder
  <2> HIDE DEF p
  <2>3. heard[l] \in Seq(1 .. Len(pushes))
    BY <1>0
  <2>4. /\ Append(heard[l], p) \in Seq(1 .. Len(pushes))
        /\ DOMAIN Append(heard[l], p) = 1 .. Len(heard[l]) + 1
        /\ DOMAIN heard[l] = 1 .. Len(heard[l]) /\ Len(heard[l]) \in Nat
        /\ \A i \in 1 .. Len(heard[l]) : Append(heard[l], p)[i] = heard[l][i]
        /\ Append(heard[l], p)[Len(heard[l]) + 1] = p
    BY <2>2, <2>3
  <2>5. /\ heard' \in [Lists -> Seq(1 .. Len(pushes))] /\ heard'[l] = Append(heard[l], p)
        /\ \A k \in Lists : k # l => heard'[k] = heard[k]
    <3> DEFINE h == Append(heard[l], p)
    <3>1. h \in Seq(1 .. Len(pushes)) /\ heard' = [heard EXCEPT ![l] = h]
      BY <2>1, <2>4
    <3> HIDE DEF h
    <3>2. /\ heard' \in [Lists -> Seq(1 .. Len(pushes))] /\ heard'[l] = h
          /\ \A k \in Lists : k # l => heard'[k] = heard[k]
      BY <1>0, <3>1
    <3> QED
      BY <3>2 DEF h
  <2>6. ASSUME NEW i \in DOMAIN heard'[l]
        PROVE  \/ i \in DOMAIN heard[l] /\ heard'[l][i] = heard[l][i]
               \/ i = Len(heard[l]) + 1 /\ heard'[l][i] = p
    <3>1. i \in 1 .. Len(heard[l]) + 1
      BY <2>4, <2>5, <2>6
    <3>2. CASE i \in 1 .. Len(heard[l])
      BY <2>4, <2>5, <3>2
    <3>3. CASE i = Len(heard[l]) + 1
      BY <2>4, <2>5, <3>3
    <3> QED
      BY <2>4, <3>1, <3>2, <3>3
  <2>7. /\ loop' \in [Lists -> LoopStates] /\ ~Popped(l)'
        /\ \A k \in Lists : k # l => (Popped(k)' <=> Popped(k)) /\ loop'[k] = loop[k]
    BY <1>0, <2>1 DEF LoopStates, Popped
  <2>8. PlaceTypes'
    BY <1>0, <1>1, <2>5, <2>7 DEF PlaceTypes
  <2>9. ASSUME NEW k \in Lists, NEW i \in DOMAIN heard'[k]
        PROVE  \/ i \in DOMAIN heard[k] /\ heard'[k][i] = heard[k][i]
               \/ k = l /\ heard'[k][i] = p
    <3>1. CASE k = l
      BY <2>6, <3>1
    <3>2. CASE k # l
      <4>1. heard'[k] = heard[k]
        BY <2>5, <3>2
      <4> QED
        BY <4>1
    <3> QED
      BY <3>1, <3>2
  <2>10. StoreIsInOrder'
    <3>1. \A i, j \in DOMAIN store' : i < j => store'[j] < store'[i]
      BY <1>1 DEF PlacesInv, StoreIsInOrder
    <3>2. \A k \in Lists : \A i \in DOMAIN heard'[k] : \A j \in DOMAIN store' : heard'[k][i] < store'[j]
      BY <1>1, <2>2, <2>9 DEF PlacesInv, StoreIsInOrder
    <3>3. \A k \in Lists : Popped(k)' => \A j \in DOMAIN store' : loop'[k].push < store'[j]
      BY <1>1, <2>7 DEF PlacesInv, StoreIsInOrder
    <3> QED
      BY <3>1, <3>2, <3>3 DEF StoreIsInOrder
  <2>11. PoppedIsOwn'
    <3>1. ASSUME NEW k \in Lists, Popped(k)'
          PROVE  /\ k # l /\ Popped(k) /\ loop'[k] = loop[k] /\ heard'[k] = heard[k]
                 /\ loop[k].push # p
      BY <2>2, <2>5, <2>7, <3>1
    <3>2. \A k \in Lists : Popped(k)' => /\ loop'[k].push \in 1 .. Len(pushes')
                                         /\ \A i \in DOMAIN heard'[k] : heard'[k][i] < loop'[k].push
      BY <1>1, <3>1 DEF PlacesInv, PoppedIsOwn
    <3>3. ASSUME NEW k \in Lists, NEW m \in Lists, k # m, Popped(k)'
          PROVE  /\ \A i \in DOMAIN heard'[m] : heard'[m][i] # loop'[k].push
                 /\ Popped(m)' => loop'[m].push # loop'[k].push
      <4>1. Popped(k) /\ loop'[k] = loop[k] /\ loop[k].push # p
        BY <3>1, <3>3
      <4>2. \A i \in DOMAIN heard'[m] : heard'[m][i] # loop'[k].push
        BY <2>9, <3>3, <4>1 DEF PlacesInv, PoppedIsOwn
      <4>3. Popped(m)' => loop'[m].push # loop'[k].push
        BY <3>1, <3>3, <4>1 DEF PlacesInv, PoppedIsOwn
      <4> QED
        BY <4>2, <4>3
    <3> QED
      BY <3>2, <3>3 DEF PoppedIsOwn
  <2>12. HeardIsOwn'
    <3>1. ASSUME NEW k \in Lists, NEW i \in DOMAIN heard'[k], NEW j \in DOMAIN heard'[k], i < j
          PROVE  heard'[k][i] < heard'[k][j]
      <4>1. CASE k # l
        BY <2>5, <3>1, <4>1 DEF PlacesInv, HeardIsOwn
      <4>2. CASE k = l
        <5>1. i \in DOMAIN heard[l] /\ heard'[l][i] = heard[l][i]
          BY <2>4, <2>6, <3>1, <4>2
        <5>2. CASE j \in DOMAIN heard[l] /\ heard'[l][j] = heard[l][j]
          BY <3>1, <4>2, <5>1, <5>2 DEF PlacesInv, HeardIsOwn
        <5>3. CASE heard'[l][j] = p
          BY <2>2, <4>2, <5>1, <5>3
        <5> QED
          BY <2>6, <4>2, <5>2, <5>3
      <4> QED
        BY <4>1, <4>2
    <3>2. \A k \in Lists : \A i \in DOMAIN heard'[k] : pushes'[heard'[k][i]] \notin Malformed
      BY <1>1, <1>3, <2>9 DEF p, PlacesInv, HeardIsOwn
    <3>3. ASSUME NEW k \in Lists, NEW m \in Lists, k # m,
                 NEW i \in DOMAIN heard'[k], NEW j \in DOMAIN heard'[m]
          PROVE  heard'[k][i] # heard'[m][j]
      <4>1. CASE k # l /\ m # l
        <5>1. heard'[k] = heard[k] /\ heard'[m] = heard[m]
          BY <2>5, <4>1
        <5> QED
          BY <3>3, <5>1 DEF PlacesInv, HeardIsOwn
      <4>2. CASE k = l
        <5>1. m # l /\ heard'[m] = heard[m] /\ heard[m][j] # p
          BY <2>2, <2>5, <3>3, <4>2
        <5>2. CASE i \in DOMAIN heard[l] /\ heard'[l][i] = heard[l][i]
          BY <3>3, <4>2, <5>1, <5>2 DEF PlacesInv, HeardIsOwn
        <5> QED
          BY <2>6, <4>2, <5>1, <5>2
      <4>3. CASE m = l
        <5>1. k # l /\ heard'[k] = heard[k] /\ heard[k][i] # p
          BY <2>2, <2>5, <3>3, <4>3
        <5>2. CASE j \in DOMAIN heard[l] /\ heard'[l][j] = heard[l][j]
          BY <3>3, <4>3, <5>1, <5>2 DEF PlacesInv, HeardIsOwn
        <5> QED
          BY <2>6, <4>3, <5>1, <5>2
      <4> QED
        BY <4>1, <4>2, <4>3
    <3> QED
      BY <3>1, <3>2, <3>3 DEF HeardIsOwn
  <2> QED
    BY <2>8, <2>10, <2>11, <2>12 DEF PlacesInv
<1> QED
  BY <1>2, <1>3

\* One list's loop is set anew.
LEMMA LoopIsSet ==
    ASSUME PlaceTypes, NEW l \in Lists, NEW s \in LoopStates, s.pc # "popped",
           loop' = [loop EXCEPT ![l] = s]
    PROVE  /\ loop' \in [Lists -> LoopStates]
           /\ \A k \in Lists : loop'[k].pc = "popped" => loop'[k] = loop[k]
BY DEF PlaceTypes

\* A loop that is told what it popped is lost asks again.
LEMMA LoopsForget ==
    ASSUME PlaceTypes, NEW c, loop' = Transport!Forgotten(c)
    PROVE  /\ loop' \in [Lists -> LoopStates]
           /\ \A k \in Lists : loop'[k].pc = "popped" => loop'[k] = loop[k]
<1>1. loop \in [Lists -> LoopStates]
  BY DEF PlaceTypes
<1>2. loop' = [k \in Lists |-> IF k = c /\ loop[k].pc = "popped"
                                    THEN [pc |-> "asked", push |-> 0] ELSE loop[k]]
  BY DEF Transport!Forgotten, Transport!Idle
<1>3. [pc |-> "asked", push |-> 0] \in LoopStates
  BY DEF LoopStates
<1> QED
  BY <1>1, <1>2, <1>3

\* How a loop idles.
LEMMA IdleLoops ==
    /\ Transport!Idle("asked") \in LoopStates /\ Transport!Idle("asked").pc # "popped"
    /\ Transport!Idle("done") \in LoopStates /\ Transport!Idle("done").pc # "popped"
    /\ \A l : Transport!Again(l) \in LoopStates /\ Transport!Again(l).pc # "popped"
BY DEF Transport!Idle, Transport!Again, LoopStates


\* Every step of the transport keeps PlacesInv.
LEMMA PlacesGoOn == PlacesInv /\ [Transport!Next]_(Transport!vars) => PlacesInv'
<1> SUFFICES ASSUME PlacesInv, [Transport!Next]_(Transport!vars) PROVE PlacesInv'
  OBVIOUS
<1>0. /\ PlaceTypes
      /\ sent \in Nat /\ outbox \in Seq(Posts) /\ arrived \in 0 .. Len(outbox) /\ Len(outbox) \in Nat
      /\ loop \in [Lists -> LoopStates]
  BY DEF PlacesInv, PlaceTypes
<1>1. CASE Transport!Push
  BY <1>1, PlacesPush
<1>2. CASE Transport!Acknowledged
  <2>1. /\ arrived > 0 /\ arrived' = arrived - 1 /\ outbox' = Tail(outbox)
        /\ Transport!Settled(Head(outbox), TRUE) /\ UNCHANGED <<sent, pushes, store, heard>>
    BY <1>2 DEF Transport!Acknowledged
  <2> DEFINE x == Head(outbox)
  <2>2. x \in Posts /\ outbox' \in Seq(Posts) /\ Len(outbox') = Len(outbox) - 1
    BY <1>0, <2>1
  <2>3. arrived' \in 0 .. Len(outbox')
    BY <1>0, <2>1, <2>2
  <2>4. /\ x[1] = "message" => loop' = loop
        /\ x[1] # "message" => loop' = [loop EXCEPT ![x[2]] = Transport!Idle("done")]
    BY <2>1 DEF Transport!Settled
  <2>5. x[1] # "message" => x[2] \in Lists
    BY <2>2 DEF Posts
  <2> HIDE DEF x
  <2>6. /\ loop' \in [Lists -> LoopStates]
        /\ \A k \in Lists : loop'[k].pc = "popped" => loop'[k] = loop[k]
    BY <1>0, <2>4, <2>5, IdleLoops, LoopIsSet
  <2> QED
    BY <1>0, <2>1, <2>2, <2>3, <2>6, PlacesStay
<1>3. ASSUME NEW c \in Transport!Connections, Transport!Connect(c) PROVE PlacesInv'
  BY <1>0, <1>3, PlacesStay DEF Transport!Connect, Transport!sendVars, Transport!listVars
<1>4. ASSUME NEW c \in Transport!Connections, Transport!Close(c) PROVE PlacesInv'
  <2>1. UNCHANGED <<sent, pushes, store, heard>>
    BY <1>4 DEF Transport!Close
  <2>2. CASE c = Main
    <3>1. /\ outbox' = <<>> /\ arrived' = 0
          /\ loop' = [l \in Lists |-> IF Transport!Replying(l) THEN Transport!Idle("done")
                                                                    ELSE loop[l]]
      BY <1>4, <2>2 DEF Transport!Close
    <3>2. /\ loop' \in [Lists -> LoopStates]
          /\ \A k \in Lists : loop'[k].pc = "popped" => loop'[k] = loop[k]
      BY <1>0, <3>1, IdleLoops
    <3>3. outbox' \in Seq(Posts) /\ arrived' \in 0 .. Len(outbox')
      BY <3>1
    <3> QED
      BY <1>0, <2>1, <3>2, <3>3, PlacesStay
  <2>3. CASE c # Main
    <3>1. loop' = Transport!Forgotten(c) /\ UNCHANGED <<outbox, arrived>>
      BY <1>4, <2>3 DEF Transport!Close
    <3> QED
      BY <1>0, <2>1, <3>1, LoopsForget, PlacesStay
  <2> QED
    BY <2>2, <2>3
<1>5. CASE Transport!Send
  <2>1. /\ sent < MaxSent /\ sent' = sent + 1 /\ UNCHANGED <<arrived, pushes, store, loop, heard>>
        /\ outbox' = IF conn[Main] = "ended" THEN outbox
                     ELSE Append(outbox, <<"message", sent + 1>>)
    BY <1>5 DEF Transport!Send, Transport!listVars
  <2>2. MaxSent \in Nat
    BY ListTransportAssumption DEF Transport!TransportAssumption
  <2>3. <<"message", sent + 1>> \in Posts
    BY <1>0, <2>1, <2>2 DEF Posts
  <2>4. outbox' \in Seq(Posts) /\ arrived' \in 0 .. Len(outbox') /\ sent' \in Nat
    <3> DEFINE x == <<"message", sent + 1>>
    <3>1. x \in Posts /\ outbox' = IF conn[Main] = "ended" THEN outbox ELSE Append(outbox, x)
      BY <2>1, <2>3
    <3> HIDE DEF x
    <3>2. sent' \in Nat
      BY <1>0, <2>1
    <3>3. Append(outbox, x) \in Seq(Posts) /\ Len(Append(outbox, x)) = Len(outbox) + 1
      BY <1>0, <3>1
    <3>4. outbox' \in Seq(Posts) /\ arrived' \in 0 .. Len(outbox')
      BY <1>0, <2>1, <3>1, <3>3
    <3> QED
      BY <3>2, <3>4
  <2> QED
    BY <1>0, <2>1, <2>4, PlacesStay
<1>6. ASSUME NEW c \in Transport!Connections, Transport!Break(c) PROVE PlacesInv'
  <2>1. /\ loop' = Transport!Forgotten(c) /\ UNCHANGED <<sent, outbox, pushes, store, heard>>
        /\ arrived' = IF c = Main THEN 0 ELSE arrived
    BY <1>6 DEF Transport!Break
  <2>2. arrived' \in 0 .. Len(outbox')
    BY <1>0, <2>1
  <2> QED
    BY <1>0, <2>1, <2>2, LoopsForget, PlacesStay
<1>7. ASSUME NEW l \in Lists, Transport!Subscribe(l) PROVE PlacesInv'
  <2>1. /\ UNCHANGED <<sent, outbox, arrived, pushes, store, heard>>
        /\ loop' = [loop EXCEPT ![l] = Transport!Idle("asked")]
    BY <1>7 DEF Transport!Subscribe, Transport!sendVars
  <2> QED
    BY <1>0, <2>1, IdleLoops, LoopIsSet, PlacesStay
<1>8. ASSUME NEW l \in Lists, Transport!LoopStep(l) PROVE PlacesInv'
  <2>1. CASE Transport!Read(l)
    BY <2>1, PlacesRead
  <2>2. CASE Transport!ReadNothing(l) \/ Transport!GoesOn(l)
    <3>1. /\ UNCHANGED <<sent, outbox, arrived, pushes, store, heard>>
          /\ loop' = [loop EXCEPT ![l] = Transport!Again(l)]
      BY <2>2 DEF Transport!ReadNothing, Transport!GoesOn, Transport!sendVars
    <3> QED
      BY <1>0, <3>1, IdleLoops, LoopIsSet, PlacesStay
  <2>3. CASE Transport!HandlerSettles(l)
    <3>1. /\ UNCHANGED <<sent, outbox, arrived, pushes, store, heard>>
          /\ loop' = [loop EXCEPT ![l] = Transport!Idle("done")]
      BY <2>3 DEF Transport!HandlerSettles, Transport!sendVars
    <3> QED
      BY <1>0, <3>1, IdleLoops, LoopIsSet, PlacesStay
  <2>4. CASE Transport!HandlerReplies(l)
    <3>1. UNCHANGED <<sent, arrived, pushes, store, heard>>
      BY <2>4 DEF Transport!HandlerReplies
    <3>2. CASE conn[Main] = "ended"
      <4>1. outbox' = outbox /\ Transport!Settled(<<"reply", l>>, FALSE)
        BY <2>4, <3>2 DEF Transport!HandlerReplies
      <4>2. loop' = [loop EXCEPT ![l] = Transport!Idle("done")]
        BY <4>1 DEF Transport!Settled
      <4> QED
        BY <1>0, <3>1, <4>1, <4>2, IdleLoops, LoopIsSet, PlacesStay
    <3>3. CASE conn[Main] # "ended"
      <4> DEFINE x == <<"reply", l>>  s == [loop[l] EXCEPT !.pc = "replying"]
      <4>1. outbox' = Append(outbox, x) /\ loop' = [loop EXCEPT ![l] = s]
        BY <1>0, <2>4, <3>3 DEF Transport!HandlerReplies
      <4>2. x \in Posts /\ s \in LoopStates /\ s.pc # "popped"
        BY <1>0 DEF Posts, LoopStates
      <4> HIDE DEF x, s
      <4>3. outbox' \in Seq(Posts) /\ arrived' \in 0 .. Len(outbox')
        BY <1>0, <3>1, <4>1, <4>2
      <4> QED
        BY <1>0, <3>1, <4>1, <4>2, <4>3, LoopIsSet, PlacesStay
    <3> QED
      BY <3>2, <3>3
  <2> QED
    BY <1>8, <2>1, <2>2, <2>3, <2>4 DEF Transport!LoopStep
<1>9. ASSUME NEW c \in DisposeCalls, Transport!CallDispose(c) \/ Transport!DisposeStep(c)
      PROVE  PlacesInv'
  <2>1. UNCHANGED <<sent, outbox, arrived, pushes, store, loop, heard>>
    BY <1>9 DEF Transport!CallDispose, Transport!DisposeStep, Transport!Skips,
                Transport!DisposeDispatcher, Transport!DisposeQueue, Transport!DisposeTransport,
                Transport!DisposeRegistered, Transport!AwaitClosed, Transport!DisposeReader,
                Transport!DisposeList, Transport!Unsubscribe, Transport!AwaitLoop, Transport!Reset,
                Transport!othersVars, Transport!sendVars
  <2> QED
    BY <1>0, <2>1, PlacesStay
<1>10. CASE UNCHANGED Transport!vars
  <2>1. UNCHANGED <<sent, outbox, arrived, pushes, store, loop, heard>>
    BY <1>10 DEF Transport!vars, Transport!sendVars, Transport!listVars
  <2> QED
    BY <1>0, <2>1, PlacesStay
<1> QED
  BY <1>1, <1>2, <1>3, <1>4, <1>5, <1>6, <1>7, <1>8, <1>9, <1>10, PlacesPop
  DEF Transport!Next, Transport!ServerStep

\* No push is handled twice, and each list hears the messages in the order of the pushes.
THEOREM TransportHandlesInOrder == Transport!Spec => []HandledInOrder
<1>1. PlacesInv => HandledInOrder
  BY DEF PlacesInv, HeardIsOwn, HandledInOrder, Transport!HandledInOrder, Transport!ToSet
<1> QED
  BY <1>1, PlacesBegin, PlacesGoOn, PTL DEF Transport!Spec


------------------------------------------------------------------------------
(***************************************************************************)
(* RedisTransport: what a shutdown has to do is done, or on an agenda.     *)
(***************************************************************************)

NodeKinds == {"dispatcher", "queue", "transport", "closed", "registered", "reader", "list",
          "unsubscribe", "loop", "reset"}
Nodes == NodeKinds \X Transport!Connections
OfLists == {"reader", "list", "unsubscribe", "loop", "reset"}

ConnStates == {"none", "connecting", "waiting", "open", "closing", "ended"}

ShutdownTypes ==
    /\ breaks \in Nat /\ order \in Seq(Lists) /\ inTime \subseteq Lists
    /\ conn \in [Transport!Connections -> ConnStates] /\ closed \subseteq Transport!Connections
    /\ watched \in [Lists -> BOOLEAN] /\ told \in [Lists -> SUBSET (Nat \X BOOLEAN)]
    /\ agenda \in [DisposeCalls -> Seq(Nodes)]

Subscribed(l) == \E i \in DOMAIN order : order[i] = l

\* A list that was never subscribed has no connection and no loop.
SubscribedRun ==
    \A l \in Lists : /\ Subscribed(l) <=> conn[l] # "none"
                     /\ Subscribed(l) <=> loop[l].pc # "none"

\* A reply that was not settled is one, and its loop waits for it.
RepliesAreAwaited ==
    \A i \in DOMAIN outbox : \A l \in Lists : outbox[i] = <<"reply", l>> =>
        /\ loop[l].pc = "replying"
        /\ \A j \in DOMAIN outbox : outbox[j] = outbox[i] => j = i

\* While the loop runs the watcher is there, and was told of all but the one in hand.
AllButOneTold ==
    \A l \in Lists :
        /\ watched[l] \/ loop[l].pc \in {"none", "ended"}
        /\ Transport!ToSet(heard[l]) =
               {v[1] : v \in told[l]} \cup
               IF loop[l].pc \in {"handling", "replying"} THEN {loop[l].push} ELSE {}

ClosedOrBroken == \A x \in closed : conn[x] = "ended" \/ breaks > 0

OnAgenda(c, n) == \E i \in DOMAIN agenda[c] : agenda[c][i] = n
Planned(n) == n \in visited \/ \E c \in DisposeCalls : OnAgenda(c, n)

\* What is planned for a list is planned for one that was subscribed, and what was
\* visited had its effect, or what is to follow is planned.
PlansAreKept ==
    /\ \A l \in Lists : \A k \in OfLists : Planned(<<k, l>>) => Subscribed(l)
    /\ \A l \in inTime : Planned(<<"list", l>>) /\ Planned(<<"reader", l>>)
    /\ \A l \in Lists :
        /\ <<"list", l>> \in visited => Planned(<<"reset", l>>)
        /\ <<"reader", l>> \in visited => Planned(<<"closed", l>>)
        /\ <<"closed", l>> \in visited => l \in closed
        /\ <<"loop", l>> \in visited => loop[l].pc = "ended"
        /\ <<"reset", l>> \in visited => loop[l].pc = "ended" /\ ~watched[l]

\* Only the caller that disposes of a list tells its loop to end.
OneUnsubscribes ==
    \A l \in Lists :
        /\ Planned(<<"unsubscribe", l>>) => <<"list", l>> \in visited
        /\ \A c, d \in DisposeCalls :
               OnAgenda(c, <<"unsubscribe", l>>) /\ OnAgenda(d, <<"unsubscribe", l>>) => c = d

\* Ahead of each reset the loop is waited for, unless it has ended.
WaitsAhead(c, i, l) ==
    \E j \in DOMAIN agenda[c] : /\ j < i /\ agenda[c][j] \notin visited
                                /\ agenda[c][j] \in {<<"unsubscribe", l>>, <<"loop", l>>}
ResetsWait ==
    \A l \in Lists : \A c \in DisposeCalls : \A i \in DOMAIN agenda[c] :
        agenda[c][i] = <<"reset", l>> => <<"loop", l>> \in visited \/ WaitsAhead(c, i, l)

NetInv ==
    ShutdownTypes /\ SubscribedRun /\ RepliesAreAwaited /\ AllButOneTold /\ ClosedOrBroken
PlanInv == PlansAreKept /\ OneUnsubscribes /\ ResetsWait
ShutdownInv == NetInv /\ PlanInv


\* The agendas stay, and the lists go on.
LEMMA PlansStay ==
    ASSUME PlanInv, UNCHANGED <<agenda, visited, inTime>>, closed \subseteq closed',
           \A l \in Lists :
               /\ Subscribed(l) => Subscribed(l)'
               /\ loop[l].pc = "ended" => loop'[l].pc = "ended"
               /\ Subscribed(l) /\ watched'[l] => watched[l]
    PROVE  PlanInv'
<1>1. \A n : Planned(n)' <=> Planned(n)
  BY DEF Planned, OnAgenda
<1>2. PlansAreKept'
  <2>1. \A l \in Lists : \A k \in OfLists : Planned(<<k, l>>)' => Subscribed(l)'
    BY <1>1 DEF PlanInv, PlansAreKept
  <2>2. \A l \in inTime' : Planned(<<"list", l>>)' /\ Planned(<<"reader", l>>)'
    BY <1>1 DEF PlanInv, PlansAreKept
  <2>3. ASSUME NEW l \in Lists, <<"reset", l>> \in visited
        PROVE  loop'[l].pc = "ended" /\ ~watched'[l]
    <3>1. "reset" \in OfLists /\ Planned(<<"reset", l>>)
      BY <2>3 DEF OfLists, Planned
    <3>2. Subscribed(l) /\ loop[l].pc = "ended" /\ ~watched[l]
      BY <2>3, <3>1 DEF PlanInv, PlansAreKept
    <3> QED
      BY <3>2
  <2>4. ASSUME NEW l \in Lists
        PROVE  /\ <<"list", l>> \in visited' => Planned(<<"reset", l>>)'
               /\ <<"reader", l>> \in visited' => Planned(<<"closed", l>>)'
               /\ <<"closed", l>> \in visited' => l \in closed'
               /\ <<"loop", l>> \in visited' => loop'[l].pc = "ended"
    BY <1>1 DEF PlanInv, PlansAreKept
  <2> QED
    BY <2>1, <2>2, <2>3, <2>4 DEF PlansAreKept
<1>3. OneUnsubscribes'
  <2>1. \A d \in DisposeCalls : \A n : OnAgenda(d, n)' <=> OnAgenda(d, n)
    BY DEF OnAgenda
  <2> QED
    BY <1>1, <2>1 DEF PlanInv, OneUnsubscribes
<1>4. ResetsWait'
  BY DEF PlanInv, ResetsWait, WaitsAhead
<1> QED
  BY <1>2, <1>3, <1>4 DEF PlanInv

Among(n, ns) == \E i \in DOMAIN ns : ns[i] = n

\* What a caller that takes n off its agenda puts there, and what it has seen.
Follow(n, ns) ==
    /\ \A i \in DOMAIN ns : \A l \in Lists :
        /\ \A k \in OfLists : ns[i] = <<k, l>> => Subscribed(l)
        /\ ns[i] = <<"unsubscribe", l>> => n = <<"list", l>>
        /\ ns[i] = <<"reset", l>> =>
               n = <<"list", l>> /\ i = 3 /\ 2 \in DOMAIN ns /\ ns[2] = <<"unsubscribe", l>>
    /\ \A l \in Lists :
        /\ n = <<"unsubscribe", l>> => 1 \in DOMAIN ns /\ ns[1] = <<"loop", l>>
        /\ n = <<"list", l>> => Among(<<"reset", l>>, ns)
        /\ n = <<"reader", l>> => Among(<<"closed", l>>, ns)
        /\ n = <<"closed", l>> => l \in closed
        /\ n = <<"loop", l>> => loop[l].pc = "ended"

\* The agenda of a caller that walks, place by place.
LEMMA WalksAlong ==
    ASSUME agenda \in [DisposeCalls -> Seq(Nodes)], NEW c \in DisposeCalls, NEW n,
           NEW ns \in Seq(Nodes), Transport!Walks(c, n, ns)
    PROVE  /\ agenda' \in [DisposeCalls -> Seq(Nodes)]
           /\ \A d \in DisposeCalls : d # c => agenda'[d] = agenda[d]
           /\ DOMAIN agenda[c] = 1 .. Len(agenda[c]) /\ Len(agenda[c]) \in Nat /\ Len(agenda[c]) > 0
           /\ DOMAIN ns = 1 .. Len(ns) /\ Len(ns) \in Nat
           /\ DOMAIN agenda'[c] = 1 .. Len(ns) + Len(agenda[c]) - 1
           /\ \A i \in 1 .. Len(ns) : agenda'[c][i] = ns[i]
           /\ \A i \in 2 .. Len(agenda[c]) : agenda'[c][Len(ns) + i - 1] = agenda[c][i]
           /\ agenda[c][1] = n /\ n \notin visited /\ visited' = visited \cup {n}
<1>1. /\ agenda[c] # <<>> /\ Head(agenda[c]) = n /\ n \notin visited
      /\ agenda' = [agenda EXCEPT ![c] = ns \o Tail(agenda[c])] /\ visited' = visited \cup {n}
  BY DEF Transport!Walks
<1> DEFINE a == agenda[c]  t == Tail(a)  b == ns \o t
<1>2. a \in Seq(Nodes)
  OBVIOUS
<1>3. /\ DOMAIN a = 1 .. Len(a) /\ Len(a) \in Nat /\ Len(a) > 0 /\ a[1] = n
      /\ t \in Seq(Nodes) /\ Len(t) = Len(a) - 1 /\ \A i \in 1 .. Len(a) - 1 : t[i] = a[i + 1]
  <2>1. a # <<>> /\ Head(a) = n
    BY <1>1
  <2> HIDE DEF a
  <2> QED
    BY <1>2, <2>1
<1> HIDE DEF t
<1>4. /\ b \in Seq(Nodes) /\ Len(b) = Len(ns) + Len(t) /\ Len(ns) \in Nat /\ DOMAIN ns = 1 .. Len(ns)
      /\ \A i \in 1 .. Len(ns) : b[i] = ns[i]
      /\ \A i \in 1 .. Len(t) : b[Len(ns) + i] = t[i]
  <2>1. ns \in Seq(Nodes) /\ t \in Seq(Nodes) /\ Len(ns) \in Nat /\ DOMAIN ns = 1 .. Len(ns) /\ Len(t) \in Nat
    BY <1>3
  <2>2. b \in Seq(Nodes) /\ Len(b) = Len(ns) + Len(t)
    BY <2>1
  <2>3. \A i \in 1 .. Len(ns) : b[i] = ns[i]
    BY <2>1
  <2>4. ASSUME NEW i \in 1 .. Len(t) PROVE b[Len(ns) + i] = t[i]
    <3>1. Len(ns) + i \in 1 .. Len(ns) + Len(t) /\ ~(Len(ns) + i <= Len(ns)) /\ (Len(ns) + i) - Len(ns) = i
      BY <2>1
    <3> QED
      BY <2>1, <3>1
  <2> QED
    BY <2>1, <2>2, <2>3, <2>4
<1>5. agenda' = [agenda EXCEPT ![c] = b]
  BY <1>1 DEF t
<1> HIDE DEF a, b
<1>6. agenda' \in [DisposeCalls -> Seq(Nodes)] /\ agenda'[c] = b
      /\ \A d \in DisposeCalls : d # c => agenda'[d] = agenda[d]
  BY <1>4, <1>5
<1>7. DOMAIN b = 1 .. Len(ns) + Len(a) - 1
  BY <1>3, <1>4
<1>8. ASSUME NEW i \in 2 .. Len(a) PROVE b[Len(ns) + i - 1] = a[i]
  <2>1. i - 1 \in 1 .. Len(t) /\ i - 1 \in 1 .. Len(a) - 1 /\ (i - 1) + 1 = i
        /\ Len(ns) + (i - 1) = Len(ns) + i - 1
    BY <1>3, <1>4
  <2>2. b[Len(ns) + (i - 1)] = t[i - 1] /\ t[i - 1] = a[(i - 1) + 1]
    BY <1>3, <1>4, <2>1
  <2> QED
    BY <2>1, <2>2
<1> QED
  BY <1>1, <1>3, <1>4, <1>6, <1>7, <1>8 DEF a


\* A caller that walks as it should keeps the plans.
LEMMA PlansFollow ==
    ASSUME PlanInv, agenda \in [DisposeCalls -> Seq(Nodes)],
           NEW c \in DisposeCalls, NEW n, NEW ns \in Seq(Nodes), Transport!Walks(c, n, ns),
           Follow(n, ns), UNCHANGED <<order, closed, loop>>,
           \A l \in Lists : watched'[l] => watched[l] /\ n # <<"reset", l>>,
           \A l \in inTime' : l \in inTime \/ (Among(<<"list", l>>, ns) /\ Among(<<"reader", l>>, ns))
    PROVE  PlanInv'
<1> DEFINE a == agenda[c]  b == agenda'[c]  m == Len(ns)
<1>1. /\ \A d \in DisposeCalls : d # c => agenda'[d] = agenda[d]
      /\ DOMAIN a = 1 .. Len(a) /\ Len(a) \in Nat /\ Len(a) > 0
      /\ DOMAIN ns = 1 .. m /\ m \in Nat /\ DOMAIN b = 1 .. m + Len(a) - 1
      /\ \A i \in 1 .. m : b[i] = ns[i]
      /\ \A i \in 2 .. Len(a) : b[m + i - 1] = a[i]
      /\ a[1] = n /\ n \notin visited /\ visited' = visited \cup {n}
  BY WalksAlong
<1>2. OnAgenda(c, n) /\ Planned(n)
  <2>1. 1 \in DOMAIN a /\ a[1] = n
    BY <1>1
  <2> HIDE DEF a
  <2>2. OnAgenda(c, n)
    BY <2>1 DEF OnAgenda, a
  <2> QED
    BY <2>2 DEF Planned
<1> HIDE DEF a, b, m
<1>3. ASSUME NEW i \in DOMAIN b
      PROVE  \/ i \in DOMAIN ns /\ b[i] = ns[i]
             \/ i > m /\ i - m + 1 \in 2 .. Len(a) /\ b[i] = a[i - m + 1]
  <2>1. CASE i <= m
    BY <1>1, <2>1
  <2>2. CASE i > m
    <3> DEFINE k == i - m + 1
    <3>1. k \in 2 .. Len(a) /\ m + k - 1 = i
      BY <1>1, <2>2
    <3>2. b[m + k - 1] = a[k]
      BY <1>1, <3>1
    <3> QED
      BY <2>2, <3>1, <3>2
  <2> QED
    BY <1>1, <2>1, <2>2
<1>4. \A i \in 2 .. Len(a) : m + i - 1 \in DOMAIN b /\ m + i - 1 > m /\ b[m + i - 1] = a[i] /\ i \in DOMAIN a
  BY <1>1
<1>5. \A i \in DOMAIN ns : i \in DOMAIN b /\ b[i] = ns[i]
  BY <1>1
<1>6. \A x : OnAgenda(c, x)' => OnAgenda(c, x) \/ Among(x, ns)
  BY <1>3, <1>4 DEF OnAgenda, Among, a, b
<1>7. \A x : OnAgenda(c, x) => x = n \/ OnAgenda(c, x)'
  <2> SUFFICES ASSUME NEW x, NEW i \in DOMAIN a, a[i] = x PROVE x = n \/ OnAgenda(c, x)'
    BY DEF OnAgenda, a
  <2>1. CASE i = 1
    BY <1>1, <2>1
  <2>2. CASE i # 1
    <3>1. i \in 2 .. Len(a)
      BY <1>1, <2>2
    <3> QED
      BY <1>4, <3>1 DEF OnAgenda, b
  <2> QED
    BY <2>1, <2>2
<1>8. \A x : Among(x, ns) => OnAgenda(c, x)'
  BY <1>5 DEF OnAgenda, Among, b
<1>9. \A d \in DisposeCalls : d # c => \A x : OnAgenda(d, x)' <=> OnAgenda(d, x)
  BY <1>1 DEF OnAgenda
<1>10. \A x : Planned(x) => Planned(x)'
  BY <1>1, <1>7, <1>9 DEF Planned
<1>11. \A x : Among(x, ns) => Planned(x)'
  BY <1>8 DEF Planned
<1>12. \A x : Planned(x)' => Planned(x) \/ Among(x, ns)
  BY <1>1, <1>2, <1>6, <1>9 DEF Planned
<1>13. \A l \in Lists : Subscribed(l)' <=> Subscribed(l)
  BY DEF Subscribed
<1>14. ASSUME NEW l \in Lists, n = <<"reset", l>> PROVE loop[l].pc = "ended"
  <2>1. 1 \in DOMAIN a /\ a[1] = <<"reset", l>> /\ ~ \E j \in DOMAIN a : j < 1
    BY <1>1, <1>14
  <2>2. <<"loop", l>> \in visited
    BY <2>1 DEF PlanInv, ResetsWait, WaitsAhead, a
  <2> QED
    BY <2>2 DEF PlanInv, PlansAreKept
<1>15. PlansAreKept'
  <2>1. ASSUME NEW l \in Lists, NEW k \in OfLists, Planned(<<k, l>>)' PROVE Subscribed(l)'
    <3>1. CASE Planned(<<k, l>>)
      BY <1>13, <3>1 DEF PlanInv, PlansAreKept
    <3>2. CASE Among(<<k, l>>, ns)
      BY <1>13, <3>2 DEF Follow, Among
    <3> QED
      BY <1>12, <2>1, <3>1, <3>2
  <2>2. \A l \in inTime' : Planned(<<"list", l>>)' /\ Planned(<<"reader", l>>)'
    BY <1>10, <1>11 DEF PlanInv, PlansAreKept
  <2>3. ASSUME NEW l \in Lists, <<"list", l>> \in visited' PROVE Planned(<<"reset", l>>)'
    BY <1>1, <1>10, <1>11, <2>3 DEF PlanInv, PlansAreKept, Follow
  <2>4. ASSUME NEW l \in Lists, <<"reader", l>> \in visited' PROVE Planned(<<"closed", l>>)'
    BY <1>1, <1>10, <1>11, <2>4 DEF PlanInv, PlansAreKept, Follow
  <2>5. ASSUME NEW l \in Lists, <<"closed", l>> \in visited' PROVE l \in closed'
    BY <1>1, <2>5 DEF PlanInv, PlansAreKept, Follow
  <2>6. ASSUME NEW l \in Lists, <<"loop", l>> \in visited' PROVE loop'[l].pc = "ended"
    BY <1>1, <2>6 DEF PlanInv, PlansAreKept, Follow
  <2>7. ASSUME NEW l \in Lists, <<"reset", l>> \in visited'
        PROVE  loop'[l].pc = "ended" /\ ~watched'[l]
    BY <1>1, <1>14, <2>7 DEF PlanInv, PlansAreKept
  <2> QED
    BY <2>1, <2>2, <2>3, <2>4, <2>5, <2>6, <2>7 DEF PlansAreKept
<1>16. OneUnsubscribes'
  <2> SUFFICES ASSUME NEW l \in Lists
               PROVE  /\ Planned(<<"unsubscribe", l>>)' => <<"list", l>> \in visited'
                      /\ \A d, e \in DisposeCalls :
                             OnAgenda(d, <<"unsubscribe", l>>)' /\ OnAgenda(e, <<"unsubscribe", l>>)'
                             => d = e
    BY DEF OneUnsubscribes
  <2>1. Planned(<<"unsubscribe", l>>) => <<"list", l>> \in visited
    BY DEF PlanInv, OneUnsubscribes
  <2>2. Among(<<"unsubscribe", l>>, ns) => n = <<"list", l>>
    BY DEF Follow, Among
  <2>3. Planned(<<"unsubscribe", l>>)' => <<"list", l>> \in visited'
    BY <1>1, <1>12, <2>1, <2>2
  <2>4. Among(<<"unsubscribe", l>>, ns) => \A d \in DisposeCalls : ~OnAgenda(d, <<"unsubscribe", l>>)
    BY <1>1, <2>1, <2>2 DEF Planned
  <2>5. ASSUME NEW d \in DisposeCalls, NEW e \in DisposeCalls,
               OnAgenda(d, <<"unsubscribe", l>>)', OnAgenda(e, <<"unsubscribe", l>>)'
        PROVE  d = e
    <3>1. CASE Among(<<"unsubscribe", l>>, ns)
      BY <1>9, <2>4, <2>5, <3>1
    <3>2. CASE ~Among(<<"unsubscribe", l>>, ns)
      <4>1. OnAgenda(d, <<"unsubscribe", l>>) /\ OnAgenda(e, <<"unsubscribe", l>>)
        BY <1>6, <1>9, <2>5, <3>2
      <4> QED
        BY <4>1 DEF PlanInv, OneUnsubscribes
    <3> QED
      BY <3>1, <3>2
  <2> QED
    BY <2>3, <2>5
<1>17. ResetsWait'
  <2> SUFFICES ASSUME NEW l \in Lists, NEW d \in DisposeCalls, NEW i \in DOMAIN agenda'[d],
                      agenda'[d][i] = <<"reset", l>>, <<"loop", l>> \notin visited'
               PROVE  \E j \in DOMAIN agenda'[d] : /\ j < i /\ agenda'[d][j] \notin visited'
                                                  /\ agenda'[d][j] \in {<<"unsubscribe", l>>, <<"loop", l>>}
    BY DEF ResetsWait, WaitsAhead
  <2>1. <<"loop", l>> \notin visited /\ n # <<"loop", l>>
    BY <1>1
  <2>2. CASE d # c
    <3>1. agenda'[d] = agenda[d] /\ i \in DOMAIN agenda[d] /\ agenda[d][i] = <<"reset", l>>
      BY <1>1, <2>2
    <3>2. PICK j \in DOMAIN agenda[d] : /\ j < i /\ agenda[d][j] \notin visited
                                        /\ agenda[d][j] \in {<<"unsubscribe", l>>, <<"loop", l>>}
      BY <2>1, <3>1 DEF PlanInv, ResetsWait, WaitsAhead
    <3>3. agenda[d][j] # n
      <4> SUFFICES ASSUME agenda[d][j] = n PROVE FALSE
        OBVIOUS
      <4>1. n = <<"unsubscribe", l>>
        BY <2>1, <3>2
      <4>2. OnAgenda(d, <<"unsubscribe", l>>) /\ OnAgenda(c, <<"unsubscribe", l>>)
        BY <1>2, <4>1, <3>2 DEF OnAgenda
      <4> QED
        BY <2>2, <4>2 DEF PlanInv, OneUnsubscribes
    <3> QED
      BY <1>1, <3>1, <3>2, <3>3
  <2>3. CASE d = c
    <3>0. i \in DOMAIN b /\ b[i] = <<"reset", l>>
      BY <2>3 DEF b
    <3> SUFFICES \E j \in DOMAIN b : /\ j < i /\ b[j] \notin visited'
                                     /\ b[j] \in {<<"unsubscribe", l>>, <<"loop", l>>}
      BY <2>3 DEF b
    <3>1. CASE i \in DOMAIN ns /\ b[i] = ns[i]
      <4>1. n = <<"list", l>> /\ i = 3 /\ 2 \in DOMAIN ns /\ ns[2] = <<"unsubscribe", l>>
        BY <3>0, <3>1 DEF Follow
      <4>2. <<"unsubscribe", l>> \notin visited
        BY <1>1, <4>1 DEF PlanInv, OneUnsubscribes, Planned
      <4>3. 2 \in DOMAIN b /\ b[2] = <<"unsubscribe", l>> /\ <<"unsubscribe", l>> # n /\ 2 < i
        BY <1>5, <4>1
      <4> QED
        BY <1>1, <4>2, <4>3
    <3>2. CASE i > m /\ i - m + 1 \in 2 .. Len(a) /\ b[i] = a[i - m + 1]
      <4> DEFINE k == i - m + 1
      <4>1. k \in DOMAIN a /\ a[k] = <<"reset", l>> /\ k \in 2 .. Len(a) /\ i \in Int /\ k = i - m + 1
        BY <1>1, <3>0, <3>2
      <4> HIDE DEF k
      <4>2. PICK j \in DOMAIN a : /\ j < k /\ a[j] \notin visited
                                  /\ a[j] \in {<<"unsubscribe", l>>, <<"loop", l>>}
        BY <2>1, <4>1 DEF PlanInv, ResetsWait, WaitsAhead, a
      <4>3. CASE a[j] = n
        <5>1. n = <<"unsubscribe", l>>
          BY <2>1, <4>2, <4>3
        <5>2. 1 \in DOMAIN ns /\ ns[1] = <<"loop", l>>
          BY <5>1 DEF Follow
        <5>3. 1 \in DOMAIN b /\ b[1] = <<"loop", l>>
          BY <1>5, <5>2
        <5>4. 1 < i
          <6>1. m >= 1 /\ m \in Nat
            BY <1>1, <5>2
          <6> QED
            BY <3>2, <4>1, <6>1
        <5> QED
          BY <5>3, <5>4
      <4>4. CASE a[j] # n
        <5>1. j # 1 /\ j \in 2 .. Len(a)
          BY <1>1, <4>4
        <5>2. m + j - 1 \in DOMAIN b /\ b[m + j - 1] = a[j]
          BY <1>4, <5>1
        <5>3. m + j - 1 < i
          BY <1>1, <4>1, <4>2, <5>1
        <5> QED
          BY <1>1, <4>2, <4>4, <5>2, <5>3
      <4> QED
        BY <4>3, <4>4
    <3> QED
      BY <1>3, <3>0, <3>1, <3>2
  <2> QED
    BY <2>2, <2>3
<1> QED
  BY <1>15, <1>16, <1>17 DEF PlanInv


\* A caller that finds something begun, or done, turns to the next.
LEMMA PlansSkip ==
    ASSUME PlanInv, agenda \in [DisposeCalls -> Seq(Nodes)], NEW c \in DisposeCalls,
           agenda[c] # <<>>, Head(agenda[c]) \in visited,
           agenda' = [agenda EXCEPT ![c] = Tail(agenda[c])],
           UNCHANGED <<visited, order, closed, loop, watched, inTime>>
    PROVE  PlanInv' /\ agenda' \in [DisposeCalls -> Seq(Nodes)]
<1> DEFINE a == agenda[c]  b == Tail(a)
<1>1. a \in Seq(Nodes) /\ a # <<>> /\ Head(a) \in visited /\ agenda' = [agenda EXCEPT ![c] = b]
  OBVIOUS
<1> HIDE DEF a
<1>2. /\ DOMAIN a = 1 .. Len(a) /\ Len(a) \in Nat /\ Len(a) > 0 /\ a[1] \in visited
      /\ b \in Seq(Nodes) /\ DOMAIN b = 1 .. Len(a) - 1 /\ \A i \in 1 .. Len(a) - 1 : b[i] = a[i + 1]
  BY <1>1
<1> HIDE DEF b
<1>3. agenda' \in [DisposeCalls -> Seq(Nodes)] /\ agenda'[c] = b
      /\ \A d \in DisposeCalls : d # c => agenda'[d] = agenda[d]
  BY <1>1, <1>2
<1>4. ASSUME NEW d \in DisposeCalls, NEW x PROVE OnAgenda(d, x)' => OnAgenda(d, x)
  <2>1. CASE d # c
    BY <1>3, <2>1 DEF OnAgenda
  <2>2. CASE d = c
    <3> SUFFICES ASSUME NEW i \in DOMAIN b, b[i] = x PROVE OnAgenda(d, x)
      BY <1>3, <2>2 DEF OnAgenda
    <3>1. i + 1 \in DOMAIN a /\ a[i + 1] = x
      BY <1>2
    <3> QED
      BY <2>2, <3>1 DEF OnAgenda, a
  <2> QED
    BY <2>1, <2>2
<1>5. ASSUME NEW d \in DisposeCalls, NEW x, x \notin visited, OnAgenda(d, x) PROVE OnAgenda(d, x)'
  <2>1. CASE d # c
    BY <1>3, <1>5, <2>1 DEF OnAgenda
  <2>2. CASE d = c
    <3>1. PICK i \in DOMAIN a : a[i] = x
      BY <1>5, <2>2 DEF OnAgenda, a
    <3>2. i # 1
      BY <1>2, <1>5, <3>1
    <3>3. i - 1 \in DOMAIN b /\ b[i - 1] = x
      <4>1. i - 1 \in 1 .. Len(a) - 1 /\ (i - 1) + 1 = i
        BY <1>2, <3>2
      <4> QED
        BY <1>2, <3>1, <4>1
    <3> QED
      BY <1>3, <2>2, <3>3 DEF OnAgenda
  <2> QED
    BY <2>1, <2>2
<1>6. \A x : Planned(x)' <=> Planned(x)
  BY <1>4, <1>5 DEF Planned
<1>7. \A l \in Lists : Subscribed(l)' <=> Subscribed(l)
  BY DEF Subscribed
<1>8. PlansAreKept'
  BY <1>6, <1>7 DEF PlanInv, PlansAreKept
<1>9. OneUnsubscribes'
  BY <1>4, <1>6 DEF PlanInv, OneUnsubscribes
<1>10. ResetsWait'
  <2> SUFFICES ASSUME NEW l \in Lists, NEW d \in DisposeCalls, NEW i \in DOMAIN agenda'[d],
                      agenda'[d][i] = <<"reset", l>>, <<"loop", l>> \notin visited
               PROVE  WaitsAhead(d, i, l)'
    BY DEF ResetsWait
  <2>1. CASE d # c
    <3>1. agenda'[d] = agenda[d]
      BY <1>3, <2>1
    <3>2. WaitsAhead(d, i, l)
      BY <3>1 DEF PlanInv, ResetsWait
    <3> QED
      BY <3>1, <3>2 DEF WaitsAhead
  <2>2. CASE d = c
    <3>1. i \in DOMAIN b /\ b[i] = <<"reset", l>> /\ agenda'[d] = b
      BY <1>3, <2>2
    <3>2. i + 1 \in DOMAIN a /\ a[i + 1] = <<"reset", l>> /\ i \in Int
      BY <1>2, <3>1
    <3>3. PICK j \in DOMAIN a : /\ j < i + 1 /\ a[j] \notin visited
                                /\ a[j] \in {<<"unsubscribe", l>>, <<"loop", l>>}
      BY <3>2 DEF PlanInv, ResetsWait, WaitsAhead, a
    <3>4. j # 1 /\ j \in Int
      BY <1>2, <3>3
    <3>5. j - 1 \in 1 .. Len(a) - 1 /\ (j - 1) + 1 = j /\ j - 1 < i
      <4>1. j \in 1 .. Len(a) /\ j < i + 1
        BY <1>2, <3>3
      <4>2. Len(a) \in Nat /\ i \in Int /\ j # 1
        BY <1>2, <3>2, <3>4
      <4> QED
        BY <4>1, <4>2
    <3>6. j - 1 \in DOMAIN b /\ b[j - 1] = a[j]
      BY <1>2, <3>5
    <3>7. /\ j - 1 \in DOMAIN agenda'[d] /\ agenda'[d][j - 1] = a[j]
          /\ UNCHANGED visited
      BY <3>1, <3>6
    <3> QED
      BY <3>3, <3>5, <3>7 DEF WaitsAhead
  <2> QED
    BY <2>1, <2>2
<1> QED
  BY <1>3, <1>8, <1>9, <1>10 DEF PlanInv

\* Whoever calls dispose() starts with the dispatcher or the queue.
LEMMA PlansCall ==
    ASSUME PlanInv, agenda \in [DisposeCalls -> Seq(Nodes)], NEW c \in DisposeCalls,
           agenda[c] = <<>>, agenda' = [agenda EXCEPT ![c] = <<Disposed[c]>>],
           visited' = visited \cup {<<"called", c>>},
           UNCHANGED <<order, closed, loop, watched, inTime>>
    PROVE  PlanInv' /\ agenda' \in [DisposeCalls -> Seq(Nodes)]
<1> DEFINE n == Disposed[c]
<1>1. /\ n \in Nodes /\ \A l : n # <<"unsubscribe", l>> /\ n # <<"reset", l>>
      /\ \A l, k : k \in OfLists => n # <<k, l>>
  <2>1. n \in {<<"dispatcher", Main>>, <<"queue", Main>>}
    BY ListTransportAssumption DEF Transport!TransportAssumption, Transport!Dispatcher, Transport!Queue
  <2> QED
    BY <2>1 DEF Nodes, NodeKinds, Transport!Connections, OfLists
<1> HIDE DEF n
<1>2. agenda' = [agenda EXCEPT ![c] = <<n>>]
  BY DEF n
<1>3. /\ agenda' \in [DisposeCalls -> Seq(Nodes)] /\ agenda'[c] = <<n>>
      /\ \A d \in DisposeCalls : d # c => agenda'[d] = agenda[d]
  BY <1>1, <1>2
<1>4. \A x : ~OnAgenda(c, x)
  BY DEF OnAgenda
<1>5. \A d \in DisposeCalls : \A x : OnAgenda(d, x)' <=> OnAgenda(d, x) \/ (d = c /\ x = n)
  <2> SUFFICES ASSUME NEW d \in DisposeCalls, NEW x
               PROVE  OnAgenda(d, x)' <=> OnAgenda(d, x) \/ (d = c /\ x = n)
    OBVIOUS
  <2>1. CASE d # c
    BY <1>3, <2>1 DEF OnAgenda
  <2>2. CASE d = c
    <3>1. OnAgenda(d, x)' <=> \E i \in DOMAIN <<n>> : <<n>>[i] = x
      BY <1>3, <2>2 DEF OnAgenda
    <3> QED
      BY <1>4, <2>2, <3>1
  <2> QED
    BY <2>1, <2>2
<1>6. \A x : Planned(x)' <=> Planned(x) \/ x = n \/ x = <<"called", c>>
  BY <1>5 DEF Planned
<1>7. \A l \in Lists : Subscribed(l)' <=> Subscribed(l)
  BY DEF Subscribed
<1>8. \A l \in Lists : \A k \in OfLists \cup {"closed"} : <<k, l>> # <<"called", c>>
  BY DEF OfLists
<1>9. PlansAreKept'
  <2>1. \A l \in Lists : \A k \in OfLists : Planned(<<k, l>>)' => Subscribed(l)'
    BY <1>1, <1>6, <1>7, <1>8 DEF PlanInv, PlansAreKept
  <2>2. \A l \in inTime' : Planned(<<"list", l>>)' /\ Planned(<<"reader", l>>)'
    BY <1>6 DEF PlanInv, PlansAreKept
  <2>3. ASSUME NEW l \in Lists
        PROVE  /\ <<"list", l>> \in visited' => Planned(<<"reset", l>>)'
               /\ <<"reader", l>> \in visited' => Planned(<<"closed", l>>)'
               /\ <<"closed", l>> \in visited' => l \in closed'
               /\ <<"loop", l>> \in visited' => loop'[l].pc = "ended"
               /\ <<"reset", l>> \in visited' => loop'[l].pc = "ended" /\ ~watched'[l]
    <3>1. \A k \in OfLists \cup {"closed"} : <<k, l>> \in visited' <=> <<k, l>> \in visited
      BY <1>8
    <3>2. {"list", "reader", "closed", "loop", "reset"} \subseteq OfLists \cup {"closed"}
      BY DEF OfLists
    <3> QED
      BY <1>6, <3>1, <3>2 DEF PlanInv, PlansAreKept
  <2> QED
    BY <2>1, <2>2, <2>3 DEF PlansAreKept
<1>10. OneUnsubscribes'
  <2>1. ASSUME NEW l \in Lists PROVE Planned(<<"unsubscribe", l>>)' => <<"list", l>> \in visited'
    <3>1. "unsubscribe" \in OfLists
      BY DEF OfLists
    <3>2. Planned(<<"unsubscribe", l>>)' => Planned(<<"unsubscribe", l>>)
      BY <1>1, <1>6, <1>8, <3>1
    <3> QED
      BY <3>2 DEF PlanInv, OneUnsubscribes
  <2>2. \A l \in Lists : \A d \in DisposeCalls :
            OnAgenda(d, <<"unsubscribe", l>>)' => OnAgenda(d, <<"unsubscribe", l>>)
    BY <1>1, <1>5
  <2> QED
    BY <2>1, <2>2 DEF PlanInv, OneUnsubscribes
<1>11. ResetsWait'
  <2> SUFFICES ASSUME NEW l \in Lists, NEW d \in DisposeCalls, NEW i \in DOMAIN agenda'[d],
                      agenda'[d][i] = <<"reset", l>>, <<"loop", l>> \notin visited'
               PROVE  \E j \in DOMAIN agenda'[d] : /\ j < i /\ agenda'[d][j] \notin visited'
                                                  /\ agenda'[d][j] \in {<<"unsubscribe", l>>, <<"loop", l>>}
    BY DEF ResetsWait, WaitsAhead
  <2>1. d # c
    BY <1>1, <1>3
  <2>2. agenda'[d] = agenda[d] /\ <<"loop", l>> \notin visited
    BY <1>3, <2>1
  <2>3. PICK j \in DOMAIN agenda[d] : /\ j < i /\ agenda[d][j] \notin visited
                                      /\ agenda[d][j] \in {<<"unsubscribe", l>>, <<"loop", l>>}
    BY <2>2 DEF PlanInv, ResetsWait, WaitsAhead
  <2>4. agenda[d][j] # <<"called", c>>
    BY <2>3
  <2> QED
    BY <2>2, <2>3, <2>4
<1> QED
  BY <1>3, <1>9, <1>10, <1>11 DEF PlanInv


\* A step of a disposal leaves the lists alone.
LEMMA NetStays ==
    ASSUME NetInv, UNCHANGED <<closed, breaks, outbox, order, loop, heard, told>>,
           conn' \in [Transport!Connections -> ConnStates],
           \A l \in Lists : conn'[l] = "none" <=> conn[l] = "none",
           \A x \in Transport!Connections : conn[x] = "ended" => conn'[x] = "ended",
           watched' \in [Lists -> BOOLEAN],
           \A l \in Lists : watched[l] => watched'[l] \/ loop[l].pc = "ended",
           inTime' \subseteq Lists, agenda' \in [DisposeCalls -> Seq(Nodes)]
    PROVE  NetInv'
<1>1. ShutdownTypes'
  BY DEF NetInv, ShutdownTypes
<1>2. SubscribedRun'
  BY DEF NetInv, SubscribedRun, Subscribed
<1>3. RepliesAreAwaited'
  BY DEF NetInv, RepliesAreAwaited
<1>4. AllButOneTold'
  <2>1. \A l \in Lists : Transport!ToSet(heard[l])' = Transport!ToSet(heard[l])
    BY DEF Transport!ToSet
  <2>2. \A l \in Lists : watched'[l] \/ loop'[l].pc \in {"none", "ended"}
    BY DEF NetInv, AllButOneTold
  <2> QED
    BY <2>1, <2>2 DEF NetInv, AllButOneTold
<1>5. ClosedOrBroken'
  BY DEF NetInv, ClosedOrBroken, ShutdownTypes
<1> QED
  BY <1>1, <1>2, <1>3, <1>4, <1>5 DEF NetInv

\* What is registered with the transport: each reader and each list, of those subscribed.
LEMMA RegisteredAre ==
    ASSUME order \in Seq(Lists)
    PROVE  /\ Transport!Registered \in Seq(Nodes)
           /\ \A i \in DOMAIN Transport!Registered : \E l \in Lists :
                  /\ Subscribed(l)
                  /\ Transport!Registered[i] \in {<<"reader", l>>, <<"list", l>>}
           /\ \A l \in Lists : Subscribed(l) =>
                  /\ Among(<<"reader", l>>, Transport!Registered)
                  /\ Among(<<"list", l>>, Transport!Registered)
<1> DEFINE n == Len(order)  R == Transport!Registered
           at(i) == <<IF i % 2 = 1 THEN "reader" ELSE "list", order[(i + 1) \div 2]>>
<1>1. n \in Nat /\ DOMAIN order = 1 .. n /\ \A j \in 1 .. n : order[j] \in Lists
  OBVIOUS
<1>2. R = [i \in 1 .. 2 * n |-> at(i)]
  BY DEF Transport!Registered
<1>3. ASSUME NEW i \in 1 .. 2 * n PROVE (i + 1) \div 2 \in 1 .. n
  BY <1>1
<1>4. ASSUME NEW j \in 1 .. n
      PROVE  /\ 2 * j - 1 \in 1 .. 2 * n /\ ((2 * j - 1) + 1) \div 2 = j /\ (2 * j - 1) % 2 = 1
             /\ 2 * j \in 1 .. 2 * n /\ (2 * j + 1) \div 2 = j /\ (2 * j) % 2 # 1
  BY <1>1
<1> HIDE DEF n
<1>5. ASSUME NEW i \in 1 .. 2 * n
      PROVE  \E l \in Lists : Subscribed(l) /\ at(i) \in {<<"reader", l>>, <<"list", l>>}
  <2> DEFINE l == order[(i + 1) \div 2]
  <2>1. l \in Lists /\ Subscribed(l)
    BY <1>1, <1>3 DEF Subscribed
  <2>2. at(i) \in {<<"reader", l>>, <<"list", l>>}
    OBVIOUS
  <2> HIDE DEF l
  <2> QED
    BY <2>1, <2>2
<1>6. \A l \in Lists : <<"reader", l>> \in Nodes /\ <<"list", l>> \in Nodes
  BY DEF Nodes, NodeKinds, Transport!Connections
<1>7. ASSUME NEW j \in 1 .. n
      PROVE  at(2 * j - 1) = <<"reader", order[j]>> /\ at(2 * j) = <<"list", order[j]>>
  <2>1. at(2 * j - 1) = <<"reader", order[j]>>
    BY <1>4
  <2>2. at(2 * j) = <<"list", order[j]>>
    BY <1>4
  <2> QED
    BY <2>1, <2>2
<1> HIDE DEF at
<1>8. \A i \in 1 .. 2 * n : at(i) \in Nodes
  BY <1>5, <1>6
<1>9. R \in Seq(Nodes) /\ DOMAIN R = 1 .. 2 * n /\ \A i \in 1 .. 2 * n : R[i] = at(i)
  <2>1. 2 * n \in Nat
    BY <1>1
  <2> QED
    BY <1>2, <1>8, <2>1
<1> HIDE DEF R
<1>10. \A i \in DOMAIN R : \E l \in Lists : Subscribed(l) /\ R[i] \in {<<"reader", l>>, <<"list", l>>}
  BY <1>5, <1>9
<1>11. ASSUME NEW l \in Lists, Subscribed(l) PROVE Among(<<"reader", l>>, R) /\ Among(<<"list", l>>, R)
  <2>1. PICK j \in 1 .. n : order[j] = l
    BY <1>1, <1>11 DEF Subscribed
  <2>2. /\ 2 * j - 1 \in DOMAIN R /\ R[2 * j - 1] = <<"reader", l>>
        /\ 2 * j \in DOMAIN R /\ R[2 * j] = <<"list", l>>
    BY <1>4, <1>7, <1>9, <2>1
  <2> QED
    BY <2>2 DEF Among
<1> QED
  BY <1>9, <1>10, <1>11 DEF R

\* What is taken off an agenda had been planned.
LEMMA HeadIsPlanned ==
    ASSUME agenda \in [DisposeCalls -> Seq(Nodes)], NEW c \in DisposeCalls,
           agenda[c] # <<>>, NEW n, Head(agenda[c]) = n
    PROVE  Planned(n)
<1> DEFINE a == agenda[c]
<1>1. a \in Seq(Nodes) /\ a # <<>> /\ Head(a) = n
  OBVIOUS
<1> HIDE DEF a
<1>2. 1 \in DOMAIN a /\ a[1] = n
  BY <1>1
<1>3. OnAgenda(c, n)
  BY <1>2 DEF OnAgenda, a
<1> QED
  BY <1>3 DEF Planned


\* A connection is told to close.
LEMMA Disconnects ==
    ASSUME NetInv, NEW x \in Transport!Connections, x \in Lists => conn[x] # "none",
           conn' = Transport!Disconnected(x)
    PROVE  /\ conn' \in [Transport!Connections -> ConnStates]
           /\ \A l \in Lists : conn'[l] = "none" <=> conn[l] = "none"
           /\ \A y \in Transport!Connections : conn[y] = "ended" => conn'[y] = "ended"
<1>1. conn \in [Transport!Connections -> ConnStates] /\ Lists \subseteq Transport!Connections
  BY DEF NetInv, ShutdownTypes, Transport!Connections
<1>2. conn' = [conn EXCEPT ![x] = IF conn[x] = "ended" THEN conn[x] ELSE "closing"]
  BY DEF Transport!Disconnected
<1> DEFINE v == IF conn[x] = "ended" THEN conn[x] ELSE "closing"
<1>3. conn' \in [Transport!Connections -> ConnStates]
  <2>1. v \in ConnStates
    BY <1>1 DEF ConnStates
  <2>2. conn' = [conn EXCEPT ![x] = v]
    BY <1>2
  <2> HIDE DEF v
  <2> QED
    BY <1>1, <2>1, <2>2
<1>4. \A y \in Transport!Connections :
          conn'[y] = IF y = x /\ conn[y] # "ended" THEN "closing" ELSE conn[y]
  BY <1>1, <1>2
<1> QED
  BY <1>1, <1>3, <1>4

\* A step of a disposal that is the walk of one caller.
LEMMA ShutdownFollows ==
    ASSUME ShutdownInv, NEW c \in DisposeCalls, NEW n, NEW ns \in Seq(Nodes),
           Transport!Walks(c, n, ns), Follow(n, ns),
           UNCHANGED <<closed, breaks, outbox, order, loop, heard, told>>,
           conn' \in [Transport!Connections -> ConnStates],
           \A l \in Lists : conn'[l] = "none" <=> conn[l] = "none",
           \A x \in Transport!Connections : conn[x] = "ended" => conn'[x] = "ended",
           watched' \in [Lists -> BOOLEAN],
           \A l \in Lists : watched'[l] => watched[l] /\ n # <<"reset", l>>,
           \A l \in Lists : watched[l] => watched'[l] \/ loop[l].pc = "ended",
           inTime' \subseteq Lists,
           \A l \in inTime' : l \in inTime \/ (Among(<<"list", l>>, ns) /\ Among(<<"reader", l>>, ns))
    PROVE  ShutdownInv'
<1>1. PlanInv /\ NetInv /\ agenda \in [DisposeCalls -> Seq(Nodes)]
  BY DEF ShutdownInv, NetInv, ShutdownTypes
<1>2. PlanInv'
  BY <1>1, PlansFollow
<1>3. agenda' \in [DisposeCalls -> Seq(Nodes)]
  BY <1>1, WalksAlong
<1>4. NetInv'
  BY <1>1, <1>3, NetStays
<1> QED
  BY <1>2, <1>4 DEF ShutdownInv

\* Nothing but the agenda changes with most steps of a disposal.
LEMMA ShutdownOnlyFollows ==
    ASSUME ShutdownInv, NEW c \in DisposeCalls, NEW n, NEW ns \in Seq(Nodes),
           Transport!Walks(c, n, ns), Follow(n, ns), \A l \in Lists : n # <<"reset", l>>,
           UNCHANGED <<Transport!othersVars, conn, watched, inTime>>
    PROVE  ShutdownInv'
<1>1. UNCHANGED <<closed, breaks, outbox, order, loop, heard, told, conn, watched, inTime>>
  BY DEF Transport!othersVars, Transport!sendVars
<1>2. /\ conn \in [Transport!Connections -> ConnStates] /\ watched \in [Lists -> BOOLEAN]
      /\ inTime \subseteq Lists
  BY DEF ShutdownInv, NetInv, ShutdownTypes
<1> QED
  BY <1>1, <1>2, ShutdownFollows

\* Every step of a disposal follows its plan.
LEMMA ShutdownWalks ==
    ASSUME ShutdownInv, NEW c \in DisposeCalls, Transport!DisposeStep(c) \/ Transport!CallDispose(c)
    PROVE  ShutdownInv'
<1>0. /\ NetInv /\ PlanInv /\ agenda \in [DisposeCalls -> Seq(Nodes)] /\ order \in Seq(Lists)
      /\ conn \in [Transport!Connections -> ConnStates] /\ watched \in [Lists -> BOOLEAN]
      /\ inTime \subseteq Lists
  BY DEF ShutdownInv, NetInv, ShutdownTypes
<1>1. \A k \in NodeKinds : \A x \in Transport!Connections : <<k, x>> \in Nodes
  BY DEF Nodes
<1>2. Main \in Transport!Connections /\ Lists \subseteq Transport!Connections
  BY DEF Transport!Connections
<1>3. \A l \in Lists : \A k \in OfLists : Planned(<<k, l>>) => Subscribed(l)
  BY <1>0 DEF PlanInv, PlansAreKept
<1>4. \A n, ns : Transport!Walks(c, n, ns) => Planned(n)
  BY <1>0, HeadIsPlanned DEF Transport!Walks
<1>5. CASE Transport!CallDispose(c)
  <2>1. /\ agenda[c] = <<>> /\ agenda' = [agenda EXCEPT ![c] = <<Disposed[c]>>]
        /\ visited' = visited \cup {<<"called", c>>}
        /\ UNCHANGED <<closed, breaks, outbox, order, loop, heard, told, conn, watched, inTime>>
    BY <1>5 DEF Transport!CallDispose, Transport!othersVars, Transport!sendVars
  <2>2. PlanInv' /\ agenda' \in [DisposeCalls -> Seq(Nodes)]
    BY <1>0, <2>1, PlansCall
  <2>3. NetInv'
    BY <1>0, <2>1, <2>2, NetStays
  <2> QED
    BY <2>2, <2>3 DEF ShutdownInv
<1>6. CASE Transport!Skips(c)
  <2>1. /\ agenda[c] # <<>> /\ Head(agenda[c]) \in visited
        /\ agenda' = [agenda EXCEPT ![c] = Tail(agenda[c])]
        /\ UNCHANGED <<visited, closed, breaks, outbox, order, loop, heard, told, conn, watched,
                       inTime>>
    BY <1>6 DEF Transport!Skips, Transport!othersVars, Transport!sendVars
  <2>2. PlanInv' /\ agenda' \in [DisposeCalls -> Seq(Nodes)]
    BY <1>0, <2>1, PlansSkip
  <2>3. NetInv'
    BY <1>0, <2>1, <2>2, NetStays
  <2> QED
    BY <2>2, <2>3 DEF ShutdownInv
<1>7. CASE Transport!DisposeDispatcher(c)
  <2> DEFINE n == <<"dispatcher", Main>>
             ls == [i \in DOMAIN order |-> <<"list", order[i]>>]
             ns == <<<<"queue", Main>>>> \o ls
  <2>1. Transport!Walks(c, n, ns) /\ UNCHANGED <<Transport!othersVars, conn, watched, inTime>>
    BY <1>7 DEF Transport!DisposeDispatcher, Transport!Dispatcher, Transport!Queue
  <2>2. /\ DOMAIN order = 1 .. Len(order) /\ Len(order) \in Nat
        /\ \A i \in DOMAIN order : order[i] \in Lists /\ Subscribed(order[i])
    BY <1>0 DEF Subscribed
  <2>3. <<"queue", Main>> \in Nodes /\ \A l \in Lists : <<"list", l>> \in Nodes
    BY <1>1, <1>2 DEF NodeKinds
  <2>4. ls \in Seq(Nodes) /\ \A i \in DOMAIN ls : \E l \in Lists : Subscribed(l) /\ ls[i] = <<"list", l>>
    <3>1. DOMAIN ls = 1 .. Len(order) /\ \A i \in 1 .. Len(order) : ls[i] \in Nodes
      BY <2>2, <2>3
    <3> QED
      BY <2>2, <3>1
  <2> HIDE DEF ls
  <2>5. /\ ns \in Seq(Nodes)
        /\ \A i \in DOMAIN ns : ns[i] = <<"queue", Main>> \/ \E j \in DOMAIN ls : ns[i] = ls[j]
    <3> DEFINE q == <<"queue", Main>>
    <3>1. q \in Nodes
      BY <2>3
    <3> HIDE DEF q
    <3>2. <<q>> \in Seq(Nodes) /\ Len(<<q>>) = 1 /\ <<q>>[1] = q
      BY <3>1
    <3>3. /\ <<q>> \o ls \in Seq(Nodes) /\ Len(<<q>> \o ls) = 1 + Len(ls) /\ Len(ls) \in Nat
          /\ DOMAIN ls = 1 .. Len(ls) /\ (<<q>> \o ls)[1] = q
          /\ \A i \in 2 .. 1 + Len(ls) : (<<q>> \o ls)[i] = ls[i - 1]
      BY <2>4, <3>2
    <3> DEFINE s == <<q>> \o ls
    <3> HIDE DEF s
    <3>4. ASSUME NEW i \in DOMAIN s PROVE s[i] = q \/ \E j \in DOMAIN ls : s[i] = ls[j]
      <4>1. i \in 1 .. 1 + Len(ls)
        BY <3>3 DEF s
      <4>2. CASE i = 1
        BY <3>3, <4>2 DEF s
      <4>3. CASE i # 1
        <5>1. i \in 2 .. 1 + Len(ls) /\ i - 1 \in DOMAIN ls
          BY <3>3, <4>1, <4>3
        <5> QED
          BY <3>3, <5>1 DEF s
      <4> QED
        BY <4>2, <4>3
    <3> QED
      BY <3>3, <3>4 DEF s, q
  <2> HIDE DEF ns
  <2>6. \A i \in DOMAIN ns : ns[i] = <<"queue", Main>> \/ \E l \in Lists : Subscribed(l) /\ ns[i] = <<"list", l>>
    BY <2>4, <2>5
  <2>7. Follow(n, ns)
    BY <2>6 DEF Follow, OfLists
  <2>8. \A l \in Lists : n # <<"reset", l>>
    OBVIOUS
  <2> QED
    BY <2>1, <2>5, <2>7, <2>8, ShutdownOnlyFollows
<1>8. CASE Transport!DisposeQueue(c)
  <2> DEFINE n == <<"queue", Main>>  ns == <<<<"transport", Main>>>>
  <2>1. Transport!Walks(c, n, ns) /\ UNCHANGED <<Transport!othersVars, conn, watched, inTime>>
    BY <1>8 DEF Transport!DisposeQueue, Transport!Queue
  <2>2. ns \in Seq(Nodes) /\ DOMAIN ns = {1} /\ ns[1] = <<"transport", Main>>
    BY <1>1, <1>2 DEF NodeKinds
  <2> HIDE DEF ns
  <2>3. Follow(n, ns) /\ \A l \in Lists : n # <<"reset", l>>
    BY <2>2 DEF Follow, OfLists
  <2> QED
    BY <2>1, <2>2, <2>3, ShutdownOnlyFollows
<1>9. CASE Transport!DisposeTransport(c)
  <2> DEFINE n == <<"transport", Main>>  ns == <<<<"closed", Main>>, <<"registered", Main>>>>
  <2>1. /\ Transport!Walks(c, n, ns) /\ UNCHANGED <<Transport!othersVars, watched, inTime>>
        /\ conn' = Transport!Disconnected(Main)
    BY <1>9 DEF Transport!DisposeTransport
  <2>2. ns \in Seq(Nodes) /\ DOMAIN ns = {1, 2} /\ ns[1] = <<"closed", Main>> /\ ns[2] = <<"registered", Main>>
    BY <1>1, <1>2 DEF NodeKinds
  <2> HIDE DEF ns
  <2>3. Follow(n, ns) /\ \A l \in Lists : n # <<"reset", l>>
    BY <2>2 DEF Follow, OfLists
  <2>4. Main \notin Lists
    BY ListTransportAssumption DEF Transport!TransportAssumption
  <2>5. /\ conn' \in [Transport!Connections -> ConnStates]
        /\ \A l \in Lists : conn'[l] = "none" <=> conn[l] = "none"
        /\ \A y \in Transport!Connections : conn[y] = "ended" => conn'[y] = "ended"
    BY <1>0, <1>2, <2>1, <2>4, Disconnects
  <2>6. UNCHANGED <<closed, breaks, outbox, order, loop, heard, told, watched, inTime>>
    BY <2>1 DEF Transport!othersVars, Transport!sendVars
  <2>8. /\ watched' \in [Lists -> BOOLEAN] /\ inTime' \subseteq Lists
        /\ \A k \in Lists : watched'[k] => watched[k] /\ n # <<"reset", k>>
        /\ \A k \in Lists : watched[k] => watched'[k] \/ loop[k].pc = "ended"
        /\ \A k \in inTime' :
               k \in inTime \/ (Among(<<"list", k>>, ns) /\ Among(<<"reader", k>>, ns))
    BY <1>0, <2>3, <2>6
  <2> HIDE DEF n
  <2>9. ShutdownInv /\ Follow(n, ns) /\ ns \in Seq(Nodes) /\ Transport!Walks(c, n, ns)
    BY <2>1, <2>2, <2>3
  <2>10. UNCHANGED <<closed, breaks, outbox, order, loop, heard, told>>
    BY <2>6
  <2> QED
    BY <2>5, <2>8, <2>9, <2>10, ShutdownFollows
<1>10. CASE Transport!DisposeRegistered(c)
  <2> DEFINE n == <<"registered", Main>>  ns == Transport!Registered
  <2>1. /\ Transport!Walks(c, n, ns) /\ UNCHANGED <<Transport!othersVars, conn, watched>>
        /\ inTime' = Transport!ToSet(order)
    BY <1>10 DEF Transport!DisposeRegistered
  <2>2. /\ ns \in Seq(Nodes)
        /\ \A i \in DOMAIN ns : \E l \in Lists : Subscribed(l) /\ ns[i] \in {<<"reader", l>>, <<"list", l>>}
        /\ \A l \in Lists : Subscribed(l) => Among(<<"reader", l>>, ns) /\ Among(<<"list", l>>, ns)
    BY <1>0, RegisteredAre
  <2> HIDE DEF ns
  <2>3. Follow(n, ns) /\ \A l \in Lists : n # <<"reset", l>>
    BY <2>2 DEF Follow, OfLists
  <2>4. inTime' \subseteq Lists /\ \A l \in inTime' : Subscribed(l)
    BY <1>0, <2>1 DEF Transport!ToSet, Subscribed
  <2>5. UNCHANGED <<closed, breaks, outbox, order, loop, heard, told, conn, watched>>
    BY <2>1 DEF Transport!othersVars, Transport!sendVars
  <2> QED
    BY <1>0, <2>1, <2>2, <2>3, <2>4, <2>5, ShutdownFollows
<1>11. ASSUME NEW x \in Transport!Connections, Transport!AwaitClosed(c, x) PROVE ShutdownInv'
  <2> DEFINE n == <<"closed", x>>  ns == <<>>
  <2>1. /\ Transport!Walks(c, n, ns) /\ UNCHANGED <<Transport!othersVars, conn, watched, inTime>>
        /\ x \in closed
    BY <1>11 DEF Transport!AwaitClosed
  <2>2. ns \in Seq(Nodes) /\ DOMAIN ns = {}
    OBVIOUS
  <2> HIDE DEF ns
  <2>3. Follow(n, ns) /\ \A l \in Lists : n # <<"reset", l>>
    BY <2>1, <2>2 DEF Follow, OfLists
  <2> QED
    BY <2>1, <2>2, <2>3, ShutdownOnlyFollows
<1>12. ASSUME NEW l \in Lists, Transport!DisposeReader(c, l) PROVE ShutdownInv'
  <2> DEFINE n == <<"reader", l>>  ns == <<<<"closed", l>>>>
  <2>1. /\ Transport!Walks(c, n, ns) /\ UNCHANGED <<Transport!othersVars, watched, inTime>>
        /\ conn' = Transport!Disconnected(l)
    BY <1>12 DEF Transport!DisposeReader
  <2>2. ns \in Seq(Nodes) /\ DOMAIN ns = {1} /\ ns[1] = <<"closed", l>>
    BY <1>1, <1>2 DEF NodeKinds
  <2> HIDE DEF ns
  <2>3. Follow(n, ns) /\ \A k \in Lists : n # <<"reset", k>>
    BY <2>2 DEF Follow, OfLists, Among
  <2>4. "reader" \in OfLists /\ Planned(<<"reader", l>>)
    BY <1>4, <2>1 DEF OfLists
  <2>5. conn[l] # "none"
    BY <1>0, <1>3, <2>4 DEF NetInv, SubscribedRun
  <2>6. /\ conn' \in [Transport!Connections -> ConnStates]
        /\ \A k \in Lists : conn'[k] = "none" <=> conn[k] = "none"
        /\ \A y \in Transport!Connections : conn[y] = "ended" => conn'[y] = "ended"
    BY <1>0, <1>2, <2>1, <2>5, Disconnects
  <2>7. UNCHANGED <<closed, breaks, outbox, order, loop, heard, told, watched, inTime>>
    BY <2>1 DEF Transport!othersVars, Transport!sendVars
  <2>8. /\ watched' \in [Lists -> BOOLEAN] /\ inTime' \subseteq Lists
        /\ \A k \in Lists : watched'[k] => watched[k] /\ n # <<"reset", k>>
        /\ \A k \in Lists : watched[k] => watched'[k] \/ loop[k].pc = "ended"
        /\ \A k \in inTime' : k \in inTime
    BY <1>0, <2>3, <2>7
  <2> HIDE DEF n
  <2>9. ShutdownInv /\ ns \in Seq(Nodes) /\ Transport!Walks(c, n, ns) /\ Follow(n, ns)
    BY <2>1, <2>2, <2>3
  <2>10. /\ \A k \in Lists : watched'[k] => watched[k] /\ n # <<"reset", k>>
         /\ \A k \in inTime' : k \in inTime \/ (Among(<<"list", k>>, ns) /\ Among(<<"reader", k>>, ns))
    BY <2>8
  <2> QED
    BY <2>6, <2>7, <2>8, <2>9, <2>10, ShutdownFollows
<1>13. ASSUME NEW l \in Lists, Transport!DisposeList(c, l) PROVE ShutdownInv'
  <2> DEFINE n == <<"list", l>>  ns == <<<<"reader", l>>, <<"unsubscribe", l>>, <<"reset", l>>>>
  <2>1. Transport!Walks(c, n, ns) /\ UNCHANGED <<Transport!othersVars, conn, watched, inTime>>
    BY <1>13 DEF Transport!DisposeList
  <2>2. ns \in Seq(Nodes)
    BY <1>1, <1>2 DEF NodeKinds
  <2>3. DOMAIN ns = {1, 2, 3} /\ ns[1] = <<"reader", l>> /\ ns[2] = <<"unsubscribe", l>> /\ ns[3] = <<"reset", l>>
    OBVIOUS
  <2> HIDE DEF ns
  <2>4. "list" \in OfLists /\ Planned(<<"list", l>>)
    BY <1>4, <2>1 DEF OfLists
  <2>5. Subscribed(l)
    BY <1>3, <2>4
  <2>6. Follow(n, ns) /\ \A k \in Lists : n # <<"reset", k>>
    BY <2>3, <2>5 DEF Follow, OfLists, Among
  <2> QED
    BY <2>1, <2>2, <2>6, ShutdownOnlyFollows
<1>14. ASSUME NEW l \in Lists, Transport!Unsubscribe(c, l) PROVE ShutdownInv'
  <2> DEFINE n == <<"unsubscribe", l>>  ns == <<<<"loop", l>>>>
  <2>1. Transport!Walks(c, n, ns) /\ UNCHANGED <<Transport!othersVars, conn, watched, inTime>>
    BY <1>14 DEF Transport!Unsubscribe
  <2>2. ns \in Seq(Nodes) /\ DOMAIN ns = {1} /\ ns[1] = <<"loop", l>>
    BY <1>1, <1>2 DEF NodeKinds
  <2> HIDE DEF ns
  <2>3. "unsubscribe" \in OfLists /\ Planned(<<"unsubscribe", l>>)
    BY <1>4, <2>1 DEF OfLists
  <2>4. Subscribed(l)
    BY <1>3, <2>3
  <2>5. Follow(n, ns) /\ \A k \in Lists : n # <<"reset", k>>
    BY <2>2, <2>4 DEF Follow, OfLists
  <2> QED
    BY <2>1, <2>2, <2>5, ShutdownOnlyFollows
<1>15. ASSUME NEW l \in Lists, Transport!AwaitLoop(c, l) PROVE ShutdownInv'
  <2> DEFINE n == <<"loop", l>>  ns == <<>>
  <2>1. /\ Transport!Walks(c, n, ns) /\ UNCHANGED <<Transport!othersVars, conn, watched, inTime>>
        /\ loop[l].pc = "ended"
    BY <1>15 DEF Transport!AwaitLoop
  <2>2. ns \in Seq(Nodes) /\ DOMAIN ns = {}
    OBVIOUS
  <2> HIDE DEF ns
  <2>3. Follow(n, ns) /\ \A k \in Lists : n # <<"reset", k>>
    BY <2>1, <2>2 DEF Follow, OfLists
  <2> QED
    BY <2>1, <2>2, <2>3, ShutdownOnlyFollows
<1>16. ASSUME NEW l \in Lists, Transport!Reset(c, l) PROVE ShutdownInv'
  <2> DEFINE n == <<"reset", l>>  ns == <<>>
  <2>1. /\ Transport!Walks(c, n, ns) /\ UNCHANGED <<Transport!othersVars, conn, inTime>>
        /\ watched' = [watched EXCEPT ![l] = FALSE]
    BY <1>16 DEF Transport!Reset
  <2>2. ns \in Seq(Nodes) /\ DOMAIN ns = {}
    OBVIOUS
  <2> HIDE DEF ns
  <2>3. Follow(n, ns)
    BY <2>2 DEF Follow, OfLists
  <2>4. loop[l].pc = "ended"
    <3>0. /\ DOMAIN agenda[c] = 1 .. Len(agenda[c]) /\ Len(agenda[c]) \in Nat /\ Len(agenda[c]) > 0
          /\ agenda[c][1] = n
      <4> HIDE DEF n
      <4> QED
        BY <1>0, <2>1, <2>2, WalksAlong
    <3>1. 1 \in DOMAIN agenda[c] /\ agenda[c][1] = <<"reset", l>> /\ ~ \E j \in DOMAIN agenda[c] : j < 1
      BY <3>0
    <3>2. <<"loop", l>> \in visited
      BY <1>0, <3>1 DEF PlanInv, ResetsWait, WaitsAhead
    <3> QED
      BY <1>0, <3>2 DEF PlanInv, PlansAreKept
  <2>5. /\ watched' \in [Lists -> BOOLEAN]
        /\ \A k \in Lists : watched'[k] => watched[k] /\ n # <<"reset", k>>
        /\ \A k \in Lists : watched[k] => watched'[k] \/ loop[k].pc = "ended"
    <3>1. \A k \in Lists : watched'[k] = IF k = l THEN FALSE ELSE watched[k]
      BY <1>0, <2>1
    <3>2. watched' \in [Lists -> BOOLEAN]
      BY <1>0, <2>1
    <3> QED
      BY <2>4, <3>1, <3>2
  <2>6. UNCHANGED <<closed, breaks, outbox, order, loop, heard, told, conn, inTime>>
    BY <2>1 DEF Transport!othersVars, Transport!sendVars
  <2>7. /\ inTime' \subseteq Lists /\ \A k \in inTime' : k \in inTime
        /\ conn' \in [Transport!Connections -> ConnStates] /\ conn' = conn
    BY <1>0, <2>6
  <2> HIDE DEF n
  <2> QED
    BY <1>0, <2>1, <2>2, <2>3, <2>5, <2>6, <2>7, ShutdownFollows
<1> QED
  BY <1>5, <1>6, <1>7, <1>8, <1>9, <1>10, <1>11, <1>12, <1>13, <1>14, <1>15, <1>16
  DEF Transport!DisposeStep


\* The loops turn, but none starts or ends to handle a message.
LEMMA LoopsTurn ==
    ASSUME NetInv, PlaceTypes, UNCHANGED <<heard, told, watched>>, loop' \in [Lists -> LoopStates],
           \A l \in Lists : \/ loop'[l] = loop[l]
                            \/ /\ loop[l].pc \notin {"none", "ended", "handling", "replying"}
                               /\ loop'[l].pc \notin {"none", "handling", "replying"}
    PROVE  /\ AllButOneTold'
           /\ \A l \in Lists : /\ loop'[l].pc = "none" <=> loop[l].pc = "none"
                               /\ loop[l].pc = "ended" => loop'[l].pc = "ended"
                               /\ loop[l].pc = "replying" => loop'[l].pc = "replying"
<1>1. ASSUME NEW l \in Lists PROVE watched'[l] \/ loop'[l].pc \in {"none", "ended"}
  BY DEF NetInv, AllButOneTold
<1>2. ASSUME NEW l \in Lists
      PROVE  Transport!ToSet(heard'[l]) =
                 {v[1] : v \in told'[l]} \cup
                 IF loop'[l].pc \in {"handling", "replying"} THEN {loop'[l].push} ELSE {}
  <2>1. Transport!ToSet(heard'[l]) = Transport!ToSet(heard[l]) /\ told'[l] = told[l]
    OBVIOUS
  <2>2. Transport!ToSet(heard[l]) =
            {v[1] : v \in told[l]} \cup
            IF loop[l].pc \in {"handling", "replying"} THEN {loop[l].push} ELSE {}
    BY DEF NetInv, AllButOneTold
  <2>3. (IF loop'[l].pc \in {"handling", "replying"} THEN {loop'[l].push} ELSE {})
        = IF loop[l].pc \in {"handling", "replying"} THEN {loop[l].push} ELSE {}
    OBVIOUS
  <2> QED
    BY <2>1, <2>2, <2>3
<1>3. AllButOneTold'
  BY <1>1, <1>2 DEF AllButOneTold, Transport!ToSet
<1> QED
  BY <1>3

\* The messages of T are done with, and the watchers told.
LEMMA VerdictsTold ==
    ASSUME NetInv, PlaceTypes, UNCHANGED <<heard, watched>>, NEW T \in SUBSET Lists,
           \A l \in T : loop[l].pc \in {"handling", "replying"}, NEW ok \in BOOLEAN,
           loop' = [l \in Lists |-> IF l \in T THEN Transport!Idle("done") ELSE loop[l]],
           told' = [l \in Lists |-> IF l \in T THEN Transport!Told(l, ok) ELSE told[l]]
    PROVE  /\ AllButOneTold' /\ told' \in [Lists -> SUBSET (Nat \X BOOLEAN)]
           /\ \A l \in Lists : /\ loop'[l].pc = "none" <=> loop[l].pc = "none"
                               /\ loop[l].pc = "ended" => loop'[l].pc = "ended"
                               /\ loop[l].pc = "replying" /\ l \notin T
                                  => loop'[l].pc = "replying"
<1>1. /\ loop \in [Lists -> LoopStates] /\ told \in [Lists -> SUBSET (Nat \X BOOLEAN)]
      /\ watched \in [Lists -> BOOLEAN]
  BY DEF NetInv, PlaceTypes, ShutdownTypes
<1>2. ASSUME NEW l \in T
      PROVE  /\ loop'[l].pc = "done" /\ loop[l].push \in Nat
             /\ told'[l] = told[l] \cup {<<loop[l].push, ok>>}
  <2>1. loop'[l].pc = "done"
    BY DEF Transport!Idle
  <2>2. watched[l]
    BY DEF NetInv, AllButOneTold
  <2>3. loop[l].push \in Nat
    BY <1>1 DEF LoopStates
  <2> QED
    BY <2>1, <2>2, <2>3 DEF Transport!Told
<1>3. ASSUME NEW l \in Lists, l \notin T PROVE loop'[l] = loop[l] /\ told'[l] = told[l]
  BY <1>3
<1>4. told' \in [Lists -> SUBSET (Nat \X BOOLEAN)]
  <2>1. ASSUME NEW l \in Lists PROVE told'[l] \in SUBSET (Nat \X BOOLEAN)
    <3>1. CASE l \in T
      <4>1. told[l] \in SUBSET (Nat \X BOOLEAN) /\ <<loop[l].push, ok>> \in Nat \X BOOLEAN
        BY <1>1, <1>2, <3>1
      <4> QED
        BY <1>2, <3>1, <4>1
    <3>2. CASE l \notin T
      BY <1>1, <1>3, <3>2
    <3> QED
      BY <3>1, <3>2
  <2>2. told' = [l \in Lists |-> told'[l]]
    OBVIOUS
  <2> QED
    BY <2>1, <2>2
<1>5. ASSUME NEW l \in Lists
      PROVE  Transport!ToSet(heard'[l]) =
                 {v[1] : v \in told'[l]} \cup
                 IF loop'[l].pc \in {"handling", "replying"} THEN {loop'[l].push} ELSE {}
  <2>1. Transport!ToSet(heard[l]) =
            {v[1] : v \in told[l]} \cup
            IF loop[l].pc \in {"handling", "replying"} THEN {loop[l].push} ELSE {}
    BY DEF NetInv, AllButOneTold
  <2>2. CASE l \in T
    <3> DEFINE p == loop[l].push
    <3>1. Transport!ToSet(heard[l]) = {v[1] : v \in told[l]} \cup {p}
      BY <2>1, <2>2
    <3>2. told'[l] = told[l] \cup {<<p, ok>>} /\ loop'[l].pc = "done"
      BY <1>2, <2>2
    <3> HIDE DEF p
    <3>3. {v[1] : v \in told[l] \cup {<<p, ok>>}} = {v[1] : v \in told[l]} \cup {p}
      <4> DEFINE new == <<p, ok>>
      <4>1. new[1] = p
        OBVIOUS
      <4> HIDE DEF new
      <4>2. {v[1] : v \in told[l] \cup {new}} = {v[1] : v \in told[l]} \cup {new[1]}
        OBVIOUS
      <4> QED
        BY <4>1, <4>2 DEF new
    <3> QED
      BY <3>1, <3>2, <3>3
  <2>3. CASE l \notin T
    BY <1>3, <2>1, <2>3
  <2> QED
    BY <2>2, <2>3
<1>6. \A l \in Lists : watched'[l] \/ loop'[l].pc \in {"none", "ended"}
  <2> SUFFICES ASSUME NEW l \in Lists PROVE watched'[l] \/ loop'[l].pc \in {"none", "ended"}
    OBVIOUS
  <2>1. watched[l] \/ loop[l].pc \in {"none", "ended"}
    BY DEF NetInv, AllButOneTold
  <2> QED
    BY <1>3, <2>1
<1>7. AllButOneTold'
  BY <1>5, <1>6 DEF AllButOneTold, Transport!ToSet
<1> QED
  BY <1>2, <1>3, <1>4, <1>7

\* A connection that was made goes on.
LEMMA ConnectionsGoOn ==
    ASSUME NetInv, NEW c \in Transport!Connections, conn[c] \notin {"none", "ended"},
           NEW v \in ConnStates \ {"none"}, conn' = [conn EXCEPT ![c] = v],
           \/ closed' = closed
           \/ closed' = closed \cup {c} /\ (v = "ended" \/ breaks' = breaks + 1),
           breaks' \in {breaks, breaks + 1}
    PROVE  /\ breaks' \in Nat /\ closed \subseteq closed' /\ closed' \subseteq Transport!Connections
           /\ conn' \in [Transport!Connections -> ConnStates]
           /\ \A l \in Lists : conn'[l] = "none" <=> conn[l] = "none"
           /\ ClosedOrBroken'
<1>1. /\ conn \in [Transport!Connections -> ConnStates] /\ breaks \in Nat
      /\ closed \subseteq Transport!Connections /\ Lists \subseteq Transport!Connections
      /\ \A x \in closed : conn[x] = "ended" \/ breaks > 0
  BY DEF NetInv, ShutdownTypes, ClosedOrBroken, Transport!Connections
<1>2. conn' \in [Transport!Connections -> ConnStates]
  BY <1>1
<1>3. \A x \in Transport!Connections : conn'[x] = IF x = c THEN v ELSE conn[x]
  BY <1>1
<1>4. breaks' \in Nat /\ (breaks > 0 => breaks' > 0) /\ (breaks' = breaks + 1 => breaks' > 0)
  BY <1>1
<1>5. ASSUME NEW x \in closed' PROVE conn'[x] = "ended" \/ breaks' > 0
  <2>1. CASE x \in closed
    BY <1>1, <1>3, <1>4, <2>1
  <2>2. CASE x \notin closed
    BY <1>3, <1>4, <2>2
  <2> QED
    BY <2>1, <2>2
<1> QED
  BY <1>1, <1>2, <1>3, <1>4, <1>5 DEF ClosedOrBroken

\* What remains to be shown of a step that is not one of a disposal.
LEMMA ShutdownStays ==
    ASSUME ShutdownInv, UNCHANGED <<agenda, visited, inTime, watched, order>>,
           closed \subseteq closed', closed' \subseteq Transport!Connections, breaks' \in Nat,
           conn' \in [Transport!Connections -> ConnStates], ClosedOrBroken',
           \A l \in Lists : conn'[l] = "none" <=> conn[l] = "none",
           \A l \in Lists : /\ loop'[l].pc = "none" <=> loop[l].pc = "none"
                            /\ loop[l].pc = "ended" => loop'[l].pc = "ended",
           told' \in [Lists -> SUBSET (Nat \X BOOLEAN)], AllButOneTold', RepliesAreAwaited'
    PROVE  ShutdownInv'
<1>1. \A l \in Lists : Subscribed(l)' <=> Subscribed(l)
  BY DEF Subscribed
<1>2. PlanInv'
  BY <1>1, PlansStay DEF ShutdownInv
<1>3. ShutdownTypes'
  BY DEF ShutdownInv, NetInv, ShutdownTypes
<1>4. SubscribedRun'
  BY <1>1 DEF ShutdownInv, NetInv, SubscribedRun
<1> QED
  BY <1>2, <1>3, <1>4 DEF ShutdownInv, NetInv

\* Where the posts stay and no reply is settled, those that wait go on waiting.
LEMMA RepliesStay ==
    ASSUME RepliesAreAwaited, outbox' = outbox,
           \A l \in Lists : loop[l].pc = "replying" => loop'[l].pc = "replying"
    PROVE  RepliesAreAwaited'
BY DEF RepliesAreAwaited

\* The parts of ShutdownInv that a step that leaves the connections alone keeps.
LEMMA ConnectionsStay ==
    ASSUME NetInv, UNCHANGED <<conn, closed, breaks>>
    PROVE  /\ closed \subseteq closed' /\ closed' \subseteq Transport!Connections /\ breaks' \in Nat
           /\ conn' \in [Transport!Connections -> ConnStates] /\ ClosedOrBroken'
           /\ \A l \in Lists : conn'[l] = "none" <=> conn[l] = "none"
BY DEF NetInv, ShutdownTypes, ClosedOrBroken


\* At the start nothing is planned and nobody is subscribed.
LEMMA ShutdownBegins == Transport!Init => ShutdownInv
<1> SUFFICES ASSUME Transport!Init PROVE ShutdownInv
  OBVIOUS
<1>1. /\ conn = [c \in Transport!Connections |-> IF c = Main THEN "connecting" ELSE "none"]
      /\ closed = {} /\ breaks = 0 /\ order = <<>> /\ outbox = <<>>
      /\ loop = [l \in Lists |-> Transport!Idle("none")]
      /\ watched = [l \in Lists |-> FALSE] /\ agenda = [c \in DisposeCalls |-> <<>>]
      /\ visited = {} /\ inTime = {}
      /\ heard = [l \in Lists |-> <<>>] /\ told = [l \in Lists |-> {}]
  BY DEF Transport!Init
<1>2. Main \notin Lists /\ Lists \subseteq Transport!Connections
  BY ListTransportAssumption DEF Transport!TransportAssumption, Transport!Connections
<1>3. ShutdownTypes
  <2>1. conn \in [Transport!Connections -> ConnStates]
    BY <1>1 DEF ConnStates
  <2>2. agenda \in [DisposeCalls -> Seq(Nodes)]
    <3>1. <<>> \in Seq(Nodes)
      OBVIOUS
    <3> QED
      BY <1>1, <3>1
  <2>3. watched \in [Lists -> BOOLEAN] /\ told \in [Lists -> SUBSET (Nat \X BOOLEAN)]
    BY <1>1
  <2>4. breaks \in Nat /\ order \in Seq(Lists) /\ inTime \subseteq Lists /\ closed \subseteq Transport!Connections
    BY <1>1
  <2> QED
    BY <2>1, <2>2, <2>3, <2>4 DEF ShutdownTypes
<1>4. \A l \in Lists : /\ ~Subscribed(l) /\ conn[l] = "none" /\ loop[l].pc = "none"
                       /\ Transport!ToSet(heard[l]) = {} /\ told[l] = {}
  BY <1>1, <1>2 DEF Subscribed, Transport!Idle, Transport!ToSet
<1>5. \A n : ~Planned(n) /\ \A c \in DisposeCalls : ~OnAgenda(c, n)
  BY <1>1 DEF Planned, OnAgenda
<1>6. SubscribedRun /\ AllButOneTold
  BY <1>4 DEF SubscribedRun, AllButOneTold
<1>7. RepliesAreAwaited /\ ClosedOrBroken
  BY <1>1 DEF RepliesAreAwaited, ClosedOrBroken
<1>8. PlansAreKept /\ OneUnsubscribes
  BY <1>1, <1>5 DEF PlansAreKept, OneUnsubscribes
<1>9. ResetsWait
  BY <1>1 DEF ResetsWait
<1> QED
  BY <1>3, <1>6, <1>7, <1>8, <1>9 DEF ShutdownInv, NetInv, PlanInv

\* A subscription is the first of its list: nothing was planned for it.
LEMMA ShutdownSubscribes ==
    ASSUME ShutdownInv, PlaceTypes, NEW l \in Lists, Transport!Subscribe(l) PROVE ShutdownInv'
<1>1. /\ conn[l] = "none" /\ conn' = [conn EXCEPT ![l] = "connecting"] /\ order' = Append(order, l)
      /\ loop' = [loop EXCEPT ![l] = Transport!Idle("asked")]
      /\ watched' = [watched EXCEPT ![l] = TRUE]
      /\ UNCHANGED <<closed, breaks, outbox, heard, told, agenda, visited, inTime>>
  BY DEF Transport!Subscribe, Transport!sendVars, Transport!disposeVars
<1>2. /\ conn \in [Transport!Connections -> ConnStates] /\ order \in Seq(Lists)
      /\ watched \in [Lists -> BOOLEAN] /\ loop \in [Lists -> LoopStates]
      /\ Lists \subseteq Transport!Connections
  BY DEF ShutdownInv, NetInv, ShutdownTypes, PlaceTypes, Transport!Connections
<1>3. ~Subscribed(l) /\ loop[l].pc = "none"
  BY <1>1 DEF ShutdownInv, NetInv, SubscribedRun
<1>4. \A k \in Lists : Subscribed(k)' <=> Subscribed(k) \/ k = l
  <2>1. /\ DOMAIN order = 1 .. Len(order) /\ Len(order) \in Nat
        /\ DOMAIN order' = 1 .. Len(order) + 1 /\ order'[Len(order) + 1] = l
        /\ \A i \in 1 .. Len(order) : order'[i] = order[i]
    BY <1>1, <1>2
  <2>2. ASSUME NEW k \in Lists, Subscribed(k)' PROVE Subscribed(k) \/ k = l
    <3>1. PICK i \in 1 .. Len(order) + 1 : order'[i] = k
      BY <2>1, <2>2 DEF Subscribed
    <3>2. CASE i = Len(order) + 1
      BY <2>1, <3>1, <3>2
    <3>3. CASE i # Len(order) + 1
      <4>1. i \in DOMAIN order /\ order[i] = k
        BY <2>1, <3>1, <3>3
      <4> QED
        BY <4>1 DEF Subscribed
    <3> QED
      BY <3>2, <3>3
  <2>3. ASSUME NEW k \in Lists, Subscribed(k) PROVE Subscribed(k)'
    <3>1. PICK i \in DOMAIN order : order[i] = k
      BY <2>3 DEF Subscribed
    <3>2. i \in DOMAIN order' /\ order'[i] = k
      BY <2>1, <3>1
    <3> QED
      BY <3>2 DEF Subscribed
  <2>4. Subscribed(l)'
    <3>1. Len(order) + 1 \in DOMAIN order'
      BY <2>1
    <3> QED
      BY <2>1, <3>1 DEF Subscribed
  <2> QED
    BY <2>2, <2>3, <2>4
<1>5. /\ conn'[l] = "connecting" /\ loop'[l].pc = "asked" /\ watched'[l] = TRUE
      /\ \A k \in Lists : k # l => /\ conn'[k] = conn[k] /\ loop'[k] = loop[k]
                                   /\ watched'[k] = watched[k]
  BY <1>1, <1>2 DEF Transport!Idle
<1>6. PlanInv'
  <2>1. \A k \in Lists : /\ Subscribed(k) => Subscribed(k)'
                         /\ loop[k].pc = "ended" => loop'[k].pc = "ended"
                         /\ Subscribed(k) /\ watched'[k] => watched[k]
    BY <1>3, <1>4, <1>5
  <2> QED
    BY <1>1, <2>1, PlansStay DEF ShutdownInv
<1>7. ShutdownTypes'
  <2>1. order' \in Seq(Lists)
    BY <1>1, <1>2
  <2>2. conn' \in [Transport!Connections -> ConnStates]
    BY <1>1, <1>2 DEF ConnStates
  <2>3. watched' \in [Lists -> BOOLEAN]
    BY <1>1, <1>2
  <2> QED
    BY <1>1, <2>1, <2>2, <2>3 DEF ShutdownInv, NetInv, ShutdownTypes
<1>8. SubscribedRun'
  BY <1>4, <1>5 DEF ShutdownInv, NetInv, SubscribedRun
<1>9. RepliesAreAwaited'
  <2>1. \A k \in Lists : loop[k].pc = "replying" => loop'[k].pc = "replying"
    BY <1>3, <1>5
  <2> QED
    BY <1>1, <2>1, RepliesStay DEF ShutdownInv, NetInv
<1>10. AllButOneTold'
  <2>1. ASSUME NEW k \in Lists
        PROVE  /\ watched'[k] \/ loop'[k].pc \in {"none", "ended"}
               /\ Transport!ToSet(heard'[k]) =
                      {v[1] : v \in told'[k]} \cup
                      IF loop'[k].pc \in {"handling", "replying"} THEN {loop'[k].push} ELSE {}
    <3>1. Transport!ToSet(heard'[k]) = Transport!ToSet(heard[k]) /\ told'[k] = told[k]
      BY <1>1
    <3>2. CASE k = l
      BY <1>3, <1>5, <3>1, <3>2 DEF ShutdownInv, NetInv, AllButOneTold
    <3>3. CASE k # l
      BY <1>5, <3>1, <3>3 DEF ShutdownInv, NetInv, AllButOneTold
    <3> QED
      BY <3>2, <3>3
  <2> QED
    BY <2>1 DEF AllButOneTold, Transport!ToSet
<1>11. ClosedOrBroken'
  <2>1. \A x \in closed : conn[x] = "ended" => conn'[x] = "ended"
    BY <1>1, <1>2 DEF ShutdownInv, NetInv, ShutdownTypes
  <2> QED
    BY <1>1, <2>1 DEF ShutdownInv, NetInv, ClosedOrBroken
<1> QED
  BY <1>6, <1>7, <1>8, <1>9, <1>10, <1>11 DEF ShutdownInv, NetInv

\* Only a list's loop turns.
LEMMA ShutdownTurns ==
    ASSUME ShutdownInv, PlaceTypes, UNCHANGED <<conn, closed, breaks, outbox, order, watched, heard, told>>,
           UNCHANGED <<agenda, visited, inTime>>, loop' \in [Lists -> LoopStates],
           \A l \in Lists : \/ loop'[l] = loop[l]
                            \/ /\ loop[l].pc \notin {"none", "ended", "handling", "replying"}
                               /\ loop'[l].pc \notin {"none", "handling", "replying"}
    PROVE  ShutdownInv'
<1>1. NetInv
  BY DEF ShutdownInv
<1>2. /\ AllButOneTold'
      /\ \A l \in Lists : /\ loop'[l].pc = "none" <=> loop[l].pc = "none"
                          /\ loop[l].pc = "ended" => loop'[l].pc = "ended"
                          /\ loop[l].pc = "replying" => loop'[l].pc = "replying"
  BY <1>1, LoopsTurn
<1>3. RepliesAreAwaited'
  BY <1>1, <1>2, RepliesStay DEF NetInv
<1>4. /\ closed \subseteq closed' /\ closed' \subseteq Transport!Connections /\ breaks' \in Nat
      /\ conn' \in [Transport!Connections -> ConnStates] /\ ClosedOrBroken'
      /\ \A l \in Lists : conn'[l] = "none" <=> conn[l] = "none"
  BY <1>1, ConnectionsStay
<1>5. told' \in [Lists -> SUBSET (Nat \X BOOLEAN)]
  BY <1>1 DEF NetInv, ShutdownTypes
<1> QED
  BY <1>2, <1>3, <1>4, <1>5, ShutdownStays


\* The first post is settled: the replies behind it are others'.
LEMMA RepliesMoveUp ==
    ASSUME RepliesAreAwaited, outbox \in Seq(Posts), outbox # <<>>, outbox' = Tail(outbox),
           \A l \in Lists : loop[l].pc = "replying" /\ Head(outbox) # <<"reply", l>>
                            => loop'[l].pc = "replying"
    PROVE  RepliesAreAwaited'
<1>1. /\ DOMAIN outbox = 1 .. Len(outbox) /\ Len(outbox) \in Nat /\ Len(outbox) > 0
      /\ DOMAIN outbox' = 1 .. Len(outbox) - 1 /\ Head(outbox) = outbox[1] /\ 1 \in DOMAIN outbox
      /\ \A i \in 1 .. Len(outbox) - 1 : outbox'[i] = outbox[i + 1]
  OBVIOUS
<1>2. \A i \in DOMAIN outbox' : i + 1 \in DOMAIN outbox /\ i + 1 # 1 /\ outbox'[i] = outbox[i + 1]
  BY <1>1
<1> SUFFICES ASSUME NEW i \in DOMAIN outbox', NEW l \in Lists, outbox'[i] = <<"reply", l>>
             PROVE  /\ loop'[l].pc = "replying"
                    /\ \A j \in DOMAIN outbox' : outbox'[j] = outbox'[i] => j = i
  BY DEF RepliesAreAwaited
<1>3. /\ i + 1 \in DOMAIN outbox /\ outbox[i + 1] = <<"reply", l>> /\ loop[l].pc = "replying"
      /\ \A j \in DOMAIN outbox : outbox[j] = outbox[i + 1] => j = i + 1
  <2>1. i + 1 \in DOMAIN outbox /\ outbox[i + 1] = <<"reply", l>>
    BY <1>2
  <2> QED
    BY <2>1 DEF RepliesAreAwaited
<1>4. loop'[l].pc = "replying"
  BY <1>1, <1>2, <1>3
<1>5. ASSUME NEW j \in DOMAIN outbox', outbox'[j] = outbox'[i] PROVE j = i
  <2>1. j + 1 = i + 1
    BY <1>2, <1>3, <1>5
  <2> QED
    BY <1>1, <2>1
<1> QED
  BY <1>4, <1>5

\* A post is put last; a reply only where there is none of that list.
LEMMA RepliesGrow ==
    ASSUME RepliesAreAwaited, outbox \in Seq(Posts), NEW x \in Posts, outbox' = Append(outbox, x),
           \A l \in Lists : loop[l].pc = "replying" => loop'[l].pc = "replying",
           \A l \in Lists : x = <<"reply", l>> => /\ loop[l].pc # "replying"
                                                  /\ loop'[l].pc = "replying"
    PROVE  RepliesAreAwaited'
<1>1. /\ DOMAIN outbox = 1 .. Len(outbox) /\ Len(outbox) \in Nat
      /\ DOMAIN outbox' = 1 .. Len(outbox) + 1 /\ outbox'[Len(outbox) + 1] = x
      /\ \A i \in 1 .. Len(outbox) : outbox'[i] = outbox[i]
  OBVIOUS
<1>2. ASSUME NEW i \in DOMAIN outbox'
      PROVE  \/ i \in DOMAIN outbox /\ outbox'[i] = outbox[i]
             \/ i = Len(outbox) + 1 /\ outbox'[i] = x
  BY <1>1
<1> SUFFICES ASSUME NEW i \in DOMAIN outbox', NEW l \in Lists, outbox'[i] = <<"reply", l>>
             PROVE  /\ loop'[l].pc = "replying"
                    /\ \A j \in DOMAIN outbox' : outbox'[j] = outbox'[i] => j = i
  BY DEF RepliesAreAwaited
<1>3. CASE i \in DOMAIN outbox /\ outbox'[i] = outbox[i]
  <2>1. /\ loop[l].pc = "replying" /\ outbox[i] = <<"reply", l>>
        /\ \A j \in DOMAIN outbox : outbox[j] = outbox[i] => j = i
    BY <1>3 DEF RepliesAreAwaited
  <2>2. x # <<"reply", l>>
    BY <2>1
  <2> QED
    BY <1>2, <1>3, <2>1, <2>2
<1>4. CASE i = Len(outbox) + 1 /\ outbox'[i] = x
  <2>1. loop[l].pc # "replying" /\ loop'[l].pc = "replying"
    BY <1>4
  <2>2. \A j \in DOMAIN outbox : outbox[j] # <<"reply", l>>
    BY <2>1 DEF RepliesAreAwaited
  <2> QED
    BY <1>2, <1>4, <2>1, <2>2
<1> QED
  BY <1>2, <1>3, <1>4

\* A message is handed to its handler: it is the one in hand.
LEMMA ShutdownReads ==
    ASSUME ShutdownInv, PlaceTypes, NEW l \in Lists, Transport!Read(l) PROVE ShutdownInv'
<1> DEFINE p == loop[l].push
<1>0. /\ loop \in [Lists -> LoopStates] /\ heard \in [Lists -> Seq(1 .. Len(pushes))]
      /\ NetInv /\ Len(pushes) \in Nat
  BY DEF PlaceTypes, ShutdownInv
<1>1. /\ loop[l].pc = "popped"
      /\ UNCHANGED <<conn, closed, breaks, outbox, order, watched, told, agenda, visited, inTime>>
  BY DEF Transport!Read, Transport!netVars, Transport!sendVars, Transport!disposeVars
<1>2. CASE pushes[p] \in Malformed
  <2> DEFINE s == Transport!Again(l)
  <2>1. loop' = [loop EXCEPT ![l] = s] /\ heard' = heard
    BY <1>2 DEF Transport!Read
  <2>2. s \in LoopStates /\ s.pc \in {"asked", "ended"}
    BY DEF Transport!Again, Transport!Idle, LoopStates
  <2> HIDE DEF s
  <2>3. /\ loop' \in [Lists -> LoopStates]
        /\ \A k \in Lists : \/ loop'[k] = loop[k]
                            \/ /\ loop[k].pc \notin {"none", "ended", "handling", "replying"}
                               /\ loop'[k].pc \notin {"none", "handling", "replying"}
    BY <1>0, <1>1, <2>1, <2>2
  <2> QED
    BY <1>1, <2>1, <2>3, ShutdownTurns
<1>3. CASE pushes[p] \notin Malformed
  <2>1. /\ loop' = [loop EXCEPT ![l].pc = "handling"]
        /\ heard' = [heard EXCEPT ![l] = Append(heard[l], p)]
    BY <1>3 DEF Transport!Read
  <2>2. /\ loop'[l].pc = "handling" /\ loop'[l].push = p
        /\ \A k \in Lists : k # l => loop'[k] = loop[k] /\ heard'[k] = heard[k]
        /\ heard'[l] = Append(heard[l], p)
    BY <1>0, <2>1 DEF LoopStates
  <2>3. p \in Nat /\ heard[l] \in Seq(Nat)
    BY <1>0 DEF LoopStates
  <2> HIDE DEF p
  <2>4. Transport!ToSet(heard'[l]) = Transport!ToSet(heard[l]) \cup {p}
    <3> DEFINE h == heard[l]
    <3>1. h \in Seq(Nat) /\ heard'[l] = Append(h, p)
      BY <2>2, <2>3
    <3> HIDE DEF h
    <3>2. /\ DOMAIN Append(h, p) = 1 .. Len(h) + 1 /\ DOMAIN h = 1 .. Len(h) /\ Len(h) \in Nat
          /\ \A i \in 1 .. Len(h) : Append(h, p)[i] = h[i]
          /\ Append(h, p)[Len(h) + 1] = p
      BY <2>3, <3>1
    <3>3. 1 .. Len(h) + 1 = (1 .. Len(h)) \cup {Len(h) + 1}
      BY <3>2
    <3>4. Transport!ToSet(Append(h, p)) = Transport!ToSet(h) \cup {p}
      BY <3>2, <3>3 DEF Transport!ToSet
    <3> QED
      BY <3>1, <3>4 DEF h
  <2>5. AllButOneTold'
    <3>1. ASSUME NEW k \in Lists
          PROVE  /\ watched'[k] \/ loop'[k].pc \in {"none", "ended"}
                 /\ Transport!ToSet(heard'[k]) =
                        {v[1] : v \in told'[k]} \cup
                        IF loop'[k].pc \in {"handling", "replying"} THEN {loop'[k].push} ELSE {}
      <4>1. CASE k = l
        <5>1. watched[l] /\ Transport!ToSet(heard[l]) = {v[1] : v \in told[l]}
          BY <1>0, <1>1 DEF NetInv, AllButOneTold
        <5> QED
          BY <1>1, <2>2, <2>4, <4>1, <5>1
      <4>2. CASE k # l
        BY <1>0, <1>1, <2>2, <4>2 DEF NetInv, AllButOneTold
      <4> QED
        BY <4>1, <4>2
    <3> QED
      BY <3>1 DEF AllButOneTold, Transport!ToSet
  <2>6. \A k \in Lists : /\ loop'[k].pc = "none" <=> loop[k].pc = "none"
                         /\ loop[k].pc = "ended" => loop'[k].pc = "ended"
                         /\ loop[k].pc = "replying" => loop'[k].pc = "replying"
    BY <1>1, <2>2
  <2>7. RepliesAreAwaited'
    BY <1>0, <1>1, <2>6, RepliesStay DEF NetInv
  <2>8. /\ closed \subseteq closed' /\ closed' \subseteq Transport!Connections /\ breaks' \in Nat
        /\ conn' \in [Transport!Connections -> ConnStates] /\ ClosedOrBroken'
        /\ \A k \in Lists : conn'[k] = "none" <=> conn[k] = "none"
    BY <1>0, <1>1, ConnectionsStay
  <2>9. told' \in [Lists -> SUBSET (Nat \X BOOLEAN)]
    BY <1>0, <1>1 DEF NetInv, ShutdownTypes
  <2> QED
    BY <1>1, <2>5, <2>6, <2>7, <2>8, <2>9, ShutdownStays
<1> QED
  BY <1>2, <1>3


\* Verdicts are told, and whatever else the step does is done to connections and posts.
LEMMA ShutdownTells ==
    ASSUME ShutdownInv, PlaceTypes, UNCHANGED <<heard, watched, order, agenda, visited, inTime>>,
           NEW T \in SUBSET Lists, NEW ok \in BOOLEAN,
           \A l \in T : loop[l].pc \in {"handling", "replying"},
           loop' = [l \in Lists |-> IF l \in T THEN Transport!Idle("done") ELSE loop[l]],
           told' = [l \in Lists |-> IF l \in T THEN Transport!Told(l, ok) ELSE told[l]],
           closed \subseteq closed', closed' \subseteq Transport!Connections, breaks' \in Nat,
           conn' \in [Transport!Connections -> ConnStates], ClosedOrBroken',
           \A l \in Lists : conn'[l] = "none" <=> conn[l] = "none", RepliesAreAwaited'
    PROVE  ShutdownInv'
<1>1. NetInv
  BY DEF ShutdownInv
<1>2. /\ AllButOneTold' /\ told' \in [Lists -> SUBSET (Nat \X BOOLEAN)]
      /\ \A l \in Lists : /\ loop'[l].pc = "none" <=> loop[l].pc = "none"
                          /\ loop[l].pc = "ended" => loop'[l].pc = "ended"
  BY <1>1, VerdictsTold
<1> QED
  BY <1>2, ShutdownStays

\* One list's verdict, told as the verdicts of many are.
LEMMA OneIsSettled ==
    ASSUME loop \in [Lists -> LoopStates], told \in [Lists -> SUBSET (Nat \X BOOLEAN)],
           NEW l \in Lists, NEW ok,
           loop' = [loop EXCEPT ![l] = Transport!Idle("done")],
           told' = [told EXCEPT ![l] = Transport!Told(l, ok)]
    PROVE  /\ loop' = [k \in Lists |-> IF k \in {l} THEN Transport!Idle("done") ELSE loop[k]]
           /\ told' = [k \in Lists |-> IF k \in {l} THEN Transport!Told(k, ok) ELSE told[k]]
<1>1. loop' = [k \in Lists |-> IF k \in {l} THEN Transport!Idle("done") ELSE loop[k]]
  OBVIOUS
<1>2. told' = [k \in Lists |-> IF k \in {l} THEN Transport!Told(k, ok) ELSE told[k]]
  OBVIOUS
<1> QED
  BY <1>1, <1>2

\* A handler is done with what it was given, and the watcher is told.
LEMMA ShutdownSettles ==
    ASSUME ShutdownInv, PlaceTypes, NEW l \in Lists, loop[l].pc = "handling", NEW ok \in BOOLEAN,
           loop' = [loop EXCEPT ![l] = Transport!Idle("done")],
           told' = [told EXCEPT ![l] = Transport!Told(l, ok)],
           UNCHANGED <<conn, closed, breaks, outbox, order, watched, heard>>,
           UNCHANGED <<agenda, visited, inTime>>
    PROVE  ShutdownInv'
<1>1. /\ NetInv /\ RepliesAreAwaited
      /\ loop \in [Lists -> LoopStates] /\ told \in [Lists -> SUBSET (Nat \X BOOLEAN)]
  BY DEF ShutdownInv, NetInv, PlaceTypes, ShutdownTypes
<1>2. /\ loop' = [k \in Lists |-> IF k \in {l} THEN Transport!Idle("done") ELSE loop[k]]
      /\ told' = [k \in Lists |-> IF k \in {l} THEN Transport!Told(k, ok) ELSE told[k]]
  BY <1>1, OneIsSettled
<1>3. \A k \in Lists : loop[k].pc = "replying" => loop'[k].pc = "replying"
  BY <1>2
<1>4. RepliesAreAwaited'
  BY <1>1, <1>3, RepliesStay
<1>5. /\ closed \subseteq closed' /\ closed' \subseteq Transport!Connections /\ breaks' \in Nat
      /\ conn' \in [Transport!Connections -> ConnStates] /\ ClosedOrBroken'
      /\ \A k \in Lists : conn'[k] = "none" <=> conn[k] = "none"
  BY <1>1, ConnectionsStay
<1>6. {l} \in SUBSET Lists /\ \A k \in {l} : loop[k].pc \in {"handling", "replying"}
  OBVIOUS
<1>7. /\ UNCHANGED <<heard, watched, order, agenda, visited, inTime>>
      /\ RepliesAreAwaited'
  BY <1>4
<1> DEFINE T == {l}
<1>8. /\ T \in SUBSET Lists /\ \A k \in T : loop[k].pc \in {"handling", "replying"}
      /\ loop' = [k \in Lists |-> IF k \in T THEN Transport!Idle("done") ELSE loop[k]]
      /\ told' = [k \in Lists |-> IF k \in T THEN Transport!Told(k, ok) ELSE told[k]]
  BY <1>2, <1>6
<1> HIDE DEF T
<1> QED
  BY <1>5, <1>7, <1>8, ShutdownTells

\* The answer to a post is read: where it is a reply, its verdict is told.
LEMMA ShutdownAcknowledges ==
    ASSUME ShutdownInv, PlaceTypes, Transport!Acknowledged PROVE ShutdownInv'
<1>1. /\ arrived > 0 /\ outbox' = Tail(outbox) /\ Transport!Settled(Head(outbox), TRUE)
      /\ UNCHANGED <<conn, closed, breaks, order, watched, heard, agenda, visited, inTime>>
  BY DEF Transport!Acknowledged, Transport!netVars, Transport!disposeVars
<1>2. /\ NetInv /\ RepliesAreAwaited /\ outbox \in Seq(Posts) /\ outbox # <<>>
      /\ loop \in [Lists -> LoopStates] /\ told \in [Lists -> SUBSET (Nat \X BOOLEAN)]
  BY <1>1 DEF ShutdownInv, NetInv, PlaceTypes, ShutdownTypes
<1>3. /\ closed \subseteq closed' /\ closed' \subseteq Transport!Connections /\ breaks' \in Nat
      /\ conn' \in [Transport!Connections -> ConnStates] /\ ClosedOrBroken'
      /\ \A k \in Lists : conn'[k] = "none" <=> conn[k] = "none"
  BY <1>1, <1>2, ConnectionsStay
<1>4. Head(outbox) \in Posts /\ Head(outbox) = outbox[1] /\ 1 \in DOMAIN outbox
  BY <1>2
<1>5. CASE Head(outbox)[1] = "message"
  <2>1. UNCHANGED <<loop, told>>
    BY <1>1, <1>5 DEF Transport!Settled
  <2>2. RepliesAreAwaited'
    BY <1>1, <1>2, <2>1, RepliesMoveUp
  <2>3. AllButOneTold' /\ told' \in [Lists -> SUBSET (Nat \X BOOLEAN)]
    <3>1. loop' \in [Lists -> LoopStates] /\ \A l \in Lists : loop'[l] = loop[l]
      BY <1>2, <2>1
    <3> QED
      BY <1>1, <1>2, <2>1, <3>1, LoopsTurn
  <2> QED
    BY <1>1, <1>3, <2>1, <2>2, <2>3, ShutdownStays
<1>6. CASE Head(outbox)[1] # "message"
  <2>1. PICK l \in Lists : Head(outbox) = <<"reply", l>>
    BY <1>4, <1>6 DEF Posts
  <2>2. loop[l].pc = "replying"
    BY <1>2, <1>4, <2>1 DEF RepliesAreAwaited
  <2>3. Head(outbox)[2] = l
    BY <2>1
  <2>4. /\ loop' = [loop EXCEPT ![l] = Transport!Idle("done")]
        /\ told' = [told EXCEPT ![l] = Transport!Told(l, TRUE)]
    BY <1>1, <1>6, <2>3 DEF Transport!Settled
  <2>5. /\ loop' = [k \in Lists |-> IF k \in {l} THEN Transport!Idle("done") ELSE loop[k]]
        /\ told' = [k \in Lists |-> IF k \in {l} THEN Transport!Told(k, TRUE) ELSE told[k]]
    BY <1>2, <2>4, OneIsSettled
  <2>6. \A k \in Lists : loop[k].pc = "replying" /\ Head(outbox) # <<"reply", k>>
                         => loop'[k].pc = "replying"
    BY <2>1, <2>5
  <2>7. RepliesAreAwaited'
    BY <1>1, <1>2, <2>6, RepliesMoveUp
  <2>8. {l} \in SUBSET Lists /\ \A k \in {l} : loop[k].pc \in {"handling", "replying"}
    BY <2>2
  <2> QED
    BY <1>1, <1>3, <2>5, <2>7, <2>8, ShutdownTells
<1> QED
  BY <1>5, <1>6

\* A connection connects, breaks or closes, and no reply is rejected for it.
LEMMA ShutdownConnects ==
    ASSUME ShutdownInv, PlaceTypes, NEW c \in Transport!Connections, conn[c] \notin {"none", "ended"},
           NEW v \in ConnStates \ {"none"}, conn' = [conn EXCEPT ![c] = v],
           \/ closed' = closed
           \/ closed' = closed \cup {c} /\ (v = "ended" \/ breaks' = breaks + 1),
           breaks' \in {breaks, breaks + 1},
           loop' = loop \/ loop' = Transport!Forgotten(c),
           UNCHANGED <<outbox, order, watched, heard, told, agenda, visited, inTime>>
    PROVE  ShutdownInv'
<1>1. /\ NetInv /\ RepliesAreAwaited /\ loop \in [Lists -> LoopStates]
      /\ told \in [Lists -> SUBSET (Nat \X BOOLEAN)]
  BY DEF ShutdownInv, NetInv, PlaceTypes, ShutdownTypes
<1>2. /\ breaks' \in Nat /\ closed \subseteq closed' /\ closed' \subseteq Transport!Connections
      /\ conn' \in [Transport!Connections -> ConnStates]
      /\ \A l \in Lists : conn'[l] = "none" <=> conn[l] = "none"
      /\ ClosedOrBroken'
  BY <1>1, ConnectionsGoOn
<1>3. /\ loop' \in [Lists -> LoopStates]
      /\ \A l \in Lists : \/ loop'[l] = loop[l]
                          \/ /\ loop[l].pc \notin {"none", "ended", "handling", "replying"}
                             /\ loop'[l].pc \notin {"none", "handling", "replying"}
  <2>1. CASE loop' = loop
    BY <1>1, <2>1
  <2>2. CASE loop' = Transport!Forgotten(c)
    <3>1. loop' \in [Lists -> LoopStates]
      BY <2>2, LoopsForget
    <3>2. \A l \in Lists : \/ loop'[l] = loop[l]
                           \/ loop[l].pc = "popped" /\ loop'[l].pc = "asked"
      BY <2>2 DEF Transport!Forgotten, Transport!Idle
    <3> QED
      BY <3>1, <3>2
  <2> QED
    BY <2>1, <2>2
<1>4. /\ AllButOneTold'
      /\ \A l \in Lists : /\ loop'[l].pc = "none" <=> loop[l].pc = "none"
                          /\ loop[l].pc = "ended" => loop'[l].pc = "ended"
                          /\ loop[l].pc = "replying" => loop'[l].pc = "replying"
  BY <1>1, <1>3, LoopsTurn
<1>5. RepliesAreAwaited'
  BY <1>1, <1>4, RepliesStay
<1>6. told' \in [Lists -> SUBSET (Nat \X BOOLEAN)]
  BY <1>1
<1> QED
  BY <1>2, <1>4, <1>5, <1>6, ShutdownStays

\* A connection that was told to close has ended; with the main one every reply that was
\* not answered is rejected.
LEMMA ShutdownCloses ==
    ASSUME ShutdownInv, PlaceTypes, NEW c \in Transport!Connections, Transport!Close(c)
    PROVE  ShutdownInv'
<1>1. /\ conn[c] = "closing" /\ conn' = [conn EXCEPT ![c] = "ended"] /\ closed' = closed \cup {c}
      /\ UNCHANGED <<breaks, order, watched, heard, agenda, visited, inTime>>
  BY DEF Transport!Close, Transport!disposeVars
<1>2. conn[c] \notin {"none", "ended"} /\ "ended" \in ConnStates \ {"none"}
  BY <1>1 DEF ConnStates
<1>3. CASE c = Main
  <2> DEFINE T == {l \in Lists : Transport!Replying(l)}
  <2>1. /\ loop' = [l \in Lists |-> IF l \in T THEN Transport!Idle("done") ELSE loop[l]]
        /\ told' = [l \in Lists |-> IF l \in T THEN Transport!Told(l, FALSE) ELSE told[l]]
        /\ outbox' = <<>>
    BY <1>3 DEF Transport!Close
  <2>2. RepliesAreAwaited'
    BY <2>1 DEF RepliesAreAwaited
  <2>3. \A l \in T : loop[l].pc \in {"handling", "replying"}
    BY DEF Transport!Replying, Transport!ToSet, ShutdownInv, NetInv, RepliesAreAwaited
  <2>4. T \in SUBSET Lists
    OBVIOUS
  <2> HIDE DEF T
  <2>5. NetInv
    BY DEF ShutdownInv
  <2>6. /\ breaks' \in Nat /\ closed \subseteq closed' /\ closed' \subseteq Transport!Connections
        /\ conn' \in [Transport!Connections -> ConnStates]
        /\ \A l \in Lists : conn'[l] = "none" <=> conn[l] = "none"
        /\ ClosedOrBroken'
    BY <1>1, <1>2, <2>5, ConnectionsGoOn
  <2> QED
    BY <1>1, <2>1, <2>2, <2>3, <2>4, <2>6, ShutdownTells
<1>4. CASE c # Main
  <2>1. loop' = Transport!Forgotten(c) /\ UNCHANGED <<told, outbox>>
    BY <1>4 DEF Transport!Close
  <2> QED
    BY <1>1, <1>2, <2>1, ShutdownConnects
<1> QED
  BY <1>3, <1>4

\* A message is sent.
LEMMA ShutdownSends == ASSUME ShutdownInv, PlaceTypes, Transport!Send PROVE ShutdownInv'
<1> DEFINE x == <<"message", sent + 1>>
<1>1. /\ sent < MaxSent
      /\ UNCHANGED <<conn, closed, breaks, order, watched, heard, told, loop>>
      /\ UNCHANGED <<agenda, visited, inTime>>
      /\ outbox' = outbox \/ outbox' = Append(outbox, x)
  BY DEF Transport!Send, Transport!netVars, Transport!listVars, Transport!disposeVars
<1>2. /\ NetInv /\ RepliesAreAwaited /\ outbox \in Seq(Posts)
      /\ loop \in [Lists -> LoopStates] /\ told \in [Lists -> SUBSET (Nat \X BOOLEAN)]
  BY DEF ShutdownInv, NetInv, PlaceTypes, ShutdownTypes
<1>3. x \in Posts
  <2>1. sent \in Nat /\ MaxSent \in Nat
    BY ListTransportAssumption DEF PlaceTypes, Transport!TransportAssumption
  <2> QED
    BY <1>1, <2>1 DEF Posts
<1>4. \A l \in Lists : x # <<"reply", l>>
  OBVIOUS
<1> HIDE DEF x
<1>5. \A l \in Lists : loop'[l] = loop[l]
  BY <1>1
<1>6. RepliesAreAwaited'
  BY <1>1, <1>2, <1>3, <1>4, <1>5, RepliesStay, RepliesGrow
<1>7. AllButOneTold'
  <2>1. loop' \in [Lists -> LoopStates]
    BY <1>1, <1>2
  <2> QED
    BY <1>1, <1>2, <1>5, <2>1, LoopsTurn
<1>8. /\ closed \subseteq closed' /\ closed' \subseteq Transport!Connections /\ breaks' \in Nat
      /\ conn' \in [Transport!Connections -> ConnStates] /\ ClosedOrBroken'
      /\ \A k \in Lists : conn'[k] = "none" <=> conn[k] = "none"
  BY <1>1, <1>2, ConnectionsStay
<1>9. told' \in [Lists -> SUBSET (Nat \X BOOLEAN)]
  BY <1>1, <1>2
<1> QED
  BY <1>1, <1>5, <1>6, <1>7, <1>8, <1>9, ShutdownStays

\* A task's reply is posted, or its message is done with where no post can be made.
LEMMA ShutdownReplies ==
    ASSUME ShutdownInv, PlaceTypes, NEW l \in Lists, Transport!HandlerReplies(l) PROVE ShutdownInv'
<1>1. /\ loop[l].pc = "handling"
      /\ UNCHANGED <<conn, closed, breaks, order, watched, heard, agenda, visited, inTime>>
  BY DEF Transport!HandlerReplies, Transport!netVars, Transport!disposeVars
<1>2. /\ NetInv /\ RepliesAreAwaited /\ outbox \in Seq(Posts)
      /\ loop \in [Lists -> LoopStates] /\ told \in [Lists -> SUBSET (Nat \X BOOLEAN)]
  BY DEF ShutdownInv, NetInv, PlaceTypes, ShutdownTypes
<1>3. CASE conn[Main] = "ended"
  <2>1. outbox' = outbox /\ Transport!Settled(<<"reply", l>>, FALSE)
    BY <1>3 DEF Transport!HandlerReplies
  <2>2. /\ loop' = [loop EXCEPT ![l] = Transport!Idle("done")]
        /\ told' = [told EXCEPT ![l] = Transport!Told(l, FALSE)]
    BY <2>1 DEF Transport!Settled
  <2> QED
    BY <1>1, <2>1, <2>2, ShutdownSettles
<1>4. CASE conn[Main] # "ended"
  <2> DEFINE x == <<"reply", l>>
  <2>1. /\ loop' = [loop EXCEPT ![l].pc = "replying"]
        /\ outbox' = Append(outbox, x) /\ told' = told
    BY <1>4 DEF Transport!HandlerReplies
  <2>2. /\ loop'[l].pc = "replying" /\ loop'[l].push = loop[l].push
        /\ \A k \in Lists : k # l => loop'[k] = loop[k]
    BY <1>2, <2>1 DEF LoopStates
  <2>3. x \in Posts /\ \A k \in Lists : x = <<"reply", k>> => k = l
    BY DEF Posts
  <2> HIDE DEF x
  <2>4. /\ \A k \in Lists : /\ loop'[k].pc = "none" <=> loop[k].pc = "none"
                            /\ loop[k].pc = "ended" => loop'[k].pc = "ended"
                            /\ loop[k].pc = "replying" => loop'[k].pc = "replying"
        /\ \A k \in Lists : x = <<"reply", k>> => /\ loop[k].pc # "replying"
                                                  /\ loop'[k].pc = "replying"
    BY <1>1, <2>2, <2>3
  <2>5. RepliesAreAwaited'
    BY <1>2, <2>1, <2>3, <2>4, RepliesGrow
  <2>6. AllButOneTold'
    <3>1. ASSUME NEW k \in Lists
          PROVE  /\ watched'[k] \/ loop'[k].pc \in {"none", "ended"}
                 /\ Transport!ToSet(heard'[k]) =
                        {v[1] : v \in told'[k]} \cup
                        IF loop'[k].pc \in {"handling", "replying"} THEN {loop'[k].push} ELSE {}
      <4>1. Transport!ToSet(heard'[k]) = Transport!ToSet(heard[k]) /\ told'[k] = told[k] /\ watched'[k] = watched[k]
        BY <1>1, <2>1
      <4>2. CASE k = l
        BY <1>1, <1>2, <2>2, <4>1, <4>2 DEF NetInv, AllButOneTold
      <4>3. CASE k # l
        BY <1>2, <2>2, <4>1, <4>3 DEF NetInv, AllButOneTold
      <4> QED
        BY <4>2, <4>3
    <3> QED
      BY <3>1 DEF AllButOneTold, Transport!ToSet
  <2>7. /\ closed \subseteq closed' /\ closed' \subseteq Transport!Connections /\ breaks' \in Nat
        /\ conn' \in [Transport!Connections -> ConnStates] /\ ClosedOrBroken'
        /\ \A k \in Lists : conn'[k] = "none" <=> conn[k] = "none"
    BY <1>1, <1>2, ConnectionsStay
  <2>8. told' \in [Lists -> SUBSET (Nat \X BOOLEAN)]
    BY <1>2, <2>1
  <2> QED
    BY <1>1, <2>4, <2>5, <2>6, <2>7, <2>8, ShutdownStays
<1> QED
  BY <1>3, <1>4

\* Every step of the transport keeps ShutdownInv, the places being kept.
LEMMA ShutdownGoesOn ==
    PlacesInv /\ ShutdownInv /\ [Transport!Next]_(Transport!vars) => ShutdownInv'
<1> SUFFICES ASSUME PlacesInv, ShutdownInv, [Transport!Next]_(Transport!vars) PROVE ShutdownInv'
  OBVIOUS
<1>0. PlaceTypes /\ loop \in [Lists -> LoopStates]
  BY DEF PlacesInv, PlaceTypes
<1>1. CASE Transport!Push
  <2>1. /\ UNCHANGED <<conn, closed, breaks, outbox, order, watched, heard, told>>
        /\ UNCHANGED <<agenda, visited, inTime, loop>>
    BY <1>1 DEF Transport!Push, Transport!netVars, Transport!listVars, Transport!disposeVars
  <2> QED
    BY <1>0, <2>1, ShutdownTurns
<1>2. ASSUME NEW c \in Transport!Connections, Transport!Connect(c) PROVE ShutdownInv'
  <2>1. /\ conn[c] \in {"connecting", "waiting"} /\ conn' = [conn EXCEPT ![c] = "open"]
        /\ UNCHANGED <<closed, breaks, loop>>
        /\ UNCHANGED <<outbox, order, watched, heard, told, agenda, visited, inTime>>
    BY <1>2 DEF Transport!Connect, Transport!sendVars, Transport!listVars, Transport!disposeVars
  <2>2. conn[c] \notin {"none", "ended"} /\ "open" \in ConnStates \ {"none"} /\ breaks' \in {breaks, breaks + 1}
    BY <2>1 DEF ConnStates
  <2> QED
    BY <1>0, <2>1, <2>2, ShutdownConnects
<1>3. ASSUME NEW c \in Transport!Connections, Transport!Break(c) PROVE ShutdownInv'
  <2>1. /\ conn[c] \in {"connecting", "open"} /\ conn' = [conn EXCEPT ![c] = "waiting"]
        /\ closed' = closed \cup {c} /\ breaks' = breaks + 1 /\ loop' = Transport!Forgotten(c)
        /\ UNCHANGED <<outbox, order, watched, heard, told, agenda, visited, inTime>>
    BY <1>3 DEF Transport!Break, Transport!disposeVars
  <2>2. conn[c] \notin {"none", "ended"} /\ "waiting" \in ConnStates \ {"none"} /\ breaks' \in {breaks, breaks + 1}
    BY <2>1 DEF ConnStates
  <2> QED
    BY <1>0, <2>1, <2>2, ShutdownConnects
<1>4. ASSUME NEW l \in Lists, Transport!Pop(l) PROVE ShutdownInv'
  <2> DEFINE s == [pc |-> "popped", push |-> Transport!Last(store)]
  <2>1. /\ loop[l].pc = "asked" /\ loop' = [loop EXCEPT ![l] = s]
        /\ UNCHANGED <<conn, closed, breaks, outbox, order, watched, heard, told>>
        /\ UNCHANGED <<agenda, visited, inTime>>
    BY <1>4 DEF Transport!Pop, Transport!netVars, Transport!sendVars, Transport!disposeVars
  <2>2. s.pc = "popped"
    OBVIOUS
  <2>3. loop' \in [Lists -> LoopStates]
    <3>1. PlacesInv'
      BY <1>4, PlacesPop
    <3> QED
      BY <3>1 DEF PlacesInv, PlaceTypes
  <2> HIDE DEF s
  <2>4. \A k \in Lists : \/ loop'[k] = loop[k]
                         \/ /\ loop[k].pc \notin {"none", "ended", "handling", "replying"}
                            /\ loop'[k].pc \notin {"none", "handling", "replying"}
    BY <1>0, <2>1, <2>2
  <2> QED
    BY <1>0, <2>1, <2>3, <2>4, ShutdownTurns
<1>5. ASSUME NEW l \in Lists, Transport!ReadNothing(l) \/ Transport!GoesOn(l) PROVE ShutdownInv'
  <2> DEFINE s == Transport!Again(l)
  <2>1. /\ loop[l].pc \in {"asked", "done"} /\ loop' = [loop EXCEPT ![l] = s]
        /\ UNCHANGED <<conn, closed, breaks, outbox, order, watched, heard, told>>
        /\ UNCHANGED <<agenda, visited, inTime>>
    BY <1>5 DEF Transport!ReadNothing, Transport!GoesOn, Transport!netVars, Transport!sendVars,
                Transport!disposeVars
  <2>2. s \in LoopStates /\ s.pc \in {"asked", "ended"}
    BY DEF Transport!Again, Transport!Idle, LoopStates
  <2> HIDE DEF s
  <2>3. /\ loop' \in [Lists -> LoopStates]
        /\ \A k \in Lists : \/ loop'[k] = loop[k]
                            \/ /\ loop[k].pc \notin {"none", "ended", "handling", "replying"}
                               /\ loop'[k].pc \notin {"none", "handling", "replying"}
    BY <1>0, <2>1, <2>2
  <2> QED
    BY <1>0, <2>1, <2>3, ShutdownTurns
<1>6. ASSUME NEW l \in Lists, Transport!HandlerSettles(l) PROVE ShutdownInv'
  <2>1. /\ loop[l].pc = "handling" /\ loop' = [loop EXCEPT ![l] = Transport!Idle("done")]
        /\ \E ok \in BOOLEAN : told' = [told EXCEPT ![l] = Transport!Told(l, ok)]
        /\ UNCHANGED <<conn, closed, breaks, outbox, order, watched, heard>>
        /\ UNCHANGED <<agenda, visited, inTime>>
    BY <1>6 DEF Transport!HandlerSettles, Transport!netVars, Transport!sendVars, Transport!disposeVars
  <2>2. PICK ok \in BOOLEAN : told' = [told EXCEPT ![l] = Transport!Told(l, ok)]
    BY <2>1
  <2> QED
    BY <1>0, <2>1, <2>2, ShutdownSettles
<1>7. CASE UNCHANGED Transport!vars
  <2>1. /\ UNCHANGED <<conn, closed, breaks, outbox, order, watched, heard, told>>
        /\ UNCHANGED <<agenda, visited, inTime, loop>>
    BY <1>7 DEF Transport!vars, Transport!netVars, Transport!sendVars, Transport!listVars,
                Transport!disposeVars
  <2> QED
    BY <1>0, <2>1, ShutdownTurns
<1>8. ASSUME NEW l \in Lists, Transport!LoopStep(l) PROVE ShutdownInv'
  BY <1>0, <1>5, <1>6, <1>8, ShutdownReads, ShutdownReplies DEF Transport!LoopStep
<1>9. CASE Transport!ServerStep
  BY <1>0, <1>1, <1>2, <1>9, ShutdownAcknowledges, ShutdownCloses DEF Transport!ServerStep
<1>10. CASE Transport!Next
  BY <1>0, <1>3, <1>4, <1>8, <1>9, <1>10, ShutdownSends, ShutdownSubscribes, ShutdownWalks
  DEF Transport!Next
<1> QED
  BY <1>7, <1>10

\* A shutdown leaves nothing behind: a watcher is only gone when it was told every
\* verdict, and when all of dispose() is done what the transport found has ended.
THEOREM ShutdownStaysClean == Transport!Spec => []ShutdownIsClean
<1>1. ASSUME ShutdownInv PROVE Transport!VerdictsAreHeard
  <2> SUFFICES ASSUME NEW l \in Transport!ToSet(order), ~watched[l]
               PROVE  Transport!ToSet(heard[l]) = {v[1] : v \in told[l]}
    BY DEF Transport!VerdictsAreHeard
  <2>1. l \in Lists
    BY <1>1 DEF ShutdownInv, NetInv, ShutdownTypes, Transport!ToSet
  <2> QED
    BY <1>1, <2>1 DEF ShutdownInv, NetInv, AllButOneTold
<1>2. ASSUME ShutdownInv PROVE Transport!DisposedIsDone
  <2> SUFFICES ASSUME \A c \in DisposeCalls : agenda[c] = <<>>, NEW l \in inTime
               PROVE  /\ loop[l].pc = "ended" /\ ~watched[l]
                      /\ conn[l] = "ended" \/ breaks > 0
    BY DEF Transport!DisposedIsDone
  <2>1. \A n : Planned(n) => n \in visited
    BY DEF Planned, OnAgenda
  <2>2. PlansAreKept /\ ClosedOrBroken /\ l \in Lists
    BY <1>2 DEF ShutdownInv, NetInv, PlanInv, ShutdownTypes
  <2>3. <<"list", l>> \in visited /\ <<"reader", l>> \in visited
    BY <2>1, <2>2 DEF PlansAreKept
  <2>4. <<"reset", l>> \in visited /\ <<"closed", l>> \in visited
    BY <2>1, <2>2, <2>3 DEF PlansAreKept
  <2>5. l \in closed /\ loop[l].pc = "ended" /\ ~watched[l]
    BY <2>2, <2>4 DEF PlansAreKept
  <2> QED
    BY <2>2, <2>5 DEF ClosedOrBroken
<1>3. Transport!Spec => []PlacesInv
  BY PlacesBegin, PlacesGoOn, PTL DEF Transport!Spec
<1>4. Transport!Spec => []ShutdownInv
  BY <1>3, ShutdownBegins, ShutdownGoesOn, PTL DEF Transport!Spec
<1>5. ShutdownInv => ShutdownIsClean
  BY <1>1, <1>2 DEF ShutdownIsClean, Transport!ShutdownIsClean
<1> QED
  BY <1>4, <1>5, PTL

================================================================================
