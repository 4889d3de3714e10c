---------------------------- MODULE HandlersProofs ----------------------------
(***************************************************************************)
(* The projectile packet and the batch it is sent in, for packets of every *)
(* size, every number of targets and every hit count; and the lookup in    *)
(* the table of opcodes that comes before, for every sorted table.         *)
(***************************************************************************)
EXTENDS CustomPacketHandler, OpcodeTable, WellFoundedInduction, TLAPS

(* Where target i starts, from 0, or the container ends with i targets.    *)
Offset(i) == HeadSize + TargetSize * i

HitInv ==
  /\ packetSize = Offset(MaxHits)
  /\ targets \in Seq(Target) /\ Len(targets) <= MaxHits
  /\ projectile \in Container
  /\ projectile.length = Offset(Len(targets))
  /\ projectile.capacity = Offset(MaxHits) + 1
  /\ Len(projectile.sizes) = Len(targets) + 1
  /\ \A i \in 1 .. Len(targets) + 1 : projectile.sizes[i] = Offset(i - 1)
  /\ \A i \in 1 .. Len(targets) :
       targets[i] = [now  |-> Offset(i - 1),
                     next |-> IF i = MaxHits THEN 0 ELSE Offset(i)]
  /\ ~dangling

LEMMA Offsets ==
  /\ \A i \in Nat : Offset(i) \in Nat \ {0} /\ Offset(i + 1) = Offset(i) + TargetSize
  /\ \A i, j \in Nat : i <= j => Offset(i) <= Offset(j)
  <1>1. ASSUME NEW i \in Nat
        PROVE  Offset(i) \in Nat \ {0} /\ Offset(i + 1) = Offset(i) + TargetSize
    <2>1. TargetSize * i \in Nat /\ TargetSize * (i + 1) = TargetSize * i + TargetSize
      BY HitAssumption
    <2>2. QED
      BY <2>1, HitAssumption DEF Offset
  <1>2. ASSUME NEW i \in Nat, NEW j \in Nat, i <= j
        PROVE  Offset(i) <= Offset(j)
    <2>1. TargetSize * i <= TargetSize * j
      BY <1>2, HitAssumption
    <2>2. TargetSize * i \in Nat /\ TargetSize * j \in Nat
      BY HitAssumption
    <2>3. QED
      BY <2>1, <2>2, HitAssumption DEF Offset
  <1>3. QED
    BY <1>1, <1>2

(* The container as it is created holds the head and room for all targets. *)
LEMMA HitStarts ==
  /\ HitStart.length = Offset(0) /\ HitStart.capacity = Offset(MaxHits) + 1
  /\ HitStart.sizes = <<Offset(0)>> /\ HitStart \in Container
  <1>1. TargetSize * MaxHits + HeadSize = Offset(MaxHits) /\ HeadSize = Offset(0)
    BY HitAssumption DEF Offset
  <1>2. Offset(MaxHits) + 1 # 0 /\ Offset(0) \in Nat /\ Offset(MaxHits) \in Nat
    BY Offsets, HitAssumption
  <1>3. HitStart = [sizes |-> <<Offset(0)>>, length |-> Offset(0), capacity |-> Offset(MaxHits) + 1]
    BY <1>1, <1>2 DEF HitStart, NewContainer
  <1>4. QED
    BY <1>2, <1>3 DEF Container

LEMMA HitInitially == HitInit => HitInv
  <1> SUFFICES ASSUME HitInit PROVE HitInv
    OBVIOUS
  <1>1. packetSize = Offset(MaxHits)
    BY HitAssumption DEF HitInit, Offset
  <1>2. QED
    BY <1>1, HitStarts, HitAssumption DEF HitInit, HitInv

LEMMA NewHitKeeps == NewHit => HitInv'
  <1> SUFFICES ASSUME NewHit PROVE HitInv'
    OBVIOUS
  <1>1. packetSize' = Offset(MaxHits)
    BY HitAssumption DEF NewHit, Offset
  <1>2. QED
    BY <1>1, HitStarts, HitAssumption DEF NewHit, HitInv

LEMMA AddTargetKeeps == HitInv /\ AddTarget => HitInv'
  <1> SUFFICES ASSUME HitInv, AddTarget PROVE HitInv'
    OBVIOUS
  <1> DEFINE n == Len(targets)
  <1>1. /\ n \in Nat /\ n + 1 <= MaxHits /\ MaxHits \in Nat
        /\ targets' = Append(targets, NewTarget(n))
        /\ projectile' = Insert(projectile, TargetSize)
        /\ UNCHANGED packetSize
    BY HitAssumption DEF HitInv, AddTarget
  <1>2. /\ Offset(n) \in Nat /\ Offset(n + 1) \in Nat
        /\ Offset(n + 1) = Offset(n) + TargetSize
        /\ Offset(n + 1) <= Offset(MaxHits) /\ Offset(MaxHits) \in Nat
    BY <1>1, Offsets
  <1>3. ~Moves(projectile, TargetSize)
    BY <1>2 DEF HitInv, Moves
  <1>4. ~dangling'
    BY <1>3 DEF AddTarget, HitInv
  <1>5. NewTarget(n) = [now  |-> Offset(n),
                        next |-> IF n + 1 = MaxHits THEN 0 ELSE Offset(n + 1)]
    <2>1. n = MaxHits - 1 <=> n + 1 = MaxHits
      BY <1>1
    <2>2. QED
      BY <1>2, <2>1 DEF NewTarget, HitInv
  <1>6. NewTarget(n) \in Target
    BY <1>2, <1>5 DEF Target
  <1>7. projectile.sizes \in Seq(Nat) /\ Len(projectile.sizes) = n + 1
        /\ projectile.sizes[n + 1] = Offset(n)
    <2>1. n + 1 \in 1 .. n + 1 /\ (n + 1) - 1 = n
      BY <1>1
    <2>2. QED
      BY <2>1 DEF HitInv, Container
  <1>8. projectile' = [sizes    |-> Append(projectile.sizes, Offset(n + 1)),
                       length   |-> Offset(n + 1),
                       capacity |-> projectile.capacity]
    <2>1. projectile.sizes # <<>>
      BY <1>1, <1>7
    <2>2. QED
      BY <1>1, <1>2, <1>3, <1>7, <2>1 DEF Insert, HitInv
  <1>9. /\ targets' \in Seq(Target) /\ Len(targets') = n + 1
        /\ projectile' \in Container
        /\ Len(projectile'.sizes) = n + 2
    BY <1>1, <1>2, <1>6, <1>7, <1>8 DEF HitInv, Container
  <1>10. \A i \in 1 .. n + 2 : projectile'.sizes[i] = Offset(i - 1)
    <2> SUFFICES ASSUME NEW i \in 1 .. n + 2 PROVE projectile'.sizes[i] = Offset(i - 1)
      OBVIOUS
    <2>1. CASE i = n + 2
      <3>1. projectile'.sizes[i] = Offset(n + 1)
        BY <1>7, <1>8, <2>1
      <3>2. i - 1 = n + 1
        BY <1>1, <2>1
      <3>3. QED
        BY <3>1, <3>2
    <2>2. CASE i # n + 2
      <3>1. i \in 1 .. n + 1
        BY <1>1, <2>2
      <3>2. projectile'.sizes[i] = projectile.sizes[i]
        BY <1>7, <1>8, <3>1
      <3>3. QED
        BY <3>1, <3>2 DEF HitInv
    <2>3. QED
      BY <2>1, <2>2
  <1>11. \A i \in 1 .. n + 1 :
           targets'[i] = [now  |-> Offset(i - 1),
                          next |-> IF i = MaxHits THEN 0 ELSE Offset(i)]
    <2> SUFFICES ASSUME NEW i \in 1 .. n + 1
                 PROVE  targets'[i] = [now  |-> Offset(i - 1),
                                       next |-> IF i = MaxHits THEN 0 ELSE Offset(i)]
      OBVIOUS
    <2>1. CASE i = n + 1
      <3>1. targets'[i] = NewTarget(n) /\ i - 1 = n
        BY <1>1, <2>1 DEF HitInv
      <3>2. QED
        BY <1>5, <2>1, <3>1
    <2>2. CASE i # n + 1
      <3>1. i \in 1 .. n
        BY <1>1, <2>2
      <3>2. targets'[i] = targets[i]
        BY <1>1, <3>1 DEF HitInv
      <3>3. QED
        BY <3>1, <3>2 DEF HitInv
    <2>3. QED
      BY <2>1, <2>2
  <1>12. (n + 1) + 1 = n + 2
    BY <1>1
  <1>13. /\ packetSize' = Offset(MaxHits)
         /\ projectile'.length = Offset(n + 1) /\ projectile'.capacity = Offset(MaxHits) + 1
    BY <1>1, <1>8 DEF HitInv
  <1>14. HitInv' <=>
           /\ packetSize' = Offset(MaxHits)
           /\ targets' \in Seq(Target) /\ Len(targets') <= MaxHits
           /\ projectile' \in Container
           /\ projectile'.length = Offset(Len(targets'))
           /\ projectile'.capacity = Offset(MaxHits) + 1
           /\ Len(projectile'.sizes) = Len(targets') + 1
           /\ \A i \in 1 .. Len(targets') + 1 : projectile'.sizes[i] = Offset(i - 1)
           /\ \A i \in 1 .. Len(targets') :
                targets'[i] = [now  |-> Offset(i - 1),
                               next |-> IF i = MaxHits THEN 0 ELSE Offset(i)]
           /\ ~dangling'
    BY DEF HitInv, Offset
  <1>15. QED
    BY <1>1, <1>4, <1>9, <1>10, <1>11, <1>12, <1>13, <1>14, Zenon

LEMMA HitImplies == HitInv => HitFits /\ HitChained
  <1> SUFFICES ASSUME HitInv PROVE HitFits /\ HitChained
    OBVIOUS
  <1>1. HitFits
    <2> SUFFICES ASSUME Len(targets) < MaxHits PROVE HasRoom(projectile, TargetSize)
      BY DEF HitInv, HitFits
    <2>1. Len(targets) \in Nat /\ Len(targets) + 1 <= MaxHits /\ MaxHits \in Nat
      BY HitAssumption DEF HitInv
    <2>2. /\ Offset(Len(targets)) + TargetSize <= Offset(MaxHits)
          /\ Offset(Len(targets)) \in Nat /\ Offset(MaxHits) \in Nat
      BY <2>1, Offsets
    <2>3. QED
      BY <2>2, HitAssumption DEF HitInv, HasRoom
  <1>2. ASSUME NEW i \in DOMAIN targets
        PROVE  /\ targets[i].now = GetOffset(projectile, i)
               /\ GetSizeAt(projectile, i) = TargetSize
               /\ i < Len(targets) => targets[i].next = targets[i + 1].now
    <2>1. /\ i \in 1 .. Len(targets) /\ i \in Nat /\ i # 0
          /\ i \in 1 .. Len(targets) + 1 /\ i + 1 \in 1 .. Len(targets) + 1
          /\ (i + 1) - 1 = i /\ i - 1 \in Nat /\ (i - 1) + 1 = i
          /\ ~(Len(targets) + 1 < i) /\ i <= MaxHits
      BY HitAssumption DEF HitInv
    <2>2. projectile.sizes[i] = Offset(i - 1) /\ projectile.sizes[i + 1] = Offset(i)
      BY <2>1 DEF HitInv
    <2>3. /\ Offset(i) = Offset(i - 1) + TargetSize
          /\ Offset(i) \in Nat /\ Offset(i - 1) \in Nat
      BY <2>1, Offsets
    <2>4. targets[i] = [now |-> Offset(i - 1), next |-> IF i = MaxHits THEN 0 ELSE Offset(i)]
      BY <2>1 DEF HitInv
    <2>5. targets[i].now = GetOffset(projectile, i)
      BY <2>1, <2>2, <2>4 DEF GetOffset, HitInv
    <2>6. GetSizeAt(projectile, i) = TargetSize
      BY <2>1, <2>2, <2>3, HitAssumption DEF GetSizeAt, HitInv
    <2>7. ASSUME i < Len(targets)
          PROVE  targets[i].next = targets[i + 1].now
      <3>1. i # MaxHits /\ i + 1 \in 1 .. Len(targets)
        BY <2>1, <2>7, HitAssumption DEF HitInv
      <3>2. ASSUME NEW j \in 1 .. Len(targets)
            PROVE  targets[j].now = Offset(j - 1)
        <4>1. targets[j] = [now  |-> Offset(j - 1),
                            next |-> IF j = MaxHits THEN 0 ELSE Offset(j)]
          BY DEF HitInv
        <4>2. QED
          BY <4>1
      <3>3. targets[i].next = Offset(i)
        BY <2>4, <3>1
      <3>4. targets[i + 1].now = Offset((i + 1) - 1)
        BY <3>1, <3>2, Zenon
      <3>5. QED
        BY <2>1, <3>3, <3>4, Zenon
    <2>8. QED
      BY <2>5, <2>6, <2>7
  <1>3. ASSUME HitBuilt
        PROVE  targets[MaxHits].next = 0 /\ packetSize = projectile.length
    <2>1. MaxHits \in 1 .. Len(targets)
      BY <1>3, HitAssumption DEF HitBuilt
    <2>2. QED
      BY <1>3, <2>1 DEF HitBuilt, HitInv
  <1>4. QED
    BY <1>1, <1>2, <1>3 DEF HitChained

-------------------------------------------------------------------------------
(* The first n bytes of the buffer are copies of the packet, one after the *)
(* other and the last perhaps cut off.                                     *)
Copies(n) == \A k \in 0 .. n - 1 : saved[k] = IF k < size THEN k ELSE saved[k - size]

(* Where the doubling stands: copies fill the buffer up to cur, and end    *)
(* with a whole one, which is why the next block continues them.           *)
DoubleInv ==
  /\ size <= cur /\ cur < size * count
  /\ DOMAIN saved = 0 .. size * count - 1
  /\ Copies(cur)
  /\ \A k \in 0 .. size - 1 : saved[cur - size + k] = k

BatchInv ==
  /\ place \in {"idle", "double", "send", "lost"}
  /\ size \in Nat \ {0} /\ count \in Int /\ cur \in Nat
  /\ Fits => /\ place # "lost"
             /\ place = "double" => DoubleInv
             /\ place = "send" => Copies(size * count)

(* Below half a word nothing wraps.                                        *)
LEMMA NoWrap ==
  ASSUME NEW p \in Nat \ {0}, 2 * p <= Word
  PROVE  /\ Wrap(p) = p
         /\ \A c \in Nat : c < p => Wrap(c * 2) = 2 * c
  <1>1. Word \in Nat \ {0} /\ p < Word
    BY WordAssumption
  <1>2. \A x \in Nat : x < Word => Wrap(x) = x
    BY <1>1 DEF Wrap
  <1>3. \A c \in Nat : c < p => c * 2 = 2 * c /\ 2 * c \in Nat /\ 2 * c < Word
    BY <1>1
  <1>4. QED
    BY <1>1, <1>2, <1>3

LEMMA Product ==
  ASSUME NEW n \in Nat \ {0}, NEW c \in Int
  PROVE  /\ n * c \in Int
         /\ c = 1 => n * c = n
         /\ c > 1 => n * c \in Nat \ {0} /\ n < n * c
         /\ 2 * n * c = 2 * (n * c)
  OBVIOUS

LEMMA StartSingleKeeps ==
  ASSUME BatchInv, NEW n \in Nat \ {0}, NEW c \in Int, StartSingle(n, c)
  PROVE  BatchInv'
  <1>1. /\ c = 1 /\ place' = "send" /\ size' = n /\ count' = 1 /\ cur' = n
        /\ saved' = [k \in 0 .. n - 1 |-> k]
    BY DEF StartSingle
  <1>2. size' * count' = n
    BY <1>1, Product
  <1>3. Copies(size * count)'
    BY <1>1, <1>2 DEF Copies
  <1>4. QED
    BY <1>1, <1>3 DEF BatchInv

LEMMA StartBatchKeeps ==
  ASSUME BatchInv, NEW n \in Nat \ {0}, NEW c \in Int, StartBatch(n, c)
  PROVE  BatchInv'
  <1> DEFINE p == n * c
  <1>1. /\ c > 1 /\ size' = n /\ count' = c /\ cur' = n
        /\ saved' = [k \in 0 .. Wrap(p) - 1 |-> IF k < n THEN k ELSE Unset]
        /\ place' = IF n <= Wrap(p) THEN "double" ELSE "lost"
    BY DEF StartBatch
  <1>2. p \in Nat \ {0} /\ n < p /\ 2 * n * c = 2 * p
    BY <1>1, Product
  <1> HIDE DEF p
  <1>3. Fits' => 2 * p <= Word
    BY <1>1, <1>2 DEF Fits
  <1>4. ASSUME 2 * p <= Word
        PROVE  place' = "double" /\ DoubleInv'
    <2>1. Wrap(p) = p
      BY <1>2, <1>4, NoWrap
    <2>2. place' = "double"
      BY <1>1, <1>2, <2>1
    <2>3. /\ DOMAIN saved' = 0 .. p - 1
          /\ \A k \in 0 .. n - 1 : k \in 0 .. p - 1 /\ saved'[k] = k
      BY <1>1, <1>2, <2>1
    <2>4. Copies(cur)'
      BY <1>1, <2>3 DEF Copies
    <2>5. \A k \in 0 .. size' - 1 : saved'[cur' - size' + k] = k
      <3>1. \A k \in 0 .. n - 1 : n - n + k = k
        OBVIOUS
      <3>2. QED
        BY <1>1, <2>3, <3>1
    <2>6. QED
      BY <1>1, <1>2, <2>2, <2>3, <2>4, <2>5 DEF DoubleInv, p
  <1>5. QED
    BY <1>1, <1>3, <1>4 DEF BatchInv

(* One memcpy of the first n bytes behind the cur bytes that are filled.   *)
LEMMA CopyContinues ==
  ASSUME BatchInv, DoubleInv, NEW n \in Nat, n <= cur, cur + n <= size * count,
         NEW p \in Nat, p = size * count,
         saved' = CopyTo(cur, n)
  PROVE  /\ DOMAIN saved' = DOMAIN saved
         /\ \A k \in 0 .. cur + n - 1 : saved'[k] = IF k < size THEN k ELSE saved'[k - size]
         /\ \A k \in 0 .. n - 1 : saved'[cur + k] = saved[k]
         /\ \A k \in 0 .. cur - 1 : saved'[k] = saved[k]
  <1>1. size \in Nat \ {0} /\ cur \in Nat /\ size <= cur
    BY DEF BatchInv, DoubleInv
  <1>2. \A k \in 0 .. p - 1 :
          saved'[k] = IF cur <= k /\ k < cur + n THEN saved[k - cur] ELSE saved[k]
    BY DEF CopyTo, DoubleInv
  <1>3. DOMAIN saved' = DOMAIN saved
    BY DEF CopyTo
  <1>4. \A k \in 0 .. n - 1 : saved'[cur + k] = saved[k]
    <2> SUFFICES ASSUME NEW k \in 0 .. n - 1 PROVE saved'[cur + k] = saved[k]
      OBVIOUS
    <2>1. cur + k \in 0 .. p - 1 /\ cur <= cur + k /\ cur + k < cur + n /\ (cur + k) - cur = k
      BY <1>1
    <2>2. QED
      BY <1>2, <2>1
  <1>5. \A k \in 0 .. cur - 1 : saved'[k] = saved[k]
    BY <1>1, <1>2
  <1>6. ASSUME NEW k \in 0 .. cur + n - 1
        PROVE  saved'[k] = IF k < size THEN k ELSE saved'[k - size]
    <2>1. CASE k < cur
      <3>1. k \in 0 .. cur - 1 /\ (k >= size => k - size \in 0 .. cur - 1)
        BY <1>1, <2>1
      <3>2. saved[k] = IF k < size THEN k ELSE saved[k - size]
        BY <3>1 DEF DoubleInv, Copies
      <3>3. QED
        BY <1>1, <1>5, <3>1, <3>2
    <2>2. CASE k >= cur
      <3> DEFINE j == k - cur
      <3>1. j \in 0 .. n - 1 /\ k = cur + j /\ ~(k < size)
        BY <1>1, <2>2
      <3>2. saved'[k] = saved[j]
        BY <1>4, <3>1
      <3>3. CASE j < size
        <4>1. /\ j \in 0 .. size - 1 /\ j \in 0 .. cur - 1
              /\ k - size = cur - size + j /\ k - size \in 0 .. cur - 1
          BY <1>1, <3>1, <3>3
        <4>2. saved[j] = j
          BY <3>3, <4>1 DEF DoubleInv, Copies
        <4>3. saved[k - size] = j
          BY <4>1 DEF DoubleInv
        <4>4. QED
          BY <1>5, <3>1, <3>2, <4>1, <4>2, <4>3
      <3>4. CASE j >= size
        <4>1. /\ j \in 0 .. cur - 1 /\ j - size \in 0 .. n - 1
              /\ k - size = cur + (j - size) /\ ~(j < size)
          BY <1>1, <3>1, <3>4
        <4>2. saved[j] = saved[j - size]
          BY <4>1 DEF DoubleInv, Copies
        <4>3. saved'[k - size] = saved[j - size]
          BY <1>4, <4>1
        <4>4. QED
          BY <3>1, <3>2, <4>2, <4>3
      <3>5. QED
        BY <1>1, <3>1, <3>3, <3>4
    <2>3. QED
      BY <1>1, <2>1, <2>2
  <1>7. QED
    BY <1>3, <1>4, <1>5, <1>6

LEMMA DoubleKeeps ==
  ASSUME BatchInv, Double
  PROVE  BatchInv'
  <1>1. /\ place = "double" /\ Wrap(cur * 2) < Wrap(size * count)
        /\ cur' = Wrap(cur * 2) /\ UNCHANGED <<size, count>>
        /\ IF Defined(cur, cur)
           THEN saved' = CopyTo(cur, cur) /\ UNCHANGED place
           ELSE place' = "lost" /\ UNCHANGED saved
    BY DEF Double, Doubles, Total
  <1>2. cur' \in Nat
    BY <1>1, WordAssumption DEF BatchInv, Wrap
  <1>3. ASSUME Fits
        PROVE  place' = "double" /\ DoubleInv'
    <2> DEFINE p == size * count
    <2>1. DoubleInv /\ size \in Nat \ {0} /\ cur \in Nat /\ count \in Int
      BY <1>1, <1>3 DEF BatchInv
    <2>2. p \in Nat \ {0} /\ 2 * p <= Word /\ cur < p /\ size <= cur
      <3>1. p \in Int /\ 2 * size * count = 2 * p
        BY <2>1, Product
      <3> HIDE DEF p
      <3>2. cur < p /\ size <= cur
        BY <2>1 DEF DoubleInv, p
      <3>3. QED
        BY <1>3, <2>1, <3>1, <3>2 DEF Fits
    <2>3. Wrap(p) = p /\ Wrap(cur * 2) = 2 * cur
      BY <2>1, <2>2, NoWrap
    <2>4. cur' = 2 * cur /\ 2 * cur < p
      BY <1>1, <2>3
    <2>5. Defined(cur, cur)
      <3> HIDE DEF p
      <3>1. Total = p
        BY <2>3 DEF Total, p
      <3>2. QED
        BY <2>1, <2>2, <2>4, <3>1 DEF Defined
    <2>6. saved' = CopyTo(cur, cur) /\ place' = "double"
      BY <1>1, <2>5
    <2>7. cur <= cur /\ cur + cur <= p /\ cur + cur = 2 * cur
      <3> HIDE DEF p
      <3>1. QED
        BY <2>1, <2>2, <2>4
    <2>8. /\ DOMAIN saved' = DOMAIN saved
          /\ \A k \in 0 .. cur + cur - 1 : saved'[k] = IF k < size THEN k ELSE saved'[k - size]
          /\ \A k \in 0 .. cur - 1 : saved'[cur + k] = saved[k]
      BY <2>1, <2>2, <2>6, <2>7, CopyContinues
    <2>9. \A k \in 0 .. size - 1 : saved'[2 * cur - size + k] = k
      <3> SUFFICES ASSUME NEW k \in 0 .. size - 1
                   PROVE  saved'[2 * cur - size + k] = k
        OBVIOUS
      <3> HIDE DEF p
      <3>1. /\ cur - size + k \in 0 .. cur - 1
            /\ 2 * cur - size + k = cur + (cur - size + k)
        BY <2>1, <2>2
      <3>2. saved[cur - size + k] = k
        BY <2>1 DEF DoubleInv
      <3>3. QED
        BY <2>8, <3>1, <3>2
    <2>10. size' <= cur' /\ cur' < size' * count'
      <3>1. size <= 2 * cur
        <4> HIDE DEF p
        <4>1. QED
          BY <2>1, <2>2
      <3>2. QED
        BY <1>1, <2>4, <3>1
    <2>11. DOMAIN saved' = 0 .. size' * count' - 1
      BY <1>1, <2>1, <2>8 DEF DoubleInv
    <2>12. Copies(cur)'
      <3>1. cur' = cur + cur /\ size' = size
        BY <1>1, <2>4, <2>7, Zenon
      <3>2. ASSUME NEW k \in 0 .. cur' - 1
            PROVE  saved'[k] = IF k < size' THEN k ELSE saved'[k - size']
        <4>1. k \in 0 .. cur + cur - 1
          BY <2>1, <3>1
        <4>2. QED
          BY <2>8, <3>1, <4>1, Zenon
      <3>3. QED
        BY <3>2 DEF Copies
    <2>13. \A k \in 0 .. size' - 1 : saved'[cur' - size' + k] = k
      BY <1>1, <2>4, <2>9
    <2>14. QED
      BY <2>6, <2>10, <2>11, <2>12, <2>13 DEF DoubleInv
  <1>4. Fits' => Fits
    BY <1>1 DEF Fits
  <1>5. place' \in {"double", "lost"}
    BY <1>1
  <1>6. QED
    BY <1>1, <1>2, <1>3, <1>4, <1>5 DEF BatchInv

LEMMA CopyRestKeeps ==
  ASSUME BatchInv, CopyRest
  PROVE  BatchInv'
  <1>1. /\ place = "double" /\ ~(Wrap(cur * 2) < Wrap(size * count))
        /\ UNCHANGED <<size, count, cur>>
        /\ IF Defined(cur, Total - cur)
           THEN saved' = CopyTo(cur, Total - cur) /\ place' = "send"
           ELSE place' = "lost" /\ UNCHANGED saved
    BY DEF CopyRest, Doubles, Total
  <1>2. ASSUME Fits
        PROVE  place' = "send" /\ Copies(size * count)'
    <2> DEFINE p == size * count
    <2>1. DoubleInv /\ size \in Nat \ {0} /\ cur \in Nat /\ count \in Int
      BY <1>1, <1>2 DEF BatchInv
    <2>2. p \in Nat \ {0} /\ 2 * p <= Word /\ cur < p
      <3>1. p \in Int /\ 2 * size * count = 2 * p
        BY <2>1, Product
      <3> HIDE DEF p
      <3>2. cur < p /\ size <= cur
        BY <2>1 DEF DoubleInv, p
      <3>3. QED
        BY <1>2, <2>1, <3>1, <3>2 DEF Fits
    <2>3. Wrap(p) = p /\ Wrap(cur * 2) = 2 * cur
      BY <2>1, <2>2, NoWrap
    <2>4. ~(2 * cur < p) /\ Total = p
      BY <1>1, <2>3 DEF Total
    <2> DEFINE n == Total - cur
    <2>5. n \in Nat /\ n <= cur /\ cur + n <= p /\ cur + n = p
      <3> HIDE DEF p
      <3>1. QED
        BY <2>1, <2>2, <2>4
    <2>6. Defined(cur, n)
      BY <2>4, <2>5 DEF Defined
    <2>7. saved' = CopyTo(cur, n) /\ place' = "send"
      BY <1>1, <2>6
    <2> HIDE DEF n
    <2>8. \A k \in 0 .. cur + n - 1 : saved'[k] = IF k < size THEN k ELSE saved'[k - size]
      BY <2>1, <2>2, <2>5, <2>7, CopyContinues
    <2>9. Copies(size * count)'
      <3>1. size' * count' = cur + n /\ size' = size
        BY <1>1, <2>5, Zenon
      <3>2. ASSUME NEW k \in 0 .. size' * count' - 1
            PROVE  saved'[k] = IF k < size' THEN k ELSE saved'[k - size']
        <4>1. k \in 0 .. cur + n - 1
          BY <2>1, <2>5, <3>1
        <4>2. QED
          BY <2>8, <3>1, <4>1, Zenon
      <3>3. QED
        BY <3>2 DEF Copies
    <2>10. QED
      BY <2>7, <2>9
  <1>3. Fits' => Fits
    BY <1>1 DEF Fits
  <1>4. place' \in {"send", "lost"}
    BY <1>1
  <1>5. QED
    BY <1>1, <1>2, <1>3, <1>4 DEF BatchInv

LEMMA SentKeeps ==
  ASSUME BatchInv, Sent
  PROVE  BatchInv'
  BY DEF BatchInv, Sent, Fits

LEMMA BatchKept ==
  ASSUME BatchInv, UNCHANGED batchVars
  PROVE  BatchInv'
  BY DEF BatchInv, batchVars, Fits, DoubleInv, Copies

LEMMA HitKept ==
  ASSUME HitInv, UNCHANGED hitVars
  PROVE  HitInv'
  BY DEF HitInv, hitVars

-------------------------------------------------------------------------------
HandlerInv == m_iHitCount \in Int /\ HitInv /\ BatchInv

(* HandlerInv is inductive.                                                *)
LEMMA HandlerInductive == HandlerInv /\ [Next]_vars => HandlerInv'
  <1> SUFFICES ASSUME HandlerInv, [Next]_vars PROVE HandlerInv'
    OBVIOUS
  <1> USE DEF HandlerInv
  <1>1. CASE ChatHitCount \/ ChatNoNumber \/ \E w \in Switches : ChatSwitch(w)
    <2>1. m_iHitCount' \in Int /\ UNCHANGED <<hitVars, batchVars>>
      BY <1>1, HitCountsAssumption DEF ChatHitCount, ChatNoNumber, ChatSwitch, chatVars
    <2>2. QED
      BY <2>1, HitKept, BatchKept
  <1>2. CASE OnSendHitProjectile
    BY <1>2, NewHitKeeps, BatchKept DEF OnSendHitProjectile, chatVars
  <1>3. CASE BuildHit
    BY <1>3, AddTargetKeeps, BatchKept DEF BuildHit, chatVars
  <1>4. CASE SendHit
    <2>1. Start(packetSize, m_iHitCount) /\ UNCHANGED <<m_iHitCount, hitVars>>
      BY <1>4 DEF SendHit, chatVars
    <2>2. packetSize \in Nat \ {0}
      BY Offsets, HitAssumption DEF HitInv
    <2>3. QED
      BY <2>1, <2>2, StartSingleKeeps, StartBatchKeeps, HitKept DEF Start
  <1>5. CASE SendNoHit
    BY <1>5, HitKept, BatchKept DEF SendNoHit, chatVars
  <1>6. CASE CopyHit
    <2>1. BatchStep /\ UNCHANGED <<m_iHitCount, hitVars>>
      BY <1>6 DEF CopyHit, chatVars
    <2>2. QED
      BY <2>1, DoubleKeeps, CopyRestKeeps, SentKeeps, HitKept DEF BatchStep
  <1>7. CASE UNCHANGED vars
    BY <1>7, HitKept, BatchKept DEF vars
  <1>8. QED
    BY <1>1, <1>2, <1>3, <1>4, <1>5, <1>6, <1>7 DEF Next, Wait

LEMMA HandlerCorrect == Spec => []HandlerInv
  <1>1. Init => HandlerInv
    BY HitInitially, HitCountsAssumption DEF Init, HandlerInv, BatchInit, BatchInv
  <1>2. QED
    BY <1>1, HandlerInductive, PTL DEF Spec

(* The container is always big enough, for every number of targets and     *)
(* every size: "packet" never dangles, Insert's assertion always holds.    *)
THEOREM HitFitsCorrect == Spec => []HitFits
  <1>1. HandlerInv => HitFits
    BY HitImplies DEF HandlerInv
  <1>2. QED
    BY <1>1, HandlerCorrect, PTL

(* The targets form the list that the game follows, and the packet says    *)
(* how long it is.                                                         *)
THEOREM HitChainedCorrect == Spec => []HitChained
  <1>1. HandlerInv => HitChained
    BY HitImplies DEF HandlerInv
  <1>2. QED
    BY <1>1, HandlerCorrect, PTL

(* The doubling copy sends exactly count copies, for every packet size and *)
(* every count whose product stays below half a word.                      *)
THEOREM BatchCorrect == Spec => []BatchIsCopies
  <1>1. HandlerInv => BatchIsCopies
    BY DEF HandlerInv, BatchInv, BatchIsCopies, Copies
  <1>2. QED
    BY <1>1, HandlerCorrect, PTL

-------------------------------------------------------------------------------
(* The table of opcodes.  What the two loops compute is shown by induction *)
(* on an index, as the lack of a least counterexample.                     *)
LEMMA LeastNatural ==
  ASSUME NEW S \in SUBSET Nat, S # {}
  PROVE  \E i \in S : \A j \in S : i <= j
  <1> DEFINE R == OpToRel(<, Nat)
  <1>1. IsWellFoundedOn(R, Nat)
    BY NatLessThanWellFounded
  <1>2. \A i, j \in Nat : i < j => <<i, j>> \in R
    BY DEF OpToRel
  <1> HIDE DEF R
  <1>3. PICK i \in S : \A j \in S : <<j, i>> \notin R
    BY <1>1, WFMin, Zenon
  <1>4. \A j \in S : ~(j < i)
    BY <1>2, <1>3, Zenon
  <1>5. QED
    BY <1>4

Indices == 0 .. OpcodeCount - 1

LEMMA TableFacts ==
  /\ OpcodeCount \in Nat \ {0} /\ Key(0) = 0
  /\ \A i \in Indices : Key(i) \in Nat
  /\ \A i, j \in Indices : i < j => Key(i) < Key(j)
  /\ \A key \in OpcodeKeys : \E i \in Indices : Key(i) = key
  <1>1. OpcodeCount \in Nat \ {0} /\ DOMAIN Opcodes = 1 .. OpcodeCount
    BY OpcodeAssumption DEF OpcodeCount
  <1>2. \A i \in Indices : i \in Nat /\ i + 1 \in DOMAIN Opcodes
    BY <1>1 DEF Indices
  <1>3. ASSUME NEW key \in OpcodeKeys PROVE \E i \in Indices : Key(i) = key
    <2>1. PICK k \in DOMAIN Opcodes : Opcodes[k] = key
      BY <1>3 DEF OpcodeKeys
    <2>2. k - 1 \in Indices /\ Key(k - 1) = key
      BY <1>1, <2>1 DEF Indices, Key
    <2>3. QED
      BY <2>2
  <1>4. \A i \in Indices : Key(i) \in Nat
    BY <1>2, OpcodeAssumption DEF Key
  <1>5. \A i, j \in Indices : i < j => Key(i) < Key(j)
    BY <1>2, OpcodeAssumption DEF Key
  <1>6. Key(0) = 0
    BY OpcodeAssumption DEF Key
  <1>7. QED
    BY <1>1, <1>3, <1>4, <1>5, <1>6

(* The loop downwards, as an equation for the function Down of Lower.      *)
IsDown(f, key) ==
  f = [m \in Indices |-> IF key < Key(m \div 2) THEN f[m \div 2] ELSE At(m \div 2, m)]
DownTo(f, key, last) ==
  \A m \in 0 .. last :
    f[m] = IF key < Key(m \div 2) THEN f[m \div 2] ELSE At(m \div 2, m)

(* Unrolled to any index.                                                  *)
LEMMA DownUnrolled ==
  ASSUME NEW key \in Nat
  PROVE  \A last \in Indices : \E f : DownTo(f, key, last)
  <1> DEFINE bad == {last \in Indices : ~\E f : DownTo(f, key, last)}
  <1> SUFFICES ASSUME bad # {} PROVE FALSE
    OBVIOUS
  <1>1. bad \in SUBSET Nat
    BY DEF Indices
  <1>2. PICK last \in bad : \A j \in bad : last <= j
    BY <1>1, LeastNatural
  <1>3. last \in Nat /\ last \in Indices
    BY <1>1
  <1>4. CASE last = 0
    <2> DEFINE f == [m \in {0} |-> At(0, 0)]
    <2>1. 0 \div 2 = 0 /\ ~(key < Key(0)) /\ 0 .. last = {0}
      BY <1>4, TableFacts
    <2>2. DownTo(f, key, last)
      BY <2>1 DEF DownTo
    <2>3. QED
      BY <2>2
  <1>5. CASE last # 0
    <2>1. last - 1 \in Indices /\ last - 1 \notin bad
      BY <1>2, <1>3, <1>5, TableFacts DEF Indices
    <2>2. PICK g : DownTo(g, key, last - 1)
      BY <2>1
    <2> DEFINE value == IF key < Key(last \div 2) THEN g[last \div 2] ELSE At(last \div 2, last)
               f     == [m \in 0 .. last |-> IF m = last THEN value ELSE g[m]]
    <2>3. \A m \in 0 .. last : m \div 2 \in 0 .. last /\ (m # 0 => m \div 2 \in 0 .. last - 1 /\ m \div 2 < m)
      BY <1>3
    <2>4. ASSUME NEW m \in 0 .. last
          PROVE  f[m] = IF key < Key(m \div 2) THEN f[m \div 2] ELSE At(m \div 2, m)
      <3>1. CASE m = last
        <4>1. f[m] = value /\ f[m \div 2] = g[m \div 2]
          BY <1>3, <1>5, <2>3, <3>1
        <4>2. QED
          BY <3>1, <4>1
      <3>2. CASE m # last
        <4>1. m \in 0 .. last - 1 /\ m \div 2 # last
          BY <1>3, <2>3, <3>2
        <4>2. g[m] = IF key < Key(m \div 2) THEN g[m \div 2] ELSE At(m \div 2, m)
          BY <2>2, <4>1 DEF DownTo
        <4>3. f[m] = g[m] /\ f[m \div 2] = g[m \div 2]
          BY <2>3, <3>2, <4>1
        <4>4. QED
          BY <4>2, <4>3
      <3>3. QED
        BY <3>1, <3>2
    <2> HIDE DEF f
    <2>5. DownTo(f, key, last)
      BY <2>4 DEF DownTo
    <2>6. QED
      BY <2>5
  <1>6. QED
    BY <1>4, <1>5

LEMMA DownExists == ASSUME NEW key \in Nat PROVE \E f : IsDown(f, key)
  <1>1. PICK g : DownTo(g, key, OpcodeCount - 1)
    BY DownUnrolled, TableFacts DEF Indices
  <1> DEFINE f == [m \in Indices |-> g[m]]
  <1>2. \A m \in Indices : m \div 2 \in Indices
    BY TableFacts DEF Indices
  <1>3. \A m \in Indices : f[m] = IF key < Key(m \div 2) THEN f[m \div 2] ELSE At(m \div 2, m)
    BY <1>1, <1>2 DEF DownTo, Indices
  <1>4. f = [m \in Indices |-> IF key < Key(m \div 2) THEN f[m \div 2] ELSE At(m \div 2, m)]
    BY <1>3
  <1> HIDE DEF f
  <1>5. QED
    BY <1>4, Zenon DEF IsDown

(* The loop ends between two indices that the key lies between.            *)
Between(at, key, low, high) ==
  low \in Indices /\ high \in Indices /\ Key(low) <= key /\ key < Key(high) /\ at = At(low, high)

LEMMA DownBetween ==
  ASSUME NEW key \in Nat, NEW f, IsDown(f, key)
  PROVE  \A m \in Indices : key < Key(m) => \E low, high \in Indices : Between(f[m], key, low, high)
  <1> DEFINE Good(m) == \E low, high \in Indices : Between(f[m], key, low, high)
             bad == {m \in Indices : key < Key(m) /\ ~Good(m)}
  <1> SUFFICES ASSUME bad # {} PROVE FALSE
    OBVIOUS
  <1>1. bad \in SUBSET Nat
    BY DEF Indices
  <1>2. PICK m \in bad : \A j \in bad : m <= j
    BY <1>1, LeastNatural
  <1>3. m \in Indices /\ key < Key(m) /\ ~Good(m) /\ m # 0
    BY <1>2, TableFacts
  <1>4. m \div 2 \in Indices /\ m \div 2 < m
    <2>1. m \in 0 .. OpcodeCount - 1 /\ OpcodeCount \in Nat /\ m # 0
      BY <1>3, TableFacts DEF Indices
    <2>2. QED
      BY <2>1 DEF Indices
  <1>5. f[m] = IF key < Key(m \div 2) THEN f[m \div 2] ELSE At(m \div 2, m)
    BY <1>3 DEF IsDown
  <1>6. CASE key < Key(m \div 2)
    <2>1. m \div 2 \notin bad
      BY <1>2, <1>4, <1>1
    <2>2. Good(m \div 2)
      BY <1>4, <1>6, <2>1
    <2>3. QED
      BY <1>3, <1>5, <1>6, <2>2
  <1>7. CASE ~(key < Key(m \div 2))
    <2>1. Key(m \div 2) <= key
      BY <1>4, <1>7, TableFacts
    <2>2. Between(f[m], key, m \div 2, m)
      BY <1>3, <1>4, <1>5, <1>7, <2>1 DEF Between
    <2>3. QED
      BY <1>3, <1>4, <2>2
  <1>8. QED
    BY <1>6, <1>7

LEMMA LowerBetween ==
  ASSUME NEW key \in Nat, middle \in Indices, key < Key(middle)
  PROVE  \E low, high \in Indices : Between(Lower(key), key, low, high)
  <1> DEFINE down == CHOOSE f : IsDown(f, key)
  <1>1. IsDown(down, key)
    BY DownExists, Zenon
  <1>2. Lower(key) = down[middle]
    BY DEF Lower, IsDown, Indices
  <1> HIDE DEF down
  <1>3. QED
    BY <1>1, <1>2, DownBetween

(* The loop upwards.                                                       *)
Halfway(m) == m + (OpcodeCount - m) \div 2
IsUp(f, key) ==
  f = [m \in Indices |-> IF key > Key(Halfway(m)) THEN f[Halfway(m)] ELSE At(Halfway(m), m)]
UpFrom(f, key, first) ==
  \A m \in first .. OpcodeCount - 1 :
    f[m] = IF key > Key(Halfway(m)) THEN f[Halfway(m)] ELSE At(Halfway(m), m)

LEMMA HalfwayUp ==
  ASSUME NEW m \in Indices
  PROVE  Halfway(m) \in m .. OpcodeCount - 1 /\ (m < OpcodeCount - 1 => m < Halfway(m))
  <1>1. m \in 0 .. OpcodeCount - 1 /\ OpcodeCount \in Nat \ {0}
    BY TableFacts DEF Indices
  <1>2. QED
    BY <1>1 DEF Halfway

(* Unrolled from any index, for keys up to kMax.                           *)
LEMMA UpUnrolled ==
  ASSUME NEW key \in Nat, key <= Key(OpcodeCount - 1)
  PROVE  \A steps \in Indices : \E f : UpFrom(f, key, OpcodeCount - 1 - steps)
  <1> DEFINE end == OpcodeCount - 1
             bad == {steps \in Indices : ~\E f : UpFrom(f, key, end - steps)}
  <1> SUFFICES ASSUME bad # {} PROVE FALSE
    OBVIOUS
  <1>1. bad \in SUBSET Nat /\ end \in Nat /\ Indices = 0 .. end
    BY TableFacts DEF Indices
  <1>2. PICK steps \in bad : \A j \in bad : steps <= j
    BY <1>1, LeastNatural
  <1>3. steps \in 0 .. end
    BY <1>1
  <1>4. CASE steps = 0
    <2> DEFINE f == [m \in {end} |-> At(end, end)]
    <2>1. Halfway(end) = end /\ ~(key > Key(end)) /\ end - steps .. end = {end}
      <3>1. end \in Indices /\ Halfway(end) \in end .. end
        BY <1>1, HalfwayUp
      <3>2. Key(end) \in Nat
        BY <3>1, TableFacts
      <3> HIDE DEF end, bad
      <3>3. Halfway(end) = end /\ end - steps .. end = {end}
        BY <1>1, <1>4, <3>1
      <3>4. QED
        BY <3>2, <3>3 DEF end
    <2>2. UpFrom(f, key, end - steps)
      BY <2>1 DEF UpFrom
    <2>3. QED
      BY <2>2
  <1>5. CASE steps # 0
    <2> DEFINE first == end - steps
    <2>1. steps - 1 \in Indices /\ steps - 1 \notin bad /\ first \in Indices /\ first < end
      BY <1>1, <1>2, <1>3, <1>5
    <2>2. end - (steps - 1) = first + 1
      BY <1>1, <1>3
    <2>3. PICK g : UpFrom(g, key, first + 1)
      BY <2>1, <2>2
    <2> DEFINE value == IF key > Key(Halfway(first)) THEN g[Halfway(first)] ELSE At(Halfway(first), first)
               f     == [m \in first .. end |-> IF m = first THEN value ELSE g[m]]
    <2> HIDE DEF first
    <2>4. ASSUME NEW m \in first .. end
          PROVE  /\ m \in Indices /\ Halfway(m) \in first .. end /\ Halfway(m) # first
                 /\ m # first => m \in first + 1 .. end
      <3>1. m \in Indices
        BY <1>1, <2>1
      <3>2. Halfway(m) \in m .. end /\ (m < end => m < Halfway(m))
        BY <3>1, HalfwayUp
      <3> HIDE DEF end
      <3>3. QED
        BY <1>1, <2>1, <3>1, <3>2
    <2>5. ASSUME NEW m \in first .. end
          PROVE  f[m] = IF key > Key(Halfway(m)) THEN f[Halfway(m)] ELSE At(Halfway(m), m)
      <3>1. f[Halfway(m)] = g[Halfway(m)]
        BY <2>4
      <3>2. CASE m = first
        BY <3>1, <3>2
      <3>3. CASE m # first
        <4>1. g[m] = IF key > Key(Halfway(m)) THEN g[Halfway(m)] ELSE At(Halfway(m), m)
          BY <2>3, <2>4, <3>3 DEF UpFrom
        <4>2. QED
          BY <3>1, <3>3, <4>1
      <3>4. QED
        BY <3>2, <3>3
    <2> HIDE DEF f
    <2>6. UpFrom(f, key, first)
      BY <2>5 DEF UpFrom
    <2>7. QED
      BY <2>6 DEF first
  <1>6. QED
    BY <1>4, <1>5

LEMMA UpExists ==
  ASSUME NEW key \in Nat, key <= Key(OpcodeCount - 1) PROVE \E f : IsUp(f, key)
  <1>1. /\ OpcodeCount \in Nat \ {0} /\ OpcodeCount - 1 \in Indices
        /\ OpcodeCount - 1 - (OpcodeCount - 1) = 0
    BY TableFacts DEF Indices
  <1>2. PICK g : UpFrom(g, key, 0)
    BY <1>1, UpUnrolled
  <1> DEFINE f == [m \in Indices |-> g[m]]
  <1>3. \A m \in Indices : Halfway(m) \in Indices
    BY <1>1, HalfwayUp DEF Indices
  <1>4. f = [m \in Indices |-> IF key > Key(Halfway(m)) THEN f[Halfway(m)] ELSE At(Halfway(m), m)]
    BY <1>2, <1>3 DEF UpFrom, Indices
  <1> HIDE DEF f
  <1>5. QED
    BY <1>4, Zenon DEF IsUp

Above(at, key, high, low) ==
  low \in Indices /\ high \in Indices /\ Key(low) < key /\ key <= Key(high) /\ at = At(high, low)

LEMMA UpAbove ==
  ASSUME NEW key \in Nat, key <= Key(OpcodeCount - 1), NEW f, IsUp(f, key)
  PROVE  \A m \in Indices : key > Key(m) => \E high, low \in Indices : Above(f[m], key, high, low)
  <1> DEFINE end == OpcodeCount - 1
             Good(m) == \E high, low \in Indices : Above(f[m], key, high, low)
             bad == {m \in Indices : key > Key(m) /\ ~Good(m)}
             rest == {end - m : m \in bad}
  <1> SUFFICES ASSUME bad # {} PROVE FALSE
    OBVIOUS
  <1>1. rest \in SUBSET Nat /\ rest # {} /\ end \in Nat /\ Indices = 0 .. end
    BY TableFacts DEF Indices
  <1>2. PICK m \in bad : \A j \in bad : j <= m
    <2>1. PICK r \in rest : \A j \in rest : r <= j
      BY <1>1, LeastNatural
    <2>2. PICK m \in bad : r = end - m
      BY <2>1
    <2>3. \A j \in bad : end - j \in rest
      OBVIOUS
    <2>4. bad \subseteq Int /\ end \in Int
      BY <1>1
    <2> HIDE DEF bad, rest, end
    <2>5. \A j \in bad : end - m <= end - j /\ j \in Int /\ m \in Int
      BY <2>1, <2>2, <2>3, <2>4
    <2>6. QED
      BY <2>4, <2>5
  <1>3. m \in Indices /\ key > Key(m) /\ ~Good(m) /\ m < end
    BY <1>1, <1>2, TableFacts
  <1>4. Halfway(m) \in Indices /\ m < Halfway(m)
    BY <1>1, <1>3, HalfwayUp
  <1>5. f[m] = IF key > Key(Halfway(m)) THEN f[Halfway(m)] ELSE At(Halfway(m), m)
    BY <1>3 DEF IsUp
  <1>6. CASE key > Key(Halfway(m))
    <2>1. Halfway(m) \notin bad
      BY <1>1, <1>2, <1>3, <1>4
    <2>2. Good(Halfway(m))
      BY <1>4, <1>6, <2>1
    <2>3. QED
      BY <1>3, <1>5, <1>6, <2>2
  <1>7. CASE ~(key > Key(Halfway(m)))
    <2>1. key <= Key(Halfway(m))
      BY <1>4, <1>7, TableFacts
    <2>2. Key(m) < key
      BY <1>3, TableFacts
    <2>3. Above(f[m], key, Halfway(m), m)
      BY <1>3, <1>4, <1>5, <1>7, <2>1, <2>2 DEF Above
    <2>4. QED
      BY <1>3, <1>4, <2>3
  <1>8. QED
    BY <1>6, <1>7

LEMMA UpperAbove ==
  ASSUME NEW key \in Nat, middle \in Indices, key > Key(middle), key <= Key(OpcodeCount - 1)
  PROVE  \E high, low \in Indices : Above(Upper(key), key, high, low)
  <1> DEFINE up == CHOOSE f : IsUp(f, key)
  <1>1. IsUp(up, key)
    BY UpExists, Zenon
  <1>2. Upper(key) = up[middle]
    BY DEF Upper, IsUp, Indices, Halfway
  <1> HIDE DEF up
  <1>3. QED
    BY <1>1, <1>2, UpAbove

TableInv == middle \in Indices /\ outofrange \in Indices

LEMMA SearchStays ==
  ASSUME TableInv, NEW key \in Nat
  PROVE  Search(key).middle \in Indices /\ Search(key).outofrange \in Indices
  <1>1. CASE key < Key(middle)
    <2>1. PICK low, high \in Indices : Between(Lower(key), key, low, high)
      BY <1>1, LowerBetween DEF TableInv
    <2>2. QED
      BY <1>1, <2>1 DEF Search, Between, At
  <1>2. CASE ~(key < Key(middle)) /\ key > Key(OpcodeCount - 1)
    BY <1>2 DEF Search, At, TableInv
  <1>3. CASE ~(key < Key(middle)) /\ ~(key > Key(OpcodeCount - 1)) /\ key > Key(middle)
    <2>1. key <= Key(OpcodeCount - 1)
      BY <1>3, TableFacts DEF Indices
    <2>2. PICK high, low \in Indices : Above(Upper(key), key, high, low)
      BY <1>3, <2>1, UpperAbove DEF TableInv
    <2>3. QED
      BY <1>3, <2>2 DEF Search, Above, At
  <1>4. CASE ~(key < Key(middle)) /\ ~(key > Key(OpcodeCount - 1)) /\ ~(key > Key(middle))
    BY <1>4 DEF Search, Upper, At, TableInv
  <1>5. QED
    BY <1>1, <1>2, <1>3, <1>4

(* From any two indices a key of the table is found, but for the exception.*)
LEMMA SearchFinds ==
  ASSUME TableInv, NEW key \in OpcodeKeys
  PROVE  Found(key) \/ (key = Key(middle) /\ middle < outofrange)
  <1>1. PICK i \in Indices : Key(i) = key
    BY TableFacts
  <1>2. /\ key \in Nat /\ OpcodeCount - 1 \in Indices /\ OpcodeCount \in Nat
        /\ \A j, k \in Indices : Key(j) <= Key(k) <=> j <= k
    <2>1. \A j, k \in Indices : Key(j) \in Nat /\ Key(k) \in Nat /\ j \in Nat /\ k \in Nat
      BY TableFacts DEF Indices
    <2>2. \A j, k \in Indices : j < k => Key(j) < Key(k)
      BY TableFacts
    <2>3. \A j, k \in Indices : Key(j) <= Key(k) <=> j <= k
      BY <2>1, <2>2
    <2>4. QED
      BY <1>1, <2>1, <2>3, TableFacts DEF Indices
  <1>3. \A j \in Indices : j \in Nat /\ Key(j) \in Nat
    BY TableFacts DEF Indices
  <1>4. key <= Key(OpcodeCount - 1)
    BY <1>1, <1>2 DEF Indices
  <1>5. CASE key < Key(middle)
    <2>1. PICK low, high \in Indices : Between(Lower(key), key, low, high)
      BY <1>2, <1>5, LowerBetween DEF TableInv
    <2>2. Key(low) <= Key(i) /\ Key(i) <= Key(high)
      BY <1>1, <1>3, <2>1 DEF Between
    <2>3. i \in low .. high
      BY <1>2, <1>3, <2>2
    <2>4. Scanned(key) = low .. high
      BY <1>5, <2>1 DEF Scanned, Search, Between, At
    <2>5. QED
      BY <1>1, <2>3, <2>4 DEF Found
  <1>6. CASE key > Key(middle)
    <2>1. PICK high, low \in Indices : Above(Upper(key), key, high, low)
      BY <1>2, <1>4, <1>6, UpperAbove DEF TableInv
    <2>2. Key(low) <= Key(i) /\ Key(i) <= Key(high)
      BY <1>1, <1>3, <2>1 DEF Above
    <2>3. i \in low .. high
      BY <1>2, <1>3, <2>2
    <2>4. ~(key < Key(middle)) /\ ~(key > Key(OpcodeCount - 1))
      BY <1>2, <1>3, <1>4, <1>6 DEF TableInv
    <2>5. Scanned(key) = low .. high
      BY <2>1, <2>4 DEF Scanned, Search, Above, At
    <2>6. QED
      BY <1>1, <2>3, <2>5 DEF Found
  <1>7. CASE key = Key(middle)
    <2>1. ~(key < Key(middle)) /\ ~(key > Key(OpcodeCount - 1)) /\ ~(key > Key(middle))
      BY <1>2, <1>3, <1>4, <1>7 DEF TableInv
    <2>2. Scanned(key) = outofrange .. middle
      BY <2>1 DEF Scanned, Search, Upper, At
    <2>3. middle \in Nat /\ outofrange \in Nat
      BY <1>3 DEF TableInv
    <2>4. middle < outofrange \/ middle \in outofrange .. middle
      BY <2>3
    <2>5. QED
      BY <1>7, <2>2, <2>4 DEF Found
  <1>8. QED
    BY <1>2, <1>3, <1>5, <1>6, <1>7 DEF TableInv

(* In every sorted table a lookup finds every known header, from wherever  *)
(* the lookups before it have left the static indices, except the one they *)
(* point at; and no index leaves the table (GetHeaderByKey).               *)
THEOREM OnlyPivotCorrect == TableSpec => []OnlyPivotLost
  <1>1. TableInit => TableInv
    <2>1. OpcodeCount \in Nat \ {0}
      BY TableFacts
    <2>2. QED
      BY <2>1 DEF TableInit, TableInv, Indices
  <1>2. TableInv /\ [Log]_tableVars => TableInv'
    <2> SUFFICES ASSUME TableInv, [Log]_tableVars PROVE TableInv'
      OBVIOUS
    <2>1. ASSUME NEW key \in HeaderKeys, GetHeaderByKey(key) PROVE TableInv'
      <3>1. key \in Nat
        BY HeaderAssumption
      <3>2. QED
        BY <2>1, <3>1, SearchStays DEF GetHeaderByKey, TableInv, Indices
    <2>2. CASE UNCHANGED tableVars
      BY <2>2 DEF tableVars, TableInv, Indices
    <2>3. QED
      BY <2>1, <2>2 DEF Log
  <1>3. TableInv => OnlyPivotLost
    BY SearchFinds DEF OnlyPivotLost, TableInv, Indices
  <1>4. QED
    BY <1>1, <1>2, <1>3, PTL DEF TableSpec
===============================================================================
