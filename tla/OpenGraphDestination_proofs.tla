-------------------- MODULE OpenGraphDestination_proofs --------------------
(***************************************************************************)
(* Proofs about OpenGraphDestination, for any load jobs, any numbers of    *)
(* items and of faults and any size of a part.  The inductive invariant    *)
(* says, for each job, which of its parts the place of its call implies.   *)
(***************************************************************************)
EXTENDS OpenGraphDestination, FiniteSetTheorems, SequenceTheorems, WellFoundedInduction, TLAPS

---------------------------------------------------------------------------
(* Parts. *)

\* A set of naturals has a first one.
LEMMA FirstExists ==
  ASSUME NEW T \in SUBSET Nat, T # {}
  PROVE  \E n \in T : \A m \in T : n <= m
<1> DEFINE Less == {ss \in Nat \X Nat : ss[1] < ss[2]}
<1>1. IsWellFoundedOn(Less, Nat)
  BY NatLessThanWellFounded DEF OpToRel
<1>2. PICK n \in T : \A m \in T : <<m, n>> \notin Less
  BY <1>1, WFMin
<1>3. \A m \in T : ~(m < n) /\ m \in Nat /\ n \in Nat
  BY <1>2
<1> QED BY <1>3

\* Division leaves less than the divisor.
LEMMA Division ==
  ASSUME NEW a \in Nat, NEW d \in Nat \ {0}
  PROVE  a \div d \in Nat /\ (a \div d) * d <= a /\ a < (a \div d) * d + d
<1> DEFINE T == {n \in Nat : a < n * d + d}
<1>1. a \in T
  OBVIOUS
<1>2. PICK q \in T : \A n \in T : q <= n
  BY <1>1, FirstExists
<1>4. q * d <= a
  <2>1. CASE q = 0
    BY <2>1
  <2>2. CASE q # 0
    <3>1. q - 1 \in Nat /\ q - 1 < q /\ (q - 1) * d + d = q * d
      BY <2>2
    <3>2. q - 1 \notin T
      BY <1>2, <3>1
    <3>3. ~(a < (q - 1) * d + d)
      BY <3>1, <3>2
    <3> QED BY <3>1, <3>3
  <2> QED BY <2>1, <2>2
<1>5. q \in Nat /\ a < q * d + d
  BY <1>2
<1>6. a - q * d \in 0..(d - 1) /\ a = q * d + (a - q * d)
  BY <1>4, <1>5
<1>7. \A r \in 0..(d - 1) : (q * d + r) \div d = q
  BY <1>5
<1> HIDE DEF T
<1>8. a \div d = q
  BY <1>6, <1>7
<1> QED BY <1>4, <1>5, <1>8

\* A part n is there just if the parts before it leave an item.
LEMMA PartsAreNeeded ==
  ASSUME NEW j \in LoadJobs
  PROVE  /\ ItemCount[j] \in Nat /\ Parts(j) \in Nat /\ PartSize \in Nat \ {0}
         /\ \A m \in Nat : m * PartSize \in Nat /\ (m * PartSize < ItemCount[j] <=> m < Parts(j))
<1> DEFINE C == ItemCount[j]
           P == PartSize
           q == Parts(j)
<1>1. C \in Nat /\ P \in Nat \ {0}
  BY CountAssumption, SizeAssumption
<1>2. C + P - 1 \in Nat /\ q = (C + P - 1) \div P
  BY <1>1 DEF Parts
<1>3. q \in Nat /\ q * P <= C + P - 1 /\ C + P - 1 < q * P + P
  BY <1>1, <1>2, Division
<1> HIDE DEF q, C, P
<1>4. ASSUME NEW m \in Nat
      PROVE  m * P \in Nat /\ (m * P < C <=> m < q)
  <2>1. m * P \in Nat /\ q * P \in Nat
    BY <1>1, <1>3
  <2>2. ASSUME m < q
        PROVE  m * P < C
    <3>1. m * P + P <= q * P
      BY <1>1, <1>3, <2>2
    <3> QED BY <1>1, <1>3, <2>1, <3>1
  <2>3. ASSUME ~(m < q)
        PROVE  ~(m * P < C)
    <3>1. q * P <= m * P
      BY <1>1, <1>3, <2>3
    <3> QED BY <1>1, <1>3, <2>1, <3>1
  <2> QED BY <2>1, <2>2, <2>3
<1> QED BY <1>1, <1>3, <1>4 DEF q, C, P

LEMMA PartIsNeeded ==
  ASSUME NEW j \in LoadJobs, NEW m \in Nat
  PROVE  m * PartSize \in Nat /\ (m * PartSize < ItemCount[j] <=> m < Parts(j))
BY PartsAreNeeded

\* n items from the one after k.
Run(k, n) == [i \in 1..n |-> k + i]

LEMMA RunIsSeq ==
  ASSUME NEW k \in Nat, NEW n \in Nat
  PROVE  /\ Run(k, n) \in Seq(Nat) /\ Len(Run(k, n)) = n
         /\ \A i \in 1..n : Run(k, n)[i] = k + i
         /\ Append(Run(k, n), k + n + 1) = Run(k, n + 1)
         /\ Run(k, 0) = <<>>
         /\ Run(k, n) = <<>> <=> n = 0
<1>1. /\ Run(k, n) \in Seq(Nat) /\ Len(Run(k, n)) = n
      /\ \A i \in 1..n : Run(k, n)[i] = k + i
  BY DEF Run
<1>2. /\ Run(k, n + 1) \in Seq(Nat) /\ Len(Run(k, n + 1)) = n + 1
      /\ \A i \in 1..(n + 1) : Run(k, n + 1)[i] = k + i
  BY DEF Run
<1>3. Append(Run(k, n), k + n + 1) = Run(k, n + 1)
  <2> DEFINE s == Append(Run(k, n), k + n + 1)
  <2>1. /\ s \in Seq(Nat) /\ Len(s) = n + 1 /\ s[n + 1] = k + n + 1
        /\ \A i \in 1..n : s[i] = k + i
    BY <1>1, AppendProperties
  <2>2. \A i \in 1..Len(s) : s[i] = Run(k, n + 1)[i]
    BY <1>2, <2>1
  <2> HIDE DEF s
  <2>3. s = Run(k, n + 1)
    BY <1>2, <2>1, <2>2, SeqEqual
  <2> QED BY <2>3 DEF s
<1>4. Run(k, 0) = <<>>
  BY DEF Run
<1>5. Run(k, n) = <<>> <=> n = 0
  BY <1>1
<1> QED BY <1>1, <1>3, <1>4, <1>5

\* The number of the last item of part n.
LastIn(j, n) == IF n = Parts(j) THEN ItemCount[j] ELSE n * PartSize

LEMMA SliceIsRun ==
  ASSUME NEW j \in LoadJobs, NEW n \in 1..Parts(j)
  PROVE  /\ (n - 1) * PartSize \in Nat
         /\ LastIn(j, n) - (n - 1) * PartSize \in 1..PartSize
         /\ (n - 1) * PartSize < ItemCount[j] /\ LastIn(j, n) \in 1..ItemCount[j]
         /\ Slice(j, n) = Run((n - 1) * PartSize, LastIn(j, n) - (n - 1) * PartSize)
<1> DEFINE C == ItemCount[j]
           P == PartSize
           k == (n - 1) * P
           all == [i \in 1..C |-> i]
           l == LastIn(j, n)
<1>1. C \in Nat /\ P \in Nat \ {0} /\ Parts(j) \in Nat
  BY PartsAreNeeded
<1>2. n \in Nat /\ n - 1 \in Nat /\ k \in Nat /\ n * P \in Nat /\ n * P = k + P
  BY <1>1
<1>3. k < C
  <2>1. n - 1 < Parts(j)
    BY <1>1
  <2> QED BY <1>2, <2>1, PartIsNeeded
<1>4. l - k \in 1..P /\ l \in 1..C
  <2>1. CASE n = Parts(j)
    <3>1. ~(n * P < C)
      BY <1>1, <1>2, <2>1, PartIsNeeded
    <3>2. l = C
      BY <2>1 DEF LastIn
    <3> HIDE DEF k, C, P, l
    <3> QED BY <1>1, <1>2, <1>3, <3>1, <3>2
  <2>2. CASE n # Parts(j)
    <3>1. n * P < C
      <4>1. n < Parts(j)
        BY <1>1, <2>2
      <4> QED BY <1>2, <4>1, PartIsNeeded
    <3>2. l = n * P
      BY <2>2 DEF LastIn
    <3> HIDE DEF k, C, P, l
    <3> QED BY <1>1, <1>2, <1>3, <3>1, <3>2
  <2> QED BY <2>1, <2>2
<1>5. Slice(j, n) = SubSeq(all, k + 1, l)
  BY DEF Slice, LastIn
<1>6. /\ SubSeq(all, k + 1, l) \in Seq(Nat) /\ Len(SubSeq(all, k + 1, l)) = l - k
      /\ \A i \in 1..(l - k) : SubSeq(all, k + 1, l)[i] = k + i
  <2>1. \A i \in (k + 1)..l : all[i] = i /\ i \in Nat
    <3>1. \A i \in (k + 1)..l : i \in 1..C
      <4> HIDE DEF k, l, C
      <4> QED BY <1>1, <1>2, <1>4
    <3> QED BY <1>1, <3>1
  <2> HIDE DEF all, k, l
  <2>2. k + 1 \in Int /\ l \in Int /\ k + 1 <= l /\ l - (k + 1) + 1 = l - k
    BY <1>1, <1>2, <1>4
  <2>3. /\ SubSeq(all, k + 1, l) \in Seq(Nat) /\ Len(SubSeq(all, k + 1, l)) = l - k
        /\ \A i \in 1..(l - k) : SubSeq(all, k + 1, l)[i] = all[k + 1 + i - 1]
    BY <2>1, <2>2, SubSeqProperties
  <2>4. \A i \in 1..(l - k) : all[k + 1 + i - 1] = k + i
    BY <1>2, <2>1, <2>2
  <2> QED BY <2>3, <2>4
<1> HIDE DEF k, l, all
<1>7. SubSeq(all, k + 1, l) = Run(k, l - k)
  <2>1. /\ Run(k, l - k) \in Seq(Nat) /\ Len(Run(k, l - k)) = l - k
        /\ \A i \in 1..(l - k) : Run(k, l - k)[i] = k + i
    <3>1. l - k \in Nat
      BY <1>2, <1>4
    <3> QED BY <1>2, <3>1, RunIsSeq
  <2> QED BY <1>6, <2>1, SeqEqual
<1> QED BY <1>2, <1>3, <1>4, <1>5, <1>7 DEF k, l

---------------------------------------------------------------------------
(* The inductive invariant. *)

CallTypeInv ==
  /\ pc \in [LoadJobs -> Locations]
  /\ read \in [LoadJobs -> Nat]
  /\ batch \in [LoadJobs -> Seq(Nat)]
  /\ number \in [LoadJobs -> Nat]
  /\ DOMAIN staging = LoadJobs
  /\ DOMAIN output = LoadJobs
  /\ marker \in [LoadJobs -> {"none", "tmp", "whole"}]

\* The first k parts are staged.
Staged(j, k) == DOMAIN staging[j] = 1..k /\ \A n \in 1..k : staging[j][n] = Slice(j, n)

\* What a call that writes has read, what it holds and what it has staged.
WriteInv(j) ==
  /\ pc[j] = "read" =>
       /\ Staged(j, number[j])
       /\ \/ /\ read[j] = number[j] * PartSize + Len(batch[j])
             /\ Len(batch[j]) < PartSize
             /\ batch[j] = Run(number[j] * PartSize, Len(batch[j]))
          \/ read[j] = ItemCount[j] /\ number[j] = Parts(j) /\ batch[j] = <<>>
  /\ pc[j] = "write" =>
       /\ Staged(j, number[j])
       /\ number[j] < Parts(j)
       /\ batch[j] = Slice(j, number[j] + 1)
       /\ read[j] = LastIn(j, number[j] + 1)
  /\ pc[j] = "fill" =>
       /\ number[j] \in 1..Parts(j)
       /\ batch[j] = Slice(j, number[j])
       /\ read[j] = LastIn(j, number[j])
       /\ DOMAIN staging[j] = 1..number[j]
       /\ \A n \in 1..(number[j] - 1) : staging[j][n] = Slice(j, n)
  /\ pc[j] = "publish" =>
       /\ 1..Parts(j) \subseteq DOMAIN staging[j] \cup DOMAIN output[j]
       /\ \A n \in DOMAIN staging[j] : staging[j][n] = Slice(j, n)

BoundInv(j) == read[j] <= ItemCount[j] /\ Len(batch[j]) <= PartSize /\ number[j] <= Parts(j)

\* A part that is out is whole; behind a marker, and from the moment the last
\* part is moved, all are out.
DiskInv(j) ==
  /\ DOMAIN output[j] \subseteq 1..Parts(j)
  /\ \A n \in DOMAIN output[j] : output[j][n] = Slice(j, n)
  /\ DOMAIN staging[j] \subseteq 1..Parts(j)
  /\ \A n \in DOMAIN staging[j] : staging[j][n] \in Contents(j)
  /\ pc[j] \in {"mark", "rename"} => DOMAIN output[j] = 1..Parts(j)
  /\ marker[j] = "whole" => DOMAIN output[j] = 1..Parts(j) /\ pc[j] \in {"idle", "sweep", "return"}
  /\ pc[j] \in {"sweep", "return"} => marker[j] = "whole"

LoadInv ==
  /\ acked \subseteq LoadJobs
  /\ status \in {"loading", "raised", "down", "returned", "discarded"}
  /\ faults \in 0..MaxFaults
  /\ status # "loading" => Idle
  /\ \A j \in acked : pc[j] = "idle" /\ (status # "discarded" => marker[j] = "whole")
  /\ status = "discarded" => \A j \in LoadJobs : marker[j] = "none"
  /\ status = "returned" => acked = LoadJobs /\ listed = output

JobInv(j) == BoundInv(j) /\ WriteInv(j) /\ DiskInv(j)
ExportInv == CallTypeInv /\ LoadInv /\ \A j \in LoadJobs : JobInv(j)

---------------------------------------------------------------------------
(* Steps of one call. *)

\* The other jobs are left alone.
Local(j) ==
  \A k \in LoadJobs \ {j} :
    /\ pc'[k] = pc[k] /\ read'[k] = read[k] /\ batch'[k] = batch[k] /\ number'[k] = number[k]
    /\ staging'[k] = staging[k] /\ output'[k] = output[k] /\ marker'[k] = marker[k]

\* Only a call that ends well is recorded.
Recorded(j) ==
  /\ status = "loading" /\ j \notin acked
  /\ UNCHANGED <<status, listed>>
  /\ faults' \in 0..MaxFaults
  /\ \/ acked' = acked
     \/ acked' = acked \cup {j} /\ pc'[j] = "idle" /\ marker'[j] = "whole"

LEMMA LocalStep ==
  ASSUME ExportInv, NEW j \in LoadJobs, Local(j), Recorded(j), CallTypeInv', JobInv(j)'
  PROVE  ExportInv'
<1>1. ASSUME NEW k \in LoadJobs, k # j
      PROVE  JobInv(k)'
  <2>1. /\ pc'[k] = pc[k] /\ read'[k] = read[k] /\ batch'[k] = batch[k] /\ number'[k] = number[k]
        /\ staging'[k] = staging[k] /\ output'[k] = output[k] /\ marker'[k] = marker[k]
    BY <1>1 DEF Local
  <2>2. BoundInv(k) /\ WriteInv(k) /\ DiskInv(k)
    BY DEF ExportInv, JobInv
  <2>3. BoundInv(k)'
    BY <2>1, <2>2 DEF BoundInv
  <2>4. WriteInv(k)'
    BY <2>1, <2>2 DEF WriteInv, Staged
  <2>5. DiskInv(k)'
    BY <2>1, <2>2 DEF DiskInv
  <2> QED BY <2>3, <2>4, <2>5 DEF JobInv
<1>2. LoadInv'
  <2>1. \A k \in acked' : pc'[k] = "idle" /\ marker'[k] = "whole"
    <3>1. \A k \in acked : k \in LoadJobs \ {j} /\ pc[k] = "idle" /\ marker[k] = "whole"
      BY DEF ExportInv, LoadInv, Recorded
    <3> QED BY <3>1 DEF Local, Recorded
  <2> QED BY <2>1 DEF ExportInv, LoadInv, Recorded
<1> QED BY <1>1, <1>2 DEF ExportInv

\* A call that goes on belongs to a load that goes on.
LEMMA CallIsOfLoad ==
  ASSUME ExportInv, NEW j \in LoadJobs, pc[j] # "idle", UNCHANGED load
  PROVE  Recorded(j)
BY DEF ExportInv, LoadInv, Recorded, load, Idle

LEMMA WithoutIs ==
  ASSUME NEW f, NEW n
  PROVE  /\ DOMAIN Without(f, n) = DOMAIN f \ {n}
         /\ \A m \in DOMAIN f \ {n} : Without(f, n)[m] = f[m]
BY DEF Without

LEMMA SliceIsContent ==
  ASSUME NEW j \in LoadJobs, NEW n \in 1..Parts(j)
  PROVE  Slice(j, n) \in Contents(j) /\ Slice(j, n) \in Seq(Nat) /\ Slice(j, n) # <<>>
         /\ Len(Slice(j, n)) \in 1..PartSize
<1> DEFINE k == (n - 1) * PartSize
           l == LastIn(j, n) - k
<1>1. k \in Nat /\ l \in 1..PartSize /\ k < ItemCount[j] /\ Slice(j, n) = Run(k, l)
  BY SliceIsRun
<1> HIDE DEF k, l
<1>2. ItemCount[j] \in Nat /\ PartSize \in Nat \ {0}
  BY PartsAreNeeded
<1>3. k \in 0..ItemCount[j] /\ l \in Nat
  BY <1>1, <1>2
<1>4. Run(k, l) \in {[i \in 1..m |-> p + i] : m \in 1..PartSize, p \in 0..ItemCount[j]}
  BY <1>1, <1>3 DEF Run
<1>5. Run(k, l) \in Seq(Nat) /\ Len(Run(k, l)) = l /\ l # 0
  BY <1>1, <1>3, RunIsSeq
<1> QED BY <1>1, <1>4, <1>5 DEF Contents

LEMMA StartKeepsInv ==
  ASSUME ExportInv, NEW j \in LoadJobs, Start(j)
  PROVE  ExportInv'
<1>1. /\ pc[j] = "idle" /\ j \notin acked /\ status = "loading"
      /\ pc' = [pc EXCEPT ![j] = IF marker[j] = "whole" THEN "return" ELSE "clear"]
      /\ UNCHANGED <<read, batch, number, disk, load>>
  BY DEF Start, Goto
<1>2. CallTypeInv
  BY DEF ExportInv
<1>3. /\ pc'[j] = IF marker[j] = "whole" THEN "return" ELSE "clear"
      /\ \A k \in LoadJobs \ {j} : pc'[k] = pc[k]
      /\ pc' \in [LoadJobs -> Locations]
  BY <1>1, <1>2 DEF CallTypeInv, Locations
<1>4. Local(j) /\ CallTypeInv'
  BY <1>1, <1>2, <1>3 DEF Local, CallTypeInv, disk
<1>5. Recorded(j)
  BY <1>1 DEF Recorded, load, ExportInv, LoadInv
<1>6. JobInv(j)'
  <2>1. BoundInv(j) /\ DiskInv(j)
    BY DEF ExportInv, JobInv
  <2>2. BoundInv(j)'
    BY <1>1, <2>1 DEF BoundInv
  <2>3. WriteInv(j)'
    BY <1>3 DEF WriteInv
  <2>4. DiskInv(j)'
    BY <1>1, <1>3, <2>1 DEF DiskInv, disk
  <2> QED BY <2>2, <2>3, <2>4 DEF JobInv
<1> QED BY <1>4, <1>5, <1>6, LocalStep

LEMMA EraseOneKeepsInv ==
  ASSUME ExportInv, NEW j \in LoadJobs, EraseOne(j)
  PROVE  ExportInv'
<1>1. /\ pc[j] \in {"clear", "sweep"} /\ UNCHANGED <<call, output, marker, load>>
  BY DEF EraseOne
<1>2. PICK n \in DOMAIN staging[j] : staging' = [staging EXCEPT ![j] = Without(@, n)]
  BY DEF EraseOne
<1>3. CallTypeInv
  BY DEF ExportInv
<1>4. /\ staging'[j] = Without(staging[j], n) /\ DOMAIN staging' = LoadJobs
      /\ \A k \in LoadJobs \ {j} : staging'[k] = staging[k]
  BY <1>2, <1>3 DEF CallTypeInv
<1>5. Local(j) /\ CallTypeInv'
  BY <1>1, <1>3, <1>4 DEF Local, CallTypeInv, call
<1>6. Recorded(j)
  BY <1>1, CallIsOfLoad
<1>7. JobInv(j)'
  <2>1. BoundInv(j) /\ DiskInv(j)
    BY DEF ExportInv, JobInv
  <2>2. BoundInv(j)'
    BY <1>1, <2>1 DEF BoundInv, call
  <2>3. WriteInv(j)'
    BY <1>1 DEF WriteInv, call
  <2>4. DOMAIN staging'[j] \subseteq DOMAIN staging[j]
        /\ \A m \in DOMAIN staging'[j] : staging'[j][m] = staging[j][m]
    <3>1. /\ DOMAIN Without(staging[j], n) = DOMAIN staging[j] \ {n}
          /\ \A m \in DOMAIN staging[j] \ {n} : Without(staging[j], n)[m] = staging[j][m]
      BY WithoutIs
    <3> QED BY <1>4, <3>1
  <2>5. DiskInv(j)'
    BY <1>1, <2>1, <2>4 DEF DiskInv, call
  <2> QED BY <2>2, <2>3, <2>5 DEF JobInv
<1> QED BY <1>5, <1>6, <1>7, LocalStep

LEMMA ClearKeepsInv ==
  ASSUME ExportInv, NEW j \in LoadJobs, Clear(j)
  PROVE  ExportInv'
<1>1. /\ pc[j] = "clear" /\ staging[j] = <<>> /\ read' = [read EXCEPT ![j] = 0]
      /\ batch' = [batch EXCEPT ![j] = <<>>] /\ number' = [number EXCEPT ![j] = 0]
      /\ pc' = [pc EXCEPT ![j] = "read"] /\ UNCHANGED <<disk, load>>
  BY DEF Clear, Goto, Empty
<1>2. CallTypeInv
  BY DEF ExportInv
<1>3. /\ pc'[j] = "read" /\ read'[j] = 0 /\ batch'[j] = <<>> /\ number'[j] = 0
      /\ pc' \in [LoadJobs -> Locations] /\ read' \in [LoadJobs -> Nat]
      /\ batch' \in [LoadJobs -> Seq(Nat)] /\ number' \in [LoadJobs -> Nat]
  <2>1. <<>> \in Seq(Nat)
    OBVIOUS
  <2> QED BY <1>1, <1>2, <2>1 DEF CallTypeInv, Locations
<1>4. Local(j) /\ CallTypeInv'
  BY <1>1, <1>2, <1>3 DEF Local, CallTypeInv, disk
<1>5. Recorded(j)
  BY <1>1, CallIsOfLoad
<1>6. JobInv(j)'
  <2>1. DiskInv(j)
    BY DEF ExportInv, JobInv
  <2>2. ItemCount[j] \in Nat /\ Parts(j) \in Nat /\ PartSize \in Nat \ {0} /\ Len(<<>>) = 0
    BY PartsAreNeeded
  <2>3. BoundInv(j)'
    BY <1>3, <2>2 DEF BoundInv
  <2>4. Staged(j, 0)'
    BY <1>1 DEF Staged, disk
  <2>5. WriteInv(j)'
    <3>1. 0 * PartSize = 0 /\ Run(0, 0) = <<>>
      BY <2>2, RunIsSeq
    <3> QED BY <1>1, <1>3, <2>2, <2>4, <3>1 DEF WriteInv, Staged
  <2>6. DiskInv(j)'
    BY <1>1, <1>3, <2>1 DEF DiskInv, disk
  <2> QED BY <2>3, <2>5, <2>6 DEF JobInv
<1> QED BY <1>4, <1>5, <1>6, LocalStep

LEMMA ReadKeepsInv ==
  ASSUME ExportInv, NEW j \in LoadJobs, Read(j)
  PROVE  ExportInv'
<1> DEFINE r == read[j]
           b == batch[j]
           n == number[j]
           C == ItemCount[j]
           P == PartSize
<1>1. /\ pc[j] = "read" /\ r < C
      /\ read' = [read EXCEPT ![j] = r + 1]
      /\ batch' = [batch EXCEPT ![j] = Append(b, r + 1)]
      /\ pc' = [pc EXCEPT ![j] = IF Len(b) + 1 = P THEN "write" ELSE "read"]
      /\ UNCHANGED <<number, disk, load>>
  BY DEF Read, Goto
<1>2. CallTypeInv
  BY DEF ExportInv
<1>3. r \in Nat /\ n \in Nat /\ C \in Nat /\ Parts(j) \in Nat /\ P \in Nat \ {0}
      /\ b \in Seq(Nat) /\ Len(b) \in Nat
  BY <1>2, PartsAreNeeded DEF CallTypeInv
<1>4. Staged(j, n) /\ r = n * P + Len(b) /\ Len(b) < P /\ b = Run(n * P, Len(b))
  BY <1>1, <1>3 DEF ExportInv, JobInv, WriteInv
<1>5. n * P \in Nat /\ n * P < C /\ n < Parts(j)
  <2>1. n * P \in Nat
    BY <1>3
  <2>2. n * P < C
    <3> HIDE DEF n, C, P, r, b
    <3> QED BY <1>1, <1>3, <1>4, <2>1
  <2> QED BY <1>3, <2>1, <2>2, PartIsNeeded
<1>6. Append(b, r + 1) = Run(n * P, Len(b) + 1)
  <2> DEFINE k == n * P
             l == Len(b)
  <2> HIDE DEF k, l, r, b
  <2>1. k \in Nat /\ l \in Nat /\ r = k + l /\ b = Run(k, l)
    BY <1>3, <1>4, <1>5 DEF k, l
  <2>2. Append(Run(k, l), k + l + 1) = Run(k, l + 1)
    BY <2>1, RunIsSeq
  <2> QED BY <2>1, <2>2 DEF k, l
<1>7. Append(b, r + 1) \in Seq(Nat) /\ Len(Append(b, r + 1)) = Len(b) + 1
  BY <1>3
<1>8. /\ pc'[j] = (IF Len(b) + 1 = P THEN "write" ELSE "read")
      /\ read'[j] = r + 1 /\ batch'[j] = Run(n * P, Len(b) + 1) /\ Len(batch'[j]) = Len(b) + 1
      /\ number'[j] = n /\ pc' \in [LoadJobs -> Locations]
      /\ read' \in [LoadJobs -> Nat] /\ batch' \in [LoadJobs -> Seq(Nat)]
  <2>1. read'[j] = r + 1 /\ read' \in [LoadJobs -> Nat] /\ number'[j] = n
    BY <1>1, <1>2, <1>3 DEF CallTypeInv
  <2>2. batch'[j] = Append(b, r + 1) /\ batch' \in [LoadJobs -> Seq(Nat)]
    <3> DEFINE a == Append(b, r + 1)
    <3>1. a \in Seq(Nat) /\ batch' = [batch EXCEPT ![j] = a]
      BY <1>1, <1>7
    <3> HIDE DEF a
    <3>2. batch'[j] = a /\ batch' \in [LoadJobs -> Seq(Nat)]
      BY <1>2, <3>1 DEF CallTypeInv
    <3> QED BY <3>2 DEF a
  <2>3. pc'[j] = (IF Len(b) + 1 = P THEN "write" ELSE "read") /\ pc' \in [LoadJobs -> Locations]
    BY <1>1, <1>2 DEF CallTypeInv, Locations
  <2> QED BY <1>6, <1>7, <2>1, <2>2, <2>3
<1>9. Local(j) /\ CallTypeInv'
  BY <1>1, <1>2, <1>8 DEF Local, CallTypeInv, disk
<1>10. Recorded(j)
  BY <1>1, CallIsOfLoad
<1>11. JobInv(j)'
  <2>1. DiskInv(j) /\ BoundInv(j)
    BY DEF ExportInv, JobInv
  <2>2. BoundInv(j)'
    <3> HIDE DEF b, C, P, r, n
    <3>1. r + 1 <= C /\ Len(b) + 1 <= P
      BY <1>1, <1>3, <1>4
    <3>2. number'[j] <= Parts(j)
      BY <1>8, <2>1 DEF BoundInv, n
    <3>3. read'[j] <= ItemCount[j] /\ Len(batch'[j]) <= PartSize
      BY <1>8, <3>1 DEF C, P
    <3> QED BY <3>2, <3>3 DEF BoundInv
  <2>3. DiskInv(j)'
    BY <1>1, <1>8, <2>1 DEF DiskInv, disk
  <2>4. Staged(j, number[j])'
    <3>1. staging' = staging /\ number' = number
      BY <1>1 DEF disk
    <3> QED BY <1>4, <3>1 DEF Staged
  <2>5. CASE Len(b) + 1 = P
    <3>1. n + 1 \in 1..Parts(j) /\ (n + 1) - 1 = n
      <4> HIDE DEF n, b, C, P, r
      <4> QED BY <1>3, <1>5
    <3>2. (n + 1) * P = n * P + P
      BY <1>3
    <3>3. LastIn(j, n + 1) = n * P + P
      <4>1. CASE n + 1 = Parts(j)
        <5>1. ~((n + 1) * P < C)
          BY <1>3, <4>1, PartIsNeeded
        <5>2. n * P + P <= C
          <6> HIDE DEF n, b, C, P, r
          <6> QED BY <1>1, <1>3, <1>4, <1>5, <2>5
        <5>3. C = n * P + P
          <6> HIDE DEF n, b, C, P, r
          <6> QED BY <1>3, <1>5, <3>2, <5>1, <5>2
        <5> QED BY <4>1, <5>3 DEF LastIn
      <4>2. CASE n + 1 # Parts(j)
        BY <3>2, <4>2 DEF LastIn
      <4> QED BY <4>1, <4>2
    <3>4. LastIn(j, n + 1) - n * P = P
      BY <1>3, <1>5, <3>3
    <3>5. Slice(j, n + 1) = Run(n * P, P)
      BY <3>1, <3>4, SliceIsRun
    <3>6. r + 1 = LastIn(j, n + 1)
      <4> HIDE DEF n, b, P, r
      <4> QED BY <1>3, <1>4, <1>5, <2>5, <3>3
    <3> QED BY <1>5, <1>8, <2>2, <2>3, <2>4, <2>5, <3>5, <3>6 DEF WriteInv, JobInv
  <2>6. CASE Len(b) + 1 # P
    <3>1. r + 1 = n * P + (Len(b) + 1) /\ Len(b) + 1 < P
      <4> HIDE DEF n, b, P, r
      <4> QED BY <1>3, <1>4, <1>5, <2>6
    <3> QED BY <1>8, <2>2, <2>3, <2>4, <2>6, <3>1 DEF WriteInv, JobInv
  <2> QED BY <2>5, <2>6
<1> QED BY <1>9, <1>10, <1>11, LocalStep

LEMMA EndOfItemsKeepsInv ==
  ASSUME ExportInv, NEW j \in LoadJobs, EndOfItems(j)
  PROVE  ExportInv'
<1> DEFINE b == batch[j]
           n == number[j]
           C == ItemCount[j]
           P == PartSize
           q == Parts(j)
<1>1. /\ pc[j] = "read" /\ read[j] = C
      /\ pc' = [pc EXCEPT ![j] = IF b # <<>> THEN "write" ELSE "publish"]
      /\ UNCHANGED <<read, batch, number, disk, load>>
  BY DEF EndOfItems, Goto
<1>2. CallTypeInv /\ BoundInv(j) /\ DiskInv(j) /\ WriteInv(j)
  BY DEF ExportInv, JobInv
<1>3. n \in Nat /\ n <= q /\ C \in Nat /\ q \in Nat /\ P \in Nat \ {0} /\ b \in Seq(Nat)
      /\ Len(b) \in Nat /\ n * P \in Nat
  BY <1>2, PartsAreNeeded DEF CallTypeInv, BoundInv
<1>4. /\ pc'[j] = (IF b # <<>> THEN "write" ELSE "publish") /\ pc' \in [LoadJobs -> Locations]
      /\ read' = read /\ batch' = batch /\ number' = number /\ staging' = staging
      /\ output' = output /\ marker' = marker
  BY <1>1, <1>2 DEF CallTypeInv, Locations, disk
<1>5. Local(j) /\ CallTypeInv'
  BY <1>1, <1>2, <1>4 DEF Local, CallTypeInv
<1>6. Recorded(j)
  BY <1>1, CallIsOfLoad
<1>7. Staged(j, n)
  BY <1>1, <1>2 DEF WriteInv
<1>8. BoundInv(j)' /\ DiskInv(j)'
  BY <1>1, <1>2, <1>4 DEF BoundInv, DiskInv
<1>9. CASE b # <<>>
  <2>1. C = n * P + Len(b) /\ Len(b) < P /\ b = Run(n * P, Len(b)) /\ Len(b) # 0
    BY <1>1, <1>2, <1>3, <1>9 DEF WriteInv
  <2>2. n * P < C
    <3> HIDE DEF n, b, C, P
    <3> QED BY <1>3, <2>1
  <2>3. n < q
    BY <1>3, <2>2, PartIsNeeded
  <2>4. ~((n + 1) * P < C)
    <3>1. (n + 1) * P = n * P + P
      BY <1>3
    <3> HIDE DEF n, b, C, P
    <3> QED BY <1>3, <2>1, <3>1
  <2>5. n + 1 \in Nat /\ ~(n + 1 < q)
    <3>1. n + 1 \in Nat
      BY <1>3
    <3> QED BY <2>4, <3>1, PartIsNeeded
  <2>6. n + 1 = q /\ n + 1 \in 1..q /\ (n + 1) - 1 = n
    <3> HIDE DEF n, q
    <3> QED BY <1>3, <2>3, <2>5
  <2>7. LastIn(j, n + 1) = C
    BY <2>6 DEF LastIn
  <2>8. C - n * P = Len(b)
    <3> HIDE DEF n, b, C, P
    <3> QED BY <1>3, <2>1
  <2>9. Slice(j, n + 1) = b
    BY <2>1, <2>6, <2>7, <2>8, SliceIsRun
  <2> QED BY <1>1, <1>4, <1>5, <1>6, <1>7, <1>8, <1>9, <2>3, <2>7, <2>9, LocalStep
          DEF WriteInv, JobInv, Staged
<1>10. CASE b = <<>>
  <2>1. n = q
    <3>1. CASE C = n * P + Len(b)
      <4>1. ~(n * P < C)
        <5>1. Len(b) = 0
          BY <1>10
        <5> HIDE DEF n, b, C, P
        <5> QED BY <1>3, <3>1, <5>1
      <4>2. ~(n < q)
        BY <1>3, <4>1, PartIsNeeded
      <4> HIDE DEF n, q
      <4> QED BY <1>3, <4>2
    <3> QED BY <1>1, <1>2, <3>1 DEF WriteInv
  <2> QED BY <1>1, <1>4, <1>5, <1>6, <1>7, <1>8, <1>10, <2>1, LocalStep
          DEF WriteInv, JobInv, Staged
<1> QED BY <1>9, <1>10

LEMMA OpenPartKeepsInv ==
  ASSUME ExportInv, NEW j \in LoadJobs, OpenPart(j)
  PROVE  ExportInv'
<1> DEFINE n == number[j]
           q == Parts(j)
<1>1. /\ pc[j] = "write" /\ number' = [number EXCEPT ![j] = n + 1]
      /\ staging' = [staging EXCEPT ![j] = With(staging[j], n + 1, Torn)]
      /\ pc' = [pc EXCEPT ![j] = "fill"]
      /\ UNCHANGED <<read, batch, output, marker, load>>
  BY DEF OpenPart, Goto
<1>2. CallTypeInv /\ BoundInv(j) /\ DiskInv(j) /\ WriteInv(j)
  BY DEF ExportInv, JobInv
<1>3. n \in Nat /\ q \in Nat
  BY <1>2, PartsAreNeeded DEF CallTypeInv
<1>4. /\ pc'[j] = "fill" /\ pc' \in [LoadJobs -> Locations]
      /\ number'[j] = n + 1 /\ number' \in [LoadJobs -> Nat]
      /\ staging'[j] = With(staging[j], n + 1, Torn) /\ DOMAIN staging' = LoadJobs
      /\ \A k \in LoadJobs \ {j} : pc'[k] = pc[k] /\ number'[k] = number[k] /\ staging'[k] = staging[k]
  BY <1>1, <1>2, <1>3 DEF CallTypeInv, Locations
<1>5. Local(j) /\ CallTypeInv'
  BY <1>1, <1>2, <1>4 DEF Local, CallTypeInv
<1>6. Recorded(j)
  BY <1>1, CallIsOfLoad
<1>7. /\ DOMAIN staging[j] = 1..n /\ \A m \in 1..n : staging[j][m] = Slice(j, m)
      /\ n < q /\ batch[j] = Slice(j, n + 1) /\ read[j] = LastIn(j, n + 1)
  BY <1>1, <1>2 DEF WriteInv, Staged
<1>8. n + 1 \in 1..q /\ 1..(n + 1) = 1..n \cup {n + 1} /\ 1..((n + 1) - 1) = 1..n
      /\ 1..n \subseteq 1..q /\ n + 1 \notin 1..n
  <2> HIDE DEF n, q
  <2> QED BY <1>3, <1>7
<1>9. /\ DOMAIN staging'[j] = 1..(n + 1)
      /\ \A m \in 1..n : staging'[j][m] = staging[j][m]
      /\ staging'[j][n + 1] = Torn
  <2>1. /\ DOMAIN With(staging[j], n + 1, Torn) = DOMAIN staging[j] \cup {n + 1}
        /\ With(staging[j], n + 1, Torn)[n + 1] = Torn
        /\ \A m \in DOMAIN staging[j] \ {n + 1} : With(staging[j], n + 1, Torn)[m] = staging[j][m]
    BY DEF With
  <2> HIDE DEF n
  <2> QED BY <1>4, <1>7, <1>8, <2>1
<1> HIDE DEF n, q
<1>10. BoundInv(j)'
  <2>1. n + 1 <= q
    BY <1>3, <1>7
  <2> QED BY <1>1, <1>2, <1>4, <2>1 DEF BoundInv, q
<1>11. WriteInv(j)'
  <2>1. \A m \in 1..n : staging'[j][m] = Slice(j, m)
    BY <1>7, <1>9
  <2> QED BY <1>1, <1>4, <1>7, <1>8, <1>9, <2>1 DEF WriteInv, q
<1>12. DiskInv(j)'
  <2>1. Torn \in Contents(j)
    BY DEF Contents
  <2>2. \A m \in DOMAIN staging'[j] : m \in 1..q /\ staging'[j][m] \in Contents(j)
    BY <1>2, <1>7, <1>8, <1>9, <2>1 DEF DiskInv
  <2> QED BY <1>1, <1>2, <1>4, <2>2 DEF DiskInv, q
<1> QED BY <1>5, <1>6, <1>10, <1>11, <1>12, LocalStep DEF JobInv

LEMMA ClosePartKeepsInv ==
  ASSUME ExportInv, NEW j \in LoadJobs, ClosePart(j)
  PROVE  ExportInv'
<1> DEFINE n == number[j]
           q == Parts(j)
           P == PartSize
<1>1. /\ pc[j] = "fill" /\ batch' = [batch EXCEPT ![j] = <<>>]
      /\ staging' = [staging EXCEPT ![j] = With(staging[j], n, batch[j])]
      /\ pc' = [pc EXCEPT ![j] = "read"]
      /\ UNCHANGED <<read, number, output, marker, load>>
  BY DEF ClosePart, Goto
<1>2. CallTypeInv /\ BoundInv(j) /\ DiskInv(j) /\ WriteInv(j)
  BY DEF ExportInv, JobInv
<1>3. n \in Nat /\ q \in Nat /\ P \in Nat \ {0} /\ n * P \in Nat
  BY <1>2, PartsAreNeeded DEF CallTypeInv
<1>4. /\ pc'[j] = "read" /\ pc' \in [LoadJobs -> Locations]
      /\ batch'[j] = <<>> /\ batch' \in [LoadJobs -> Seq(Nat)]
      /\ staging'[j] = With(staging[j], n, batch[j]) /\ DOMAIN staging' = LoadJobs
      /\ \A k \in LoadJobs \ {j} : pc'[k] = pc[k] /\ batch'[k] = batch[k] /\ staging'[k] = staging[k]
  <2>1. <<>> \in Seq(Nat)
    OBVIOUS
  <2> QED BY <1>1, <1>2, <2>1 DEF CallTypeInv, Locations
<1>5. Local(j) /\ CallTypeInv'
  BY <1>1, <1>2, <1>4 DEF Local, CallTypeInv
<1>6. Recorded(j)
  BY <1>1, CallIsOfLoad
<1>7. /\ n \in 1..q /\ batch[j] = Slice(j, n) /\ read[j] = LastIn(j, n)
      /\ DOMAIN staging[j] = 1..n /\ \A m \in 1..(n - 1) : staging[j][m] = Slice(j, m)
  BY <1>1, <1>2 DEF WriteInv
<1>8. /\ DOMAIN staging'[j] = 1..n
      /\ \A m \in 1..n : staging'[j][m] = Slice(j, m)
  <2>1. /\ DOMAIN With(staging[j], n, batch[j]) = DOMAIN staging[j] \cup {n}
        /\ With(staging[j], n, batch[j])[n] = batch[j]
        /\ \A m \in DOMAIN staging[j] \ {n} : With(staging[j], n, batch[j])[m] = staging[j][m]
    BY DEF With
  <2> HIDE DEF n
  <2>2. 1..n \cup {n} = 1..n /\ \A m \in 1..n \ {n} : m \in 1..(n - 1)
    BY <1>3, <1>7
  <2> QED BY <1>4, <1>7, <2>1, <2>2
<1>9. Staged(j, number[j])'
  BY <1>1, <1>8 DEF Staged
<1>10. BoundInv(j)'
  <2>1. Len(<<>>) <= P
    BY <1>3
  <2> QED BY <1>1, <1>2, <1>4, <2>1 DEF BoundInv
<1>11. WriteInv(j)'
  <2>1. CASE n = q
    <3>1. read[j] = ItemCount[j]
      BY <1>7, <2>1 DEF LastIn
    <3> QED BY <1>1, <1>4, <1>9, <2>1, <3>1 DEF WriteInv
  <2>2. CASE n # q
    <3>1. read[j] = n * P
      BY <1>7, <2>2 DEF LastIn
    <3>2. Len(<<>>) = 0 /\ n * P = n * P + 0 /\ 0 < P /\ Run(n * P, 0) = <<>>
      <4>1. Run(n * P, 0) = <<>>
        BY <1>3, RunIsSeq
      <4> QED BY <1>3, <4>1
    <3> QED BY <1>1, <1>4, <1>9, <3>1, <3>2 DEF WriteInv
  <2> QED BY <2>1, <2>2
<1>12. DiskInv(j)'
  <2> HIDE DEF n, q
  <2>1. \A m \in DOMAIN staging'[j] : m \in 1..q
    BY <1>3, <1>7, <1>8
  <2>2. \A m \in DOMAIN staging'[j] : staging'[j][m] \in Contents(j)
    BY <1>8, <2>1, SliceIsContent DEF q
  <2> QED BY <1>1, <1>2, <1>4, <2>1, <2>2 DEF DiskInv, q
<1> QED BY <1>5, <1>6, <1>10, <1>11, <1>12, LocalStep DEF JobInv

LEMMA PublishKeepsInv ==
  ASSUME ExportInv, NEW j \in LoadJobs, Publish(j)
  PROVE  ExportInv'
<1>1. PICK n \in DOMAIN staging[j] :
        /\ output' = [output EXCEPT ![j] = With(output[j], n, staging[j][n])]
        /\ staging' = [staging EXCEPT ![j] = Without(staging[j], n)]
  BY DEF Publish
<1>2. pc[j] = "publish" /\ UNCHANGED <<call, marker, load>>
  BY DEF Publish
<1>3. CallTypeInv /\ BoundInv(j) /\ DiskInv(j) /\ WriteInv(j)
  BY DEF ExportInv, JobInv
<1> DEFINE o == With(output[j], n, staging[j][n])
           s == Without(staging[j], n)
<1>4. /\ DOMAIN o = DOMAIN output[j] \cup {n} /\ o[n] = staging[j][n]
      /\ \A m \in DOMAIN output[j] \ {n} : o[m] = output[j][m]
  BY DEF With
<1>5. /\ DOMAIN s = DOMAIN staging[j] \ {n}
      /\ \A m \in DOMAIN staging[j] \ {n} : s[m] = staging[j][m]
  BY DEF Without
<1>6. output' = [output EXCEPT ![j] = o] /\ staging' = [staging EXCEPT ![j] = s]
  BY <1>1
<1> HIDE DEF o, s
<1>7. /\ output'[j] = o /\ staging'[j] = s /\ DOMAIN output' = LoadJobs /\ DOMAIN staging' = LoadJobs
      /\ \A k \in LoadJobs \ {j} : output'[k] = output[k] /\ staging'[k] = staging[k]
  BY <1>3, <1>6 DEF CallTypeInv
<1>8. Local(j) /\ CallTypeInv'
  BY <1>2, <1>3, <1>7 DEF Local, CallTypeInv, call
<1>9. Recorded(j)
  BY <1>2, CallIsOfLoad
<1>10. /\ 1..Parts(j) \subseteq DOMAIN staging[j] \cup DOMAIN output[j]
       /\ \A m \in DOMAIN staging[j] : staging[j][m] = Slice(j, m)
  BY <1>2, <1>3 DEF WriteInv
<1>11. BoundInv(j)'
  BY <1>2, <1>3 DEF BoundInv, call
<1>12. WriteInv(j)'
  BY <1>2, <1>4, <1>5, <1>7, <1>10 DEF WriteInv, call
<1>13. DiskInv(j)'
  <2>1. marker'[j] = marker[j] /\ pc'[j] = "publish" /\ marker[j] # "whole"
    BY <1>2, <1>3 DEF DiskInv, call
  <2>2. DOMAIN o \subseteq 1..Parts(j) /\ \A m \in DOMAIN o : o[m] = Slice(j, m)
    BY <1>3, <1>4, <1>10 DEF DiskInv
  <2>3. DOMAIN s \subseteq 1..Parts(j) /\ \A m \in DOMAIN s : s[m] \in Contents(j)
    BY <1>3, <1>5 DEF DiskInv
  <2> QED BY <1>7, <2>1, <2>2, <2>3 DEF DiskInv
<1> QED BY <1>8, <1>9, <1>11, <1>12, <1>13, LocalStep DEF JobInv

\* A call goes to a place where it holds nothing, with nothing moved.
LEMMA GoesOn ==
  ASSUME ExportInv, NEW j \in LoadJobs, NEW l \in Locations, NEW w \in {"none", "tmp", "whole"},
         pc' = [pc EXCEPT ![j] = l], marker' = [marker EXCEPT ![j] = w],
         UNCHANGED <<read, batch, number, staging, output>>, Recorded(j),
         l \notin {"read", "write", "fill", "publish"},
         l \in {"mark", "rename"} \/ w = "whole" => DOMAIN output[j] = 1..Parts(j),
         w = "whole" => l \in {"idle", "sweep", "return"},
         l \in {"sweep", "return"} => w = "whole"
  PROVE  ExportInv'
<1>1. CallTypeInv /\ BoundInv(j) /\ DiskInv(j)
  BY DEF ExportInv, JobInv
<1>2. /\ pc'[j] = l /\ marker'[j] = w
      /\ pc' \in [LoadJobs -> Locations] /\ marker' \in [LoadJobs -> {"none", "tmp", "whole"}]
      /\ \A k \in LoadJobs \ {j} : pc'[k] = pc[k] /\ marker'[k] = marker[k]
  BY <1>1 DEF CallTypeInv
<1>3. Local(j) /\ CallTypeInv'
  BY <1>1, <1>2 DEF Local, CallTypeInv
<1>4. BoundInv(j)'
  BY <1>1 DEF BoundInv
<1>5. WriteInv(j)'
  BY <1>2 DEF WriteInv
<1>6. DiskInv(j)'
  BY <1>1, <1>2 DEF DiskInv
<1> QED BY <1>3, <1>4, <1>5, <1>6, LocalStep DEF JobInv

LEMMA EndingKeepsInv ==
  ASSUME ExportInv, NEW j \in LoadJobs,
         Published(j) \/ WriteMarker(j) \/ Commit(j) \/ Sweep(j) \/ Ack(j) \/ Raise(j)
  PROVE  ExportInv'
<1>1. CallTypeInv /\ DiskInv(j) /\ WriteInv(j) /\ LoadInv
  BY DEF ExportInv, JobInv
<1>2. marker = [marker EXCEPT ![j] = marker[j]] /\ marker[j] \in {"none", "tmp", "whole"}
  BY <1>1 DEF CallTypeInv
<1>3. CASE Published(j)
  <2>1. /\ pc[j] = "publish" /\ staging[j] = <<>> /\ pc' = [pc EXCEPT ![j] = "mark"]
        /\ UNCHANGED <<read, batch, number, disk, load>>
    BY <1>3 DEF Published, Goto, Empty
  <2>2. DOMAIN output[j] = 1..Parts(j) /\ marker[j] # "whole"
    <3>1. DOMAIN staging[j] = {}
      BY <2>1
    <3>2. 1..Parts(j) \subseteq DOMAIN output[j]
      BY <1>1, <2>1, <3>1 DEF WriteInv
    <3> QED BY <1>1, <2>1, <3>2 DEF DiskInv
  <2>3. Recorded(j) /\ "mark" \in Locations
    BY <2>1, CallIsOfLoad DEF Locations
  <2>4. marker' = [marker EXCEPT ![j] = marker[j]] /\ UNCHANGED <<read, batch, number, staging, output>>
    BY <1>2, <2>1 DEF disk
  <2> QED BY <1>2, <2>1, <2>2, <2>3, <2>4, GoesOn
<1>4. CASE WriteMarker(j)
  <2>1. /\ pc[j] = "mark" /\ marker' = [marker EXCEPT ![j] = "tmp"]
        /\ pc' = [pc EXCEPT ![j] = "rename"]
        /\ UNCHANGED <<read, batch, number, staging, output, load>>
    BY <1>4 DEF WriteMarker, Goto
  <2>2. DOMAIN output[j] = 1..Parts(j)
    BY <1>1, <2>1 DEF DiskInv
  <2>3. Recorded(j) /\ "rename" \in Locations
    BY <2>1, CallIsOfLoad DEF Locations
  <2> QED BY <2>1, <2>2, <2>3, GoesOn
<1>5. CASE Commit(j)
  <2>1. /\ pc[j] = "rename" /\ marker' = [marker EXCEPT ![j] = "whole"]
        /\ pc' = [pc EXCEPT ![j] = "sweep"]
        /\ UNCHANGED <<read, batch, number, staging, output, load>>
    BY <1>5 DEF Commit, Goto
  <2>2. DOMAIN output[j] = 1..Parts(j)
    BY <1>1, <2>1 DEF DiskInv
  <2>3. Recorded(j) /\ "sweep" \in Locations
    BY <2>1, CallIsOfLoad DEF Locations
  <2> QED BY <2>1, <2>2, <2>3, GoesOn
<1>6. CASE Sweep(j)
  <2>1. /\ pc[j] = "sweep" /\ pc' = [pc EXCEPT ![j] = "return"]
        /\ UNCHANGED <<read, batch, number, disk, load>>
    BY <1>6 DEF Sweep, Goto
  <2>2. DOMAIN output[j] = 1..Parts(j) /\ marker[j] = "whole"
    BY <1>1, <2>1 DEF DiskInv
  <2>3. Recorded(j) /\ "return" \in Locations
    BY <2>1, CallIsOfLoad DEF Locations
  <2>4. marker' = [marker EXCEPT ![j] = marker[j]] /\ UNCHANGED <<read, batch, number, staging, output>>
    BY <1>2, <2>1 DEF disk
  <2> QED BY <1>2, <2>1, <2>2, <2>3, <2>4, GoesOn
<1>7. CASE Ack(j)
  <2>1. /\ pc[j] = "return" /\ pc' = [pc EXCEPT ![j] = "idle"] /\ acked' = acked \cup {j}
        /\ UNCHANGED <<read, batch, number, disk, status, listed, faults>>
    BY <1>7 DEF Ack, Goto
  <2>2. DOMAIN output[j] = 1..Parts(j) /\ marker[j] = "whole"
    BY <1>1, <2>1 DEF DiskInv
  <2>3. pc'[j] = "idle" /\ marker'[j] = "whole" /\ "idle" \in Locations
    BY <1>1, <2>1, <2>2 DEF CallTypeInv, disk, Locations
  <2>4. Recorded(j)
    BY <1>1, <2>1, <2>3 DEF LoadInv, Recorded, Idle
  <2>5. marker' = [marker EXCEPT ![j] = marker[j]] /\ UNCHANGED <<read, batch, number, staging, output>>
    BY <1>2, <2>1 DEF disk
  <2> QED BY <1>2, <2>1, <2>2, <2>3, <2>4, <2>5, GoesOn
<1>8. CASE Raise(j)
  <2>1. /\ pc[j] \notin {"idle", "return"} /\ pc' = [pc EXCEPT ![j] = "idle"]
        /\ faults < MaxFaults /\ faults' = faults + 1
        /\ UNCHANGED <<read, batch, number, disk, acked, status, listed>>
    BY <1>8 DEF Raise, Goto
  <2>2. marker[j] = "whole" => DOMAIN output[j] = 1..Parts(j)
    BY <1>1 DEF DiskInv
  <2>3. faults' \in 0..MaxFaults
    BY <1>1, <2>1, FaultAssumption DEF LoadInv
  <2>4. Recorded(j) /\ "idle" \in Locations
    BY <1>1, <2>1, <2>3 DEF LoadInv, Recorded, Idle, Locations
  <2>5. marker' = [marker EXCEPT ![j] = marker[j]] /\ UNCHANGED <<read, batch, number, staging, output>>
    BY <1>2, <2>1 DEF disk
  <2> QED BY <1>2, <2>1, <2>2, <2>4, <2>5, GoesOn
<1> QED BY <1>3, <1>4, <1>5, <1>6, <1>7, <1>8

---------------------------------------------------------------------------
(* Steps of the load. *)

LEMMA LoadGoesOn ==
  ASSUME ExportInv, GiveUp \/ Rerun \/ Return
  PROVE  ExportInv'
<1>1. UNCHANGED <<call, disk, acked>> /\ faults' \in 0..MaxFaults
  BY FaultAssumption DEF GiveUp, Rerun, Return, ExportInv, LoadInv
<1>2. CallTypeInv'
  BY <1>1 DEF ExportInv, CallTypeInv, call, disk
<1>3. ASSUME NEW j \in LoadJobs
      PROVE  JobInv(j)'
  <2>1. BoundInv(j) /\ WriteInv(j) /\ DiskInv(j)
    BY DEF ExportInv, JobInv
  <2>2. BoundInv(j)' /\ DiskInv(j)'
    BY <1>1, <2>1 DEF BoundInv, DiskInv, call, disk
  <2>3. WriteInv(j)'
    BY <1>1, <2>1 DEF WriteInv, Staged, call, disk
  <2> QED BY <2>2, <2>3 DEF JobInv
<1>4. LoadInv'
  <2>1. pc' = pc /\ marker' = marker /\ output' = output /\ acked' = acked
    BY <1>1 DEF call, disk
  <2>2. CASE GiveUp
    BY <1>1, <2>1, <2>2 DEF GiveUp, ExportInv, LoadInv, Idle
  <2>3. CASE Rerun
    BY <1>1, <2>1, <2>3 DEF Rerun, ExportInv, LoadInv, Idle
  <2>4. CASE Return
    BY <1>1, <2>1, <2>4 DEF Return, ExportInv, LoadInv, Idle
  <2> QED BY <2>2, <2>3, <2>4
<1> QED BY <1>2, <1>3, <1>4 DEF ExportInv

LEMMA DieKeepsInv ==
  ASSUME ExportInv, Die
  PROVE  ExportInv'
<1>1. /\ status = "loading" /\ status' = "down" /\ pc' = [j \in LoadJobs |-> "idle"]
      /\ UNCHANGED <<read, batch, number, disk, acked, listed>>
  BY DEF Die
<1>2. CallTypeInv'
  BY <1>1 DEF ExportInv, CallTypeInv, disk, Locations
<1>3. ASSUME NEW j \in LoadJobs
      PROVE  JobInv(j)'
  <2>1. BoundInv(j) /\ DiskInv(j) /\ pc'[j] = "idle"
    BY <1>1 DEF ExportInv, JobInv
  <2>2. BoundInv(j)' /\ DiskInv(j)'
    BY <1>1, <2>1 DEF BoundInv, DiskInv, disk
  <2>3. WriteInv(j)'
    BY <2>1 DEF WriteInv
  <2> QED BY <2>2, <2>3 DEF JobInv
<1>4. LoadInv'
  <2>1. faults' \in 0..MaxFaults
    BY FaultAssumption DEF Die, ExportInv, LoadInv
  <2>2. marker' = marker /\ acked' = acked
    BY <1>1 DEF disk
  <2>3. \A j \in LoadJobs : pc'[j] = "idle"
    BY <1>1
  <2> QED BY <1>1, <2>1, <2>2, <2>3 DEF ExportInv, LoadInv, Idle
<1> QED BY <1>2, <1>3, <1>4 DEF ExportInv

LEMMA DiscardKeepsInv ==
  ASSUME ExportInv, Discard
  PROVE  ExportInv'
<1>1. /\ status = "raised" /\ status' = "discarded"
      /\ staging' = [j \in LoadJobs |-> <<>>] /\ output' = [j \in LoadJobs |-> <<>>]
      /\ marker' = [j \in LoadJobs |-> "none"]
      /\ UNCHANGED <<pc, read, batch, number, acked, listed, faults>>
  BY DEF Discard, Empty, call
<1>2. CallTypeInv'
  BY <1>1 DEF ExportInv, CallTypeInv
<1>3. ASSUME NEW j \in LoadJobs
      PROVE  JobInv(j)'
  <2>1. BoundInv(j) /\ pc'[j] = "idle"
    BY <1>1 DEF ExportInv, JobInv, LoadInv, Idle
  <2>2. staging'[j] = <<>> /\ output'[j] = <<>> /\ marker'[j] = "none" /\ DOMAIN <<>> = {}
    BY <1>1
  <2>3. BoundInv(j)'
    BY <1>1, <2>1 DEF BoundInv
  <2>4. DiskInv(j)'
    BY <2>1, <2>2 DEF DiskInv
  <2>5. WriteInv(j)'
    BY <2>1 DEF WriteInv
  <2> QED BY <2>3, <2>4, <2>5 DEF JobInv
<1>4. LoadInv'
  BY <1>1 DEF ExportInv, LoadInv, Idle
<1> QED BY <1>2, <1>3, <1>4 DEF ExportInv

LEMMA ExportInit ==
  Init => ExportInv
<1> SUFFICES ASSUME Init
             PROVE  ExportInv
  OBVIOUS
<1>1. <<>> \in Seq(Nat) /\ Len(<<>>) = 0 /\ DOMAIN <<>> = {}
  OBVIOUS
<1>2. CallTypeInv
  BY <1>1 DEF Init, CallTypeInv, Locations, Empty
<1>3. ASSUME NEW j \in LoadJobs
      PROVE  JobInv(j)
  <2>1. /\ pc[j] = "idle" /\ read[j] = 0 /\ batch[j] = <<>> /\ number[j] = 0
        /\ staging[j] = <<>> /\ output[j] = <<>> /\ marker[j] = "none"
    BY DEF Init, Empty
  <2>2. BoundInv(j)
    <3>1. ItemCount[j] \in Nat /\ Parts(j) \in Nat /\ PartSize \in Nat
      BY PartsAreNeeded
    <3> QED BY <1>1, <2>1, <3>1 DEF BoundInv
  <2>3. WriteInv(j)
    BY <2>1 DEF WriteInv
  <2>4. DiskInv(j)
    BY <1>1, <2>1 DEF DiskInv
  <2> QED BY <2>2, <2>3, <2>4 DEF JobInv
<1>4. LoadInv
  BY FaultAssumption DEF Init, LoadInv, Idle
<1> QED BY <1>2, <1>3, <1>4 DEF ExportInv

LEMMA ExportStep ==
  ExportInv /\ [Next]_vars => ExportInv'
<1> SUFFICES ASSUME ExportInv, [Next]_vars
             PROVE  ExportInv'
  OBVIOUS
<1>1. ASSUME NEW j \in LoadJobs, Call(j) \/ Raise(j)
      PROVE  ExportInv'
  BY <1>1, StartKeepsInv, EraseOneKeepsInv, ClearKeepsInv, ReadKeepsInv, EndOfItemsKeepsInv,
     OpenPartKeepsInv, ClosePartKeepsInv, PublishKeepsInv, EndingKeepsInv DEF Call
<1>2. CASE GiveUp \/ Rerun \/ Return
  BY <1>2, LoadGoesOn
<1>3. CASE Die
  BY <1>3, DieKeepsInv
<1>4. CASE Discard
  BY <1>4, DiscardKeepsInv
<1>5. CASE UNCHANGED vars
  <2>1. UNCHANGED <<pc, read, batch, number, staging, output, marker, acked, status, listed, faults>>
    BY <1>5 DEF vars, call, disk, load
  <2>2. CallTypeInv' /\ LoadInv'
    BY <2>1 DEF ExportInv, CallTypeInv, LoadInv, Idle
  <2>3. ASSUME NEW j \in LoadJobs
        PROVE  JobInv(j)'
    <3>1. BoundInv(j) /\ WriteInv(j) /\ DiskInv(j)
      BY DEF ExportInv, JobInv
    <3>2. BoundInv(j)' /\ DiskInv(j)'
      BY <2>1, <3>1 DEF BoundInv, DiskInv
    <3>3. WriteInv(j)'
      BY <2>1, <3>1 DEF WriteInv, Staged
    <3> QED BY <3>2, <3>3 DEF JobInv
  <2> QED BY <2>2, <2>3 DEF ExportInv
<1> QED BY <1>1, <1>2, <1>3, <1>4, <1>5 DEF Next, Ended

LEMMA ExportInvariance ==
  Spec => []ExportInv
BY ExportInit, ExportStep, PTL DEF Spec

\* The variables keep their types; a call reads no item that is not there, holds
\* no more than a part and numbers no part beyond the last.
THEOREM DestinationIsTyped ==
  Spec => []TypeOK
<1>1. ExportInv => TypeOK
  <2> SUFFICES ASSUME ExportInv
               PROVE  TypeOK
    OBVIOUS
  <2>1. CallTypeInv /\ LoadInv
    BY DEF ExportInv
  <2>2. ASSUME NEW j \in LoadJobs
        PROVE  /\ read[j] \in 0..ItemCount[j] /\ Len(batch[j]) <= PartSize /\ number[j] \in 0..Parts(j)
               /\ DOMAIN staging[j] \subseteq 1..Parts(j) /\ DOMAIN output[j] \subseteq 1..Parts(j)
               /\ \A n \in DOMAIN staging[j] : staging[j][n] \in Contents(j)
    <3>1. BoundInv(j) /\ DiskInv(j)
      BY DEF ExportInv, JobInv
    <3>2. read[j] \in Nat /\ number[j] \in Nat /\ ItemCount[j] \in Nat /\ Parts(j) \in Nat
      BY <2>1, PartsAreNeeded DEF CallTypeInv
    <3>3. read[j] \in 0..ItemCount[j] /\ number[j] \in 0..Parts(j)
      BY <3>1, <3>2 DEF BoundInv
    <3> QED BY <3>1, <3>3 DEF BoundInv, DiskInv
  <2> QED BY <2>1, <2>2 DEF CallTypeInv, LoadInv, TypeOK
<1> QED BY <1>1, ExportInvariance, PTL

\* Whatever calls were interrupted, a file in the output directory is the whole
\* part its number stands for.
THEOREM PartsAreWhole ==
  Spec => []PublishedIsWhole
<1>1. ExportInv => PublishedIsWhole
  BY DEF ExportInv, JobInv, DiskInv, PublishedIsWhole
<1> QED BY <1>1, ExportInvariance, PTL

---------------------------------------------------------------------------
(* The parts of a job, one after another, are its items. *)

LEMMA RunsJoin ==
  ASSUME NEW a \in Nat, NEW b \in Nat
  PROVE  Run(0, a) \o Run(a, b) = Run(0, a + b)
<1>1. /\ Run(0, a) \in Seq(Nat) /\ Len(Run(0, a)) = a /\ \A i \in 1..a : Run(0, a)[i] = 0 + i
      /\ Run(a, b) \in Seq(Nat) /\ Len(Run(a, b)) = b /\ \A i \in 1..b : Run(a, b)[i] = a + i
      /\ Run(0, a + b) \in Seq(Nat) /\ Len(Run(0, a + b)) = a + b
      /\ \A i \in 1..(a + b) : Run(0, a + b)[i] = 0 + i
  <2>1. 0 \in Nat /\ a + b \in Nat
    OBVIOUS
  <2>2. Run(0, a) \in Seq(Nat) /\ Len(Run(0, a)) = a /\ \A i \in 1..a : Run(0, a)[i] = 0 + i
    BY <2>1, RunIsSeq
  <2>3. Run(a, b) \in Seq(Nat) /\ Len(Run(a, b)) = b /\ \A i \in 1..b : Run(a, b)[i] = a + i
    BY RunIsSeq
  <2>4. /\ Run(0, a + b) \in Seq(Nat) /\ Len(Run(0, a + b)) = a + b
        /\ \A i \in 1..(a + b) : Run(0, a + b)[i] = 0 + i
    BY <2>1, RunIsSeq
  <2> QED BY <2>2, <2>3, <2>4
<1> DEFINE s == Run(0, a) \o Run(a, b)
<1>2. /\ s \in Seq(Nat) /\ Len(s) = a + b
      /\ \A i \in 1..(a + b) : s[i] = IF i <= a THEN Run(0, a)[i] ELSE Run(a, b)[i - a]
  <2> DEFINE u == Run(0, a)
             v == Run(a, b)
  <2>1. u \in Seq(Nat) /\ v \in Seq(Nat) /\ Len(u) = a /\ Len(v) = b
    BY <1>1
  <2> HIDE DEF u, v
  <2>2. /\ u \o v \in Seq(Nat) /\ Len(u \o v) = Len(u) + Len(v)
        /\ \A i \in 1..(Len(u) + Len(v)) :
              (u \o v)[i] = IF i <= Len(u) THEN u[i] ELSE v[i - Len(u)]
    BY ONLY <2>1, ConcatProperties
  <2>3. /\ u \o v \in Seq(Nat) /\ Len(u \o v) = a + b
        /\ \A i \in 1..(a + b) : (u \o v)[i] = IF i <= a THEN u[i] ELSE v[i - a]
    BY ONLY <2>1, <2>2
  <2> QED BY <2>3 DEF u, v
<1>3. ASSUME NEW i \in 1..Len(s)
      PROVE  s[i] = Run(0, a + b)[i]
  <2>1. i \in 1..(a + b)
    BY <1>2
  <2>2. CASE i <= a
    BY <1>1, <1>2, <2>1, <2>2
  <2>3. CASE ~(i <= a)
    <3>1. i - a \in 1..b
      BY <2>1, <2>3
    <3>2. s[i] = Run(a, b)[i - a]
      BY <1>2, <2>1, <2>3
    <3>3. Run(a, b)[i - a] = a + (i - a)
      BY <1>1, <3>1
    <3>4. Run(0, a + b)[i] = 0 + i
      BY <1>1, <2>1
    <3> QED BY <2>1, <3>2, <3>3, <3>4
  <2> QED BY <2>2, <2>3
<1> HIDE DEF s
<1>4. s = Run(0, a + b)
  BY <1>1, <1>2, <1>3, SeqEqual
<1> QED BY <1>4 DEF s

\* What FlattenSeq computes is determined by its first element and its steps.
LEMMA FlattenIs ==
  ASSUME NEW seqs, NEW N \in Nat \ {0}, Len(seqs) = N,
         NEW h \in [1..N -> Seq(Nat)], h[1] = seqs[1],
         \A i \in 2..N : h[i] = h[i - 1] \o seqs[i]
  PROVE  FlattenSeq(seqs) = h[N]
<1> DEFINE R(g) == [i \in 1..N |-> IF i = 1 THEN seqs[i] ELSE g[i - 1] \o seqs[i]]
           flat == CHOOSE g : g = R(g)
<1>1. FlattenSeq(seqs) = flat[N]
  BY DEF FlattenSeq
<1>2. h = R(h)
  <2>1. ASSUME NEW i \in 1..N
        PROVE  h[i] = IF i = 1 THEN seqs[i] ELSE h[i - 1] \o seqs[i]
    <3>1. i # 1 => i \in 2..N
      OBVIOUS
    <3> QED BY <3>1
  <2> QED BY <2>1
<1>3. flat = R(flat)
  BY <1>2
<1> HIDE DEF flat
<1>4. DOMAIN flat = 1..N /\ \A i \in 1..N : flat[i] = IF i = 1 THEN seqs[i] ELSE flat[i - 1] \o seqs[i]
  BY <1>3
<1> HIDE DEF R
<1> DEFINE T == {i \in 1..N : flat[i] # h[i]}
<1>5. ASSUME T # {}
      PROVE  FALSE
  <2>1. T \in SUBSET Nat
    OBVIOUS
  <2>2. PICK i \in T : \A k \in T : i <= k
    BY <1>5, <2>1, FirstExists
  <2>3. i \in 1..N /\ flat[i] # h[i]
    BY <2>2
  <2>4. i # 1
    BY <1>4, <2>3
  <2>5. i \in 2..N /\ i - 1 \in 1..N /\ ~(i <= i - 1)
    BY <2>3, <2>4
  <2>6. flat[i - 1] = h[i - 1]
    BY <2>2, <2>5
  <2> HIDE DEF T
  <2>7. flat[i] = flat[i - 1] \o seqs[i] /\ h[i] = h[i - 1] \o seqs[i]
    BY <1>4, <2>3, <2>4, <2>5
  <2> QED BY <2>3, <2>6, <2>7
<1>6. flat[N] = h[N]
  <2>1. N \in 1..N
    OBVIOUS
  <2>2. N \notin T
    BY <1>5
  <2> QED BY <2>1, <2>2
<1> QED BY <1>1, <1>6

LEMMA PartsFlatten ==
  ASSUME NEW j \in LoadJobs
  PROVE  FlattenSeq([n \in 1..Parts(j) |-> Slice(j, n)]) = Export!Items(j)
<1> DEFINE N == Parts(j)
           C == ItemCount[j]
           P == PartSize
           seqs == [n \in 1..N |-> Slice(j, n)]
           h == [n \in 1..N |-> Run(0, LastIn(j, n))]
<1>1. C \in Nat /\ N \in Nat /\ P \in Nat \ {0}
  BY PartsAreNeeded
<1>2. Len(seqs) = N
  BY <1>1
<1>3. Export!Items(j) = Run(0, C)
  BY <1>1 DEF Export!Items, Run
<1>4. CASE N = 0
  <2>1. 0 \in Nat /\ ~(0 < N) /\ 0 * P = 0
    BY <1>1, <1>4
  <2>2. ~(0 < C)
    BY <2>1, PartIsNeeded
  <2>3. C = 0
    BY <1>1, <2>2
  <2>4. seqs = <<>> /\ Run(0, C) = <<>>
    BY <1>4, <2>3 DEF Run
  <2>5. FlattenSeq(seqs) = seqs
    BY <1>2, <1>4 DEF FlattenSeq
  <2> QED BY <1>3, <2>4, <2>5
<1>5. CASE N # 0
  <2>1. ASSUME NEW n \in 1..N
        PROVE  /\ (n - 1) * P \in Nat /\ LastIn(j, n) \in Nat
               /\ LastIn(j, n) - (n - 1) * P \in Nat
               /\ Slice(j, n) = Run((n - 1) * P, LastIn(j, n) - (n - 1) * P)
    <3>1. /\ (n - 1) * P \in Nat /\ LastIn(j, n) - (n - 1) * P \in 1..P /\ LastIn(j, n) \in 1..C
          /\ Slice(j, n) = Run((n - 1) * P, LastIn(j, n) - (n - 1) * P)
      BY SliceIsRun
    <3> QED BY <1>1, <3>1
  <2>2. h[1] = seqs[1]
    <3>1. 1 \in 1..N /\ (1 - 1) * P = 0
      BY <1>1, <1>5
    <3>2. seqs[1] = Run(0, LastIn(j, 1) - 0) /\ LastIn(j, 1) \in Nat
      BY <2>1, <3>1
    <3>3. LastIn(j, 1) - 0 = LastIn(j, 1)
      BY <3>2
    <3> QED BY <3>1, <3>2, <3>3
  <2>3. ASSUME NEW n \in 2..N
        PROVE  h[n] = h[n - 1] \o seqs[n]
    <3> DEFINE a == (n - 1) * P
               b == LastIn(j, n) - a
    <3>1. n \in 1..N /\ n - 1 \in 1..N /\ n - 1 # N
      BY <1>1
    <3>2. a \in Nat /\ b \in Nat /\ LastIn(j, n) \in Nat /\ Slice(j, n) = Run(a, b)
      BY <2>1, <3>1
    <3>3. LastIn(j, n - 1) = a
      BY <3>1 DEF LastIn
    <3>4. h[n - 1] = Run(0, a) /\ seqs[n] = Run(a, b) /\ h[n] = Run(0, LastIn(j, n))
      BY <3>1, <3>2, <3>3
    <3>5. a + b = LastIn(j, n)
      <4> HIDE DEF a
      <4> QED BY <3>2
    <3> HIDE DEF a, b, h, seqs
    <3>6. Run(0, a) \o Run(a, b) = Run(0, a + b)
      BY <3>2, RunsJoin
    <3> QED BY <3>4, <3>5, <3>6
  <2>4. h[N] = Run(0, C)
    BY <1>1, <1>5 DEF LastIn
  <2>5. h \in [1..N -> Seq(Nat)]
    <3>1. \A n \in 1..N : Run(0, LastIn(j, n)) \in Seq(Nat)
      BY <2>1, RunIsSeq
    <3> QED BY <3>1
  <2> HIDE DEF h, seqs, N
  <2>6. N \in Nat \ {0}
    BY <1>1, <1>5
  <2>7. \A i \in 2..N : h[i] = h[i - 1] \o seqs[i]
    BY <2>3
  <2>8. Len(seqs) = N /\ h \in [1..N -> Seq(Nat)] /\ h[1] = seqs[1]
    BY <1>2, <2>2, <2>5
  <2>9. FlattenSeq(seqs) = h[N]
    BY <2>6, <2>7, <2>8, FlattenIs, ZenonT(30)
  <2> QED BY <1>3, <2>4, <2>9 DEF seqs, N
<1> QED BY <1>4, <1>5

---------------------------------------------------------------------------
(* A reader sees each job exported in one step. *)

Seen == [j \in LoadJobs |->
          IF marker[j] = "whole" \/ status = "returned"
            THEN FlattenSeq([n \in 1..Cardinality(DOMAIN Readable(j)) |-> Readable(j)[n]])
            ELSE NotYet]
Marked == [j \in LoadJobs |-> IF marker[j] = "whole" THEN Export!Items(j) ELSE NotYet]

\* What is to be read for a job follows from its marker alone.
LEMMA SeenIsMarked ==
  ExportInv => Seen = Marked
<1> SUFFICES ASSUME ExportInv
             PROVE  Seen = Marked
  OBVIOUS
<1>1. ASSUME NEW j \in LoadJobs, marker[j] = "whole"
      PROVE  FlattenSeq([n \in 1..Cardinality(DOMAIN Readable(j)) |-> Readable(j)[n]]) = Export!Items(j)
  <2>1. /\ DOMAIN output[j] = 1..Parts(j)
        /\ \A n \in 1..Parts(j) : output[j][n] = Slice(j, n)
    BY <1>1 DEF ExportInv, JobInv, DiskInv
  <2>2. Readable(j) = output[j]
    BY DEF ExportInv, LoadInv, Readable
  <2>3. Cardinality(1..Parts(j)) = Parts(j)
    <3>1. Parts(j) \in Nat
      BY PartsAreNeeded
    <3>2. Cardinality(1..Parts(j)) = IF 1 > Parts(j) THEN 0 ELSE Parts(j) - 1 + 1
      BY <3>1, FS_Interval
    <3> QED BY <3>1, <3>2
  <2>4. [n \in 1..Cardinality(DOMAIN Readable(j)) |-> Readable(j)[n]] = [n \in 1..Parts(j) |-> Slice(j, n)]
    BY <2>1, <2>2, <2>3
  <2> QED BY <2>4, PartsFlatten
<1>2. ASSUME NEW j \in LoadJobs, status = "returned"
      PROVE  marker[j] = "whole"
  BY <1>2 DEF ExportInv, LoadInv
<1> QED BY <1>1, <1>2 DEF Seen, Marked

LEMMA SeenIsMarkedAfter ==
  (ExportInv => Seen = Marked)'
BY SeenIsMarked, PTL

LEMMA ExportsStep ==
  ASSUME ExportInv, ExportInv', [Next]_vars
  PROVE  Export!Next \/ UNCHANGED <<Seen, IF status \in {"raised", "down"} THEN "loading" ELSE status>>
<1> DEFINE shown == IF status \in {"raised", "down"} THEN "loading" ELSE status
<1>1. Seen = Marked /\ Seen' = Marked'
  BY SeenIsMarked, SeenIsMarkedAfter
<1>2. \A j \in LoadJobs : /\ status # "loading" => pc[j] = "idle"
                          /\ pc[j] \in {"mark", "rename"} => marker[j] # "whole"
  BY DEF ExportInv, JobInv, DiskInv, LoadInv, Idle
<1>3. DOMAIN marker = LoadJobs
  BY DEF ExportInv, CallTypeInv
<1>4. ASSUME NEW j \in LoadJobs, Commit(j)
      PROVE  Export!Commit(j)
  <2>1. /\ pc[j] = "rename" /\ marker' = [marker EXCEPT ![j] = "whole"] /\ status' = status
    BY <1>4 DEF Commit, load
  <2>2. status = "loading" /\ marker[j] # "whole"
    BY <1>2, <2>1
  <2>3. Marked[j] = NotYet /\ Marked' = [Marked EXCEPT ![j] = Export!Items(j)]
    BY <1>3, <2>1, <2>2 DEF Marked, Export!Items
  <2> QED BY <1>1, <2>1, <2>2, <2>3 DEF Export!Commit, Seen
<1>5. CASE Return
  <2>1. status = "loading" /\ status' = "returned" /\ UNCHANGED marker /\ acked = LoadJobs
    BY <1>5 DEF Return, disk
  <2>2. \A j \in LoadJobs : marker[j] = "whole"
    BY <2>1 DEF ExportInv, LoadInv
  <2>3. Marked' = Marked /\ \A j \in LoadJobs : Marked[j] = Export!Items(j)
    BY <2>1, <2>2 DEF Marked, Export!Items
  <2> QED BY <1>1, <2>1, <2>3 DEF Export!Return, Export!Next, Seen
<1>6. CASE Discard
  <2>1. /\ status = "raised" /\ status' = "discarded" /\ marker' = [j \in LoadJobs |-> "none"]
    BY <1>6 DEF Discard
  <2>2. Marked' = [j \in LoadJobs |-> NotYet]
    BY <2>1 DEF Marked
  <2> QED BY <1>1, <2>1, <2>2 DEF Export!Discard, Export!Next, Seen
<1>7. ASSUME \/ \E j \in LoadJobs : Raise(j) \/ (Call(j) /\ ~Commit(j))
             \/ GiveUp \/ Die \/ Rerun \/ UNCHANGED vars
      PROVE  UNCHANGED <<Seen, shown>>
  <2>1. /\ Marked' = Marked
        /\ shown' = shown
    <3>1. CASE \E j \in LoadJobs : WriteMarker(j)
      <4>1. PICK j \in LoadJobs : WriteMarker(j)
        BY <3>1
      <4>2. pc[j] = "mark" /\ marker' = [marker EXCEPT ![j] = "tmp"] /\ status' = status
        BY <4>1 DEF WriteMarker, load
      <4> QED BY <1>2, <1>3, <4>2 DEF Marked, Export!Items
    <3>2. CASE \E j \in LoadJobs : Raise(j) \/ (Call(j) /\ ~Commit(j) /\ ~WriteMarker(j))
      <4>1. UNCHANGED <<marker, status>>
        BY <3>2 DEF Raise, Call, Start, EraseOne, Clear, Read, EndOfItems, OpenPart, ClosePart,
                    Publish, Published, Sweep, Ack, disk, load
      <4> QED BY <4>1 DEF Marked, Export!Items
    <3>3. CASE GiveUp \/ Die \/ Rerun \/ UNCHANGED vars
      <4>1. UNCHANGED marker /\ shown' = shown
        BY <3>3 DEF GiveUp, Die, Rerun, vars, disk, load
      <4> QED BY <4>1 DEF Marked, Export!Items
    <3> QED BY <1>7, <3>1, <3>2, <3>3
  <2> QED BY <1>1, <2>1
<1>8. \/ \E j \in LoadJobs : Commit(j) \/ Raise(j) \/ (Call(j) /\ ~Commit(j))
      \/ Return \/ Discard \/ GiveUp \/ Die \/ Rerun \/ UNCHANGED vars
  BY DEF Next, Ended
<1> QED BY <1>4, <1>5, <1>6, <1>7, <1>8 DEF Export!Next

\* A reader who waits for markers, or for the load to return, sees every job
\* exported in one step, all its items in their order, however often the calls
\* for it were interrupted and repeated.
THEOREM ExportIsKept ==
  Spec => KeepsExport
<1>1. ASSUME Init
      PROVE  Export!Init
  <2>1. \A j \in LoadJobs : marker[j] = "none"
    BY <1>1 DEF Init
  <2>2. status = "loading"
    BY <1>1 DEF Init
  <2> QED BY <2>1, <2>2 DEF Export!Init
<1>2. ASSUME ExportInv, ExportInv', [Next]_vars
      PROVE  Export!Next \/ UNCHANGED <<Seen, IF status \in {"raised", "down"} THEN "loading" ELSE status>>
  BY <1>2, ExportsStep
<1> QED BY <1>1, <1>2, ExportInvariance, PTL DEF Spec, KeepsExport, Export!Spec, Seen

---------------------------------------------------------------------------
(* How long a call takes. *)

StagedParts(j) == Cardinality(DOMAIN staging[j])

\* The most steps a call for j can take, a directory that an earlier call left
\* included.
CallSteps(j) == 4 * ItemCount[j] + 2 * Parts(j) + 9

\* Steps to the end of reading: one to read an item, and one each to end its
\* part, to open and to close the file.
ItemWork(j) == 4 * (ItemCount[j] - read[j])

\* Steps to the end of a call for j.
CallWork(j) ==
  CASE pc[j] = "idle"    -> IF j \in acked THEN 0 ELSE CallSteps(j)
    [] pc[j] = "clear"   -> StagedParts(j) + 4 * ItemCount[j] + Parts(j) + 7
    [] pc[j] = "read"    -> ItemWork(j) + (IF batch[j] = <<>> THEN 0 ELSE 3) + Parts(j) + 6
    [] pc[j] = "write"   -> ItemWork(j) + Parts(j) + 8
    [] pc[j] = "fill"    -> ItemWork(j) + Parts(j) + 7
    [] pc[j] = "publish" -> StagedParts(j) + 5
    [] pc[j] = "mark"    -> StagedParts(j) + 4
    [] pc[j] = "rename"  -> StagedParts(j) + 3
    [] pc[j] = "sweep"   -> StagedParts(j) + 2
    [] pc[j] = "return"  -> 1

\* The work left at each place.
WorkAtPlace(j) ==
  /\ pc[j] = "idle" /\ j \in acked    => CallWork(j) = 0
  /\ pc[j] = "idle" /\ j \notin acked => CallWork(j) = CallSteps(j)
  /\ pc[j] = "clear"   => CallWork(j) = StagedParts(j) + 4 * ItemCount[j] + Parts(j) + 7
  /\ pc[j] = "read" /\ batch[j] = <<>> => CallWork(j) = ItemWork(j) + 0 + Parts(j) + 6
  /\ pc[j] = "read" /\ batch[j] # <<>> => CallWork(j) = ItemWork(j) + 3 + Parts(j) + 6
  /\ pc[j] = "write"   => CallWork(j) = ItemWork(j) + Parts(j) + 8
  /\ pc[j] = "fill"    => CallWork(j) = ItemWork(j) + Parts(j) + 7
  /\ pc[j] = "publish" => CallWork(j) = StagedParts(j) + 5
  /\ pc[j] = "mark"    => CallWork(j) = StagedParts(j) + 4
  /\ pc[j] = "rename"  => CallWork(j) = StagedParts(j) + 3
  /\ pc[j] = "sweep"   => CallWork(j) = StagedParts(j) + 2
  /\ pc[j] = "return"  => CallWork(j) = 1

CallWorkIs == \A j \in LoadJobs : WorkAtPlace(j)

LEMMA CallWorkAt == CallWorkIs
<1> SUFFICES ASSUME NEW j \in LoadJobs
             PROVE  WorkAtPlace(j)
  BY DEF CallWorkIs
<1>1. CASE pc[j] \in {"idle", "clear", "return"}
  BY <1>1 DEF CallWork, WorkAtPlace
<1>2. CASE pc[j] = "read"
  <2>1. batch[j] = <<>> => CallWork(j) = ItemWork(j) + 0 + Parts(j) + 6
    BY <1>2 DEF CallWork
  <2>2. batch[j] # <<>> => CallWork(j) = ItemWork(j) + 3 + Parts(j) + 6
    BY <1>2 DEF CallWork
  <2> QED BY <1>2, <2>1, <2>2 DEF WorkAtPlace
<1>3. CASE pc[j] \in {"write", "fill", "publish"}
  BY <1>3 DEF CallWork, WorkAtPlace
<1>4. CASE pc[j] \in {"mark", "rename", "sweep"}
  BY <1>4 DEF CallWork, WorkAtPlace
<1> QED BY <1>1, <1>2, <1>3, <1>4 DEF WorkAtPlace

\* What the work is made of is bounded.
WorkBounds ==
  \A j \in LoadJobs : /\ StagedParts(j) \in 0..Parts(j)
                      /\ ItemWork(j) \in 0..(4 * ItemCount[j])
                      /\ CallWork(j) \in 0..CallSteps(j)
                      /\ IsFiniteSet(DOMAIN staging[j])

LEMMA WorkIsBounded == ExportInv => WorkBounds
<1> SUFFICES ASSUME ExportInv, NEW j \in LoadJobs
             PROVE  /\ StagedParts(j) \in 0..Parts(j)
                    /\ ItemWork(j) \in 0..(4 * ItemCount[j])
                    /\ CallWork(j) \in 0..CallSteps(j)
                    /\ IsFiniteSet(DOMAIN staging[j])
  BY DEF WorkBounds
<1>1. ItemCount[j] \in Nat /\ Parts(j) \in Nat
  BY PartsAreNeeded
<1>2. /\ read[j] \in Nat /\ read[j] <= ItemCount[j] /\ pc[j] \in Locations
      /\ DOMAIN staging[j] \subseteq 1..Parts(j)
  BY DEF ExportInv, CallTypeInv, JobInv, BoundInv, DiskInv
<1>3. IsFiniteSet(1..Parts(j)) /\ Cardinality(1..Parts(j)) = Parts(j)
  BY <1>1, FS_Interval
<1>4. IsFiniteSet(DOMAIN staging[j]) /\ StagedParts(j) \in 0..Parts(j)
  BY <1>1, <1>2, <1>3, FS_Subset, FS_CardinalityType DEF StagedParts
<1>5. ItemWork(j) \in 0..(4 * ItemCount[j])
  BY <1>1, <1>2 DEF ItemWork
<1>6. PICK p \in Nat, c \in Nat, s \in Nat, r \in Nat :
        p = Parts(j) /\ c = ItemCount[j] /\ s = StagedParts(j) /\ r = ItemWork(j)
  BY <1>1, <1>4, <1>5
<1>7. s <= p /\ r <= 4 * c /\ CallSteps(j) = 4 * c + 2 * p + 9
  BY <1>4, <1>5, <1>6 DEF CallSteps
<1>8. CallWork(j) \in {0, CallSteps(j), s + 4 * c + p + 7, r + 0 + p + 6, r + 3 + p + 6,
                       r + p + 8, r + p + 7, s + 5, s + 4, s + 3, s + 2, 1}
  BY <1>2, <1>6, CallWorkAt DEF CallWorkIs, WorkAtPlace, Locations
<1>9. CallWork(j) \in 0..CallSteps(j)
  <2>1. /\ 0 \in 0..CallSteps(j) /\ 1 \in 0..CallSteps(j)
        /\ s + 2 \in 0..CallSteps(j) /\ s + 3 \in 0..CallSteps(j)
        /\ s + 4 \in 0..CallSteps(j) /\ s + 5 \in 0..CallSteps(j)
        /\ s + 4 * c + p + 7 \in 0..CallSteps(j)
    BY <1>7
  <2>2. /\ CallSteps(j) \in 0..CallSteps(j)
        /\ r + 0 + p + 6 \in 0..CallSteps(j) /\ r + p + 7 \in 0..CallSteps(j)
        /\ r + p + 8 \in 0..CallSteps(j) /\ r + 3 + p + 6 \in 0..CallSteps(j)
    BY <1>7
  <2> QED BY <2>1, <2>2, <1>8
<1> QED BY <1>4, <1>5, <1>9

\* Every step of a call is one of those that were still to come.
LEMMA CallGoesOn ==
  ASSUME ExportInv, ExportInv', NEW j \in LoadJobs, Call(j)
  PROVE  CallWork(j)' < CallWork(j)
<1>1. WorkBounds /\ WorkBounds' /\ CallWorkIs /\ CallWorkIs'
  BY WorkIsBounded, CallWorkAt, PTL
<1>2. /\ CallTypeInv /\ BoundInv(j) /\ BoundInv(j)' /\ CallTypeInv'
      /\ DOMAIN staging = LoadJobs /\ IsFiniteSet(DOMAIN staging[j])
  BY <1>1 DEF ExportInv, JobInv, CallTypeInv, WorkBounds
<1>3. /\ ItemCount[j] \in Nat /\ Parts(j) \in Nat /\ read[j] \in Nat
      /\ StagedParts(j) \in 0..Parts(j) /\ StagedParts(j)' \in 0..Parts(j)
      /\ ItemWork(j) \in 0..(4 * ItemCount[j]) /\ ItemWork(j)' \in 0..(4 * ItemCount[j])
      /\ CallWork(j) \in 0..CallSteps(j) /\ CallWork(j)' \in 0..CallSteps(j)
      /\ CallSteps(j) = 4 * ItemCount[j] + 2 * Parts(j) + 9
  BY <1>1, <1>2, PartsAreNeeded DEF WorkBounds, CallTypeInv, CallSteps
<1>4. PICK p \in Nat, c \in Nat, s \in Nat, s1 \in Nat, r \in Nat, r1 \in Nat,
           w \in Nat, w1 \in Nat, m \in Nat :
        /\ p = Parts(j) /\ c = ItemCount[j] /\ m = CallSteps(j)
        /\ s = StagedParts(j) /\ s1 = StagedParts(j)'
        /\ r = ItemWork(j) /\ r1 = ItemWork(j)'
        /\ w = CallWork(j) /\ w1 = CallWork(j)'
  BY <1>3
<1>5. /\ s <= p /\ s1 <= p /\ r <= 4 * c /\ r1 <= 4 * c /\ m = 4 * c + 2 * p + 9
  BY <1>3, <1>4
<1>6. WorkAtPlace(j) /\ WorkAtPlace(j)'
  BY <1>1 DEF CallWorkIs
<1>7. /\ pc[j] = "idle" /\ j \notin acked => w = m
      /\ pc[j] = "clear"   => w = s + 4 * c + p + 7
      /\ pc[j] = "read" /\ batch[j] = <<>> => w = r + 0 + p + 6
      /\ pc[j] = "read" /\ batch[j] # <<>> => w = r + 3 + p + 6
      /\ pc[j] = "write"   => w = r + p + 8
      /\ pc[j] = "fill"    => w = r + p + 7
      /\ pc[j] = "publish" => w = s + 5
      /\ pc[j] = "mark"    => w = s + 4
      /\ pc[j] = "rename"  => w = s + 3
      /\ pc[j] = "sweep"   => w = s + 2
      /\ pc[j] = "return"  => w = 1
  BY <1>4, <1>6 DEF WorkAtPlace
<1>8. /\ pc'[j] = "idle" /\ j \in acked' => w1 = 0
      /\ pc'[j] = "clear"   => w1 = s1 + 4 * c + p + 7
      /\ pc'[j] = "read" /\ batch'[j] = <<>> => w1 = r1 + 0 + p + 6
      /\ pc'[j] = "read" /\ batch'[j] # <<>> => w1 = r1 + 3 + p + 6
      /\ pc'[j] = "write"   => w1 = r1 + p + 8
      /\ pc'[j] = "fill"    => w1 = r1 + p + 7
      /\ pc'[j] = "publish" => w1 = s1 + 5
      /\ pc'[j] = "mark"    => w1 = s1 + 4
      /\ pc'[j] = "rename"  => w1 = s1 + 3
      /\ pc'[j] = "sweep"   => w1 = s1 + 2
      /\ pc'[j] = "return"  => w1 = 1
  BY <1>4, <1>6 DEF WorkAtPlace
<1>9. /\ staging'[j] = staging[j] => s1 = s
      /\ read'[j] = read[j] => r1 = r
      /\ staging[j] = Empty => s = 0
  <2>1. staging'[j] = staging[j] => s1 = s
    BY <1>4 DEF StagedParts
  <2>2. read'[j] = read[j] => r1 = r
    BY <1>4 DEF ItemWork
  <2>3. staging[j] = Empty => DOMAIN staging[j] = {}
    BY DEF Empty
  <2>4. staging[j] = Empty => s = 0
    BY <2>3, <1>4, FS_EmptySet DEF StagedParts
  <2> QED BY <2>1, <2>2, <2>4
<1>10. SUFFICES w1 < w
  BY <1>4
<1>11. CASE Start(j)
  <2>1. pc[j] = "idle" /\ j \notin acked /\ pc'[j] \in {"return", "clear"}
    BY <1>2, <1>11 DEF Start, Goto, CallTypeInv
  <2>2. w = m
    BY <2>1, <1>7
  <2>3. w1 \in {1, s1 + 4 * c + p + 7}
    BY <2>1, <1>8
  <2> QED BY <1>5, <2>2, <2>3
<1>12. CASE EraseOne(j) \/ Publish(j)
  <2>1. /\ pc[j] \in {"clear", "sweep", "publish"} /\ pc' = pc
        /\ \E n \in DOMAIN staging[j] : staging'[j] = Without(staging[j], n)
    BY <1>2, <1>12 DEF EraseOne, Publish, call
  <2>2. PICK n \in DOMAIN staging[j] : staging'[j] = Without(staging[j], n)
    BY <2>1
  <2>3. DOMAIN staging'[j] = DOMAIN staging[j] \ {n}
    BY <2>2, WithoutIs
  <2>4. Cardinality(DOMAIN staging'[j]) = Cardinality(DOMAIN staging[j]) - 1
    <3> DEFINE D == DOMAIN staging[j]
    <3>1. IsFiniteSet(D) /\ n \in D /\ DOMAIN staging'[j] = D \ {n}
      BY <1>2, <2>3
    <3> HIDE DEF D
    <3>2. Cardinality(D \ {n}) = Cardinality(D) - 1
      BY ONLY <3>1, FS_RemoveElement
    <3> QED BY <3>1, <3>2 DEF D
  <2>5. s1 = Cardinality(DOMAIN staging'[j]) /\ s = Cardinality(DOMAIN staging[j])
    BY <1>4 DEF StagedParts
  <2>6. s1 = s - 1
    BY <2>4, <2>5, <1>4
  <2>7. CASE pc[j] = "clear"
    <3>1. pc'[j] = "clear"
      BY <2>1, <2>7
    <3>2. w = s + 4 * c + p + 7 /\ w1 = s1 + 4 * c + p + 7
      BY <2>7, <3>1, <1>7, <1>8
    <3> QED BY <2>6, <3>2
  <2>8. CASE pc[j] = "sweep"
    <3>1. pc'[j] = "sweep"
      BY <2>1, <2>8
    <3>2. w = s + 2 /\ w1 = s1 + 2
      BY <2>8, <3>1, <1>7, <1>8
    <3> QED BY <2>6, <3>2
  <2>9. CASE pc[j] = "publish"
    <3>1. pc'[j] = "publish"
      BY <2>1, <2>9
    <3>2. w = s + 5 /\ w1 = s1 + 5
      BY <2>9, <3>1, <1>7, <1>8
    <3> QED BY <2>6, <3>2
  <2> QED BY <2>1, <2>7, <2>8, <2>9
<1>13. CASE Clear(j)
  <2>1. /\ pc[j] = "clear" /\ staging[j] = Empty /\ pc'[j] = "read"
        /\ read'[j] = 0 /\ batch'[j] = <<>>
    BY <1>2, <1>13 DEF Clear, Goto, CallTypeInv
  <2> QED BY <2>1, <1>5, <1>7, <1>8, <1>9
<1>14. CASE Read(j)
  <2>1. /\ pc[j] = "read" /\ read'[j] = read[j] + 1 /\ pc'[j] \in {"read", "write"}
    BY <1>2, <1>14 DEF Read, Goto, CallTypeInv
  <2>2. r1 = r - 4
    <3>1. PICK k \in Nat : k = read[j]
      BY <1>3
    <3>2. r = 4 * (c - k)
      BY <3>1, <1>4 DEF ItemWork
    <3>3. r1 = 4 * (c - (k + 1))
      BY <2>1, <3>1, <1>4 DEF ItemWork
    <3> QED BY <3>1, <3>2, <3>3, <1>4
  <2>3. w \in {r + 0 + p + 6, r + 3 + p + 6}
    BY <2>1, <1>7
  <2>4. w1 \in {r1 + 0 + p + 6, r1 + 3 + p + 6, r1 + p + 8}
    BY <2>1, <1>8
  <2> QED BY <2>2, <2>3, <2>4
<1>15. CASE EndOfItems(j)
  <2>1. CASE batch[j] # <<>>
    <3>1. pc[j] = "read" /\ pc'[j] = "write" /\ read'[j] = read[j]
      BY <1>2, <1>15, <2>1 DEF EndOfItems, Goto, CallTypeInv
    <3>2. w = r + 3 + p + 6
      BY <2>1, <3>1, <1>7
    <3>3. r1 = r
      BY <3>1, <1>9
    <3>4. w1 = r1 + p + 8
      BY <3>1, <1>8
    <3> QED BY <1>4, <3>2, <3>3, <3>4
  <2>2. CASE batch[j] = <<>>
    <3>1. pc[j] = "read" /\ pc'[j] = "publish"
      BY <1>2, <1>15, <2>2 DEF EndOfItems, Goto, CallTypeInv
    <3>2. w = r + 0 + p + 6
      BY <2>2, <3>1, <1>7
    <3>3. w1 = s1 + 5
      BY <3>1, <1>8
    <3> QED BY <1>5, <3>2, <3>3
  <2> QED BY <2>1, <2>2
<1>16. CASE OpenPart(j)
  <2>1. pc[j] = "write" /\ pc'[j] = "fill" /\ read'[j] = read[j]
    BY <1>2, <1>16 DEF OpenPart, Goto, CallTypeInv
  <2> QED BY <2>1, <1>7, <1>8, <1>9
<1>17. CASE ClosePart(j)
  <2>1. pc[j] = "fill" /\ pc'[j] = "read" /\ read'[j] = read[j] /\ batch'[j] = <<>>
    BY <1>2, <1>17 DEF ClosePart, Goto, CallTypeInv
  <2> QED BY <2>1, <1>7, <1>8, <1>9
<1>18. CASE Published(j) \/ WriteMarker(j) \/ Commit(j) \/ Sweep(j)
  <2>1. /\ staging'[j] = staging[j]
        /\ \/ pc[j] = "publish" /\ pc'[j] = "mark"
           \/ pc[j] = "mark" /\ pc'[j] = "rename"
           \/ pc[j] = "rename" /\ pc'[j] = "sweep"
           \/ pc[j] = "sweep" /\ pc'[j] = "return"
    BY <1>2, <1>18 DEF Published, WriteMarker, Commit, Sweep, Goto, CallTypeInv, disk
  <2> QED BY <2>1, <1>7, <1>8, <1>9
<1>19. CASE Ack(j)
  <2>1. pc[j] = "return" /\ pc'[j] = "idle" /\ j \in acked'
    BY <1>2, <1>19 DEF Ack, Goto, CallTypeInv
  <2> QED BY <2>1, <1>7, <1>8
<1> QED BY <1>11, <1>12, <1>13, <1>14, <1>15, <1>16, <1>17, <1>18, <1>19 DEF Call

\* What is left of a call for j grows only by a fault, which ends the call.
LEMMA CallsGoOn ==
  ASSUME ExportInv, ExportInv', [Next]_vars, NEW j \in LoadJobs
  PROVE  CallWork(j)' <= CallWork(j) \/ faults' > faults
<1>1. WorkBounds /\ WorkBounds' /\ CallWorkIs /\ CallWorkIs'
  BY WorkIsBounded, CallWorkAt, PTL
<1>2. /\ CallWork(j) \in Int /\ CallWork(j)' \in Int
      /\ WorkAtPlace(j) /\ WorkAtPlace(j)'
  <2>1. CallSteps(j) \in Nat
    BY PartsAreNeeded DEF CallSteps
  <2> QED BY <1>1, <2>1 DEF WorkBounds, CallWorkIs
<1>3. CallTypeInv /\ LoadInv /\ faults \in Nat /\ CallSteps(j)' = CallSteps(j)
  BY FaultAssumption DEF ExportInv, LoadInv, CallSteps
<1>4. ASSUME NEW k \in LoadJobs, Call(k)
      PROVE  CallWork(j)' <= CallWork(j)
  <2>1. CASE k = j
    <3>1. CallWork(j)' < CallWork(j)
      BY <2>1, <1>4, CallGoesOn
    <3> QED BY <3>1, <1>2
  <2>2. CASE k # j
    <3>1. Local(k) /\ (j \in acked' <=> j \in acked)
      BY <2>2, <1>3, <1>4 DEF Call, Start, EraseOne, Clear, Read, EndOfItems, OpenPart,
         ClosePart, Publish, Published, WriteMarker, Commit, Sweep, Ack, Goto, call, disk,
         load, Local, CallTypeInv
    <3>2. /\ pc'[j] = pc[j] /\ read'[j] = read[j] /\ batch'[j] = batch[j]
          /\ staging'[j] = staging[j]
      BY <2>2, <3>1 DEF Local
    <3>3. CallWork(j)' = CallWork(j)
      BY <3>1, <3>2 DEF CallWork, StagedParts, ItemWork, CallSteps
    <3> QED BY <3>3, <1>2
  <2> QED BY <2>1, <2>2
<1>5. CASE Discard
  <2>1. pc[j] = "idle" /\ pc' = pc /\ acked' = acked
    BY <1>3, <1>5 DEF Discard, LoadInv, Idle, call
  <2>2. CallWork(j)' = CallWork(j)
    BY <2>1, <1>2, <1>3 DEF WorkAtPlace
  <2> QED BY <2>2, <1>2
<1>6. CASE Rerun \/ Return \/ UNCHANGED vars
  <2>1. UNCHANGED <<pc, read, batch, staging, acked>>
    BY <1>6 DEF Rerun, Return, call, disk, load, vars
  <2>2. CallWork(j)' = CallWork(j)
    BY <2>1 DEF CallWork, StagedParts, ItemWork, CallSteps
  <2> QED BY <2>2, <1>2
<1>7. CASE GiveUp \/ Die \/ \E k \in LoadJobs : Raise(k)
  <2>1. faults' = faults + 1
    BY <1>7 DEF GiveUp, Die, Raise
  <2> QED BY <2>1, <1>3
<1> QED BY <1>4, <1>5, <1>6, <1>7 DEF Next, Ended

\* A step of a call uses up work; work comes back only with a fault.
CallsUseUpWork ==
  \A j \in LoadJobs : /\ Call(j) => CallWork(j)' < CallWork(j)
                      /\ CallWork(j)' <= CallWork(j) \/ faults' > faults

CallsAreInRange == \A j \in LoadJobs : CallWork(j) \in 0..CallSteps(j)

\* A call for a load job ends: it takes at most CallSteps(j) steps, each of which
\* leaves fewer, whatever parts, torn or whole, and whatever marker earlier calls
\* left behind.  Only a fault, of which there are finitely many, makes opengraph_file
\* start again for a job; no other call, rerun or removal of an output does.
THEOREM CallsAreBounded ==
  Spec => []CallsAreInRange /\ [][CallsUseUpWork]_vars
<1>1. ExportInv => CallsAreInRange
  BY WorkIsBounded DEF WorkBounds, CallsAreInRange
<1>2. ExportInv /\ ExportInv' /\ [Next]_vars => CallsUseUpWork
  BY CallGoesOn, CallsGoOn DEF CallsUseUpWork
<1> QED BY <1>1, <1>2, ExportInvariance, PTL DEF Spec

=============================================================================
