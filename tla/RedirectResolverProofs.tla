----------------------- MODULE RedirectResolverProofs -----------------------
(***************************************************************************)
(* Proofs that the resolver's list and maps agree, that its answers can be *)
(* translated back, and that its buffer has one user, for any number of    *)
(* names, size of the range and times.                                     *)
(***************************************************************************)
EXTENDS RedirectResolver, FiniteSetTheorems, SequenceTheorems, NaturalsInduction, TLAPS

Resolutions == [node : Nat, addr : Addresses, name : Names, age : 0..MaxAge]

\* The list: no two resolutions are the same node, and they are in the order
\* of their times.
ListInv ==
  \A i, j \in DOMAIN resolutions : i < j =>
    /\ resolutions[i].node # resolutions[j].node
    /\ resolutions[i].age >= resolutions[j].age

\* The maps: each entry points to the resolution of its key, and each
\* resolution has its two entries.
MapInv ==
  /\ \A n \in DOMAIN resolution_by_name :
       \E k \in DOMAIN resolutions :
         resolutions[k].node = resolution_by_name[n] /\ resolutions[k].name = n
  /\ \A a \in DOMAIN resolution_by_addr :
       \E k \in DOMAIN resolutions :
         resolutions[k].node = resolution_by_addr[a] /\ resolutions[k].addr = a
  /\ \A k \in DOMAIN resolutions :
       /\ resolutions[k].name \in DOMAIN resolution_by_name
       /\ resolutions[k].addr \in DOMAIN resolution_by_addr
       /\ resolution_by_name[resolutions[k].name] = resolutions[k].node
       /\ resolution_by_addr[resolutions[k].addr] = resolutions[k].node

\* The address of an answer that is in use has a resolution no older than the
\* answer, which was an answer itself.
AnswerInv ==
  \A x \in answers : \E k \in DOMAIN resolutions :
    /\ resolutions[k].addr = x.addr /\ resolutions[k].age <= x.age
    /\ [name |-> resolutions[k].name, addr |-> x.addr, age |-> resolutions[k].age] \in answers

\* One user of the buffer at a time.
BufferInv ==
  /\ call = "none" => \E o \in {"posted", "recv", "send"} : operations = {o}
  /\ call # "none" => operations = {}

RangeInv ==
  /\ subnet \in ShiftOutcomes
  /\ RangeSize > 1 => \A k \in DOMAIN resolutions : IsInResolvedRange(resolutions[k].addr)

Inv == TypeOK /\ ListInv /\ MapInv /\ AnswerInv /\ BufferInv /\ RangeInv

-----------------------------------------------------------------------------
\* Numbers and lists.

LEMMA Least ==
  ASSUME NEW T \in SUBSET Nat, T # {}
  PROVE  \E x \in T : \A y \in T : x <= y
<1>1. PICK x \in T : \A y \in T : ~ (<<y, x>> \in OpToRel(<, Nat))
  BY NatLessThanWellFounded, WFMin
<1>2. \A y \in T : ~(y < x)
  BY <1>1 DEF OpToRel
<1> QED BY <1>2

\* The offset stays within the range, and so does a new address.
LEMMA Sizes ==
  ASSUME subnet \in ShiftOutcomes
  PROVE  subnet \in Addresses
<1>1. RangeSize <= AddrSpace
  <2> SUFFICES ASSUME AddrSpace < RangeSize PROVE FALSE
    BY WidthAssumption
  <2>1. AddrSpace % RangeSize = AddrSpace
    BY WidthAssumption
  <2> QED BY <2>1, WidthAssumption
<1> QED BY <1>1, WidthAssumption DEF ShiftOutcomes, Addresses

LEMMA NewAddrInRange ==
  ASSUME subnet \in ShiftOutcomes, offset \in 0..subnet
  PROVE  NewAddr \in Addresses /\ (RangeSize > 1 => IsInResolvedRange(NewAddr))
<1>1. subnet \in Nat /\ offset \in Nat /\ subnet + 1 \in Nat \ {0}
  BY Sizes, WidthAssumption DEF Addresses
<1>2. Network \in Int
  BY <1>1, RangeAssumption, WidthAssumption DEF Network
<1>3. NewAddr \in Addresses
  BY <1>1, <1>2, WidthAssumption DEF NewAddr, Addresses
<1>4. ASSUME RangeSize > 1 PROVE IsInResolvedRange(NewAddr)
  <2> DEFINE q == RangeSize
             k == range \div q
             m == AddrSpace \div q
  <2>1. q \in Nat \ {0} /\ range \in Nat /\ AddrSpace \in Nat \ {0} /\ range < AddrSpace
    BY WidthAssumption, RangeAssumption
  <2>2. subnet + 1 = q /\ offset \in 0..(q - 1)
    BY <1>4, <2>1 DEF ShiftOutcomes
  <2>3. range - (range % q) = q * k /\ k \in Nat /\ AddrSpace = q * m /\ m \in Nat
    BY <2>1, WidthAssumption
  <2>4. k < m
    <3>1. range >= q * k
      BY <2>1, <2>3
    <3> HIDE DEF k, m, q
    <3>2. CASE m <= k
      <4>1. q * m <= q * k
        BY <2>1, <2>3, <3>2
      <4> QED BY <2>1, <2>3, <3>1, <4>1
    <3> QED BY <2>3, <3>2
  <2>5. Network = q * k
    BY <2>2, <2>3 DEF Network
  <2> HIDE DEF q, k, m
  <2>6. q * k + q <= q * m /\ q * k \in Nat
    BY <2>1, <2>3, <2>4
  <2>7. q * k + offset \in 0..(AddrSpace - 1)
    BY <2>1, <2>2, <2>3, <2>6
  <2>8. NewAddr = q * k + offset
    BY <2>1, <2>5, <2>7 DEF NewAddr
  <2>9. (q * k + offset) \div q = k
    BY <2>1, <2>2, <2>3
  <2> QED BY <2>8, <2>9 DEF IsInResolvedRange, q, k
<1> QED BY <1>3, <1>4

LEMMA FreshNodeIsFresh ==
  ASSUME NEW list \in Seq(Resolutions)
  PROVE  FreshNode(list) \in Nat /\ \A k \in DOMAIN list : list[k].node # FreshNode(list)
<1> DEFINE n == Len(list)
           Nodes == 1..(n + 1)
<1>1. n \in Nat /\ DOMAIN list = 1..n
  BY LenProperties
<1>2. \E x \in Nodes : \A k \in DOMAIN list : list[k].node # x
  <2> SUFFICES ASSUME \A x \in Nodes : \E k \in 1..n : list[k].node = x PROVE FALSE
    BY <1>1
  <2> DEFINE f == [x \in Nodes |-> CHOOSE k \in 1..n : list[k].node = x]
  <2> HIDE DEF n
  <2>1. f \in [Nodes -> 1..n] /\ \A x \in Nodes : list[f[x]].node = x
    OBVIOUS
  <2>2. /\ IsFiniteSet(Nodes) /\ Cardinality(Nodes) = n + 1
        /\ IsFiniteSet(1..n) /\ Cardinality(1..n) = n
    <3>1. 1 \in Int /\ n \in Int /\ n + 1 \in Int
      BY <1>1
    <3>2. IsFiniteSet(Nodes) /\ Cardinality(Nodes) = IF 1 > n + 1 THEN 0 ELSE n + 1 - 1 + 1
      BY <3>1, FS_Interval
    <3>3. IsFiniteSet(1..n) /\ Cardinality(1..n) = IF 1 > n THEN 0 ELSE n - 1 + 1
      BY <3>1, FS_Interval
    <3> QED BY <1>1, <3>2, <3>3
  <2> HIDE DEF f, Nodes
  <2>3. PICK x, y \in Nodes : x # y /\ f[x] = f[y]
    BY <1>1, <2>1, <2>2, FS_PigeonHole
  <2> QED BY <2>1, <2>3
<1> QED BY <1>1, <1>2 DEF FreshNode

\* A list got from resolutions by leaving some out, in the same order.
IsSublist(list) ==
  /\ list \in Seq(Resolutions)
  /\ \E g \in [DOMAIN list -> DOMAIN resolutions] :
       /\ \A k \in DOMAIN list : list[k] = resolutions[g[k]]
       /\ \A i, j \in DOMAIN list : i < j => g[i] < g[j]

LEMMA ErasedList ==
  ASSUME resolutions \in Seq(Resolutions), NEW p \in DOMAIN resolutions
  PROVE  LET list == RemoveAt(resolutions, p)
         IN  /\ IsSublist(list)
             /\ \A j \in DOMAIN resolutions :
                  j # p => \E k \in DOMAIN list : list[k] = resolutions[j]
             /\ \A k \in DOMAIN list :
                  \E j \in DOMAIN resolutions : j # p /\ list[k] = resolutions[j]
<1> DEFINE n == Len(resolutions)
           front == SubSeq(resolutions, 1, p - 1)
           back == SubSeq(resolutions, p + 1, n)
           list == front \o back
<1>1. n \in Nat /\ DOMAIN resolutions = 1..n /\ p \in 1..n
      /\ \A i \in 1..n : resolutions[i] \in Resolutions
  BY LenProperties, ElementOfSeq
<1> HIDE DEF n
<1>2. /\ front \in Seq(Resolutions) /\ Len(front) = p - 1
      /\ \A i \in 1..(p - 1) : front[i] = resolutions[i]
  <2>1. \A i \in 1..(p - 1) : resolutions[i] \in Resolutions
    BY <1>1
  <2>2. /\ front \in Seq(Resolutions)
        /\ Len(front) = IF 1 <= p - 1 THEN p - 1 - 1 + 1 ELSE 0
        /\ \A i \in 1..(p - 1 - 1 + 1) : front[i] = resolutions[1 + i - 1]
    BY <1>1, <2>1, SubSeqProperties
  <2> QED BY <1>1, <2>2
<1>3. /\ back \in Seq(Resolutions) /\ Len(back) = n - p
      /\ \A i \in 1..(n - p) : back[i] = resolutions[p + i]
  <2>1. \A i \in (p + 1)..n : resolutions[i] \in Resolutions
    BY <1>1
  <2>2. /\ back \in Seq(Resolutions)
        /\ Len(back) = IF p + 1 <= n THEN n - (p + 1) + 1 ELSE 0
        /\ \A i \in 1..(n - (p + 1) + 1) : back[i] = resolutions[p + 1 + i - 1]
    BY <1>1, <2>1, SubSeqProperties
  <2> QED BY <1>1, <2>2
<1> HIDE DEF front, back
<1>4. /\ list \in Seq(Resolutions) /\ Len(list) = n - 1 /\ DOMAIN list = 1..(n - 1)
      /\ \A i \in 1..(n - 1) : list[i] = resolutions[IF i < p THEN i ELSE i + 1]
  <2>1. /\ list \in Seq(Resolutions) /\ Len(list) = Len(front) + Len(back)
        /\ \A i \in 1..(Len(front) + Len(back)) :
             list[i] = IF i <= Len(front) THEN front[i] ELSE back[i - Len(front)]
    BY <1>2, <1>3, ConcatProperties
  <2>2. DOMAIN list = 1..Len(list)
    BY <2>1, LenProperties
  <2> HIDE DEF list
  <2>3. Len(list) = n - 1
    BY <1>1, <1>2, <1>3, <2>1
  <2>4. ASSUME NEW i \in 1..(n - 1)
        PROVE  list[i] = resolutions[IF i < p THEN i ELSE i + 1]
    <3>1. CASE i < p
      BY <1>1, <1>2, <1>3, <2>1, <3>1
    <3>2. CASE ~(i < p)
      <4>1. i - (p - 1) \in 1..(n - p) /\ p + (i - (p - 1)) = i + 1
        BY <1>1, <3>2
      <4>2. list[i] = back[i - (p - 1)]
        BY <1>1, <1>2, <1>3, <2>1, <3>2
      <4> QED BY <1>3, <3>2, <4>1, <4>2
    <3> QED BY <3>1, <3>2
  <2> QED BY <2>1, <2>2, <2>3, <2>4
<1>5. RemoveAt(resolutions, p) = list
  BY DEF RemoveAt, front, back, n
<1> HIDE DEF list
<1>6. IsSublist(list)
  <2> DEFINE g == [i \in DOMAIN list |-> IF i < p THEN i ELSE i + 1]
  <2>1. g \in [DOMAIN list -> DOMAIN resolutions]
    BY <1>1, <1>4
  <2>2. \A k \in DOMAIN list : list[k] = resolutions[g[k]]
    BY <1>4
  <2>3. \A i, j \in DOMAIN list : i < j => g[i] < g[j]
    BY <1>1, <1>4
  <2> QED BY <1>4, <2>1, <2>2, <2>3 DEF IsSublist
<1>7. ASSUME NEW j \in DOMAIN resolutions, j # p
      PROVE  \E k \in DOMAIN list : list[k] = resolutions[j]
  <2> DEFINE k == IF j < p THEN j ELSE j - 1
  <2>1. k \in DOMAIN list /\ j = IF k < p THEN k ELSE k + 1
    BY <1>1, <1>4, <1>7
  <2> QED BY <1>4, <2>1
<1>8. ASSUME NEW k \in DOMAIN list
      PROVE  \E j \in DOMAIN resolutions : j # p /\ list[k] = resolutions[j]
  <2> DEFINE j == IF k < p THEN k ELSE k + 1
  <2>1. j \in DOMAIN resolutions /\ j # p /\ list[k] = resolutions[j]
    BY <1>1, <1>4
  <2> QED BY <2>1
<1> QED BY <1>5, <1>6, <1>7, <1>8

LEMMA CollectedList ==
  ASSUME resolutions \in Seq(Resolutions)
  PROVE  LET list == SubSeq(resolutions, FirstKept, Len(resolutions))
         IN  /\ FirstKept \in 1..(Len(resolutions) + 1)
             /\ \A i \in 1..(FirstKept - 1) : resolutions[i].age > kResolutionRecycleTime
             /\ FirstKept \in DOMAIN resolutions
                  => resolutions[FirstKept].age <= kResolutionRecycleTime
             /\ IsSublist(list)
             /\ \A j \in FirstKept..Len(resolutions) :
                  \E k \in DOMAIN list : list[k] = resolutions[j]
             /\ \A k \in DOMAIN list :
                  \E j \in FirstKept..Len(resolutions) : list[k] = resolutions[j]
<1> DEFINE n == Len(resolutions)
           p == FirstKept
           list == SubSeq(resolutions, p, n)
<1>1. n \in Nat /\ DOMAIN resolutions = 1..n
      /\ \A i \in 1..n : resolutions[i] \in Resolutions
  BY LenProperties, ElementOfSeq
<1>2. /\ p \in 1..(n + 1)
      /\ \A i \in 1..(p - 1) : resolutions[i].age > kResolutionRecycleTime
      /\ p \in DOMAIN resolutions => resolutions[p].age <= kResolutionRecycleTime
  <2> DEFINE T == {k \in 1..(n + 1) :
                     k \in DOMAIN resolutions => resolutions[k].age <= kResolutionRecycleTime}
  <2>1. n + 1 \in T
    BY <1>1
  <2>2. PICK k \in T : \A y \in T : k <= y
    <3>1. T \in SUBSET Nat /\ T # {}
      BY <1>1, <2>1
    <3> HIDE DEF T
    <3> QED BY <3>1, Least
  <2>3. ASSUME NEW i \in 1..(k - 1) PROVE resolutions[i].age > kResolutionRecycleTime
    <3>1. i \in 1..(n + 1) /\ i \in DOMAIN resolutions /\ i \notin T
      BY <1>1, <2>2
    <3>2. resolutions[i].age \in Int
      BY <1>1, <3>1, TimesAssumption DEF Resolutions, MaxAge
    <3> QED BY <3>1, <3>2, TimesAssumption
  <2> QED BY <2>2, <2>3 DEF FirstKept
<1> HIDE DEF n, p
<1>3. /\ list \in Seq(Resolutions) /\ DOMAIN list = 1..(n - p + 1)
      /\ \A i \in 1..(n - p + 1) : list[i] = resolutions[p + i - 1]
  <2>1. \A i \in p..n : resolutions[i] \in Resolutions
    BY <1>1, <1>2
  <2>2. /\ list \in Seq(Resolutions)
        /\ Len(list) = IF p <= n THEN n - p + 1 ELSE 0
        /\ \A i \in 1..(n - p + 1) : list[i] = resolutions[p + i - 1]
    BY <1>1, <1>2, <2>1, SubSeqProperties
  <2>3. DOMAIN list = 1..Len(list)
    BY <2>2, LenProperties
  <2>4. Len(list) = n - p + 1
    BY <1>1, <1>2, <2>2
  <2> QED BY <2>2, <2>3, <2>4
<1> HIDE DEF list
<1>4. IsSublist(list)
  <2> DEFINE g == [i \in DOMAIN list |-> p + i - 1]
  <2>1. g \in [DOMAIN list -> DOMAIN resolutions]
    BY <1>1, <1>2, <1>3
  <2>2. \A k \in DOMAIN list : list[k] = resolutions[g[k]]
    BY <1>3
  <2>3. \A i, j \in DOMAIN list : i < j => g[i] < g[j]
    BY <1>1, <1>2, <1>3
  <2> QED BY <1>3, <2>1, <2>2, <2>3 DEF IsSublist
<1>5. ASSUME NEW j \in p..n PROVE \E k \in DOMAIN list : list[k] = resolutions[j]
  <2>1. j - p + 1 \in DOMAIN list /\ p + (j - p + 1) - 1 = j
    BY <1>1, <1>2, <1>3
  <2> QED BY <1>3, <2>1
<1>6. ASSUME NEW k \in DOMAIN list PROVE \E j \in p..n : list[k] = resolutions[j]
  <2>1. p + k - 1 \in p..n
    BY <1>1, <1>2, <1>3
  <2> QED BY <1>3, <2>1
<1> QED BY <1>2, <1>4, <1>5, <1>6 DEF n, p, list

\* The keys kept are those of the list kept, which has neither the name nor the
\* address of the new resolution.
SameKeys(list, addr, keptNames, keptAddrs) ==
  /\ \A k \in DOMAIN list :
       /\ list[k].name \in keptNames /\ list[k].name # query
       /\ list[k].addr \in keptAddrs /\ list[k].addr # addr
       /\ resolution_by_name[list[k].name] = list[k].node
       /\ resolution_by_addr[list[k].addr] = list[k].node
  /\ \A m \in keptNames : m # query => \E k \in DOMAIN list : list[k].name = m
  /\ \A a \in keptAddrs : a # addr => \E k \in DOMAIN list : list[k].addr = a

\* What EmplaceBack makes of the list and the maps.
LEMMA Emplaced ==
  ASSUME ListInv, query \in Names,
         NEW list, IsSublist(list), NEW addr \in Addresses,
         NEW keptNames, NEW keptAddrs,
         SameKeys(list, addr, keptNames, keptAddrs),
         EmplaceBack(list, addr, keptNames, keptAddrs)
  PROVE  /\ resolutions' \in Seq(Resolutions)
         /\ DOMAIN resolutions' = 1..(Len(list) + 1) /\ DOMAIN list = 1..Len(list)
         /\ Len(list) \in Nat
         /\ resolutions'[Len(list) + 1].addr = addr
         /\ resolutions'[Len(list) + 1].name = query
         /\ resolutions'[Len(list) + 1].age = 0
         /\ \A k \in DOMAIN list : resolutions'[k] = list[k]
         /\ DOMAIN resolution_by_name' = keptNames \cup {query}
         /\ DOMAIN resolution_by_addr' = keptAddrs \cup {addr}
         /\ ListInv' /\ MapInv'
<1> DEFINE n == Len(list)
           f == FreshNode(list)
           new == Resolution(f, addr, 0)
<1>1. list \in Seq(Resolutions) /\ n \in Nat /\ DOMAIN list = 1..n
  BY LenProperties DEF IsSublist
<1>2. f \in Nat /\ \A k \in DOMAIN list : list[k].node # f
  BY <1>1, FreshNodeIsFresh
<1>3. /\ resolutions' = Append(list, new)
      /\ resolution_by_name' =
           [m \in keptNames \cup {query} |-> IF m = query THEN f ELSE resolution_by_name[m]]
      /\ resolution_by_addr' =
           [a \in keptAddrs \cup {addr} |-> IF a = addr THEN f ELSE resolution_by_addr[a]]
  BY DEF EmplaceBack
<1> HIDE DEF f, n
<1>4. /\ new \in Resolutions
      /\ new.node = f /\ new.addr = addr /\ new.name = query /\ new.age = 0
  BY <1>2, TimesAssumption DEF Resolution, Resolutions, MaxAge
<1> HIDE DEF new
<1>5. /\ resolutions' \in Seq(Resolutions) /\ DOMAIN resolutions' = 1..(n + 1)
      /\ resolutions'[n + 1] = new
      /\ \A k \in 1..n : resolutions'[k] = list[k]
  <2>1. /\ Append(list, new) \in Seq(Resolutions)
        /\ Len(Append(list, new)) = n + 1
        /\ \A k \in 1..n : Append(list, new)[k] = list[k]
        /\ Append(list, new)[n + 1] = new
    BY <1>1, <1>4, AppendProperties DEF n
  <2>2. DOMAIN Append(list, new) = 1..(n + 1)
    BY <2>1, LenProperties
  <2> QED BY <1>3, <2>1, <2>2
<1>6. \A k \in 1..n : list[k] \in Resolutions
  BY <1>1, ElementOfSeq DEF n
<1>7. ListInv'
  <2> SUFFICES ASSUME NEW i \in 1..(n + 1), NEW j \in 1..(n + 1), i < j
               PROVE  /\ resolutions'[i].node # resolutions'[j].node
                      /\ resolutions'[i].age >= resolutions'[j].age
    BY <1>5 DEF ListInv
  <2>1. CASE j = n + 1
    <3>1. i \in 1..n
      BY <1>1, <2>1
    <3>2. list[i].age >= 0
      BY <1>6, <3>1, TimesAssumption DEF Resolutions, MaxAge
    <3> QED BY <1>1, <1>2, <1>4, <1>5, <2>1, <3>1, <3>2
  <2>2. CASE j # n + 1
    <3>1. i \in 1..n /\ j \in 1..n
      BY <1>1, <2>2
    <3>2. PICK g \in [DOMAIN list -> DOMAIN resolutions] :
            /\ \A k \in DOMAIN list : list[k] = resolutions[g[k]]
            /\ \A k, l \in DOMAIN list : k < l => g[k] < g[l]
      BY DEF IsSublist
    <3>3. g[i] < g[j] /\ g[i] \in DOMAIN resolutions /\ g[j] \in DOMAIN resolutions
      BY <1>1, <3>1, <3>2
    <3> QED BY <1>1, <1>5, <3>1, <3>2, <3>3 DEF ListInv
  <2> QED BY <2>1, <2>2
<1>8. MapInv'
  <2>1. ASSUME NEW m \in keptNames \cup {query}
        PROVE  \E k \in 1..(n + 1) : /\ resolutions'[k].node = resolution_by_name'[m]
                                     /\ resolutions'[k].name = m
    <3>1. CASE m = query
      BY <1>1, <1>3, <1>4, <1>5, <3>1
    <3>2. CASE m # query
      <4>1. PICK k \in 1..n : list[k].name = m
        BY <1>1, <3>2 DEF SameKeys
      <4>2. k \in 1..(n + 1) /\ resolutions'[k] = list[k]
        BY <1>1, <1>5
      <4>3. resolution_by_name'[m] = list[k].node
        BY <1>1, <1>3, <3>2, <4>1 DEF SameKeys
      <4> QED BY <4>1, <4>2, <4>3
    <3> QED BY <3>1, <3>2
  <2>2. ASSUME NEW a \in keptAddrs \cup {addr}
        PROVE  \E k \in 1..(n + 1) : /\ resolutions'[k].node = resolution_by_addr'[a]
                                     /\ resolutions'[k].addr = a
    <3>1. CASE a = addr
      BY <1>1, <1>3, <1>4, <1>5, <3>1
    <3>2. CASE a # addr
      <4>1. PICK k \in 1..n : list[k].addr = a
        BY <1>1, <3>2 DEF SameKeys
      <4>2. k \in 1..(n + 1) /\ resolutions'[k] = list[k]
        BY <1>1, <1>5
      <4>3. resolution_by_addr'[a] = list[k].node
        BY <1>1, <1>3, <3>2, <4>1 DEF SameKeys
      <4> QED BY <4>1, <4>2, <4>3
    <3> QED BY <3>1, <3>2
  <2>3. ASSUME NEW k \in 1..(n + 1)
        PROVE  /\ resolutions'[k].name \in keptNames \cup {query}
               /\ resolutions'[k].addr \in keptAddrs \cup {addr}
               /\ resolution_by_name'[resolutions'[k].name] = resolutions'[k].node
               /\ resolution_by_addr'[resolutions'[k].addr] = resolutions'[k].node
    <3>1. CASE k = n + 1
      BY <1>3, <1>4, <1>5, <3>1
    <3>2. CASE k # n + 1
      <4>1. k \in DOMAIN list /\ resolutions'[k] = list[k]
        BY <1>1, <1>5, <3>2
      <4> QED BY <1>3, <4>1 DEF SameKeys
    <3> QED BY <3>1, <3>2
  <2>4. /\ DOMAIN resolution_by_name' = keptNames \cup {query}
        /\ DOMAIN resolution_by_addr' = keptAddrs \cup {addr}
    BY <1>3
  <2> QED BY <1>5, <2>1, <2>2, <2>3, <2>4 DEF MapInv
<1> QED BY <1>1, <1>3, <1>4, <1>5, <1>7, <1>8 DEF n

-----------------------------------------------------------------------------
\* The answers.

\* A reply leaves the answers that it does not replace, and the resolutions
\* that they need.
LEMMA AnsweredKeeps ==
  ASSUME AnswerInv, answers \subseteq [name : Names, addr : Addresses, age : 0..kResolutionTtl],
         query \in Names, NEW addr \in Addresses, Answered(addr),
         NEW k0 \in DOMAIN resolutions',
         resolutions'[k0].addr = addr, resolutions'[k0].name = query, resolutions'[k0].age = 0,
         \A j \in DOMAIN resolutions :
           resolutions[j].addr # addr /\ resolutions[j].age <= kResolutionTtl
             => \E k \in DOMAIN resolutions' : resolutions'[k] = resolutions[j]
  PROVE  AnswerInv' /\ answers' \subseteq [name : Names, addr : Addresses, age : 0..kResolutionTtl]
<1> DEFINE new == [name |-> query, addr |-> addr, age |-> 0]
<1>1. answers' = {a \in answers : a.name # query \/ a.addr # addr} \cup {new}
  BY DEF Answered
<1>2. new \in [name : Names, addr : Addresses, age : 0..kResolutionTtl]
  BY TimesAssumption
<1>3. ASSUME NEW x \in answers'
      PROVE  \E k \in DOMAIN resolutions' :
               /\ resolutions'[k].addr = x.addr /\ resolutions'[k].age <= x.age
               /\ [name |-> resolutions'[k].name, addr |-> x.addr,
                   age |-> resolutions'[k].age] \in answers'
  <2>1. CASE x.addr = addr
    <3>1. x.age >= 0
      BY <1>1, <1>2, TimesAssumption
    <3> QED BY <1>1, <2>1, <3>1
  <2>2. CASE x.addr # addr
    <3>1. x \in answers /\ x.age \in 0..kResolutionTtl
      BY <1>1, <2>2
    <3>2. PICK j \in DOMAIN resolutions :
            /\ resolutions[j].addr = x.addr /\ resolutions[j].age <= x.age
            /\ [name |-> resolutions[j].name, addr |-> x.addr, age |-> resolutions[j].age]
                 \in answers
      BY <3>1 DEF AnswerInv
    <3>3. resolutions[j].age <= kResolutionTtl
      BY <3>1, <3>2, TimesAssumption
    <3>4. PICK k \in DOMAIN resolutions' : resolutions'[k] = resolutions[j]
      BY <2>2, <3>2, <3>3
    <3>5. [name |-> resolutions[j].name, addr |-> x.addr, age |-> resolutions[j].age] \in answers'
      BY <1>1, <2>2, <3>2
    <3> QED BY <3>2, <3>4, <3>5
  <2> QED BY <2>1, <2>2
<1>4. answers' \subseteq [name : Names, addr : Addresses, age : 0..kResolutionTtl]
  BY <1>1, <1>2
<1> QED BY <1>3, <1>4 DEF AnswerInv

-----------------------------------------------------------------------------
\* The invariant.

LoopType ==
  /\ operations \subseteq {"posted", "recv", "send"}
  /\ call \in {"none", "DoRead", "HandleReadResult"}
  /\ query \in Queries \cup {"none"}

TableType ==
  /\ resolutions \in Seq(Resolutions)
  /\ DOMAIN resolution_by_name \subseteq Names
  /\ DOMAIN resolution_by_addr \subseteq Addresses
  /\ offset \in 0..subnet
  /\ answers \subseteq [name : Names, addr : Addresses, age : 0..kResolutionTtl]

LEMMA Types ==
  /\ TypeOK => LoopType /\ TableType
  /\ LoopType /\ TableType /\ subnet \in ShiftOutcomes => TypeOK
<1>1. TypeOK => LoopType /\ TableType
  BY DEF TypeOK, LoopType, TableType, Resolutions
<1>2. LoopType /\ TableType /\ subnet \in ShiftOutcomes => TypeOK
  BY Sizes DEF TypeOK, LoopType, TableType, Resolutions
<1> QED BY <1>1, <1>2

LEMMA InitInv == Init => Inv
<1> SUFFICES ASSUME Init PROVE Inv
  OBVIOUS
<1>1. resolutions \in Seq(Resolutions) /\ DOMAIN resolutions = {}
  BY EmptySeq, LenProperties DEF Init
<1>2. DOMAIN resolution_by_name = {} /\ DOMAIN resolution_by_addr = {}
  BY DEF Init
<1>3. subnet \in ShiftOutcomes /\ offset = 0 /\ subnet \in Nat
  BY Sizes, WidthAssumption DEF Init, Addresses
<1>4. TableType
  BY <1>1, <1>2, <1>3 DEF TableType, Init
<1>5. LoopType
  BY DEF LoopType, Init
<1>6. ListInv /\ MapInv /\ AnswerInv /\ BufferInv /\ RangeInv
  BY <1>1, <1>2, <1>3 DEF ListInv, MapInv, AnswerInv, BufferInv, RangeInv, Init
<1> QED BY <1>3, <1>4, <1>5, <1>6, Types DEF Inv

LEMMA TableStays ==
  ASSUME Inv, UNCHANGED <<tableVars, subnet, answers>>, LoopType', BufferInv'
  PROVE  Inv'
<1>1. /\ resolutions' = resolutions /\ resolution_by_name' = resolution_by_name
      /\ resolution_by_addr' = resolution_by_addr /\ offset' = offset
      /\ subnet' = subnet /\ answers' = answers
  BY DEF tableVars
<1>2. TableType' /\ (subnet \in ShiftOutcomes)'
  BY <1>1, Types DEF Inv, TableType, RangeInv
<1>3. TypeOK'
  BY <1>2, Types, PTL
<1>4. ListInv' /\ MapInv'
  BY <1>1 DEF Inv, ListInv, MapInv
<1>5. AnswerInv' /\ RangeInv'
  BY <1>1 DEF Inv, AnswerInv, RangeInv, IsInResolvedRange
<1> QED BY <1>3, <1>4, <1>5 DEF Inv

LEMMA StartReadingKeeps == Inv /\ StartReading => Inv'
<1> SUFFICES ASSUME Inv, StartReading PROVE Inv'
  OBVIOUS
<1>1. LoopType' /\ BufferInv'
  BY Types DEF Inv, StartReading, LoopType, BufferInv
<1> QED BY <1>1, TableStays DEF StartReading

LEMMA DoReadKeeps == Inv /\ DoRead => Inv'
<1> SUFFICES ASSUME Inv, DoRead PROVE Inv'
  OBVIOUS
<1>1. LoopType' /\ BufferInv'
  BY Types DEF Inv, DoRead, LoopType, BufferInv
<1> QED BY <1>1, TableStays DEF DoRead

LEMMA OnRecvKeeps == Inv /\ OnRecv => Inv'
<1> SUFFICES ASSUME Inv, OnRecv PROVE Inv'
  OBVIOUS
<1>1. LoopType' /\ BufferInv'
  BY Types DEF Inv, OnRecv, LoopType, BufferInv
<1> QED BY <1>1, TableStays DEF OnRecv

LEMMA OnSendKeeps == Inv /\ OnSend => Inv'
<1> SUFFICES ASSUME Inv, OnSend PROVE Inv'
  OBVIOUS
<1>1. LoopType' /\ BufferInv'
  BY Types DEF Inv, OnSend, LoopType, BufferInv
<1> QED BY <1>1, TableStays DEF OnSend

LEMMA IgnoreQueryKeeps == Inv /\ IgnoreQuery => Inv'
<1> SUFFICES ASSUME Inv, IgnoreQuery PROVE Inv'
  OBVIOUS
<1>1. LoopType' /\ BufferInv'
  BY Types DEF Inv, IgnoreQuery, Handling, LoopType, BufferInv
<1> QED BY <1>1, TableStays DEF IgnoreQuery

\* The end of HandleReadResult.
LEMMA ReplyKeeps ==
  ASSUME Inv, Handling, Reply, query' = "none"
  PROVE  LoopType' /\ BufferInv'
BY Types DEF Inv, Handling, Reply, LoopType, BufferInv

LEMMA RefuseQueryKeeps == Inv /\ RefuseQuery => Inv'
BY ReplyKeeps, TableStays DEF RefuseQuery

\* The end of HandleReadResult for an A query, whatever list is kept.
LEMMA AnswerKeeps ==
  ASSUME Inv, Handling, query \in Names,
         NEW list, IsSublist(list), NEW addr \in Addresses,
         RangeSize > 1 => IsInResolvedRange(addr),
         NEW keptNames \in SUBSET Names, NEW keptAddrs \in SUBSET Addresses,
         SameKeys(list, addr, keptNames, keptAddrs),
         \A j \in DOMAIN resolutions :
           resolutions[j].addr # addr /\ resolutions[j].age <= kResolutionTtl
             => \E k \in DOMAIN list : list[k] = resolutions[j],
         EmplaceBack(list, addr, keptNames, keptAddrs), offset' \in 0..subnet,
         Answered(addr)
  PROVE  Inv'
<1> DEFINE n == Len(list)
<1>1. /\ resolutions' \in Seq(Resolutions)
      /\ DOMAIN resolutions' = 1..(n + 1) /\ DOMAIN list = 1..n /\ n \in Nat
      /\ resolutions'[n + 1].addr = addr /\ resolutions'[n + 1].name = query
      /\ resolutions'[n + 1].age = 0
      /\ \A k \in DOMAIN list : resolutions'[k] = list[k]
      /\ DOMAIN resolution_by_name' = keptNames \cup {query}
      /\ DOMAIN resolution_by_addr' = keptAddrs \cup {addr}
      /\ ListInv' /\ MapInv'
  <2>1. ListInv
    BY DEF Inv
  <2> QED BY <2>1, Emplaced
<1> HIDE DEF n
<1>2. \A j \in DOMAIN resolutions :
        resolutions[j].addr # addr /\ resolutions[j].age <= kResolutionTtl
          => \E k \in DOMAIN resolutions' : resolutions'[k] = resolutions[j]
  BY <1>1
<1>3. AnswerInv' /\ answers' \subseteq [name : Names, addr : Addresses, age : 0..kResolutionTtl]
  <2>1. AnswerInv /\ answers \subseteq [name : Names, addr : Addresses, age : 0..kResolutionTtl]
    BY DEF Inv, TypeOK
  <2>2. n + 1 \in DOMAIN resolutions'
    BY <1>1
  <2> QED BY <1>1, <1>2, <2>1, <2>2, AnsweredKeeps
<1>4. subnet' = subnet /\ subnet \in ShiftOutcomes
  BY DEF Answered, Inv, RangeInv
<1>5. LoopType' /\ BufferInv'
  BY ReplyKeeps DEF Answered
<1>6. TypeOK'
  <2>1. TableType' /\ (subnet \in ShiftOutcomes)'
    BY <1>1, <1>3, <1>4 DEF TableType
  <2> QED BY <1>5, <2>1, Types, PTL
<1>7. RangeInv'
  <2> SUFFICES ASSUME RangeSize > 1, NEW k \in 1..(n + 1)
               PROVE  IsInResolvedRange(resolutions'[k].addr)
    BY <1>1, <1>4 DEF RangeInv, IsInResolvedRange
  <2>1. CASE k = n + 1
    BY <1>1, <2>1
  <2>2. CASE k # n + 1
    <3>1. k \in DOMAIN list /\ resolutions'[k] = list[k]
      BY <1>1, <2>2
    <3>2. PICK j \in DOMAIN resolutions : list[k] = resolutions[j]
      BY <3>1 DEF IsSublist
    <3> QED BY <3>1, <3>2 DEF Inv, RangeInv
  <2> QED BY <2>1, <2>2
<1> QED BY <1>1, <1>3, <1>5, <1>6, <1>7 DEF Inv

\* The node a map entry points to is at one place in the list.
LEMMA NodeAt ==
  ASSUME ListInv, resolutions \in Seq(Resolutions), NEW k \in DOMAIN resolutions
  PROVE  Position(resolutions[k].node) = k /\ Node(resolutions[k].node) = resolutions[k]
<1> DEFINE p == Position(resolutions[k].node)
<1>1. p \in DOMAIN resolutions /\ resolutions[p].node = resolutions[k].node
  BY DEF Position
<1> HIDE DEF p
<1>2. p \in Int /\ k \in Int
  BY <1>1, LenProperties
<1>3. p = k
  BY <1>1, <1>2 DEF ListInv
<1> QED BY <1>3 DEF p, Node

\* Names and addresses are unique in the list.
LEMMA UniqueKeys ==
  ASSUME ListInv, MapInv, resolutions \in Seq(Resolutions),
         NEW i \in DOMAIN resolutions, NEW j \in DOMAIN resolutions, i # j
  PROVE  /\ resolutions[i].name # resolutions[j].name
         /\ resolutions[i].addr # resolutions[j].addr
<1>1. i \in Int /\ j \in Int
  BY LenProperties
<1>2. resolutions[i].node # resolutions[j].node
  BY <1>1 DEF ListInv
<1>3. \A k \in {i, j} : /\ resolution_by_name[resolutions[k].name] = resolutions[k].node
                        /\ resolution_by_addr[resolutions[k].addr] = resolutions[k].node
  BY DEF MapInv
<1>4. resolutions[i].name # resolutions[j].name
  BY <1>2, <1>3
<1>5. resolutions[i].addr # resolutions[j].addr
  BY <1>2, <1>3
<1> QED BY <1>4, <1>5

LEMMA AnswerKnownKeeps == Inv /\ AnswerKnown => Inv'
<1> SUFFICES ASSUME Inv, AnswerKnown PROVE Inv'
  OBVIOUS
<1>1. TypeOK /\ ListInv /\ MapInv /\ TableType
  BY Types DEF Inv
<1>2. resolutions \in Seq(Resolutions) /\ query \in Names /\ Handling
  BY <1>1 DEF TableType, AnswerKnown
<1>3. PICK p \in DOMAIN resolutions :
        resolutions[p].node = resolution_by_name[query] /\ resolutions[p].name = query
  BY <1>1 DEF MapInv, AnswerKnown
<1> DEFINE addr == resolutions[p].addr
           list == RemoveAt(resolutions, p)
           names == DOMAIN resolution_by_name
           addrs == DOMAIN resolution_by_addr
<1>4. /\ Node(resolution_by_name[query]) = resolutions[p]
      /\ Position(resolution_by_name[query]) = p
  BY <1>1, <1>2, <1>3, NodeAt
<1>5. EmplaceBack(list, addr, names, addrs) /\ offset' = offset /\ Answered(addr)
  BY <1>3, <1>4 DEF AnswerKnown, Refresh, Erase
<1>6. /\ IsSublist(list)
      /\ \A j \in DOMAIN resolutions : j # p => \E k \in DOMAIN list : list[k] = resolutions[j]
      /\ \A k \in DOMAIN list : \E j \in DOMAIN resolutions : j # p /\ list[k] = resolutions[j]
  BY <1>2, ErasedList
<1> HIDE DEF list
<1>7. SameKeys(list, addr, names, addrs)
  <2>1. ASSUME NEW k \in DOMAIN list
        PROVE  /\ list[k].name \in names /\ list[k].name # query
               /\ list[k].addr \in addrs /\ list[k].addr # addr
               /\ resolution_by_name[list[k].name] = list[k].node
               /\ resolution_by_addr[list[k].addr] = list[k].node
    <3>1. PICK j \in DOMAIN resolutions : j # p /\ list[k] = resolutions[j]
      BY <1>6
    <3>2. /\ resolutions[j].name \in DOMAIN resolution_by_name
          /\ resolutions[j].addr \in DOMAIN resolution_by_addr
          /\ resolution_by_name[resolutions[j].name] = resolutions[j].node
          /\ resolution_by_addr[resolutions[j].addr] = resolutions[j].node
      BY <1>1 DEF MapInv
    <3>3. /\ resolutions[j].name # resolutions[p].name
          /\ resolutions[j].addr # resolutions[p].addr
      BY <1>1, <1>2, <3>1, UniqueKeys
    <3> QED BY <1>2, <1>3, <3>1, <3>2, <3>3
  <2>2. ASSUME NEW m \in names, m # query PROVE \E k \in DOMAIN list : list[k].name = m
    <3>1. PICK j \in DOMAIN resolutions : resolutions[j].name = m
      BY <1>1 DEF MapInv
    <3> QED BY <1>3, <1>6, <2>2, <3>1
  <2>3. ASSUME NEW a \in addrs, a # addr PROVE \E k \in DOMAIN list : list[k].addr = a
    <3>1. PICK j \in DOMAIN resolutions : resolutions[j].addr = a
      BY <1>1 DEF MapInv
    <3> QED BY <1>6, <2>3, <3>1
  <2> QED BY <2>1, <2>2, <2>3 DEF SameKeys
<1>8. /\ addr \in Addresses /\ (RangeSize > 1 => IsInResolvedRange(addr))
      /\ names \in SUBSET Names /\ addrs \in SUBSET Addresses /\ offset' \in 0..subnet
  <2>1. resolutions[p] \in Resolutions
    BY <1>2, ElementOfSeq, LenProperties
  <2>2. addr \in Addresses /\ (RangeSize > 1 => IsInResolvedRange(addr))
    BY <2>1 DEF Resolutions, Inv, RangeInv
  <2> QED BY <1>1, <1>5, <2>2 DEF TableType
<1>9. \A j \in DOMAIN resolutions :
        resolutions[j].addr # addr /\ resolutions[j].age <= kResolutionTtl
          => \E k \in DOMAIN list : list[k] = resolutions[j]
  BY <1>6
<1> HIDE DEF addr, names, addrs
<1> QED BY <1>2, <1>5, <1>6, <1>7, <1>8, <1>9, AnswerKeeps

LEMMA NextOffsetInRange ==
  ASSUME subnet \in ShiftOutcomes, offset \in 0..subnet
  PROVE  NextOffset \in 0..subnet
<1>1. subnet \in Nat /\ offset \in Nat
  BY Sizes, WidthAssumption DEF Addresses
<1> QED BY <1>1 DEF NextOffset

LEMMA AnswerOverwritingKeeps == Inv /\ AnswerOverwriting => Inv'
<1> SUFFICES ASSUME Inv, AnswerOverwriting PROVE Inv'
  OBVIOUS
<1>1. TypeOK /\ ListInv /\ MapInv /\ TableType /\ subnet \in ShiftOutcomes
  BY Types DEF Inv, RangeInv
<1>2. /\ resolutions \in Seq(Resolutions) /\ query \in Names /\ Handling
      /\ query \notin DOMAIN resolution_by_name /\ offset \in 0..subnet
  BY <1>1 DEF TableType, AnswerOverwriting
<1> DEFINE addr == NewAddr
<1>3. PICK p \in DOMAIN resolutions :
        resolutions[p].node = resolution_by_addr[addr] /\ resolutions[p].addr = addr
  BY <1>1 DEF MapInv, AnswerOverwriting
<1> DEFINE list == RemoveAt(resolutions, p)
           names == DOMAIN resolution_by_name \ {resolutions[p].name}
           addrs == DOMAIN resolution_by_addr
<1>4. /\ Node(resolution_by_addr[addr]) = resolutions[p]
      /\ Position(resolution_by_addr[addr]) = p
  BY <1>1, <1>2, <1>3, NodeAt
<1>5. EmplaceBack(list, addr, names, addrs) /\ offset' = NextOffset /\ Answered(addr)
  BY <1>3, <1>4 DEF AnswerOverwriting, Overwrite, Erase
<1>6. /\ IsSublist(list)
      /\ \A j \in DOMAIN resolutions : j # p => \E k \in DOMAIN list : list[k] = resolutions[j]
      /\ \A k \in DOMAIN list : \E j \in DOMAIN resolutions : j # p /\ list[k] = resolutions[j]
  BY <1>2, ErasedList
<1> HIDE DEF list, addr
<1>7. SameKeys(list, addr, names, addrs)
  <2>1. ASSUME NEW k \in DOMAIN list
        PROVE  /\ list[k].name \in names /\ list[k].name # query
               /\ list[k].addr \in addrs /\ list[k].addr # addr
               /\ resolution_by_name[list[k].name] = list[k].node
               /\ resolution_by_addr[list[k].addr] = list[k].node
    <3>1. PICK j \in DOMAIN resolutions : j # p /\ list[k] = resolutions[j]
      BY <1>6
    <3>2. /\ resolutions[j].name \in DOMAIN resolution_by_name
          /\ resolutions[j].addr \in DOMAIN resolution_by_addr
          /\ resolution_by_name[resolutions[j].name] = resolutions[j].node
          /\ resolution_by_addr[resolutions[j].addr] = resolutions[j].node
      BY <1>1 DEF MapInv
    <3>3. /\ resolutions[j].name # resolutions[p].name
          /\ resolutions[j].addr # resolutions[p].addr
      BY <1>1, <1>2, <3>1, UniqueKeys
    <3> QED BY <1>2, <1>3, <3>1, <3>2, <3>3
  <2>2. ASSUME NEW m \in names PROVE \E k \in DOMAIN list : list[k].name = m
    <3>1. PICK j \in DOMAIN resolutions : resolutions[j].name = m
      BY <1>1 DEF MapInv
    <3> QED BY <1>6, <3>1
  <2>3. ASSUME NEW a \in addrs, a # addr PROVE \E k \in DOMAIN list : list[k].addr = a
    <3>1. PICK j \in DOMAIN resolutions : resolutions[j].addr = a
      BY <1>1 DEF MapInv
    <3> QED BY <1>3, <1>6, <2>3, <3>1
  <2> QED BY <2>1, <2>2, <2>3 DEF SameKeys
<1>8. /\ addr \in Addresses /\ (RangeSize > 1 => IsInResolvedRange(addr))
      /\ names \in SUBSET Names /\ addrs \in SUBSET Addresses /\ offset' \in 0..subnet
  BY <1>1, <1>2, <1>5, NewAddrInRange, NextOffsetInRange DEF TableType, addr
<1>9. \A j \in DOMAIN resolutions :
        resolutions[j].addr # addr /\ resolutions[j].age <= kResolutionTtl
          => \E k \in DOMAIN list : list[k] = resolutions[j]
  BY <1>3, <1>6
<1> HIDE DEF names, addrs
<1> QED BY <1>2, <1>5, <1>6, <1>7, <1>8, <1>9, AnswerKeeps

LEMMA AnswerAddingKeeps == Inv /\ AnswerAdding => Inv'
<1> SUFFICES ASSUME Inv, AnswerAdding PROVE Inv'
  OBVIOUS
<1>1. TypeOK /\ ListInv /\ MapInv /\ TableType /\ subnet \in ShiftOutcomes
  BY Types DEF Inv, RangeInv
<1> DEFINE addr == NewAddr
           n == Len(resolutions)
           p == FirstKept
           list == SubSeq(resolutions, p, n)
           names == DOMAIN resolution_by_name \ {r.name : r \in Garbage}
           addrs == DOMAIN resolution_by_addr \ {r.addr : r \in Garbage}
<1>2. /\ resolutions \in Seq(Resolutions) /\ query \in Names /\ Handling
      /\ query \notin DOMAIN resolution_by_name /\ addr \notin DOMAIN resolution_by_addr
      /\ offset \in 0..subnet /\ DOMAIN resolutions = 1..n /\ n \in Nat
      /\ \A i \in 1..n : resolutions[i] \in Resolutions
  BY <1>1, LenProperties, ElementOfSeq DEF TableType, AnswerAdding
<1>3. EmplaceBack(list, addr, names, addrs) /\ offset' = NextOffset /\ Answered(addr)
  BY DEF AnswerAdding, Add
<1>4. /\ p \in 1..(n + 1)
      /\ \A i \in 1..(p - 1) : resolutions[i].age > kResolutionRecycleTime
      /\ IsSublist(list)
      /\ \A j \in p..n : \E k \in DOMAIN list : list[k] = resolutions[j]
      /\ \A k \in DOMAIN list : \E j \in p..n : list[k] = resolutions[j]
  BY <1>2, CollectedList
<1>5. Garbage = {resolutions[i] : i \in 1..(p - 1)}
  BY DEF Garbage
<1> HIDE DEF list, addr, p, n
<1>6. \A j \in 1..n : j \in p..n \/ j \in 1..(p - 1)
  BY <1>2, <1>4
<1>7. ASSUME NEW j \in p..n
      PROVE  /\ j \in DOMAIN resolutions /\ resolutions[j].name \in names
             /\ resolutions[j].addr \in addrs
  <2>1. j \in DOMAIN resolutions
    BY <1>2, <1>4
  <2>2. \A i \in 1..(p - 1) : i \in DOMAIN resolutions /\ i # j
    BY <1>2, <1>4
  <2>3. \A r \in Garbage : r.name # resolutions[j].name /\ r.addr # resolutions[j].addr
    BY <1>1, <1>2, <1>5, <2>1, <2>2, UniqueKeys
  <2> QED BY <1>1, <2>1, <2>3 DEF MapInv
<1>8. SameKeys(list, addr, names, addrs)
  <2>1. ASSUME NEW k \in DOMAIN list
        PROVE  /\ list[k].name \in names /\ list[k].name # query
               /\ list[k].addr \in addrs /\ list[k].addr # addr
               /\ resolution_by_name[list[k].name] = list[k].node
               /\ resolution_by_addr[list[k].addr] = list[k].node
    <3>1. PICK j \in p..n : list[k] = resolutions[j]
      BY <1>4
    <3>2. /\ resolutions[j].name \in DOMAIN resolution_by_name
          /\ resolutions[j].addr \in DOMAIN resolution_by_addr
          /\ resolution_by_name[resolutions[j].name] = resolutions[j].node
          /\ resolution_by_addr[resolutions[j].addr] = resolutions[j].node
      BY <1>1, <1>7 DEF MapInv
    <3> QED BY <1>2, <1>7, <3>1, <3>2
  <2>2. ASSUME NEW m \in names PROVE \E k \in DOMAIN list : list[k].name = m
    <3>1. PICK j \in 1..n : resolutions[j].name = m
      BY <1>1, <1>2 DEF MapInv
    <3>2. j \in p..n
      BY <1>5, <1>6, <3>1
    <3> QED BY <1>4, <3>1, <3>2
  <2>3. ASSUME NEW a \in addrs PROVE \E k \in DOMAIN list : list[k].addr = a
    <3>1. PICK j \in 1..n : resolutions[j].addr = a
      BY <1>1, <1>2 DEF MapInv
    <3>2. j \in p..n
      BY <1>5, <1>6, <3>1
    <3> QED BY <1>4, <3>1, <3>2
  <2> QED BY <2>1, <2>2, <2>3 DEF SameKeys
<1>9. /\ addr \in Addresses /\ (RangeSize > 1 => IsInResolvedRange(addr))
      /\ names \in SUBSET Names /\ addrs \in SUBSET Addresses /\ offset' \in 0..subnet
  BY <1>1, <1>2, <1>3, NewAddrInRange, NextOffsetInRange DEF TableType, addr
<1>10. ASSUME NEW j \in DOMAIN resolutions,
              resolutions[j].addr # addr, resolutions[j].age <= kResolutionTtl
       PROVE  \E k \in DOMAIN list : list[k] = resolutions[j]
  <2>1. j \in 1..n /\ resolutions[j].age \in Int
    BY <1>2, TimesAssumption DEF Resolutions, MaxAge
  <2>2. j \notin 1..(p - 1)
    BY <1>4, <1>10, <2>1, TimesAssumption
  <2> QED BY <1>4, <1>6, <2>1, <2>2
<1> HIDE DEF names, addrs
<1> QED BY <1>2, <1>3, <1>4, <1>8, <1>9, <1>10, AnswerKeeps

\* A unit of time ages the list as it ages the answers, up to MaxAge, which no
\* resolution that an answer needs has reached.
LEMMA TickKeeps == Inv /\ Tick => Inv'
<1> SUFFICES ASSUME Inv, Tick PROVE Inv'
  OBVIOUS
<1>1. /\ TypeOK /\ ListInv /\ MapInv /\ AnswerInv /\ BufferInv /\ RangeInv
      /\ TableType /\ LoopType
  BY Types DEF Inv
<1>2. /\ resolution_by_name' = resolution_by_name /\ resolution_by_addr' = resolution_by_addr
      /\ offset' = offset /\ subnet' = subnet
      /\ operations' = operations /\ call' = call /\ query' = query
  BY DEF Tick
<1> DEFINE n == Len(resolutions)
           Older(age) == IF age = MaxAge THEN age ELSE age + 1
<1>3. /\ resolutions \in Seq(Resolutions) /\ n \in Nat /\ DOMAIN resolutions = 1..n
      /\ \A k \in 1..n : resolutions[k] \in Resolutions
  BY <1>1, LenProperties, ElementOfSeq DEF TableType
<1>4. kResolutionTtl \in Nat /\ MaxAge \in Nat /\ kResolutionTtl < MaxAge
  BY TimesAssumption DEF MaxAge
<1> HIDE DEF n
<1>5. /\ DOMAIN resolutions' = 1..n
      /\ \A k \in 1..n :
           /\ resolutions'[k] \in Resolutions
           /\ resolutions'[k].node = resolutions[k].node
           /\ resolutions'[k].addr = resolutions[k].addr
           /\ resolutions'[k].name = resolutions[k].name
           /\ resolutions'[k].age = Older(resolutions[k].age)
  <2>1. resolutions' = [k \in 1..n |->
          [resolutions[k] EXCEPT !.age = IF @ = MaxAge THEN @ ELSE @ + 1]]
    BY <1>3 DEF Tick
  <2>2. ASSUME NEW k \in 1..n
        PROVE  /\ resolutions'[k] \in Resolutions
               /\ resolutions'[k].node = resolutions[k].node
               /\ resolutions'[k].addr = resolutions[k].addr
               /\ resolutions'[k].name = resolutions[k].name
               /\ resolutions'[k].age = Older(resolutions[k].age)
    <3>1. resolutions'[k] = [resolutions[k] EXCEPT !.age = IF @ = MaxAge THEN @ ELSE @ + 1]
      BY <2>1
    <3>2. resolutions[k] \in Resolutions
      BY <1>3
    <3> QED BY <1>4, <3>1, <3>2 DEF Resolutions
  <2> QED BY <2>1, <2>2
<1>6. \A k \in 1..n : resolutions[k].age \in 0..MaxAge
  BY <1>3 DEF Resolutions
<1>7. resolutions' \in Seq(Resolutions)
  <2>1. resolutions' = [k \in 1..n |-> resolutions'[k]]
    BY <1>3 DEF Tick
  <2> QED BY <1>3, <1>5, <2>1, IsASeq
<1>8. ListInv'
  <2> SUFFICES ASSUME NEW i \in 1..n, NEW j \in 1..n, i < j
               PROVE  /\ resolutions'[i].node # resolutions'[j].node
                      /\ resolutions'[i].age >= resolutions'[j].age
    BY <1>5 DEF ListInv
  <2>1. resolutions[i].node # resolutions[j].node /\ resolutions[i].age >= resolutions[j].age
    BY <1>1, <1>3 DEF ListInv
  <2> QED BY <1>4, <1>5, <1>6, <2>1
<1>9. MapInv'
  <2>1. ASSUME NEW m \in DOMAIN resolution_by_name
        PROVE  \E k \in 1..n : /\ resolutions'[k].node = resolution_by_name[m]
                               /\ resolutions'[k].name = m
    <3>1. PICK k \in 1..n : resolutions[k].node = resolution_by_name[m] /\ resolutions[k].name = m
      BY <1>1, <1>3 DEF MapInv
    <3> QED BY <1>5, <3>1
  <2>2. ASSUME NEW a \in DOMAIN resolution_by_addr
        PROVE  \E k \in 1..n : /\ resolutions'[k].node = resolution_by_addr[a]
                               /\ resolutions'[k].addr = a
    <3>1. PICK k \in 1..n : resolutions[k].node = resolution_by_addr[a] /\ resolutions[k].addr = a
      BY <1>1, <1>3 DEF MapInv
    <3> QED BY <1>5, <3>1
  <2>3. ASSUME NEW k \in 1..n
        PROVE  /\ resolutions'[k].name \in DOMAIN resolution_by_name
               /\ resolutions'[k].addr \in DOMAIN resolution_by_addr
               /\ resolution_by_name[resolutions'[k].name] = resolutions'[k].node
               /\ resolution_by_addr[resolutions'[k].addr] = resolutions'[k].node
    BY <1>1, <1>3, <1>5 DEF MapInv
  <2> QED BY <1>2, <1>5, <2>1, <2>2, <2>3 DEF MapInv
<1>10. /\ answers' = {[a EXCEPT !.age = @ + 1] : a \in {b \in answers : b.age < kResolutionTtl}}
       /\ answers \subseteq [name : Names, addr : Addresses, age : 0..kResolutionTtl]
  BY <1>1 DEF Tick, TableType
<1>11. answers' \subseteq [name : Names, addr : Addresses, age : 0..kResolutionTtl]
  BY <1>4, <1>10
<1>12. AnswerInv'
  <2> SUFFICES ASSUME NEW x \in answers'
               PROVE  \E k \in 1..n :
                        /\ resolutions'[k].addr = x.addr /\ resolutions'[k].age <= x.age
                        /\ [name |-> resolutions'[k].name, addr |-> x.addr,
                            age |-> resolutions'[k].age] \in answers'
    BY <1>5 DEF AnswerInv
  <2>1. PICK b \in answers : b.age < kResolutionTtl /\ x = [b EXCEPT !.age = @ + 1]
    BY <1>10
  <2>2. b.age \in 0..kResolutionTtl /\ x.addr = b.addr /\ x.age = b.age + 1
    BY <1>10, <2>1
  <2>3. PICK k \in 1..n :
          /\ resolutions[k].addr = b.addr /\ resolutions[k].age <= b.age
          /\ [name |-> resolutions[k].name, addr |-> b.addr, age |-> resolutions[k].age] \in answers
    BY <1>1, <1>3 DEF AnswerInv
  <2>4. resolutions[k].age < kResolutionTtl /\ resolutions'[k].age = resolutions[k].age + 1
    BY <1>4, <1>5, <1>6, <2>1, <2>2, <2>3
  <2>5. [name |-> resolutions[k].name, addr |-> b.addr, age |-> resolutions[k].age + 1] \in answers'
    <3>1. PICK c \in answers :
            c = [name |-> resolutions[k].name, addr |-> b.addr, age |-> resolutions[k].age]
      BY <2>3
    <3>2. c.age < kResolutionTtl
      BY <2>4, <3>1
    <3>3. [c EXCEPT !.age = @ + 1] \in answers'
      BY <1>10, <3>2
    <3>4. [c EXCEPT !.age = @ + 1]
            = [name |-> resolutions[k].name, addr |-> b.addr, age |-> resolutions[k].age + 1]
      BY <3>1
    <3> QED BY <3>3, <3>4
  <2>6. resolutions'[k].name = resolutions[k].name /\ resolutions'[k].addr = b.addr
    BY <1>5, <2>3
  <2>7. resolutions'[k].age <= x.age
    BY <1>4, <1>6, <2>2, <2>3, <2>4
  <2> QED BY <2>2, <2>4, <2>5, <2>6, <2>7
<1>13. BufferInv' /\ LoopType'
  BY <1>1, <1>2 DEF BufferInv, LoopType
<1>14. RangeInv' /\ (subnet \in ShiftOutcomes)'
  BY <1>1, <1>2, <1>3, <1>5 DEF RangeInv, IsInResolvedRange
<1>15. TypeOK'
  <2>1. TableType'
    BY <1>1, <1>2, <1>7, <1>11 DEF TableType
  <2> QED BY <1>13, <1>14, <2>1, Types, PTL
<1> QED BY <1>8, <1>9, <1>12, <1>13, <1>14, <1>15 DEF Inv

LEMMA StutterKeeps == Inv /\ UNCHANGED vars => Inv'
<1> SUFFICES ASSUME Inv, UNCHANGED vars PROVE Inv'
  OBVIOUS
<1>1. LoopType' /\ BufferInv'
  BY Types DEF vars, Inv, LoopType, BufferInv
<1>2. UNCHANGED <<tableVars, subnet, answers>>
  BY DEF vars, tableVars
<1> QED BY <1>1, <1>2, TableStays

LEMMA NextKeeps == Inv /\ [Next]_vars => Inv'
BY StartReadingKeeps, DoReadKeeps, OnRecvKeeps, OnSendKeeps, TickKeeps, IgnoreQueryKeeps,
   RefuseQueryKeeps, AnswerKnownKeeps, AnswerOverwritingKeeps, AnswerAddingKeeps, StutterKeeps
   DEF Next

(***************************************************************************)
(* The invariant holds in every state of the resolver, whatever queries    *)
(* arrive and however its garbage collection falls in time.                *)
(***************************************************************************)
THEOREM Invariance == Spec => []Inv
BY InitInv, NextKeeps, PTL DEF Spec

(***************************************************************************)
(* The types, with the offset within the subnet and no age past what the   *)
(* garbage collection tells apart.                                         *)
(***************************************************************************)
THEOREM TypeCorrect == Spec => []TypeOK
<1>1. Inv => TypeOK
  BY DEF Inv
<1> QED BY <1>1, Invariance, PTL

(***************************************************************************)
(* The buffer is received into or sent from or read, never two of these,   *)
(* and one of them goes on.                                                *)
(***************************************************************************)
THEOREM AlwaysOneOperation == Spec => []OneOperation
<1>1. Inv => OneOperation
  <2> SUFFICES ASSUME Inv PROVE OneOperation
    OBVIOUS
  <2>1. CASE call = "none"
    <3>1. PICK o \in {"posted", "recv", "send"} : operations = {o}
      BY <2>1 DEF Inv, BufferInv
    <3>2. Cardinality({o}) = 1
      BY FS_Singleton
    <3> QED BY <2>1, <3>1, <3>2 DEF OneOperation
  <2>2. CASE call # "none"
    <3>1. operations = {}
      BY <2>2 DEF Inv, BufferInv
    <3>2. Cardinality({}) = 0
      BY FS_EmptySet
    <3> QED BY <2>2, <3>1, <3>2 DEF OneOperation
  <2> QED BY <2>1, <2>2
<1> QED BY <1>1, Invariance, PTL

(***************************************************************************)
(* The list and the two maps describe one bijection, in the resolved range *)
(* when the range has more than one address: shifting by the whole width   *)
(* may leave all addresses in it.                                          *)
(***************************************************************************)
THEOREM MapsAlwaysAgree ==
  ASSUME RangeSize > 1
  PROVE  Spec => []MapsAgree
<1>1. Inv => MapsAgree
  <2> SUFFICES ASSUME Inv PROVE MapsAgree
    OBVIOUS
  <2>1. \A r : r \in ToSet(resolutions) <=> \E k \in DOMAIN resolutions : r = resolutions[k]
    BY DEF ToSet
  <2>2. MapInv /\ \A k \in DOMAIN resolutions : IsInResolvedRange(resolutions[k].addr)
    BY DEF Inv, RangeInv
  <2> QED BY <2>1, <2>2 DEF MapInv, MapsAgree
<1> QED BY <1>1, Invariance, PTL

(***************************************************************************)
(* FindNameByAddress knows the address of every answer in use, and         *)
(* translates it into the last name that was given it.                     *)
(***************************************************************************)
THEOREM AnswersAlwaysTranslate == Spec => []AnswersTranslate
<1>1. Inv => AnswersTranslate
  <2> SUFFICES ASSUME Inv, NEW x \in answers
               PROVE  /\ x.addr \in DOMAIN resolution_by_addr
                      /\ \E y \in answers : /\ y.addr = x.addr /\ y.age <= x.age
                                            /\ FindNameByAddress(x.addr) = y.name
    BY DEF AnswersTranslate
  <2>1. PICK k \in DOMAIN resolutions :
          /\ resolutions[k].addr = x.addr /\ resolutions[k].age <= x.age
          /\ [name |-> resolutions[k].name, addr |-> x.addr, age |-> resolutions[k].age] \in answers
    BY DEF Inv, AnswerInv
  <2>2. resolutions[k].addr \in DOMAIN resolution_by_addr
        /\ resolution_by_addr[resolutions[k].addr] = resolutions[k].node
    BY DEF Inv, MapInv
  <2>3. Node(resolutions[k].node) = resolutions[k]
    BY NodeAt, Types DEF Inv, TableType
  <2>4. FindNameByAddress(x.addr) = resolutions[k].name
    BY <2>1, <2>2, <2>3 DEF FindNameByAddress
  <2> QED BY <2>1, <2>2, <2>4
<1> QED BY <1>1, Invariance, PTL

(***************************************************************************)
(* The garbage collection that looks at the front of the list leaves       *)
(* nothing past its time behind it, because the list is in the order of    *)
(* its times: every step that adds an address collects all the garbage.    *)
(***************************************************************************)
THEOREM AlwaysCollectsAll == Spec => CollectsAll
<1> DEFINE A == DOMAIN resolution_by_addr' \subseteq DOMAIN resolution_by_addr \/
                  \A r \in ToSet(resolutions') : r.age <= kResolutionRecycleTime
<1>1. Inv /\ [Next]_vars => [A]_vars
  <2> SUFFICES ASSUME Inv, Next PROVE A
    OBVIOUS
  <2>1. CASE AnswerAdding
    <3> DEFINE addr == NewAddr
               n == Len(resolutions)
               p == FirstKept
               list == SubSeq(resolutions, p, n)
    <3>1. resolutions \in Seq(Resolutions) /\ n \in Nat /\ DOMAIN resolutions = 1..n
          /\ (\A i \in 1..n : resolutions[i] \in Resolutions) /\ ListInv
      BY Types, LenProperties, ElementOfSeq DEF Inv, TableType
    <3>2. /\ p \in 1..(n + 1)
          /\ p \in DOMAIN resolutions => resolutions[p].age <= kResolutionRecycleTime
          /\ IsSublist(list)
          /\ \A k \in DOMAIN list : \E j \in p..n : list[k] = resolutions[j]
      BY <3>1, CollectedList
    <3>3. resolutions' = Append(list, Resolution(FreshNode(list), addr, 0))
      BY <2>1 DEF AnswerAdding, Add, EmplaceBack
    <3> HIDE DEF list, p, n, addr
    <3>4. ASSUME NEW j \in p..n PROVE resolutions[j].age <= kResolutionRecycleTime
      <4>1. p \in 1..n /\ j \in 1..n /\ (p = j \/ p < j)
        BY <3>1, <3>2
      <4>2. resolutions[j].age \in Int /\ resolutions[p].age \in Int
        BY <3>1, <4>1, TimesAssumption DEF Resolutions, MaxAge
      <4>3. resolutions[p].age >= resolutions[j].age
        BY <3>1, <4>1, <4>2 DEF ListInv
      <4> QED BY <3>1, <3>2, <4>1, <4>2, <4>3, TimesAssumption
    <3>5. \A k \in DOMAIN list : list[k].age <= kResolutionRecycleTime
      BY <3>2, <3>4
    <3>6. \A new : /\ DOMAIN Append(list, new) = 1..(Len(list) + 1)
                   /\ DOMAIN list = 1..Len(list) /\ Len(list) \in Nat
                   /\ \A k \in 1..Len(list) : Append(list, new)[k] = list[k]
                   /\ Append(list, new)[Len(list) + 1] = new
      <4> TAKE new
      <4>1. list \in Seq(Resolutions \cup {new})
        BY <3>2 DEF IsSublist
      <4>2. /\ Append(list, new) \in Seq(Resolutions \cup {new})
            /\ Len(Append(list, new)) = Len(list) + 1
            /\ \A k \in 1..Len(list) : Append(list, new)[k] = list[k]
            /\ Append(list, new)[Len(list) + 1] = new
        BY <4>1, AppendProperties
      <4> QED BY <4>1, <4>2, LenProperties
    <3>7. Resolution(FreshNode(list), addr, 0).age = 0
      BY DEF Resolution
    <3>8. \A k \in DOMAIN resolutions' : resolutions'[k].age <= kResolutionRecycleTime
      BY <3>3, <3>5, <3>6, <3>7, TimesAssumption
    <3> QED BY <3>8 DEF ToSet
  <2>2. CASE AnswerKnown
    <3>1. TypeOK /\ ListInv /\ MapInv /\ resolutions \in Seq(Resolutions)
      BY Types DEF Inv, TableType
    <3>2. PICK p \in DOMAIN resolutions : resolutions[p].node = resolution_by_name[query]
      BY <2>2, <3>1 DEF MapInv, AnswerKnown
    <3>3. Node(resolution_by_name[query]) = resolutions[p]
      BY <3>1, <3>2, NodeAt
    <3>4. resolutions[p].addr \in DOMAIN resolution_by_addr
      BY <3>1 DEF MapInv
    <3>5. DOMAIN resolution_by_addr' = DOMAIN resolution_by_addr \cup {resolutions[p].addr}
      BY <2>2, <3>3 DEF AnswerKnown, Refresh, EmplaceBack
    <3> QED BY <3>4, <3>5
  <2>3. CASE AnswerOverwriting
    <3>1. DOMAIN resolution_by_addr' = DOMAIN resolution_by_addr \cup {NewAddr}
      BY <2>3 DEF AnswerOverwriting, Overwrite, EmplaceBack
    <3> QED BY <2>3, <3>1 DEF AnswerOverwriting
  <2>4. CASE \/ StartReading \/ DoRead \/ OnRecv \/ OnSend \/ Tick \/ IgnoreQuery \/ RefuseQuery
    <3>1. resolution_by_addr' = resolution_by_addr
      BY <2>4 DEF StartReading, DoRead, OnRecv, OnSend, Tick, IgnoreQuery, RefuseQuery, tableVars
    <3> QED BY <3>1
  <2> QED BY <2>1, <2>2, <2>3, <2>4 DEF Next
<1> QED BY <1>1, Invariance, PTL DEF Spec, CollectsAll
=============================================================================
