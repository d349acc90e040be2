------------------------------ MODULE ListLemmas ------------------------------
(***************************************************************************)
(* Facts about the lists the models keep (wait lists, queues of requests,  *)
(* of transactions, of tasks and of messages): what they hold after an     *)
(* insertion or a removal, and that an element that occurs once still      *)
(* does.  A set of numbers has a least one, which stands in for induction. *)
(***************************************************************************)
EXTENDS Integers, Sequences, SequencesExt, SequenceTheorems, FiniteSets, TLAPS,
        NaturalsInduction, WellFoundedInduction

(* No element occurs twice. *)
NoDup(s) == \A i, j \in DOMAIN s : s[i] = s[j] => i = j

(* The empty list. *)
LEMMA EmptyList ==
    ToSet(<<>>) = {} /\ NoDup(<<>>)
BY DEF ToSet, NoDup

(* A list that holds nothing is empty. *)
LEMMA NothingInList ==
    ASSUME NEW S, NEW s \in Seq(S)
    PROVE  s = <<>> <=> ToSet(s) = {}
BY DEF ToSet

(* push_back adds the new element and keeps the others. *)
LEMMA AppendList ==
    ASSUME NEW S, NEW s \in Seq(S), NEW x \in S
    PROVE  /\ Append(s, x) \in Seq(S)
           /\ ToSet(Append(s, x)) = ToSet(s) \cup {x}
           /\ NoDup(s) /\ x \notin ToSet(s) => NoDup(Append(s, x))
<1>1. /\ Append(s, x) \in Seq(S)
      /\ Len(Append(s, x)) = Len(s) + 1
      /\ \A i \in 1..Len(s) : Append(s, x)[i] = s[i]
      /\ Append(s, x)[Len(s) + 1] = x
  BY AppendProperties
<1>2. DOMAIN s = 1..Len(s) /\ DOMAIN Append(s, x) = 1..(Len(s) + 1) /\ Len(s) \in Nat
  BY <1>1
<1>3. 1..(Len(s) + 1) = (1..Len(s)) \cup {Len(s) + 1}
  BY <1>2
<1>4. ToSet(Append(s, x)) = ToSet(s) \cup {x}
  BY <1>1, <1>2, <1>3 DEF ToSet
<1>5. NoDup(s) /\ x \notin ToSet(s) => NoDup(Append(s, x))
  BY <1>1, <1>2, <1>3 DEF ToSet, NoDup
<1>6. QED
  BY <1>1, <1>4, <1>5

(* pop_front of a list without duplicates. *)
LEMMA TailList ==
    ASSUME NEW S, NEW s \in Seq(S), s # <<>>
    PROVE  /\ Head(s) \in ToSet(s) /\ Head(s) \in S
           /\ Tail(s) \in Seq(S)
           /\ ToSet(Tail(s)) \subseteq ToSet(s)
           /\ ToSet(s) \ {Head(s)} \subseteq ToSet(Tail(s))
           /\ NoDup(s) => NoDup(Tail(s)) /\ ToSet(Tail(s)) = ToSet(s) \ {Head(s)}
<1>1. /\ Len(s) \in Nat \ {0}
      /\ DOMAIN s = 1..Len(s)
      /\ Head(s) = s[1] /\ Head(s) \in S
      /\ Tail(s) \in Seq(S)
      /\ Len(Tail(s)) = Len(s) - 1
      /\ DOMAIN Tail(s) = 1..(Len(s) - 1)
      /\ \A i \in 1..(Len(s) - 1) : Tail(s)[i] = s[i + 1]
  OBVIOUS
<1>2. \A i \in 2..Len(s) : s[i] = Tail(s)[i - 1] /\ i - 1 \in DOMAIN Tail(s)
  BY <1>1
<1>3. ToSet(Tail(s)) \subseteq ToSet(s)
  BY <1>1 DEF ToSet
<1>4. ToSet(s) \ {Head(s)} \subseteq ToSet(Tail(s))
  <2>1. ASSUME NEW i \in DOMAIN s, s[i] # Head(s)
        PROVE  s[i] \in ToSet(Tail(s))
    <3>1. i \in 2..Len(s)
      BY <1>1, <2>1
    <3>2. QED
      BY <1>2, <3>1 DEF ToSet
  <2>2. QED
    BY <2>1 DEF ToSet
<1>5. ASSUME NoDup(s) PROVE NoDup(Tail(s)) /\ Head(s) \notin ToSet(Tail(s))
  <2>1. NoDup(Tail(s))
    BY <1>1, <1>5 DEF NoDup
  <2>2. QED
    BY <1>1, <1>5, <2>1 DEF NoDup, ToSet
<1>6. Head(s) \in ToSet(s)
  BY <1>1 DEF ToSet
<1>7. QED
  BY <1>1, <1>3, <1>4, <1>5, <1>6

(* Erasing the element at a position. *)
LEMMA RemoveAtList ==
    ASSUME NEW S, NEW s \in Seq(S), NEW k \in DOMAIN s
    PROVE  /\ RemoveAt(s, k) \in Seq(S)
           /\ Len(RemoveAt(s, k)) = Len(s) - 1
           /\ ToSet(RemoveAt(s, k)) \subseteq ToSet(s)
           /\ ToSet(s) \ {s[k]} \subseteq ToSet(RemoveAt(s, k))
           /\ \A i \in 1..(Len(s) - 1) :
                 RemoveAt(s, k)[i] = IF i < k THEN s[i] ELSE s[i + 1]
           /\ NoDup(s) => /\ NoDup(RemoveAt(s, k))
                          /\ ToSet(RemoveAt(s, k)) = ToSet(s) \ {s[k]}
<1> DEFINE a == SubSeq(s, 1, k - 1)
           b == SubSeq(s, k + 1, Len(s))
           r == RemoveAt(s, k)
<1>1. Len(s) \in Nat /\ DOMAIN s = 1..Len(s) /\ k \in 1..Len(s)
  OBVIOUS
<1>2. a \in Seq(S) /\ Len(a) = k - 1 /\ \A i \in 1..(k - 1) : a[i] = s[i]
  BY <1>1
<1>3. /\ b \in Seq(S) /\ Len(b) = Len(s) - k
      /\ \A i \in 1..(Len(s) - k) : b[i] = s[k + i]
  BY <1>1
<1>4. r = a \o b
  BY DEF RemoveAt
<1> HIDE DEF a, b, r
<1>5. /\ r \in Seq(S)
      /\ Len(r) = Len(s) - 1
      /\ DOMAIN r = 1..(Len(s) - 1)
      /\ \A i \in 1..(Len(s) - 1) : r[i] = IF i <= k - 1 THEN a[i] ELSE b[i - (k - 1)]
  <2>1. Len(a) + Len(b) = Len(s) - 1
    BY <1>1, <1>2, <1>3
  <2>2. /\ r \in Seq(S)
        /\ Len(r) = Len(a) + Len(b)
        /\ \A i \in 1..(Len(a) + Len(b)) :
              r[i] = IF i <= Len(a) THEN a[i] ELSE b[i - Len(a)]
    BY <1>2, <1>3, <1>4, ConcatProperties
  <2>3. QED
    BY <1>2, <2>1, <2>2
<1>6. ASSUME NEW i \in 1..(Len(s) - 1)
      PROVE  r[i] = IF i < k THEN s[i] ELSE s[i + 1]
  <2>1. CASE i < k
    BY <1>1, <1>2, <1>5, <2>1
  <2>2. CASE i >= k
    <3>1. r[i] = b[i - (k - 1)] /\ i - (k - 1) \in 1..(Len(s) - k)
      BY <1>1, <1>5, <2>2
    <3>2. k + (i - (k - 1)) = i + 1
      BY <1>1
    <3>3. ~(i < k) /\ b[i - (k - 1)] = s[k + (i - (k - 1))]
      BY <1>1, <1>3, <2>2, <3>1
    <3>4. QED
      BY <3>1, <3>2, <3>3
  <2>3. QED
    BY <1>1, <2>1, <2>2
<1>7. ToSet(r) \subseteq ToSet(s)
  <2>1. \A i \in DOMAIN r : \E j \in DOMAIN s : r[i] = s[j]
    <3>1. \A i \in 1..(Len(s) - 1) : i \in DOMAIN s /\ i + 1 \in DOMAIN s
      BY <1>1
    <3>2. QED
      BY <1>5, <1>6, <3>1
  <2>2. QED
    BY <2>1 DEF ToSet
<1>8. ToSet(s) \ {s[k]} \subseteq ToSet(r)
  <2>1. ASSUME NEW j \in 1..Len(s), j # k
        PROVE  \E i \in 1..(Len(s) - 1) : r[i] = s[j]
    <3>1. CASE j < k
      <4>1. j \in 1..(Len(s) - 1)
        BY <1>1, <3>1
      <4>2. r[j] = s[j]
        BY <1>6, <3>1, <4>1
      <4>3. QED
        BY <4>1, <4>2
    <3>2. CASE j > k
      <4>1. j - 1 \in 1..(Len(s) - 1) /\ ~(j - 1 < k) /\ (j - 1) + 1 = j
        BY <1>1, <3>2
      <4>2. r[j - 1] = s[j]
        BY <1>6, <4>1
      <4>3. QED
        BY <4>1, <4>2
    <3>3. QED
      BY <1>1, <2>1, <3>1, <3>2
  <2>2. \A j \in DOMAIN s : s[j] # s[k] => \E i \in DOMAIN r : s[j] = r[i]
    BY <1>1, <1>5, <2>1
  <2>3. QED
    BY <2>2 DEF ToSet
<1>9. ASSUME NoDup(s) PROVE NoDup(r) /\ s[k] \notin ToSet(r)
  <2>1. DEFINE From(i) == IF i < k THEN i ELSE i + 1
  <2>2. \A i \in DOMAIN r : From(i) \in DOMAIN s /\ r[i] = s[From(i)] /\ From(i) # k
    BY <1>1, <1>5, <1>6
  <2>3. \A i, j \in DOMAIN r : From(i) = From(j) => i = j
    BY <1>1, <1>5
  <2>4. HIDE DEF From
  <2>5. QED
    BY <1>9, <2>2, <2>3 DEF NoDup, ToSet
<1>10. QED
  BY <1>5, <1>6, <1>7, <1>8, <1>9 DEF r

(* Erasing an element that occurs at most once. *)
LEMMA RemoveFirstList ==
    ASSUME NEW S, NEW s \in Seq(S), NoDup(s), NEW x
    PROVE  /\ RemoveFirst(s, x) \in Seq(S)
           /\ NoDup(RemoveFirst(s, x))
           /\ ToSet(RemoveFirst(s, x)) = ToSet(s) \ {x}
<1>1. DOMAIN s = 1..Len(s) /\ Len(s) \in Nat
  OBVIOUS
<1>2. CASE x \notin ToSet(s)
  <2>1. RemoveFirst(s, x) = s
    BY <1>1, <1>2 DEF RemoveFirst, ToSet
  <2>2. QED
    BY <1>2, <2>1
<1>3. CASE x \in ToSet(s)
  <2>1. PICK k \in 1..Len(s) : s[k] = x
    BY <1>1, <1>3 DEF ToSet
  <2>2. {i \in 1..Len(s) : s[i] = x} = {k}
    BY <1>1, <2>1 DEF NoDup
  <2>3. SelectInSeq(s, LAMBDA v : v = x) = Min({k})
    BY <2>2 DEF SelectInSeq
  <2>4. Min({k}) = k
    BY <2>1 DEF Min
  <2>5. RemoveFirst(s, x) = RemoveAt(s, k)
    BY <2>1, <2>3, <2>4 DEF RemoveFirst
  <2>6. QED
    BY <1>1, <2>1, <2>5, RemoveAtList
<1>4. QED
  BY <1>2, <1>3

(* Inserting before position k, or at the end. *)
LEMMA InsertAtList ==
    ASSUME NEW S, NEW s \in Seq(S), NEW k \in 1..(Len(s) + 1), NEW x \in S
    PROVE  /\ InsertAt(s, k, x) \in Seq(S)
           /\ ToSet(InsertAt(s, k, x)) = ToSet(s) \cup {x}
           /\ NoDup(s) /\ x \notin ToSet(s) => NoDup(InsertAt(s, k, x))
<1> DEFINE a == SubSeq(s, 1, k - 1)
           b == SubSeq(s, k, Len(s))
           r == InsertAt(s, k, x)
<1>1. DOMAIN s = 1..Len(s) /\ Len(s) \in Nat /\ k \in Nat /\ k >= 1 /\ k <= Len(s) + 1
  OBVIOUS
<1>2. a \in Seq(S) /\ Len(a) = k - 1 /\ \A i \in 1..(k - 1) : a[i] = s[i]
  BY <1>1, SubSeqProperties
<1>3. b \in Seq(S) /\ Len(b) = Len(s) - k + 1
      /\ \A i \in 1..(Len(s) - k + 1) : b[i] = s[k + i - 1]
  BY <1>1, SubSeqProperties
<1>4. <<x>> \in Seq(S) /\ Len(<<x>>) = 1 /\ <<x>>[1] = x
  OBVIOUS
<1> HIDE DEF a, b
<1>5. /\ a \o <<x>> \in Seq(S) /\ Len(a \o <<x>>) = k
      /\ \A i \in 1..(k - 1) : (a \o <<x>>)[i] = a[i]
      /\ (a \o <<x>>)[k] = x
  <2>1. /\ a \o <<x>> \in Seq(S) /\ Len(a \o <<x>>) = Len(a) + Len(<<x>>)
        /\ \A i \in 1..(Len(a) + Len(<<x>>)) :
              (a \o <<x>>)[i] = IF i <= Len(a) THEN a[i] ELSE <<x>>[i - Len(a)]
    BY <1>2, <1>4, ConcatProperties
  <2>2. QED
    BY <1>1, <1>2, <1>4, <2>1
<1>6. /\ r \in Seq(S) /\ Len(r) = Len(s) + 1
      /\ \A i \in 1..(k - 1) : r[i] = s[i]
      /\ r[k] = x
      /\ \A i \in (k + 1)..(Len(s) + 1) : r[i] = s[i - 1]
  <2>1. r = (a \o <<x>>) \o b
    BY DEF InsertAt, r, a, b
  <2> DEFINE ax == a \o <<x>>
  <2> HIDE DEF r, ax
  <2>2. /\ r \in Seq(S) /\ Len(r) = Len(ax) + Len(b)
        /\ \A i \in 1..(Len(ax) + Len(b)) :
              r[i] = IF i <= Len(ax) THEN ax[i] ELSE b[i - Len(ax)]
    <3>1. ax \in Seq(S) /\ r = ax \o b
      BY <1>5, <2>1 DEF ax
    <3>2. QED
      BY <1>3, <3>1, ConcatProperties
  <2>0. Len(ax) = k /\ \A i \in 1..k : ax[i] = (a \o <<x>>)[i]
    BY <1>5 DEF ax
  <2>3. Len(r) = Len(s) + 1
    BY <1>1, <1>3, <2>0, <2>2
  <2>4. \A i \in 1..k : r[i] = ax[i]
    BY <1>1, <1>3, <2>0, <2>2
  <2>5. \A i \in (k + 1)..(Len(s) + 1) : r[i] = b[i - k]
    BY <1>1, <1>3, <2>0, <2>2
  <2>6. \A i \in (k + 1)..(Len(s) + 1) : i - k \in 1..(Len(s) - k + 1) /\ k + (i - k) - 1 = i - 1
    BY <1>1
  <2>7. \A i \in (k + 1)..(Len(s) + 1) : r[i] = s[i - 1]
    BY <1>3, <2>5, <2>6
  <2>8. \A i \in 1..k : r[i] = (a \o <<x>>)[i]
    BY <2>0, <2>4
  <2>9. r[k] = x /\ \A i \in 1..(k - 1) : r[i] = s[i]
    BY <1>1, <1>2, <1>5, <2>8
  <2>10. QED
    BY <2>2, <2>3, <2>7, <2>9
<1> HIDE DEF r
<1>7. DEFINE From(i) == IF i < k THEN i ELSE i - 1
<1>8. \A i \in (1..(Len(s) + 1)) \ {k} : From(i) \in 1..Len(s) /\ r[i] = s[From(i)]
  BY <1>1, <1>6
<1>9. \A i, j \in (1..(Len(s) + 1)) \ {k} : From(i) = From(j) => i = j
  BY <1>1
<1>10. \A j \in 1..Len(s) : \E i \in (1..(Len(s) + 1)) \ {k} : From(i) = j
  <2>1. SUFFICES ASSUME NEW j \in 1..Len(s)
                 PROVE  \E i \in (1..(Len(s) + 1)) \ {k} : From(i) = j
    OBVIOUS
  <2>2. CASE j < k
    <3>1. j \in (1..(Len(s) + 1)) \ {k} /\ From(j) = j
      BY <1>1, <2>2
    <3>2. QED
      BY <3>1
  <2>3. CASE j >= k
    <3>1. j + 1 \in (1..(Len(s) + 1)) \ {k} /\ From(j + 1) = j
      BY <1>1, <2>3
    <3>2. QED
      BY <3>1
  <2>4. QED
    BY <1>1, <2>2, <2>3
<1>11. k \in DOMAIN r /\ DOMAIN r = 1..(Len(s) + 1)
  BY <1>1, <1>6
<1> HIDE DEF From
<1>12. ToSet(r) = ToSet(s) \cup {x}
  <2>1. \A i \in DOMAIN r : r[i] \in ToSet(s) \cup {x}
    BY <1>1, <1>6, <1>8, <1>11 DEF ToSet
  <2>2. \A j \in DOMAIN s : \E i \in DOMAIN r : r[i] = s[j]
    BY <1>1, <1>8, <1>10, <1>11
  <2>3. QED
    BY <1>6, <1>11, <2>1, <2>2 DEF ToSet
<1>13. NoDup(s) /\ x \notin ToSet(s) => NoDup(r)
  BY <1>1, <1>6, <1>8, <1>9, <1>11 DEF NoDup, ToSet
<1>14. QED
  BY <1>6, <1>12, <1>13 DEF r

(* Lists of one or two elements, taken apart and joined. *)
LEMMA SplitSmall ==
    ASSUME NEW a, NEW b
    PROVE  /\ Head(<<a>>) = a /\ Tail(<<a>>) = <<>>
           /\ Head(<<a, b>>) = a /\ Tail(<<a, b>>) = <<b>>
<1>1. <<a, b>> \in Seq({a, b}) /\ <<b>> \in Seq({a, b})
  OBVIOUS
<1>2. Tail(<<a, b>>) \in Seq({a, b}) /\ Len(Tail(<<a, b>>)) = 1 /\ Tail(<<a, b>>)[1] = b
  BY <1>1
<1>3. Len(<<b>>) = 1 /\ <<b>>[1] = b
  OBVIOUS
<1>4. Tail(<<a, b>>) = <<b>>
  BY <1>1, <1>2, <1>3, SeqEqual
<1>5. QED
  BY <1>4

LEMMA JoinSmall ==
    ASSUME NEW a, NEW b
    PROVE  <<a>> \o <<>> = <<a>> /\ <<a, b>> \o <<>> = <<a, b>> /\ <<a>> \o <<b>> = <<a, b>>
<1>1. <<a>> \in Seq({a, b}) /\ <<b>> \in Seq({a, b}) /\ <<a, b>> \in Seq({a, b})
  OBVIOUS
<1>2. <<a>> \o <<>> = <<a>> /\ <<a, b>> \o <<>> = <<a, b>>
  BY <1>1, ConcatEmptySeq
<1>3. /\ <<a>> \o <<b>> \in Seq({a, b}) /\ Len(<<a>> \o <<b>>) = 2
      /\ (<<a>> \o <<b>>)[1] = a /\ (<<a>> \o <<b>>)[2] = b
  BY <1>1
<1>4. Len(<<a, b>>) = 2 /\ <<a, b>>[1] = a /\ <<a, b>>[2] = b
  OBVIOUS
<1>5. \A i \in 1..2 : (<<a>> \o <<b>>)[i] = <<a, b>>[i]
  BY <1>3, <1>4
<1>6. <<a>> \o <<b>> = <<a, b>>
  BY <1>1, <1>3, <1>4, <1>5, SeqEqual
<1>7. QED
  BY <1>2, <1>6

(* A set of numbers has a least one. *)
LEMMA LeastNumber ==
  ASSUME NEW T, T \subseteq Nat, T # {}
  PROVE  \E x \in T : \A y \in T : x <= y
<1>1. \A x, y \in Nat : <<y, x>> \in OpToRel(<, Nat) <=> y < x
  BY DEF OpToRel
<1>2. PICK R : IsWellFoundedOn(R, Nat) /\ \A x, y \in Nat : <<y, x>> \in R <=> y < x
  BY <1>1, NatLessThanWellFounded, Zenon
<1>3. PICK x \in T : \A y \in T : ~(<<y, x>> \in R)
  BY <1>2, WFMin
<1>4. ASSUME NEW y \in T PROVE x <= y
  <2>1. x \in Nat /\ y \in Nat
    OBVIOUS
  <2>2. ~(y < x)
    BY <1>2, <1>3, <2>1, Zenon
  <2>3. QED
    BY <2>1, <2>2
<1>5. QED
  BY <1>4

(* What stands where after an insertion. *)
LEMMA InsertAtCells ==
    ASSUME NEW S, NEW s \in Seq(S), NEW k \in 1..(Len(s) + 1), NEW x \in S
    PROVE  /\ Len(InsertAt(s, k, x)) = Len(s) + 1
           /\ \A i \in 1..(Len(s) + 1) :
                 InsertAt(s, k, x)[i] = IF i < k THEN s[i] ELSE IF i = k THEN x ELSE s[i - 1]
<1> DEFINE a == SubSeq(s, 1, k - 1)
           b == SubSeq(s, k, Len(s))
           c == a \o <<x>>
<1>1. DOMAIN s = 1..Len(s) /\ Len(s) \in Nat /\ k \in Nat /\ k >= 1 /\ k <= Len(s) + 1
  OBVIOUS
<1>2. a \in Seq(S) /\ Len(a) = k - 1 /\ \A i \in 1..(k - 1) : a[i] = s[i]
  BY <1>1, SubSeqProperties
<1>3. /\ b \in Seq(S) /\ Len(b) = Len(s) - k + 1
      /\ \A i \in 1..(Len(s) - k + 1) : b[i] = s[k + i - 1]
  BY <1>1, SubSeqProperties
<1>4. <<x>> \in Seq(S) /\ Len(<<x>>) = 1 /\ <<x>>[1] = x
  OBVIOUS
<1> HIDE DEF a, b
<1>5. /\ c \in Seq(S) /\ Len(c) = k
      /\ \A i \in 1..k : c[i] = IF i < k THEN s[i] ELSE x
  <2>1. /\ c \in Seq(S) /\ Len(c) = k - 1 + 1
        /\ \A i \in 1..(k - 1 + 1) : c[i] = IF i <= k - 1 THEN a[i] ELSE <<x>>[i - (k - 1)]
    BY <1>2, <1>4, ConcatProperties
  <2> HIDE DEF c
  <2>2. ASSUME NEW i \in 1..k PROVE c[i] = IF i < k THEN s[i] ELSE x
    <3>1. CASE i < k
      BY <1>1, <1>2, <2>1, <3>1, SMTT(30)
    <3>2. CASE i = k
      <4>1. i - (k - 1) = 1 /\ ~(i <= k - 1) /\ i \in 1..(k - 1 + 1)
        BY <1>1, <3>2
      <4>2. c[i] = <<x>>[1]
        BY <2>1, <4>1
      <4>3. QED
        BY <1>1, <1>4, <3>2, <4>2
    <3>3. i < k \/ i = k
      BY <1>1
    <3>4. QED
      BY <3>1, <3>2, <3>3
  <2>3. QED
    BY <1>1, <2>1, <2>2
<1> HIDE DEF c
<1>6. InsertAt(s, k, x) = c \o b
  BY DEF InsertAt, a, b, c
<1>7. /\ Len(c \o b) = Len(c) + Len(b)
      /\ \A i \in 1..(Len(c) + Len(b)) :
            (c \o b)[i] = IF i <= Len(c) THEN c[i] ELSE b[i - Len(c)]
  BY <1>3, <1>5, ConcatProperties
<1>8. Len(c) + Len(b) = Len(s) + 1 /\ Len(c) = k
  BY <1>1, <1>3, <1>5
<1>9. ASSUME NEW i \in 1..(Len(s) + 1)
      PROVE  (c \o b)[i] = IF i < k THEN s[i] ELSE IF i = k THEN x ELSE s[i - 1]
  <2>1. CASE i <= k
    BY <1>1, <1>5, <1>7, <1>8, <2>1
  <2>2. CASE i > k
    <3>1. i - k \in 1..(Len(s) - k + 1) /\ k + (i - k) - 1 = i - 1
      BY <1>1, <2>2
    <3>2. b[i - k] = s[i - 1]
      BY <1>3, <3>1
    <3>3. (c \o b)[i] = b[i - k]
      BY <1>1, <1>7, <1>8, <2>2
    <3>4. ~(i < k) /\ i # k
      BY <1>1, <2>2
    <3>5. QED
      BY <3>2, <3>3, <3>4
  <2>3. i <= k \/ i > k
    BY <1>1
  <2>4. QED
    BY <2>1, <2>2, <2>3
<1>10. QED
  BY <1>6, <1>7, <1>8, <1>9

(* Inserting at the end is push_back. *)
LEMMA InsertAtEnd ==
    ASSUME NEW S, NEW s \in Seq(S), NEW x \in S
    PROVE  InsertAt(s, Len(s) + 1, x) = Append(s, x) /\ s \o <<x>> = Append(s, x)
<1>1. /\ Len(s) \in Nat
      /\ Append(s, x) \in Seq(S) /\ Len(Append(s, x)) = Len(s) + 1
      /\ \A i \in 1..Len(s) : Append(s, x)[i] = s[i]
      /\ Append(s, x)[Len(s) + 1] = x
  BY AppendProperties
<1>2. ASSUME NEW k \in 1..(Len(s) + 1), k = Len(s) + 1
      PROVE  InsertAt(s, k, x) = Append(s, x)
  <2> DEFINE r == InsertAt(s, k, x)
  <2>1. r \in Seq(S)
    BY InsertAtList
  <2>2. /\ Len(r) = Len(s) + 1
        /\ \A i \in 1..(Len(s) + 1) :
              r[i] = IF i < k THEN s[i] ELSE IF i = k THEN x ELSE s[i - 1]
    BY InsertAtCells
  <2> HIDE DEF r
  <2>3. \A i \in 1..(Len(s) + 1) : r[i] = Append(s, x)[i]
    BY <1>1, <1>2, <2>2
  <2>4. r = Append(s, x)
    BY <1>1, <2>1, <2>2, <2>3, SeqEqual
  <2>5. QED
    BY <2>4 DEF r
<1>3. Len(s) + 1 \in 1..(Len(s) + 1)
  BY <1>1
<1>4. s \o <<x>> = Append(s, x)
  OBVIOUS
<1>5. QED
  BY <1>2, <1>3, <1>4
=============================================================================
