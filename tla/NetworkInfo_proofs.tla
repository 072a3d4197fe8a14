------------------------- MODULE NetworkInfo_proofs -------------------------
(***************************************************************************)
(* Proofs about MCNetworkInfo, for any interfaces of any names.            *)
(***************************************************************************)
EXTENDS MCNetworkInfo, OperatorLemmas, SequenceTheorems

(* How many of the first n elements of a sequence are in a set. *)
Upto(s, n, G) == Cardinality({k \in 1..n : s[k] \in G})
Count(s, G) == Upto(s, Len(s), G)

LEMMA UptoType ==
  ASSUME NEW s, NEW n \in Nat, NEW G
  PROVE  /\ Upto(s, n, G) \in Nat /\ Upto(s, 0, G) = 0
         /\ IsFiniteSet({k \in 1..n : s[k] \in G})
<1>1. IsFiniteSet(1..n)
  BY FS_Interval
<1>2. IsFiniteSet({k \in 1..n : s[k] \in G})
  BY <1>1, FS_Subset
<1>3. {k \in 1..0 : s[k] \in G} = {}
  OBVIOUS
<1> QED
  BY <1>2, <1>3, FS_CardinalityType, FS_EmptySet DEF Upto

LEMMA UptoNext ==
  ASSUME NEW s, NEW n \in Nat, NEW G
  PROVE  Upto(s, n + 1, G) = Upto(s, n, G) + (IF s[n + 1] \in G THEN 1 ELSE 0)
<1> DEFINE S == {k \in 1..n : s[k] \in G}
           T == {k \in 1..n + 1 : s[k] \in G}
<1>1. IsFiniteSet(S) /\ Cardinality(S) \in Nat
  <2>1. IsFiniteSet(S)
    BY UptoType
  <2> HIDE DEF S
  <2> QED
    BY <2>1, FS_CardinalityType
<1>2. CASE s[n + 1] \in G
  <2>1. T = S \cup {n + 1} /\ n + 1 \notin S
    BY <1>2
  <2>2. Cardinality(S \cup {n + 1}) = Cardinality(S) + 1
    BY <1>1, <2>1, FS_AddElement
  <2> QED
    BY <1>2, <2>1, <2>2 DEF Upto
<1>3. CASE s[n + 1] \notin G
  <2>1. T = S
    BY <1>3
  <2> QED
    BY <1>1, <1>3, <2>1 DEF Upto
<1> QED
  BY <1>2, <1>3

LEMMA UptoSame ==
  ASSUME NEW s, NEW t, NEW n \in Nat, NEW G, NEW H, \A k \in 1..n : s[k] \in G <=> t[k] \in H
  PROVE  Upto(s, n, G) = Upto(t, n, H)
<1>1. {k \in 1..n : s[k] \in G} = {k \in 1..n : t[k] \in H}
  OBVIOUS
<1> QED
  BY <1>1 DEF Upto

LEMMA CountAppended ==
  ASSUME NEW E, NEW s \in Seq(E), NEW e \in E, NEW G
  PROVE  Count(Append(s, e), G) = Count(s, G) + (IF e \in G THEN 1 ELSE 0)
<1> DEFINE t == Append(s, e)
<1>1. Len(s) \in Nat /\ Len(t) = Len(s) + 1 /\ t[Len(s) + 1] = e
  BY AppendProperties, LenProperties
<1>2. \A k \in 1..Len(s) : t[k] = s[k]
  BY AppendProperties
<1> HIDE DEF t
<1>3. Upto(t, Len(s), G) = Upto(s, Len(s), G)
  BY <1>1, <1>2, UptoSame
<1>4. Upto(t, Len(s) + 1, G) = Upto(t, Len(s), G) + (IF e \in G THEN 1 ELSE 0)
  BY <1>1, UptoNext
<1>5. Count(t, G) = Count(s, G) + (IF e \in G THEN 1 ELSE 0)
  BY <1>1, <1>3, <1>4 DEF Count
<1> QED
  BY <1>5 DEF t

LEMMA CountJoined ==
  ASSUME NEW E, NEW s \in Seq(E), NEW t \in Seq(E), NEW G
  PROVE  s \o t \in Seq(E) /\ Count(s \o t, G) = Count(s, G) + Count(t, G)
<1> DEFINE w == s \o t
<1>0. Len(s) \in Nat /\ Len(t) \in Nat
  BY LenProperties
<1>1. w \in Seq(E) /\ Len(w) = Len(s) + Len(t)
  BY ConcatProperties
<1>2. \A k \in 1..Len(s) + Len(t) : w[k] = IF k <= Len(s) THEN s[k] ELSE t[k - Len(s)]
  BY ConcatProperties
<1> HIDE DEF w
<1> DEFINE Good == {n \in Nat : n <= Len(t) =>
                      Upto(w, Len(s) + n, G) = Count(s, G) + Upto(t, n, G)}
<1>3. 0 \in Good
  <2>1. \A k \in 1..Len(s) : w[k] = s[k]
    BY <1>0, <1>2
  <2>2. Upto(w, Len(s), G) = Upto(s, Len(s), G)
    <3>1. \A k \in 1..Len(s) : w[k] \in G <=> s[k] \in G
      BY <2>1
    <3> QED
      BY <1>0, <3>1, UptoSame
  <2>3. Upto(t, 0, G) = 0 /\ Count(s, G) \in Nat
    BY <1>0, UptoType DEF Count
  <2> QED
    BY <1>0, <2>2, <2>3 DEF Count
<1>4. ASSUME NEW n \in Nat, n \in Good
      PROVE  n + 1 \in Good
  <2> SUFFICES ASSUME n + 1 <= Len(t)
               PROVE  Upto(w, Len(s) + (n + 1), G) = Count(s, G) + Upto(t, n + 1, G)
    OBVIOUS
  <2>1. w[(Len(s) + n) + 1] = t[n + 1]
    <3>1. (Len(s) + n) + 1 \in 1..Len(s) + Len(t) /\ ~ ((Len(s) + n) + 1 <= Len(s))
      BY <1>0
    <3>2. (Len(s) + n) + 1 - Len(s) = n + 1
      BY <1>0
    <3> QED
      BY <1>2, <3>1, <3>2
  <2>2. Upto(w, Len(s) + n, G) = Count(s, G) + Upto(t, n, G)
    BY <1>0, <1>4
  <2>3. Upto(w, (Len(s) + n) + 1, G)
          = Upto(w, Len(s) + n, G) + (IF t[n + 1] \in G THEN 1 ELSE 0)
    <3>1. Len(s) + n \in Nat
      BY <1>0
    <3> QED
      BY <2>1, <3>1, UptoNext
  <2>4. Upto(t, n + 1, G) = Upto(t, n, G) + (IF t[n + 1] \in G THEN 1 ELSE 0)
    BY UptoNext
  <2>5. Count(s, G) \in Nat /\ Upto(t, n, G) \in Nat
    BY <1>0, UptoType DEF Count
  <2>6. Len(s) + (n + 1) = (Len(s) + n) + 1
    BY <1>0
  <2> QED
    BY <2>2, <2>3, <2>4, <2>5, <2>6
<1> HIDE DEF Good
<1>5. \A n \in Nat : n \in Good
  BY <1>3, <1>4, NatSetInduction
<1>6. Count(w, G) = Count(s, G) + Count(t, G)
  BY <1>0, <1>1, <1>5 DEF Good, Count
<1> QED
  BY <1>1, <1>6 DEF w

(* Sequences of elements of E, of which only that of x, if any, has some of G. *)
SequencesOf(seqs, S, E) == seqs \in [S -> Seq(E)]
OnlyOf(seqs, S, G, x) == \A k \in S : k # x => Count(seqs[k], G) = 0

(* The sequences joined have as many of G as that one. *)
LEMMA FlattenCount ==
  ASSUME NEW E, NEW N \in Nat, NEW seqs, SequencesOf(seqs, 1..N, E),
         NEW G, NEW m \in 1..N + 1, OnlyOf(seqs, 1..N, G, m)
  PROVE  /\ FlattenSeq(seqs) \in Seq(E)
         /\ Count(FlattenSeq(seqs), G) = IF m \in 1..N THEN Count(seqs[m], G) ELSE 0
<1> USE DEF SequencesOf, OnlyOf
<1>0. seqs \in Seq(Seq(E)) /\ Len(seqs) = N
  OBVIOUS
<1>1. CASE N = 0
  <2>1. seqs = <<>> /\ Len(seqs) = 0
    BY <1>0, <1>1
  <2>2. FlattenSeq(seqs) = <<>>
    BY <2>1 DEF FlattenSeq
  <2>3. Count(<<>>, G) = 0
    BY UptoType, EmptySeq DEF Count
  <2> QED
    BY <1>1, <2>2, <2>3, EmptySeq
<1>2. CASE N # 0
  <2> DEFINE g == CHOOSE g : Joins(g, seqs, N)
  <2>1. Joins(g, seqs, N)
    BY JoinsExist
  <2>2. FlattenSeq(seqs) = g[N]
    BY <1>0, <1>2 DEF FlattenSeq, Joins
  <2> HIDE DEF g
  <2>3. \A i \in 1..N : g[i] = IF i = 1 THEN seqs[i] ELSE g[i - 1] \o seqs[i]
    BY <2>1 DEF Joins
  <2> DEFINE Good == {n \in Nat : n + 1 \in 1..N =>
                 /\ g[n + 1] \in Seq(E)
                 /\ Count(g[n + 1], G) = IF m <= n + 1 THEN Count(seqs[m], G) ELSE 0}
  <2>4. 0 \in Good
    BY <1>2, <2>3
  <2>5. ASSUME NEW n \in Nat, n \in Good
        PROVE  n + 1 \in Good
    <3> SUFFICES ASSUME (n + 1) + 1 \in 1..N
                 PROVE  /\ g[(n + 1) + 1] \in Seq(E)
                        /\ Count(g[(n + 1) + 1], G)
                             = IF m <= (n + 1) + 1 THEN Count(seqs[m], G) ELSE 0
      OBVIOUS
    <3>1. n + 1 \in 1..N /\ (n + 1) + 1 - 1 = n + 1 /\ (n + 1) + 1 # 1
      OBVIOUS
    <3>2. g[(n + 1) + 1] = g[n + 1] \o seqs[(n + 1) + 1]
      <4>1. PICK j : j = (n + 1) + 1
        OBVIOUS
      <4>2. j \in 1..N /\ j # 1 /\ j - 1 = n + 1
        BY <4>1
      <4>3. g[j] = g[j - 1] \o seqs[j]
        BY <2>3, <4>2
      <4> QED
        BY <4>1, <4>2, <4>3
    <3>3. /\ g[n + 1] \in Seq(E)
          /\ Count(g[n + 1], G) = IF m <= n + 1 THEN Count(seqs[m], G) ELSE 0
      BY <2>5, <3>1
    <3>4. seqs[(n + 1) + 1] \in Seq(E)
      OBVIOUS
    <3>5. /\ g[(n + 1) + 1] \in Seq(E)
          /\ Count(g[(n + 1) + 1], G) = Count(g[n + 1], G) + Count(seqs[(n + 1) + 1], G)
      BY <3>2, <3>3, <3>4, CountJoined
    <3>6. m \in 1..N => Count(seqs[m], G) \in Nat
      BY UptoType, LenProperties DEF Count
    <3>7. CASE m <= n + 1
      BY <3>3, <3>5, <3>6, <3>7
    <3>8. CASE m = (n + 1) + 1
      BY <3>3, <3>5, <3>6, <3>8
    <3>9. CASE m > (n + 1) + 1
      BY <3>3, <3>5, <3>9
    <3> QED
      BY <3>7, <3>8, <3>9
  <2> HIDE DEF Good
  <2>6. \A n \in Nat : n \in Good
    BY <2>4, <2>5, NatSetInduction
  <2>7. N - 1 \in Good /\ N - 1 + 1 = N
    BY <1>2, <2>6
  <2> QED
    BY <1>2, <2>2, <2>7 DEF Good
<1> QED
  BY <1>1, <1>2
-----------------------------------------------------------------------------
(* The lists the host gives, interface by interface. *)

LEMMA Numbered ==
  ASSUME NEW P, IsFiniteSet(P)
  PROVE  /\ Cardinality(P) \in Nat /\ SetToSeq(P) \in [1..Cardinality(P) -> P]
         /\ \A a, b \in 1..Cardinality(P) : SetToSeq(P)[a] = SetToSeq(P)[b] => a = b
         /\ \A x \in P : \E k \in 1..Cardinality(P) : SetToSeq(P)[k] = x
<1> DEFINE N == 1..Cardinality(P)
           f == SetToSeq(P)
<1>1. \E g \in [N -> P] : \A a, b \in N : g[a] = g[b] => a = b
  BY Enumeration
<1>2. \E g \in [N -> P] : IsInjective(g)
  BY <1>1 DEF IsInjective
<1>3. f \in [N -> P] /\ IsInjective(f)
  BY <1>2 DEF SetToSeq
<1> HIDE DEF f
<1>4. \A a, b \in N : f[a] = f[b] => a = b
  BY <1>3 DEF IsInjective
<1>5. Cardinality(P) \in Nat /\ \A x \in P : \E k \in N : f[k] = x
  BY <1>3, <1>4, Enumeration
<1> QED
  BY <1>3, <1>4, <1>5 DEF f

(* The lists of the members of P, one after the other. *)
Listed(F, P) == FlattenSeq([k \in 1..Cardinality(P) |-> F[SetToSeq(P)[k]]])

(* Of the lists of the members of P joined, of which only that of x has     *)
(* elements of G, the whole has as many as that one, if x is a member.      *)
LEMMA ListedEach ==
  ASSUME NEW P, IsFiniteSet(P), NEW E, NEW F, SequencesOf(F, P, E),
         NEW G, NEW x, OnlyOf(F, P, G, x)
  PROVE  /\ Listed(F, P) \in Seq(E)
         /\ Count(Listed(F, P), G) = IF x \in P THEN Count(F[x], G) ELSE 0
<1> DEFINE N == Cardinality(P)
           seqs == [k \in 1..N |-> F[SetToSeq(P)[k]]]
<1>1. /\ N \in Nat /\ \A k \in 1..N : SetToSeq(P)[k] \in P
      /\ \A a, b \in 1..N : SetToSeq(P)[a] = SetToSeq(P)[b] => a = b
      /\ \A y \in P : \E k \in 1..N : SetToSeq(P)[k] = y
  BY Numbered
<1>2. /\ SequencesOf(seqs, 1..N, E)
      /\ \A k \in 1..N : seqs[k] = F[SetToSeq(P)[k]]
  BY <1>1 DEF SequencesOf
<1>3. CASE x \in P
  <2>1. PICK m \in 1..N : SetToSeq(P)[m] = x
    BY <1>1, <1>3
  <2>2. OnlyOf(seqs, 1..N, G, m)
    BY <1>1, <1>2, <2>1 DEF OnlyOf
  <2>3. m \in 1..N + 1 /\ seqs[m] = F[x]
    BY <1>1, <1>2, <2>1
  <2>5. N \in Nat /\ SequencesOf(seqs, 1..N, E)
    BY <1>1, <1>2
  <2> HIDE DEF N, seqs
  <2>4. /\ FlattenSeq(seqs) \in Seq(E)
        /\ Count(FlattenSeq(seqs), G) = IF m \in 1..N THEN Count(seqs[m], G) ELSE 0
    BY <2>2, <2>3, <2>5, FlattenCount
  <2> QED
    BY <1>3, <2>3, <2>4 DEF N, seqs, Listed
<1>4. CASE x \notin P
  <2>1. PICK m : m = N + 1
    OBVIOUS
  <2>2. m \in 1..N + 1 /\ m \notin 1..N
    BY <1>1, <2>1
  <2>3. OnlyOf(seqs, 1..N, G, m)
    BY <1>1, <1>2, <1>4 DEF OnlyOf
  <2> HIDE DEF N, seqs
  <2>4. /\ FlattenSeq(seqs) \in Seq(E)
        /\ Count(FlattenSeq(seqs), G) = IF m \in 1..N THEN Count(seqs[m], G) ELSE 0
    BY <1>1, <1>2, <2>2, <2>3, FlattenCount
  <2> QED
    BY <1>4, <2>2, <2>4 DEF N, seqs, Listed
<1> QED
  BY <1>3, <1>4

Families == {"inet", "inet6", "packet", "null"}

\* The IPv4 addresses of i among the entries of getifaddrs.
Inet(i) == {[of |-> i, family |-> "inet"]}
InetFamilies(i) == {n \in 1..Len(i.families) : i.families[n] = "inet"}

LEMMA AddressListFacts ==
  ASSUME present \subseteq Interfaces
  PROVE  /\ AddressList \in Seq([of : present, family : Families])
         /\ \A i \in Interfaces :
              Count(AddressList, Inet(i)) = IF i \in present THEN Cardinality(InetFamilies(i)) ELSE 0
<1> DEFINE E == [of : present, family : Families]
           F == [i \in present |-> Entries(i)]
<1>1. IsFiniteSet(present) /\ \A i \in Interfaces : i.families \in Seq(Families)
  BY FS_Subset, NetworkAssumption DEF Families
<1>2. \A i \in Interfaces : Len(i.families) \in Nat
  BY <1>1, LenProperties
<1>3. \A i \in present : Entries(i) \in Seq(E)
  <2> SUFFICES ASSUME NEW i \in present
               PROVE  Entries(i) \in Seq(E)
    OBVIOUS
  <2>1. i.families \in Seq(Families) /\ Len(i.families) \in Nat
    BY <1>1, <1>2
  <2>2. \A n \in 1..Len(i.families) : i.families[n] \in Families
    BY <2>1, ElementOfSeq
  <2>3. Entries(i) \in [1..Len(i.families) -> E]
    BY <2>2 DEF Entries
  <2> QED
    <3>1. PICK n \in Nat : n = Len(i.families)
      BY <2>1
    <3>2. Entries(i) \in [1..n -> E]
      BY <2>3, <3>1
    <3> HIDE DEF E
    <3>3. \A f \in [1..n -> E] : f \in Seq(E)
      BY SeqDef
    <3> QED
      BY <3>2, <3>3
<1>4. SequencesOf(F, present, E)
  BY <1>3 DEF SequencesOf
<1>5. ASSUME NEW i \in Interfaces, NEW j \in present
      PROVE  Count(Entries(j), Inet(i)) = IF i = j THEN Cardinality(InetFamilies(j)) ELSE 0
  <2>1. Len(j.families) \in Nat
    BY <1>2
  <2>2. Len(Entries(j)) = Len(j.families)
    BY <2>1 DEF Entries
  <2>3. \A n \in 1..Len(j.families) :
          Entries(j)[n] \in Inet(i) <=> i = j /\ j.families[n] = "inet"
    BY DEF Entries, Inet
  <2>4. {n \in 1..Len(j.families) : Entries(j)[n] \in Inet(i)}
          = IF i = j THEN InetFamilies(j) ELSE {}
    BY <2>3 DEF InetFamilies
  <2> QED
    BY <2>2, <2>4, FS_EmptySet DEF Count, Upto
<1>6. AddressList = Listed(F, present)
  <2>1. \A k \in 1..Cardinality(present) : Entries(SetToSeq(present)[k]) = F[SetToSeq(present)[k]]
    BY <1>1, Numbered
  <2>2. [k \in 1..Cardinality(present) |-> Entries(SetToSeq(present)[k])]
          = [k \in 1..Cardinality(present) |-> F[SetToSeq(present)[k]]]
    BY <2>1
  <2> QED
    BY <2>2 DEF AddressList, Listed
<1>7. ASSUME NEW i \in Interfaces
      PROVE  /\ AddressList \in Seq(E)
             /\ Count(AddressList, Inet(i)) = IF i \in present THEN Cardinality(InetFamilies(i)) ELSE 0
  <2>1. OnlyOf(F, present, Inet(i), i)
    BY <1>5 DEF OnlyOf
  <2>2. i \in present => Count(F[i], Inet(i)) = Cardinality(InetFamilies(i))
    BY <1>5
  <2> HIDE DEF E, F
  <2> QED
    BY <1>1, <1>4, <1>6, <2>1, <2>2, ListedEach
<1>8. AddressList \in Seq(E)
  <2>1. \A y \in present : Count(F[y], {}) = 0
    BY FS_EmptySet DEF Count, Upto
  <2> HIDE DEF E, F
  <2>3. OnlyOf(F, present, {}, {})
    BY <2>1 DEF OnlyOf
  <2>4. Listed(F, present) \in Seq(E)
    BY <1>1, <1>4, <2>3, ListedEach
  <2> QED
    BY <1>6, <2>4
<1> QED
  BY <1>7, <1>8

\* The message with the counters of i.
Types == {"RTM_IFINFO2", "RTM_NEWADDR"}
Message(t, i, c) == [type |-> t, of |-> i, stat |-> c[i]]
Link(i, c) == {Message("RTM_IFINFO2", i, c)}

LEMMA SameLists ==
  /\ Linux!AddressList = AddressList /\ MacOS!AddressList = AddressList
  /\ present \subseteq Interfaces =>
       MacOS!Messages = Listed([i \in present |-> MacOS!MessagesOf(i)], present)
<1>1. \A seqs : Linux!FlattenSeq(seqs) = FlattenSeq(seqs) /\ MacOS!FlattenSeq(seqs) = FlattenSeq(seqs)
  BY DEF FlattenSeq, Linux!FlattenSeq, MacOS!FlattenSeq
<1>2. \A S : /\ Linux!Cardinality(S) = Cardinality(S) /\ MacOS!Cardinality(S) = Cardinality(S)
              /\ Linux!SetToSeq(S) = SetToSeq(S) /\ MacOS!SetToSeq(S) = SetToSeq(S)
  <2>1. \A S : Linux!Cardinality(S) = Cardinality(S) /\ MacOS!Cardinality(S) = Cardinality(S)
    BY DEF Cardinality, Linux!Cardinality, MacOS!Cardinality
  <2>2. \A f : Linux!IsInjective(f) = IsInjective(f) /\ MacOS!IsInjective(f) = IsInjective(f)
    BY DEF IsInjective, Linux!IsInjective, MacOS!IsInjective
  <2> QED
    BY <2>1, <2>2 DEF SetToSeq, Linux!SetToSeq, MacOS!SetToSeq
<1>3. \A i : Linux!Entries(i) = Entries(i) /\ MacOS!Entries(i) = Entries(i)
  BY DEF Entries, Linux!Entries, MacOS!Entries
<1>4. Linux!AddressList = AddressList /\ MacOS!AddressList = AddressList
  BY <1>1, <1>2, <1>3 DEF AddressList, Linux!AddressList, MacOS!AddressList
<1>5. ASSUME present \subseteq Interfaces
      PROVE  MacOS!Messages = Listed([i \in present |-> MacOS!MessagesOf(i)], present)
  <2> DEFINE F == [i \in present |-> MacOS!MessagesOf(i)]
  <2>1. IsFiniteSet(present)
    BY <1>5, FS_Subset, NetworkAssumption
  <2>2. \A k \in 1..Cardinality(present) : MacOS!MessagesOf(SetToSeq(present)[k]) = F[SetToSeq(present)[k]]
    BY <2>1, Numbered
  <2>3. [k \in 1..Cardinality(present) |-> MacOS!MessagesOf(SetToSeq(present)[k])]
          = [k \in 1..Cardinality(present) |-> F[SetToSeq(present)[k]]]
    BY <2>2
  <2> QED
    BY <1>1, <1>2, <2>3 DEF Listed, MacOS!Messages
<1> QED
  BY <1>4, <1>5

LEMMA MessagesFacts ==
  ASSUME present \subseteq Interfaces
  PROVE  /\ MacOS!Messages \in Seq({Message(t, i, counter) : t \in Types, i \in present})
         /\ \A i \in Interfaces :
              Count(MacOS!Messages, Link(i, counter)) = IF i \in present THEN 1 ELSE 0
<1> DEFINE E == {Message(t, i, counter) : t \in Types, i \in present}
           F == [i \in present |-> MacOS!MessagesOf(i)]
<1>1. IsFiniteSet(present) /\ MacOS!Messages = Listed(F, present)
  BY FS_Subset, NetworkAssumption, SameLists
<1>2. ASSUME NEW i \in present
      PROVE  /\ Len(i.families) \in Nat
             /\ F[i] \in [1..Len(i.families) + 1 -> E]
             /\ \A n \in 1..Len(i.families) + 1 :
                  F[i][n] = Message(IF n = 1 THEN "RTM_IFINFO2" ELSE "RTM_NEWADDR", i, counter)
  <2>1. Len(i.families) \in Nat
    BY NetworkAssumption, LenProperties
  <2>2. F[i] = [n \in 1..Len(i.families) + 1 |->
                  Message(IF n = 1 THEN "RTM_IFINFO2" ELSE "RTM_NEWADDR", i, counter)]
    BY DEF Message, MacOS!MessagesOf
  <2>3. \A n \in 1..Len(i.families) + 1 :
          Message(IF n = 1 THEN "RTM_IFINFO2" ELSE "RTM_NEWADDR", i, counter) \in E
    BY DEF Types
  <2> HIDE DEF E, F
  <2> QED
    BY <2>1, <2>2, <2>3
<1>3. SequencesOf(F, present, E)
  <2>1. ASSUME NEW i \in present
        PROVE  F[i] \in Seq(E)
    <3>1. PICK n \in Nat : n = Len(i.families) + 1
      BY <1>2
    <3>2. F[i] \in [1..n -> E]
      BY <1>2, <3>1
    <3> HIDE DEF E, F
    <3>3. \A f \in [1..n -> E] : f \in Seq(E)
      BY SeqDef
    <3> QED
      BY <3>2, <3>3
  <2> HIDE DEF E
  <2> QED
    BY <2>1 DEF SequencesOf
<1>4. ASSUME NEW i \in Interfaces, NEW j \in present
      PROVE  Count(F[j], Link(i, counter)) = IF i = j THEN 1 ELSE 0
  <2>1. PICK n \in Nat : n = Len(j.families) + 1
    BY <1>2
  <2>2. Len(F[j]) = n
    BY <1>2, <2>1
  <2>3. \A k \in 1..n : F[j][k] \in Link(i, counter) <=> i = j /\ k = 1
    <3>1. \A k \in 1..n : F[j][k] = Message(IF k = 1 THEN "RTM_IFINFO2" ELSE "RTM_NEWADDR", j, counter)
      BY <1>2, <2>1
    <3>2. ASSUME NEW t
          PROVE  Message(t, j, counter) \in Link(i, counter) <=> i = j /\ t = "RTM_IFINFO2"
      BY DEF Link, Message
    <3> HIDE DEF F
    <3> QED
      BY <3>1, <3>2
  <2>4. 1 \in 1..n
    BY <1>2, <2>1
  <2>5. {k \in 1..n : F[j][k] \in Link(i, counter)} = IF i = j THEN {1} ELSE {}
    BY <2>3, <2>4
  <2> QED
    BY <2>2, <2>5, FS_EmptySet, FS_Singleton DEF Count, Upto
<1> HIDE DEF E, F
<1>5. ASSUME NEW i \in Interfaces
      PROVE  Count(MacOS!Messages, Link(i, counter)) = IF i \in present THEN 1 ELSE 0
  <2>1. OnlyOf(F, present, Link(i, counter), i)
    BY <1>4 DEF OnlyOf
  <2>2. Count(Listed(F, present), Link(i, counter))
          = IF i \in present THEN Count(F[i], Link(i, counter)) ELSE 0
    BY <1>1, <1>3, <2>1, ListedEach
  <2> QED
    BY <1>1, <1>4, <2>2
<1>6. MacOS!Messages \in Seq(E)
  <2>1. \A y \in present : Count(F[y], {}) = 0
    BY FS_EmptySet DEF Count, Upto
  <2>2. OnlyOf(F, present, {}, {})
    BY <2>1 DEF OnlyOf
  <2> QED
    BY <1>1, <1>3, <2>2, ListedEach
<1> QED
  BY <1>5, <1>6 DEF E
-----------------------------------------------------------------------------
(* The host: the counters of an interface that stays only grow, and its    *)
(* bytes by no more than its packets carry.                                *)

Fits(b, p, b0, p0) == b - b0 <= MTU * (p - p0)

HostKept ==
  /\ same \subseteq present /\ present \subseteq Interfaces
  /\ counter \in [Interfaces -> [Stat -> Nat]] /\ since \in [Interfaces -> [Stat -> Nat]]
  /\ \A i \in same : \A s \in Stat : since[i][s] <= counter[i][s]
  /\ \A i \in same :
       /\ Fits(counter[i]["rx_bytes"], counter[i]["rx_packets"],
               since[i]["rx_bytes"], since[i]["rx_packets"])
       /\ Fits(counter[i]["tx_bytes"], counter[i]["tx_packets"],
               since[i]["tx_bytes"], since[i]["tx_packets"])

\* What a step of the host does, to whoever reads it.
HostGrows ==
  /\ since' = since /\ same' \subseteq same
  /\ \A i \in same' : \A s \in Stat : counter[i][s] <= counter'[i][s]

LEMMA SameHost ==
  /\ (Linux!HostInit <=> HostInit) /\ (MacOS!HostInit <=> HostInit)
  /\ (Linux!HostStep <=> HostStep) /\ (MacOS!HostStep <=> HostStep)
  /\ (Linux!Taken <=> Taken) /\ (MacOS!Taken <=> Taken)
<1>1. /\ Linux!Stat = Stat /\ MacOS!Stat = Stat
      /\ Linux!ZeroStats = ZeroStats /\ MacOS!ZeroStats = ZeroStats
  BY DEF Stat, Linux!Stat, MacOS!Stat, ZeroStats, Linux!ZeroStats, MacOS!ZeroStats
<1>2. /\ (Linux!HostInit <=> HostInit) /\ (MacOS!HostInit <=> HostInit)
  BY <1>1 DEF HostInit, Linux!HostInit, MacOS!HostInit
<1>3. (Linux!Packet <=> Packet) /\ (MacOS!Packet <=> Packet)
  BY DEF Packet, Linux!Packet, MacOS!Packet, Happens, Linux!Happens, MacOS!Happens
<1>4. (Linux!Mishap <=> Mishap) /\ (MacOS!Mishap <=> Mishap)
  BY DEF Mishap, Linux!Mishap, MacOS!Mishap, Happens, Linux!Happens, MacOS!Happens
<1>5. (Linux!Vanish <=> Vanish) /\ (MacOS!Vanish <=> Vanish)
  BY DEF Vanish, Linux!Vanish, MacOS!Vanish, Happens, Linux!Happens, MacOS!Happens
<1>6. (Linux!Appear <=> Appear) /\ (MacOS!Appear <=> Appear)
  BY <1>1 DEF Appear, Linux!Appear, MacOS!Appear, Happens, Linux!Happens, MacOS!Happens
<1>7. (Linux!Taken <=> Taken) /\ (MacOS!Taken <=> Taken)
  BY DEF Taken, Linux!Taken, MacOS!Taken
<1> QED
  BY <1>2, <1>3, <1>4, <1>5, <1>6, <1>7 DEF HostStep, Linux!HostStep, MacOS!HostStep

LEMMA HostKeptInit ==
  ASSUME HostInit
  PROVE  HostKept
<1>1. ZeroStats \in [Stat -> Nat]
  BY DEF ZeroStats
<1> QED
  BY <1>1 DEF HostInit, HostKept

\* The list is taken.
LEMMA HostTaken ==
  ASSUME HostKept, Taken, UNCHANGED <<present, counter>>
  PROVE  HostKept'
<1>1. ASSUME NEW i \in present
      PROVE  /\ \A s \in Stat : counter[i][s] <= counter[i][s]
             /\ Fits(counter[i]["rx_bytes"], counter[i]["rx_packets"],
                     counter[i]["rx_bytes"], counter[i]["rx_packets"])
             /\ Fits(counter[i]["tx_bytes"], counter[i]["tx_packets"],
                     counter[i]["tx_bytes"], counter[i]["tx_packets"])
  <2>1. \A s \in Stat : counter[i][s] \in Nat
    BY DEF HostKept
  <2>2. \A b, p \in Nat : Fits(b, p, b, p)
    BY NetworkAssumption DEF Fits
  <2> QED
    BY <2>1, <2>2 DEF Stat
<1> QED
  BY <1>1 DEF HostKept, Taken

\* One packet more carries no more than one packet can.
LEMMA FitsMore ==
  ASSUME NEW b \in Nat, NEW p \in Nat, NEW b0 \in Nat, NEW p0 \in Nat, NEW more \in Nat,
         Fits(b, p, b0, p0)
  PROVE  /\ more <= MTU => Fits(b + more, p + 1, b0, p0)
         /\ \A q \in Nat : q >= p => Fits(b, q, b0, p0)
<1>1. MTU \in Nat
  BY NetworkAssumption
<1>2. \A x \in Int : MTU * (x + 1) = MTU * x + MTU
  BY <1>1
<1>3. more <= MTU => Fits(b + more, p + 1, b0, p0)
  <2>1. MTU * ((p - p0) + 1) = MTU * (p - p0) + MTU /\ MTU * (p - p0) \in Int
    BY <1>1, <1>2
  <2>2. p + 1 - p0 = (p - p0) + 1
    OBVIOUS
  <2> QED
    BY <1>1, <2>1, <2>2 DEF Fits
<1>4. ASSUME NEW q \in Nat, q >= p
      PROVE  Fits(b, q, b0, p0)
  <2>1. \A x, y \in Int : x <= y => MTU * x <= MTU * y
    BY <1>1
  <2>2. MTU * (p - p0) <= MTU * (q - p0) /\ MTU * (p - p0) \in Int /\ MTU * (q - p0) \in Int
    BY <1>1, <1>4, <2>1
  <2> QED
    BY <2>2 DEF Fits
<1> QED
  BY <1>3, <1>4

LEMMA PacketGrows ==
  ASSUME HostKept, NEW i \in present, NEW b \in Stat, NEW p \in Stat, NEW size \in {1, MTU},
         \/ b = "rx_bytes" /\ p = "rx_packets"
         \/ b = "tx_bytes" /\ p = "tx_packets",
         counter' = [counter EXCEPT ![i][b] = @ + size, ![i][p] = @ + 1],
         UNCHANGED <<present, same, since>>
  PROVE  HostKept' /\ HostGrows
<1>1. size \in Nat /\ size <= MTU
  BY NetworkAssumption
<1>2. b # p /\ i \in Interfaces
  BY DEF HostKept
<1>3. /\ \A j \in Interfaces : j # i => counter'[j] = counter[j]
      /\ counter'[i][b] = counter[i][b] + size
      /\ counter'[i][p] = counter[i][p] + 1
      /\ \A s \in Stat : s # b /\ s # p => counter'[i][s] = counter[i][s]
  BY <1>2 DEF HostKept
<1>4. \A j \in Interfaces : \A s \in Stat : counter[j][s] \in Nat /\ since[j][s] \in Nat
  BY DEF HostKept
<1>5. counter' \in [Interfaces -> [Stat -> Nat]]
  <2>1. counter[i][b] + size \in Nat /\ counter[i][p] + 1 \in Nat
    BY <1>1, <1>2, <1>4
  <2> QED
    BY <1>2, <2>1 DEF HostKept
<1>6. ASSUME NEW j \in Interfaces, NEW s \in Stat
      PROVE  counter[j][s] <= counter'[j][s]
  <2>1. counter[j][s] \in Nat
    BY <1>4
  <2>2. CASE j # i \/ (s # b /\ s # p)
    <3>1. counter'[j][s] = counter[j][s]
      BY <1>3, <2>2
    <3> QED
      BY <2>1, <3>1
  <2>3. CASE j = i /\ s = b
    BY <1>1, <1>3, <2>1, <2>3
  <2>4. CASE j = i /\ s = p
    BY <1>3, <2>1, <2>4
  <2> QED
    BY <2>2, <2>3, <2>4
<1>7. ASSUME NEW j \in same, NEW s \in Stat
      PROVE  since[j][s] <= counter'[j][s]
  <2>1. j \in Interfaces /\ since[j][s] <= counter[j][s]
    BY DEF HostKept
  <2>2. counter'[j][s] \in Nat /\ counter[j][s] \in Nat /\ since[j][s] \in Nat
    BY <1>4, <1>5, <2>1
  <2>3. counter[j][s] <= counter'[j][s]
    BY <1>6, <2>1
  <2> QED
    BY <2>1, <2>2, <2>3
<1>8. ASSUME NEW j \in same
      PROVE  /\ Fits(counter'[j]["rx_bytes"], counter'[j]["rx_packets"],
                     since[j]["rx_bytes"], since[j]["rx_packets"])
             /\ Fits(counter'[j]["tx_bytes"], counter'[j]["tx_packets"],
                     since[j]["tx_bytes"], since[j]["tx_packets"])
  <2>0. j \in Interfaces
    BY DEF HostKept
  <2>1. /\ "rx_bytes" \in Stat /\ "rx_packets" \in Stat
        /\ "tx_bytes" \in Stat /\ "tx_packets" \in Stat
    BY DEF Stat
  <2>2. /\ Fits(counter[j]["rx_bytes"], counter[j]["rx_packets"],
                since[j]["rx_bytes"], since[j]["rx_packets"])
        /\ Fits(counter[j]["tx_bytes"], counter[j]["tx_packets"],
                since[j]["tx_bytes"], since[j]["tx_packets"])
    BY DEF HostKept
  <2>3. CASE i # j
    <3>1. counter'[j] = counter[j]
      BY <1>3, <2>0, <2>3
    <3> QED
      BY <2>2, <3>1
  <2>4. CASE i = j /\ b = "rx_bytes" /\ p = "rx_packets"
    <3>1. /\ counter'[j]["rx_bytes"] = counter[j]["rx_bytes"] + size
          /\ counter'[j]["rx_packets"] = counter[j]["rx_packets"] + 1
          /\ counter'[j]["tx_bytes"] = counter[j]["tx_bytes"]
          /\ counter'[j]["tx_packets"] = counter[j]["tx_packets"]
      BY <1>3, <2>1, <2>4
    <3>2. Fits(counter[j]["rx_bytes"] + size, counter[j]["rx_packets"] + 1,
               since[j]["rx_bytes"], since[j]["rx_packets"])
      BY <1>1, <1>4, <2>0, <2>1, <2>2, FitsMore
    <3> QED
      BY <2>2, <3>1, <3>2
  <2>5. CASE i = j /\ b = "tx_bytes" /\ p = "tx_packets"
    <3>1. /\ counter'[j]["tx_bytes"] = counter[j]["tx_bytes"] + size
          /\ counter'[j]["tx_packets"] = counter[j]["tx_packets"] + 1
          /\ counter'[j]["rx_bytes"] = counter[j]["rx_bytes"]
          /\ counter'[j]["rx_packets"] = counter[j]["rx_packets"]
      BY <1>3, <2>1, <2>5
    <3>2. Fits(counter[j]["tx_bytes"] + size, counter[j]["tx_packets"] + 1,
               since[j]["tx_bytes"], since[j]["tx_packets"])
      BY <1>1, <1>4, <2>0, <2>1, <2>2, FitsMore
    <3> QED
      BY <2>2, <3>1, <3>2
  <2> QED
    BY <2>3, <2>4, <2>5
<1>9. HostGrows
  BY <1>6 DEF HostGrows, HostKept
<1> QED
  BY <1>5, <1>7, <1>8, <1>9 DEF HostKept

LEMMA HostStepKept ==
  ASSUME HostKept, HostStep
  PROVE  HostKept' /\ HostGrows
<1>0. \A j \in Interfaces : \A s \in Stat : counter[j][s] \in Nat /\ since[j][s] \in Nat
  BY DEF HostKept
<1>1. CASE Packet
  <2>1. PICK i \in present, d \in {[b |-> "rx_bytes", p |-> "rx_packets"],
                                   [b |-> "tx_bytes", p |-> "tx_packets"]}, size \in {1, MTU} :
          counter' = [counter EXCEPT ![i][d.b] = @ + size, ![i][d.p] = @ + 1]
    BY <1>1 DEF Packet
  <2>2. UNCHANGED <<present, same, since>>
    BY <1>1 DEF Packet, Happens
  <2>3. /\ d.b \in Stat /\ d.p \in Stat
        /\ \/ d.b = "rx_bytes" /\ d.p = "rx_packets"
           \/ d.b = "tx_bytes" /\ d.p = "tx_packets"
    BY DEF Stat
  <2> QED
    BY <2>1, <2>2, <2>3, PacketGrows
<1>2. CASE Mishap
  <2>1. PICK i \in present, s \in {"rx_errors", "tx_errors", "rx_dropped", "tx_dropped"} :
          counter' = [counter EXCEPT ![i][s] = @ + 1]
    BY <1>2 DEF Mishap
  <2>2. UNCHANGED <<present, same, since>>
    BY <1>2 DEF Mishap, Happens
  <2>3. i \in Interfaces /\ s \in Stat
    BY DEF HostKept, Stat
  <2>4. counter' \in [Interfaces -> [Stat -> Nat]]
    BY <1>0, <2>1, <2>3 DEF HostKept
  <2>5. \A j \in Interfaces : \A r \in Stat :
          counter'[j][r] = IF j = i /\ r = s THEN counter[j][r] + 1 ELSE counter[j][r]
    BY <2>1, <2>3 DEF HostKept
  <2>6. \A j \in Interfaces : \A r \in Stat : counter[j][r] <= counter'[j][r]
    BY <1>0, <2>5
  <2>7. \A j \in Interfaces : \A r \in {"rx_bytes", "tx_bytes", "rx_packets", "tx_packets"} :
          counter'[j][r] = counter[j][r]
    BY <2>5 DEF Stat
  <2>8. ASSUME NEW j \in same, NEW r \in Stat
        PROVE  since[j][r] <= counter'[j][r]
    <3>1. j \in Interfaces /\ since[j][r] <= counter[j][r]
      BY DEF HostKept
    <3>2. counter'[j][r] \in Nat /\ counter[j][r] \in Nat /\ since[j][r] \in Nat
      BY <1>0, <2>4, <3>1
    <3> QED
      BY <2>6, <3>1, <3>2
  <2>9. HostGrows
    BY <2>2, <2>6 DEF HostGrows, HostKept
  <2>10. \A j \in same : j \in Interfaces
    BY DEF HostKept
  <2> QED
    BY <2>2, <2>4, <2>7, <2>8, <2>9, <2>10 DEF HostKept
<1>3. CASE Vanish \/ Appear
  <2>1. same' \subseteq same /\ same' \subseteq present' /\ present' \subseteq Interfaces /\ since' = since
    BY <1>3 DEF Vanish, Appear, Happens, HostKept
  <2>2. ZeroStats \in [Stat -> Nat]
    BY DEF ZeroStats
  <2>3. counter' \in [Interfaces -> [Stat -> Nat]] /\ \A j \in same : counter'[j] = counter[j]
    BY <1>3, <2>2 DEF Vanish, Appear, HostKept
  <2>4. \A j \in same : j \in Interfaces /\ \A s \in Stat : counter[j][s] <= counter[j][s]
    BY <1>0 DEF HostKept
  <2>5. HostGrows
    BY <2>1, <2>3, <2>4 DEF HostGrows
  <2> QED
    BY <2>1, <2>3, <2>5 DEF HostKept
<1> QED
  BY <1>1, <1>2, <1>3 DEF HostStep
-----------------------------------------------------------------------------
(* The Linux reader. *)

LEMMA StatsOrder ==
  /\ Len(Linux!Stats) = 8
  /\ Linux!Stats[1] = "rx_bytes" /\ Linux!Stats[2] = "tx_bytes"
  /\ Linux!Stats[3] = "rx_packets" /\ Linux!Stats[4] = "tx_packets"
  /\ \A k \in 1..8 : Linux!Stats[k] \in Stat
  /\ \A k, l \in 1..8 : Linux!Stats[k] = Linux!Stats[l] => k = l
  /\ \A s \in Stat : \E k \in 1..8 : Linux!Stats[k] = s
BY DEF Linux!Stats, Stat

(* The first k - 1 statistics of a row, read while the counters went from   *)
(* one value to the other.  Once the bytes are read, the packets that are   *)
(* still to be read can only be more.                                       *)
Filled(stat, k, from, to) ==
  /\ \A j \in 1..8 : j < k => /\ from[Linux!Stats[j]] <= stat[Linux!Stats[j]]
                              /\ stat[Linux!Stats[j]] <= to[Linux!Stats[j]]
  /\ k > 1 => Fits(stat["rx_bytes"], IF k > 3 THEN stat["rx_packets"] ELSE to["rx_packets"],
                   from["rx_bytes"], from["rx_packets"])
  /\ k > 2 => Fits(stat["tx_bytes"], IF k > 4 THEN stat["tx_packets"] ELSE to["tx_packets"],
                   from["tx_bytes"], from["tx_packets"])

LEMMA FilledGrows ==
  ASSUME NEW stat \in [Stat -> Nat], NEW from \in [Stat -> Nat], NEW to \in [Stat -> Nat],
         NEW later \in [Stat -> Nat], \A s \in Stat : to[s] <= later[s],
         NEW k \in 1..9, Filled(stat, k, from, to)
  PROVE  Filled(stat, k, from, later)
<1>0. /\ "rx_bytes" \in Stat /\ "rx_packets" \in Stat
      /\ "tx_bytes" \in Stat /\ "tx_packets" \in Stat
  BY DEF Stat
<1>1. ASSUME NEW j \in 1..8, j < k
      PROVE  /\ from[Linux!Stats[j]] <= stat[Linux!Stats[j]]
             /\ stat[Linux!Stats[j]] <= later[Linux!Stats[j]]
  <2>1. PICK s \in Stat : s = Linux!Stats[j]
    BY StatsOrder
  <2>2. from[s] <= stat[s] /\ stat[s] <= to[s] /\ to[s] <= later[s]
    BY <1>1, <2>1 DEF Filled
  <2>3. stat[s] \in Nat /\ to[s] \in Nat /\ later[s] \in Nat
    OBVIOUS
  <2>4. stat[s] <= later[s]
    BY <2>2, <2>3
  <2> QED
    BY <2>1, <2>2, <2>4
<1>2. ASSUME k > 1
      PROVE  Fits(stat["rx_bytes"], IF k > 3 THEN stat["rx_packets"] ELSE later["rx_packets"],
                  from["rx_bytes"], from["rx_packets"])
  <2>1. CASE k > 3
    BY <1>2, <2>1 DEF Filled
  <2>2. CASE ~ (k > 3)
    <3>1. Fits(stat["rx_bytes"], to["rx_packets"], from["rx_bytes"], from["rx_packets"])
      BY <1>2, <2>2 DEF Filled
    <3>2. /\ stat["rx_bytes"] \in Nat /\ to["rx_packets"] \in Nat /\ from["rx_bytes"] \in Nat
          /\ from["rx_packets"] \in Nat /\ later["rx_packets"] \in Nat
          /\ later["rx_packets"] >= to["rx_packets"]
      BY <1>0
    <3> QED
      BY <2>2, <3>1, <3>2, FitsMore
  <2> QED
    BY <2>1, <2>2
<1>3. ASSUME k > 2
      PROVE  Fits(stat["tx_bytes"], IF k > 4 THEN stat["tx_packets"] ELSE later["tx_packets"],
                  from["tx_bytes"], from["tx_packets"])
  <2>1. CASE k > 4
    BY <1>3, <2>1 DEF Filled
  <2>2. CASE ~ (k > 4)
    <3>1. Fits(stat["tx_bytes"], to["tx_packets"], from["tx_bytes"], from["tx_packets"])
      BY <1>3, <2>2 DEF Filled
    <3>2. /\ stat["tx_bytes"] \in Nat /\ to["tx_packets"] \in Nat /\ from["tx_bytes"] \in Nat
          /\ from["tx_packets"] \in Nat /\ later["tx_packets"] \in Nat
          /\ later["tx_packets"] >= to["tx_packets"]
      BY <1>0
    <3> QED
      BY <2>2, <3>1, <3>2, FitsMore
  <2> QED
    BY <2>1, <2>2
<1> QED
  BY <1>1, <1>2, <1>3 DEF Filled

LEMMA FilledNext ==
  ASSUME NEW stat \in [Stat -> Nat], NEW from \in [Stat -> Nat], NEW to \in [Stat -> Nat],
         NEW k \in 1..8, Filled(stat, k, from, to), \A s \in Stat : from[s] <= to[s],
         Fits(to["rx_bytes"], to["rx_packets"], from["rx_bytes"], from["rx_packets"]),
         Fits(to["tx_bytes"], to["tx_packets"], from["tx_bytes"], from["tx_packets"])
  PROVE  Filled([stat EXCEPT ![Linux!Stats[k]] = to[Linux!Stats[k]]], k + 1, from, to)
<1> DEFINE next == [stat EXCEPT ![Linux!Stats[k]] = to[Linux!Stats[k]]]
<1>0. /\ "rx_bytes" \in Stat /\ "rx_packets" \in Stat
      /\ "tx_bytes" \in Stat /\ "tx_packets" \in Stat
  BY DEF Stat
<1>1. next[Linux!Stats[k]] = to[Linux!Stats[k]]
  BY StatsOrder
<1>2. \A s \in Stat : s # Linux!Stats[k] => next[s] = stat[s]
  OBVIOUS
<1> HIDE DEF next
<1>3. ASSUME NEW j \in 1..8, j < k + 1
      PROVE  /\ from[Linux!Stats[j]] <= next[Linux!Stats[j]]
             /\ next[Linux!Stats[j]] <= to[Linux!Stats[j]]
  <2>1. CASE j = k
    <3>1. PICK s \in Stat : s = Linux!Stats[j]
      BY StatsOrder
    <3>2. next[s] = to[s] /\ from[s] <= to[s] /\ to[s] \in Nat
      BY <1>1, <2>1, <3>1
    <3> QED
      BY <3>1, <3>2
  <2>2. CASE j < k
    <3>1. next[Linux!Stats[j]] = stat[Linux!Stats[j]]
      BY <1>2, <2>2, StatsOrder
    <3> QED
      BY <2>2, <3>1 DEF Filled
  <2> QED
    BY <1>3, <2>1, <2>2
<1>4. /\ k = 1 <=> Linux!Stats[k] = "rx_bytes"
      /\ k = 2 <=> Linux!Stats[k] = "tx_bytes"
      /\ k = 3 <=> Linux!Stats[k] = "rx_packets"
      /\ k = 4 <=> Linux!Stats[k] = "tx_packets"
  BY StatsOrder
<1>5. Fits(next["rx_bytes"], IF k + 1 > 3 THEN next["rx_packets"] ELSE to["rx_packets"],
           from["rx_bytes"], from["rx_packets"])
  <2>1. CASE k = 1
    BY <1>1, <1>4, <2>1
  <2>2. CASE k = 2
    BY <1>0, <1>2, <1>4, <2>2 DEF Filled
  <2>3. CASE k = 3
    BY <1>0, <1>1, <1>2, <1>4, <2>3 DEF Filled
  <2>4. CASE k > 3
    BY <1>0, <1>2, <1>4, <2>4 DEF Filled
  <2> QED
    BY <2>1, <2>2, <2>3, <2>4
<1>6. ASSUME k > 1
      PROVE  Fits(next["tx_bytes"], IF k + 1 > 4 THEN next["tx_packets"] ELSE to["tx_packets"],
                  from["tx_bytes"], from["tx_packets"])
  <2>1. CASE k = 2
    BY <1>1, <1>4, <2>1
  <2>2. CASE k = 3
    BY <1>0, <1>2, <1>4, <2>2 DEF Filled
  <2>3. CASE k = 4
    BY <1>0, <1>1, <1>2, <1>4, <2>3 DEF Filled
  <2>4. CASE k > 4
    BY <1>0, <1>2, <1>4, <2>4 DEF Filled
  <2> QED
    BY <1>6, <2>1, <2>2, <2>3, <2>4
<1>7. Filled(next, k + 1, from, to)
  BY <1>3, <1>5, <1>6 DEF Filled
<1> QED
  BY <1>7 DEF next

(* Growth of the host keeps what was read of an interface that stays. *)
LEMMA FilledKept ==
  ASSUME HostKept, HostKept', HostGrows, NEW i \in same', NEW stat \in [Stat -> Nat],
         NEW k \in 1..9, Filled(stat, k, since[i], counter[i])
  PROVE  i \in same /\ Filled(stat, k, since'[i], counter'[i])
<1>1. i \in Interfaces /\ i \in same
  BY DEF HostKept, HostGrows
<1>2. since[i] \in [Stat -> Nat] /\ counter[i] \in [Stat -> Nat] /\ counter'[i] \in [Stat -> Nat]
  BY <1>1 DEF HostKept
<1>3. since'[i] = since[i] /\ \A s \in Stat : counter[i][s] <= counter'[i][s]
  BY DEF HostGrows
<1>4. Filled(stat, k, since[i], counter'[i])
  BY <1>2, <1>3, FilledGrows
<1> QED
  BY <1>1, <1>3, <1>4

(* The same of a row some of whose files were refused: what was read, with  *)
(* 0 in the refused columns.                                                *)
Masks(stat, refused, full) == \A s \in Stat : stat[s] = IF s \in refused THEN 0 ELSE full[s]

ReadSoFar(stat, refused, k, from, to) ==
  /\ \A j \in 1..8 : Linux!Stats[j] \in refused => j < k
  /\ \E full \in [Stat -> Nat] : Filled(full, k, from, to) /\ Masks(stat, refused, full)

LEMMA ReadKept ==
  ASSUME HostKept, HostKept', HostGrows, NEW i \in same', NEW stat, NEW refused,
         NEW k \in 1..9, ReadSoFar(stat, refused, k, since[i], counter[i])
  PROVE  i \in same /\ ReadSoFar(stat, refused, k, since'[i], counter'[i])
<1>1. PICK full \in [Stat -> Nat] :
        Filled(full, k, since[i], counter[i]) /\ Masks(stat, refused, full)
  BY DEF ReadSoFar
<1>2. i \in same /\ Filled(full, k, since'[i], counter'[i])
  BY <1>1, FilledKept
<1> QED
  BY <1>1, <1>2 DEF ReadSoFar

LEMMA ReadNext ==
  ASSUME NEW stat \in [Stat -> Nat], NEW refused, NEW from \in [Stat -> Nat],
         NEW to \in [Stat -> Nat], NEW k \in 1..8, ReadSoFar(stat, refused, k, from, to),
         \A s \in Stat : from[s] <= to[s],
         Fits(to["rx_bytes"], to["rx_packets"], from["rx_bytes"], from["rx_packets"]),
         Fits(to["tx_bytes"], to["tx_packets"], from["tx_bytes"], from["tx_packets"])
  PROVE  /\ ReadSoFar([stat EXCEPT ![Linux!Stats[k]] = to[Linux!Stats[k]]], refused, k + 1, from, to)
         /\ ReadSoFar([stat EXCEPT ![Linux!Stats[k]] = 0], refused \cup {Linux!Stats[k]}, k + 1, from, to)
<1>1. PICK c : c = Linux!Stats[k]
  OBVIOUS
<1>2. PICK full \in [Stat -> Nat] : Filled(full, k, from, to) /\ Masks(stat, refused, full)
  BY DEF ReadSoFar
<1>3. PICK more : more = [full EXCEPT ![c] = to[c]]
  OBVIOUS
<1>4. c \in Stat /\ c \notin refused
  BY <1>1, StatsOrder DEF ReadSoFar
<1>5. /\ more \in [Stat -> Nat] /\ more[c] = to[c]
      /\ \A s \in Stat : s # c => more[s] = full[s]
  BY <1>3, <1>4
<1>6. Filled(more, k + 1, from, to)
  BY <1>1, <1>2, <1>3, FilledNext
<1>7. Masks([stat EXCEPT ![c] = to[c]], refused, more)
  BY <1>2, <1>4, <1>5 DEF Masks
<1>8. Masks([stat EXCEPT ![c] = 0], refused \cup {c}, more)
  BY <1>2, <1>4, <1>5 DEF Masks
<1>9. \A j \in 1..8 : Linux!Stats[j] \in refused \cup {c} => j < k + 1
  <2>1. \A j \in 1..8 : Linux!Stats[j] \in refused => j < k
    BY DEF ReadSoFar
  <2>2. \A j \in 1..8 : Linux!Stats[j] = c => j = k
    BY <1>1, StatsOrder
  <2>3. \A j \in 1..8 : j < k \/ j = k => j < k + 1
    OBVIOUS
  <2> QED
    BY <2>1, <2>2, <2>3
<1> QED
  BY <1>1, <1>5, <1>6, <1>7, <1>8, <1>9 DEF ReadSoFar

LinuxRows ==
  [of : Interfaces, ipv4_address : BOOLEAN, speed_mbps : Int, stat : [Stat -> Nat],
   refused : SUBSET Stat]
RowsOf(i) == {r \in LinuxRows : r.of = i}

(* The list, and the rows for the entries before the one at hand. *)
LinuxList ==
  /\ ifaddr \in Seq([of : Interfaces, family : Families]) /\ ifa \in 1..Len(ifaddr) + 1
  /\ \A i \in Interfaces : Count(networks, RowsOf(i)) = Upto(ifaddr, ifa - 1, Inet(i))
  /\ \A i \in same : Count(ifaddr, Inet(i)) = Cardinality(InetFamilies(i))

(* The row at hand is of the entry at hand. *)
LinuxRow ==
  /\ ifa <= Len(ifaddr) /\ ifaddr[ifa].family = "inet"
  /\ info \in LinuxRows /\ info.of = ifaddr[ifa].of
  /\ pc = "speed" => info.refused = {}
  /\ \A k \in 1..8 : pc = Linux!Stats[k] /\ info.of \in same =>
       ReadSoFar(info.stat, info.refused, k, since[info.of], counter[info.of])

(* Its rows are complete. *)
LinuxFound ==
  /\ networks \in Seq(LinuxRows)
  /\ \A n \in 1..Len(networks) : networks[n].of \in same =>
       ReadSoFar(networks[n].stat, networks[n].refused, 9,
                 since[networks[n].of], counter[networks[n].of])

LinuxKept ==
  /\ HostKept /\ LinuxFound
  /\ pc \in {"getifaddrs", "entry", "speed", "done", "failed", "thrown"} \cup Stat
  /\ pc = "getifaddrs" => ifa = 1 /\ networks = <<>>
  /\ pc \in {"entry", "speed"} \cup Stat => LinuxList
  /\ pc \in {"speed"} \cup Stat => LinuxRow
  /\ pc = "done" => \A i \in same : Count(networks, RowsOf(i)) = Cardinality(InetFamilies(i))

LEMMA LinuxKeptInit ==
  ASSUME Linux!Init
  PROVE  LinuxKept
<1>1. HostKept
  BY SameHost, HostKeptInit DEF Linux!Init
<1>2. pc = "getifaddrs" /\ ifa = 1 /\ networks = <<>>
  BY DEF Linux!Init
<1>3. networks \in Seq(LinuxRows) /\ Len(networks) = 0
  BY <1>2, EmptySeq
<1> QED
  BY <1>1, <1>2, <1>3 DEF LinuxKept, LinuxFound, Stat

(* A step of the host, between any two of the scan. *)
LEMMA LinuxHostKept ==
  ASSUME LinuxKept, HostKept', HostGrows, UNCHANGED <<pc, ifaddr, ifa, info, networks>>
  PROVE  LinuxKept'
<1>0. HostKept /\ LinuxFound /\ same' \subseteq same
  BY DEF LinuxKept, HostGrows
<1>1. LinuxFound'
  <2>1. ASSUME NEW n \in 1..Len(networks), networks[n].of \in same'
        PROVE  ReadSoFar(networks[n].stat, networks[n].refused, 9,
                         since'[networks[n].of], counter'[networks[n].of])
    <3>2. PICK i, stat, r : i = networks[n].of /\ stat = networks[n].stat /\ r = networks[n].refused
      OBVIOUS
    <3>3. i \in same' /\ i \in same
      BY <1>0, <2>1, <3>2
    <3>4. ReadSoFar(stat, r, 9, since[i], counter[i])
      BY <1>0, <3>2, <3>3 DEF LinuxFound
    <3>5. ReadSoFar(stat, r, 9, since'[i], counter'[i])
      BY <1>0, <3>3, <3>4, ReadKept
    <3> QED
      BY <3>2, <3>5
  <2> QED
    BY <1>0, <2>1 DEF LinuxFound
<1>2. LinuxList => LinuxList'
  BY <1>0 DEF LinuxList
<1>3. ASSUME LinuxRow
      PROVE  LinuxRow'
  <2>1. ASSUME NEW k \in 1..8, pc = Linux!Stats[k], info.of \in same'
        PROVE  ReadSoFar(info.stat, info.refused, k, since'[info.of], counter'[info.of])
    <3>1. PICK i, stat, r : i = info.of /\ stat = info.stat /\ r = info.refused
      OBVIOUS
    <3>2. i \in same' /\ i \in same
      BY <1>0, <2>1, <3>1
    <3>3. ReadSoFar(stat, r, k, since[i], counter[i]) /\ k \in 1..9
      BY <1>3, <2>1, <3>1, <3>2 DEF LinuxRow
    <3>4. ReadSoFar(stat, r, k, since'[i], counter'[i])
      BY <1>0, <3>2, <3>3, ReadKept
    <3> QED
      BY <3>1, <3>4
  <2> QED
    BY <1>3, <2>1 DEF LinuxRow
<1> QED
  BY <1>0, <1>1, <1>2, <1>3 DEF LinuxKept

LEMMA LinuxGetIfAddrsKept ==
  ASSUME LinuxKept, Linux!GetIfAddrs
  PROVE  LinuxKept'
<1>0. /\ pc = "getifaddrs" /\ ifa = 1 /\ networks = <<>> /\ HostKept
      /\ UNCHANGED <<present, counter, ifa, networks>>
  BY DEF LinuxKept, Linux!GetIfAddrs, Linux!hostVars
<1>1. LinuxFound'
  <2>1. networks' \in Seq(LinuxRows) /\ Len(networks') = 0
    BY <1>0, EmptySeq
  <2> QED
    BY <2>1 DEF LinuxFound
<1>2. CASE pc' = "failed" /\ UNCHANGED <<since, same>>
  <2>1. HostKept'
    BY <1>0, <1>2 DEF HostKept
  <2> QED
    BY <1>1, <1>2, <2>1 DEF LinuxKept, Stat
<1>3. CASE pc' = "entry" /\ ifaddr' = AddressList /\ Taken
  <2>1. HostKept'
    BY <1>0, <1>3, HostTaken
  <2>2. present \subseteq Interfaces /\ same' = present
    BY <1>0, <1>3 DEF HostKept, Taken
  <2>3. /\ ifaddr' \in Seq([of : present, family : Families])
        /\ \A i \in Interfaces :
             Count(ifaddr', Inet(i)) = IF i \in present THEN Cardinality(InetFamilies(i)) ELSE 0
    BY <1>3, <2>2, AddressListFacts
  <2>4. ifaddr' \in Seq([of : Interfaces, family : Families]) /\ Len(ifaddr') \in Nat
    <3>1. [of : present, family : Families] \subseteq [of : Interfaces, family : Families]
      BY <2>2
    <3>2. \A D, E : D \subseteq E => \A s \in Seq(D) : s \in Seq(E) /\ Len(s) \in Nat
      OBVIOUS
    <3> QED
      BY <2>3, <3>1, <3>2
  <2>5. \A i \in Interfaces : Count(networks', RowsOf(i)) = Upto(ifaddr', ifa' - 1, Inet(i))
    <3>1. ifa' - 1 = 0 /\ Len(networks') = 0
      BY <1>0
    <3>2. \A s, G : Upto(s, 0, G) = 0
      BY UptoType
    <3> QED
      BY <3>1, <3>2 DEF Count
  <2>6. LinuxList'
    BY <1>0, <2>2, <2>3, <2>4, <2>5 DEF LinuxList
  <2> QED
    BY <1>1, <1>3, <2>1, <2>6 DEF LinuxKept, Stat
<1> QED
  BY <1>2, <1>3, SameLists, SameHost DEF Linux!GetIfAddrs, Linux!history


LEMMA LinuxEntryKept ==
  ASSUME LinuxKept, Linux!Entry
  PROVE  LinuxKept'
<1>0. /\ pc = "entry" /\ HostKept /\ LinuxFound /\ LinuxList
      /\ UNCHANGED <<present, counter, since, same, networks>>
  BY DEF LinuxKept, Linux!Entry, Linux!hostVars, Linux!history
<1>1. HostKept' /\ LinuxFound'
  BY <1>0 DEF HostKept, LinuxFound
<1>2. Len(ifaddr) \in Nat /\ ifa \in Nat \ {0}
  BY <1>0, LenProperties DEF LinuxList
<1>3. CASE ifa > Len(ifaddr) /\ pc' = "done"
  <2>1. ifa - 1 = Len(ifaddr)
    BY <1>0, <1>2, <1>3 DEF LinuxList
  <2>2. \A i \in same : Count(networks, RowsOf(i)) = Cardinality(InetFamilies(i))
    BY <1>0, <2>1 DEF LinuxList, HostKept, Count
  <2>3. \A i \in same' : Count(networks', RowsOf(i)) = Cardinality(InetFamilies(i))
    BY <1>0, <2>2
  <2> QED
    BY <1>1, <1>3, <2>3 DEF LinuxKept, Stat
<1>4. CASE /\ ifa <= Len(ifaddr) /\ ifaddr[ifa].family # "inet"
           /\ ifa' = ifa + 1 /\ UNCHANGED <<pc, ifaddr, info>>
  <2>1. \A i \in Interfaces : Upto(ifaddr, ifa, Inet(i)) = Upto(ifaddr, ifa - 1, Inet(i))
    <3> SUFFICES ASSUME NEW i \in Interfaces
                 PROVE  Upto(ifaddr, ifa, Inet(i)) = Upto(ifaddr, ifa - 1, Inet(i))
      OBVIOUS
    <3>1. PICK n \in Nat : n = ifa - 1 /\ n + 1 = ifa
      BY <1>2
    <3>2. ifaddr[n + 1] \notin Inet(i)
      BY <1>4, <3>1 DEF Inet
    <3>3. Upto(ifaddr, n + 1, Inet(i)) = Upto(ifaddr, n, Inet(i)) + 0
      BY <3>2, UptoNext
    <3>4. Upto(ifaddr, n, Inet(i)) \in Nat
      BY UptoType
    <3> QED
      BY <3>1, <3>3, <3>4
  <2>2. ifa' - 1 = ifa /\ ifa' \in 1..Len(ifaddr) + 1
    BY <1>2, <1>4
  <2>3. LinuxList'
    BY <1>0, <1>4, <2>1, <2>2 DEF LinuxList
  <2> QED
    BY <1>0, <1>1, <1>4, <2>3 DEF LinuxKept, Stat
<1>5. CASE /\ ifa <= Len(ifaddr) /\ ifaddr[ifa].family = "inet"
           /\ \E ok \in BOOLEAN :
                info' = [Linux!NoInfo EXCEPT !.of = ifaddr[ifa].of, !.ipv4_address = ok]
           /\ pc' = "speed" /\ UNCHANGED <<ifa, ifaddr>>
  <2>1. LinuxList'
    BY <1>0, <1>5 DEF LinuxList
  <2>2. ifaddr[ifa].of \in Interfaces
    <3>1. ifa \in 1..Len(ifaddr)
      BY <1>2, <1>5
    <3>2. ifaddr[ifa] \in [of : Interfaces, family : Families]
      BY <1>0, <3>1, ElementOfSeq DEF LinuxList
    <3> QED
      BY <3>2
  <2>3. info' \in LinuxRows /\ info'.of = ifaddr[ifa].of /\ info'.refused = {}
    <3>1. Linux!ZeroStats \in [Stat -> Nat]
      BY DEF Linux!ZeroStats, Linux!Stat, Stat
    <3>2. PICK ok \in BOOLEAN :
            info' = [Linux!NoInfo EXCEPT !.of = ifaddr[ifa].of, !.ipv4_address = ok]
      BY <1>5
    <3>3. info' = [of |-> ifaddr[ifa].of, ipv4_address |-> ok, speed_mbps |-> 0,
                   stat |-> Linux!ZeroStats, refused |-> {}]
      BY <3>2 DEF Linux!NoInfo
    <3> QED
      BY <2>2, <3>1, <3>3 DEF LinuxRows
  <2>4. \A k \in 1..8 : pc' # Linux!Stats[k]
    BY <1>5, StatsOrder DEF Stat
  <2>5. LinuxRow'
    BY <1>5, <2>3, <2>4 DEF LinuxRow
  <2> QED
    BY <1>1, <1>5, <2>1, <2>5 DEF LinuxKept, Stat
<1> QED
  BY <1>3, <1>4, <1>5 DEF Linux!Entry

LEMMA LinuxSpeedKept ==
  ASSUME LinuxKept, Linux!ReadSpeedMbps
  PROVE  LinuxKept'
<1>0. /\ pc = "speed" /\ pc' = "rx_bytes" /\ HostKept /\ LinuxFound /\ LinuxList /\ LinuxRow
      /\ UNCHANGED <<present, counter, since, same, networks, ifaddr, ifa>>
  BY StatsOrder DEF LinuxKept, Linux!ReadSpeedMbps, Linux!hostVars, Linux!history
<1>1. HostKept' /\ LinuxFound' /\ LinuxList'
  BY <1>0 DEF HostKept, LinuxFound, LinuxList
<1>2. PICK speed \in {0} \cup {Linux!Extract(i.speed) : i \in present \cap {info.of}} :
        info' = [info EXCEPT !.speed_mbps = speed]
  BY DEF Linux!ReadSpeedMbps
<1>3. speed \in Int
  <2>1. \A i \in Interfaces : i.speed \in Int /\ Word \in Nat \ {0}
    BY NetworkAssumption
  <2>2. \A i \in present : i.speed % Word \in Int
    BY <1>0, <2>1 DEF HostKept
  <2> QED
    BY <2>2 DEF Linux!Extract
<1>4. /\ info' \in LinuxRows /\ info'.of = info.of /\ info'.refused = {}
      /\ info'.stat \in [Stat -> Nat]
  BY <1>0, <1>2, <1>3 DEF LinuxRow, LinuxRows
<1>5. \A k \in 1..8 : pc' = Linux!Stats[k] => k = 1
  BY <1>0, StatsOrder
<1>6. ASSUME info.of \in same
      PROVE  ReadSoFar(info'.stat, info'.refused, 1, since[info.of], counter[info.of])
  <2>1. PICK stat, r, from, to :
          stat = info'.stat /\ r = info'.refused /\ from = since[info.of] /\ to = counter[info.of]
    OBVIOUS
  <2>2. Filled(stat, 1, from, to)
    BY DEF Filled
  <2>3. stat \in [Stat -> Nat] /\ r = {}
    BY <1>4, <2>1
  <2>4. ReadSoFar(stat, r, 1, from, to)
    BY <2>2, <2>3 DEF ReadSoFar, Masks
  <2> QED
    BY <2>1, <2>4
<1>7. LinuxRow'
  BY <1>0, <1>4, <1>5, <1>6 DEF LinuxRow
<1> QED
  BY <1>0, <1>1, <1>7 DEF LinuxKept, Stat

LEMMA LinuxReadKept ==
  ASSUME LinuxKept, Linux!ReadSysNetValue
  PROVE  LinuxKept'
<1>1. PICK k \in 1..8 :
        /\ pc = Linux!Stats[k]
        /\ \/ /\ info.of \in present
              /\ info' = [info EXCEPT !.stat[Linux!Stats[k]] = counter[info.of][Linux!Stats[k]]]
           \/ info' = [info EXCEPT !.stat[Linux!Stats[k]] = 0,
                                   !.refused = @ \cup {Linux!Stats[k]}]
        /\ IF k < 8
           THEN pc' = Linux!Stats[k + 1] /\ UNCHANGED <<networks, ifa>>
           ELSE pc' = "entry" /\ networks' = Append(networks, info') /\ ifa' = ifa + 1
        /\ UNCHANGED <<present, counter, ifaddr, since, same>>
  <2>1. PICK k \in 1..Len(Linux!Stats) :
          /\ pc = Linux!Stats[k]
          /\ \/ /\ info.of \in present
                /\ info' = [info EXCEPT !.stat[Linux!Stats[k]] = counter[info.of][Linux!Stats[k]]]
             \/ info' = [info EXCEPT !.stat[Linux!Stats[k]] = 0,
                                     !.refused = @ \cup {Linux!Stats[k]}]
          /\ IF k < Len(Linux!Stats)
             THEN pc' = Linux!Stats[k + 1] /\ UNCHANGED <<networks, ifa>>
             ELSE pc' = "entry" /\ networks' = Append(networks, info') /\ ifa' = ifa + 1
          /\ UNCHANGED <<present, counter, ifaddr, Linux!history>>
    BY Zenon DEF Linux!ReadSysNetValue, Linux!File
  <2>2. UNCHANGED <<present, counter, ifaddr, since, same>>
    BY <2>1 DEF Linux!history
  <2>3. Len(Linux!Stats) = 8
    BY StatsOrder
  <2> QED
    BY <2>1, <2>2, <2>3, Zenon
<1>2. pc \in Stat /\ HostKept /\ LinuxFound /\ LinuxList /\ LinuxRow
  BY <1>1, StatsOrder DEF LinuxKept
<1>3. HostKept' /\ Linux!Stats[k] \in Stat
  BY <1>1, <1>2, StatsOrder DEF HostKept
<1>4. /\ info \in LinuxRows /\ info.of \in Interfaces /\ info.stat \in [Stat -> Nat]
      /\ info.of = ifaddr[ifa].of /\ info.refused \subseteq Stat
  BY <1>2 DEF LinuxRow, LinuxRows
<1>5. PICK v, r :
        /\ \/ /\ info.of \in present /\ v = counter[info.of][Linux!Stats[k]]
              /\ r = info.refused
           \/ v = 0 /\ r = info.refused \cup {Linux!Stats[k]}
        /\ info' = [info EXCEPT !.stat = [info.stat EXCEPT ![Linux!Stats[k]] = v], !.refused = r]
  <2>1. info = [of |-> info.of, ipv4_address |-> info.ipv4_address,
                speed_mbps |-> info.speed_mbps, stat |-> info.stat, refused |-> info.refused]
    BY <1>4 DEF LinuxRows
  <2>2. CASE /\ info.of \in present
             /\ info' = [info EXCEPT !.stat[Linux!Stats[k]] = counter[info.of][Linux!Stats[k]]]
    <3>1. info' = [info EXCEPT !.stat = [info.stat EXCEPT ![Linux!Stats[k]] =
                                          counter[info.of][Linux!Stats[k]]],
                               !.refused = info.refused]
      BY <2>1, <2>2
    <3> QED
      BY <2>2, <3>1
  <2>3. CASE info' = [info EXCEPT !.stat[Linux!Stats[k]] = 0,
                                  !.refused = @ \cup {Linux!Stats[k]}]
    <3>1. info' = [info EXCEPT !.stat = [info.stat EXCEPT ![Linux!Stats[k]] = 0],
                               !.refused = info.refused \cup {Linux!Stats[k]}]
      BY <2>1, <2>3
    <3> QED
      BY <3>1
  <2> QED
    BY <1>1, <2>2, <2>3
<1>6. v \in Nat /\ r \subseteq Stat
  BY <1>2, <1>3, <1>4, <1>5 DEF HostKept
<1>7. /\ info' \in LinuxRows /\ info'.of = info.of /\ info'.refused = r
      /\ info'.stat = [info.stat EXCEPT ![Linux!Stats[k]] = v]
  <2>1. info' = [info EXCEPT !.stat = [info.stat EXCEPT ![Linux!Stats[k]] = v], !.refused = r]
    BY <1>5
  <2>2. [info.stat EXCEPT ![Linux!Stats[k]] = v] \in [Stat -> Nat]
    BY <1>4, <1>6
  <2> QED
    BY <1>4, <1>6, <2>1, <2>2 DEF LinuxRows
<1>8. ASSUME info.of \in same
      PROVE  ReadSoFar(info'.stat, info'.refused, k + 1, since[info.of], counter[info.of])
  <2>1. PICK from, to, stat, before :
          /\ from = since[info.of] /\ to = counter[info.of]
          /\ stat = info.stat /\ before = info.refused
    OBVIOUS
  <2>2. from \in [Stat -> Nat] /\ to \in [Stat -> Nat] /\ stat \in [Stat -> Nat]
    BY <1>2, <1>4, <2>1 DEF HostKept
  <2>3. ReadSoFar(stat, before, k, from, to)
    BY <1>1, <1>2, <1>8, <2>1 DEF LinuxRow
  <2>4. /\ \A s \in Stat : from[s] <= to[s]
        /\ Fits(to["rx_bytes"], to["rx_packets"], from["rx_bytes"], from["rx_packets"])
        /\ Fits(to["tx_bytes"], to["tx_packets"], from["tx_bytes"], from["tx_packets"])
    BY <1>2, <1>8, <2>1 DEF HostKept
  <2>5. /\ ReadSoFar([stat EXCEPT ![Linux!Stats[k]] = to[Linux!Stats[k]]], before, k + 1, from, to)
        /\ ReadSoFar([stat EXCEPT ![Linux!Stats[k]] = 0], before \cup {Linux!Stats[k]}, k + 1, from, to)
    BY <2>2, <2>3, <2>4, ReadNext
  <2>6. \/ v = to[Linux!Stats[k]] /\ r = before
        \/ v = 0 /\ r = before \cup {Linux!Stats[k]}
    BY <1>5, <2>1
  <2> QED
    BY <1>7, <2>1, <2>5, <2>6
<1>9. CASE k < 8
  <2>1. /\ pc' = Linux!Stats[k + 1] /\ k + 1 \in 1..8 /\ pc' \in Stat
        /\ UNCHANGED <<networks, ifa, ifaddr, since, same, counter, present>>
    BY <1>1, <1>9, StatsOrder
  <2>2. \A l \in 1..8 : pc' = Linux!Stats[l] => l = k + 1
    BY <2>1, StatsOrder
  <2>3. LinuxFound' /\ LinuxList'
    BY <1>2, <2>1 DEF LinuxFound, LinuxList
  <2>4. LinuxRow'
    <3>1. pc' # "speed"
      BY <2>1 DEF Stat
    <3> QED
      BY <1>2, <1>7, <1>8, <2>1, <2>2, <3>1 DEF LinuxRow
  <2> QED
    BY <1>3, <2>1, <2>3, <2>4 DEF LinuxKept, Stat
<1>10. CASE ~ (k < 8)
  <2>1. /\ k = 8 /\ pc' = "entry" /\ networks' = Append(networks, info') /\ ifa' = ifa + 1
        /\ UNCHANGED <<ifaddr, since, same, counter, present>>
    BY <1>1, <1>10
  <2>2. networks \in Seq(LinuxRows) /\ Len(networks) \in Nat
    BY <1>2, LenProperties DEF LinuxFound
  <2>3. /\ networks' \in Seq(LinuxRows) /\ Len(networks') = Len(networks) + 1
        /\ networks'[Len(networks) + 1] = info'
        /\ \A n \in 1..Len(networks) : networks'[n] = networks[n]
    BY <1>7, <2>1, <2>2, AppendProperties
  <2>4. LinuxFound'
    <3> SUFFICES ASSUME NEW n \in 1..Len(networks'), networks'[n].of \in same'
                 PROVE  ReadSoFar(networks'[n].stat, networks'[n].refused, 9,
                                  since'[networks'[n].of], counter'[networks'[n].of])
      BY <2>3 DEF LinuxFound
    <3>1. CASE n = Len(networks) + 1
      BY <1>7, <1>8, <2>1, <2>3, <3>1
    <3>2. CASE n \in 1..Len(networks)
      BY <1>2, <2>1, <2>3, <3>2 DEF LinuxFound
    <3> QED
      BY <2>2, <2>3, <3>1, <3>2
  <2>5. ifa \in 1..Len(ifaddr) /\ ifa \in Nat \ {0} /\ Len(ifaddr) \in Nat
    BY <1>2, LenProperties DEF LinuxList, LinuxRow
  <2>6. ASSUME NEW i \in Interfaces
        PROVE  Count(networks', RowsOf(i)) = Upto(ifaddr, ifa' - 1, Inet(i))
    <3>1. PICK n \in Nat : n = ifa - 1 /\ n + 1 = ifa
      BY <2>5
    <3>2. Upto(ifaddr, n + 1, Inet(i)) = Upto(ifaddr, n, Inet(i)) + (IF ifaddr[n + 1] \in Inet(i) THEN 1 ELSE 0)
      BY UptoNext
    <3>3. Count(networks', RowsOf(i)) = Count(networks, RowsOf(i)) + (IF info' \in RowsOf(i) THEN 1 ELSE 0)
      BY <1>7, <2>1, <2>2, CountAppended
    <3>4. info' \in RowsOf(i) <=> ifaddr[n + 1] \in Inet(i)
      <4>1. ifaddr[ifa] \in [of : Interfaces, family : Families] /\ ifaddr[ifa].family = "inet"
        BY <1>2, <2>5, ElementOfSeq DEF LinuxList, LinuxRow
      <4>2. ifaddr[ifa] \in Inet(i) <=> ifaddr[ifa].of = i
        BY <4>1 DEF Inet
      <4>3. info' \in RowsOf(i) <=> ifaddr[ifa].of = i
        BY <1>4, <1>7 DEF RowsOf
      <4> QED
        BY <3>1, <4>2, <4>3
    <3>5. Count(networks, RowsOf(i)) = Upto(ifaddr, n, Inet(i))
      BY <1>2, <3>1 DEF LinuxList
    <3>6. ifa' - 1 = n + 1
      BY <2>1, <3>1
    <3> QED
      BY <3>2, <3>3, <3>4, <3>5, <3>6
  <2>7. LinuxList'
    BY <1>2, <2>1, <2>5, <2>6 DEF LinuxList
  <2> QED
    BY <1>3, <2>1, <2>4, <2>7 DEF LinuxKept, Stat
<1> QED
  BY <1>9, <1>10

(* An exception loses the rows. *)
LEMMA LinuxThrowKept ==
  ASSUME LinuxKept, Linux!Throw
  PROVE  LinuxKept'
<1>1. pc' = "thrown" /\ networks' = <<>> /\ UNCHANGED <<present, counter, since, same>>
  BY DEF Linux!Throw, Linux!hostVars, Linux!history
<1>2. HostKept'
  BY <1>1 DEF LinuxKept, HostKept
<1>3. networks' \in Seq(LinuxRows) /\ Len(networks') = 0
  BY <1>1, EmptySeq
<1> QED
  BY <1>1, <1>2, <1>3 DEF LinuxKept, LinuxFound, Stat

LEMMA LinuxNextKept ==
  ASSUME LinuxKept, Linux!Next
  PROVE  LinuxKept'
<1>1. CASE Linux!HostStep /\ UNCHANGED Linux!scanVars
  <2>1. HostKept' /\ HostGrows
    BY <1>1, SameHost, HostStepKept DEF LinuxKept
  <2> QED
    BY <1>1, <2>1, LinuxHostKept DEF Linux!scanVars
<1>2. CASE Linux!Finished
  <2>1. UNCHANGED <<present, counter, since, same, pc, ifaddr, ifa, info, networks>>
    BY <1>2 DEF Linux!Finished, Linux!vars, Linux!hostVars, Linux!history, Linux!scanVars
  <2>2. HostKept' /\ HostGrows
    <3>1. \A i \in same : \A s \in Stat : counter[i][s] <= counter[i][s]
      BY DEF LinuxKept, HostKept
    <3> QED
      BY <2>1, <3>1 DEF LinuxKept, HostKept, HostGrows
  <2> QED
    BY <2>1, <2>2, LinuxHostKept
<1> QED
  BY <1>1, <1>2, LinuxGetIfAddrsKept, LinuxEntryKept, LinuxSpeedKept, LinuxReadKept,
     LinuxThrowKept
  DEF Linux!Next, Linux!Step

(* What the invariant says of the rows. *)
LEMMA LinuxRowsSound ==
  ASSUME LinuxKept
  PROVE  Linux!CountersWithinScan /\ Linux!BytesFitPackets /\ Linux!RowPerAddress
<1>1. LinuxFound /\ HostKept /\ Len(networks) \in Nat
  BY LenProperties DEF LinuxKept, LinuxFound
<1>2. ASSUME NEW row \in Linux!Range(networks), row.of \in same
      PROVE  /\ \A s \in Stat :
                  IF s \in row.refused THEN row.stat[s] = 0
                  ELSE since[row.of][s] <= row.stat[s] /\ row.stat[s] <= counter[row.of][s]
             /\ "rx_packets" \notin row.refused =>
                  Fits(row.stat["rx_bytes"], row.stat["rx_packets"],
                       since[row.of]["rx_bytes"], since[row.of]["rx_packets"])
             /\ "tx_packets" \notin row.refused =>
                  Fits(row.stat["tx_bytes"], row.stat["tx_packets"],
                       since[row.of]["tx_bytes"], since[row.of]["tx_packets"])
  <2>1. PICK n \in 1..Len(networks) : networks[n] = row
    <3>1. networks \in [1..Len(networks) -> LinuxRows]
      BY <1>1, LenProperties DEF LinuxFound
    <3> QED
      BY <3>1 DEF Linux!Range
  <2>2. PICK stat, r, from, to :
          stat = row.stat /\ r = row.refused /\ from = since[row.of] /\ to = counter[row.of]
    OBVIOUS
  <2>3. ReadSoFar(stat, r, 9, from, to) /\ from \in [Stat -> Nat] /\ to \in [Stat -> Nat]
    BY <1>1, <1>2, <2>1, <2>2 DEF LinuxFound, HostKept
  <2>4. PICK full \in [Stat -> Nat] : Filled(full, 9, from, to) /\ Masks(stat, r, full)
    BY <2>3 DEF ReadSoFar
  <2>5. ASSUME NEW s \in Stat
        PROVE  from[s] <= full[s] /\ full[s] <= to[s]
    <3>1. PICK j \in 1..8 : Linux!Stats[j] = s
      BY StatsOrder
    <3>2. j < 9
      OBVIOUS
    <3>3. from[Linux!Stats[j]] <= full[Linux!Stats[j]] /\ full[Linux!Stats[j]] <= to[Linux!Stats[j]]
      BY <2>4, <3>2 DEF Filled
    <3> QED
      BY <3>1, <3>3
  <2>6. \A s \in Stat : IF s \in r THEN stat[s] = 0 ELSE from[s] <= stat[s] /\ stat[s] <= to[s]
    BY <2>4, <2>5 DEF Masks
  <2>7. /\ Fits(full["rx_bytes"], full["rx_packets"], from["rx_bytes"], from["rx_packets"])
        /\ Fits(full["tx_bytes"], full["tx_packets"], from["tx_bytes"], from["tx_packets"])
    BY <2>4 DEF Filled
  <2>8. ASSUME NEW b \in Stat, NEW p \in Stat, p \notin r, Fits(full[b], full[p], from[b], from[p])
        PROVE  Fits(stat[b], stat[p], from[b], from[p])
    <3>1. stat[p] = full[p] /\ (stat[b] = full[b] \/ stat[b] = 0)
      BY <2>4, <2>8 DEF Masks
    <3>2. full[b] \in Nat /\ full[p] \in Nat /\ from[b] \in Nat /\ from[p] \in Nat
      BY <2>3
    <3>3. MTU * (full[p] - from[p]) \in Int
      BY <3>2, NetworkAssumption
    <3> QED
      BY <2>8, <3>1, <3>2, <3>3 DEF Fits
  <2>9. /\ "rx_bytes" \in Stat /\ "rx_packets" \in Stat
        /\ "tx_bytes" \in Stat /\ "tx_packets" \in Stat
    BY DEF Stat
  <2>10. /\ "rx_packets" \notin r =>
              Fits(stat["rx_bytes"], stat["rx_packets"], from["rx_bytes"], from["rx_packets"])
         /\ "tx_packets" \notin r =>
              Fits(stat["tx_bytes"], stat["tx_packets"], from["tx_bytes"], from["tx_packets"])
    BY <2>7, <2>8, <2>9
  <2> QED
    BY <2>2, <2>6, <2>10
<1>3. Linux!CountersWithinScan
  BY <1>2 DEF Linux!CountersWithinScan, Linux!Stat, Stat
<1>4. Linux!BytesFitPackets
  BY <1>2 DEF Linux!BytesFitPackets, Fits
<1>5. Linux!RowPerAddress
  <2> SUFFICES ASSUME pc = "done", NEW i \in same
               PROVE  Cardinality({k \in 1..Len(networks) : networks[k].of = i})
                        = Cardinality({n \in 1..Len(i.families) : i.families[n] = "inet"})
    BY DEF Linux!RowPerAddress, Linux!Cardinality, Cardinality
  <2>1. \A k \in 1..Len(networks) : networks[k] \in RowsOf(i) <=> networks[k].of = i
    BY <1>1, ElementOfSeq DEF LinuxFound, RowsOf
  <2>2. {k \in 1..Len(networks) : networks[k] \in RowsOf(i)}
          = {k \in 1..Len(networks) : networks[k].of = i}
    BY <2>1
  <2>3. Count(networks, RowsOf(i)) = Cardinality(InetFamilies(i))
    BY DEF LinuxKept
  <2> QED
    BY <2>2, <2>3 DEF Count, Upto, InetFamilies
<1> QED
  BY <1>3, <1>4, <1>5
-----------------------------------------------------------------------------
(* The macOS reader. *)

MacRow(i) == [of |-> i, stat |-> [since[i] EXCEPT !["tx_dropped"] = 0]]

\* What is used of the buffer was written by the second sysctl, with one
\* message of the counters of each interface there was.
MacBuf ==
  /\ len \in Nat /\ len <= Len(buf)
  /\ \A k \in 1..len : \E t \in Types, i \in Interfaces : buf[k] = Message(t, i, since)
  /\ \A i \in Interfaces : Upto(buf, len, Link(i, since)) <= 1
  /\ \A i \in same : Upto(buf, len, Link(i, since)) = 1

\* An interface of the messages read has a row if it has an IPv4 address.
MacRows ==
  /\ ifaddr \in Seq([of : Interfaces, family : Families])
  /\ \A i \in same : Count(ifaddr, Inet(i)) = Cardinality(InetFamilies(i))
  /\ next_ptr \in 1..len + 1
  /\ networks \in Seq({MacRow(i) : i \in Interfaces})
  /\ \A i \in Interfaces :
       Count(networks, {MacRow(i)})
         = IF Count(ifaddr, Inet(i)) > 0 THEN Upto(buf, next_ptr - 1, Link(i, since)) ELSE 0

MacHeld ==
  /\ pc \in {"fetch", "getifaddrs"} => held = {"buf"}
  /\ pc = "message" => held = {"buf", "ifaddr"}
  /\ pc \in {"size", "done", "failed", "thrown"} => held = {}

MacKept ==
  /\ HostKept /\ MacHeld
  /\ pc \in {"size", "fetch", "getifaddrs", "message", "done", "failed", "thrown"}
  /\ pc \in {"size", "fetch", "getifaddrs"} => next_ptr = 1
  /\ pc \in {"size", "fetch", "getifaddrs", "failed", "thrown"} => networks = <<>>
  /\ pc = "fetch" => len \in Nat
  /\ pc \in {"getifaddrs", "message", "done"} => MacBuf
  /\ pc \in {"message", "done"} => MacRows
  /\ pc = "done" => next_ptr = len + 1

LEMMA MacKeptInit ==
  ASSUME MacOS!Init
  PROVE  MacKept
<1>1. HostKept
  BY SameHost, HostKeptInit DEF MacOS!Init
<1> QED
  BY <1>1 DEF MacOS!Init, MacKept, MacHeld

LEMMA MacHostKept ==
  ASSUME MacKept, HostKept', HostGrows,
         UNCHANGED <<pc, len, buf, next_ptr, ifaddr, held, networks>>
  PROVE  MacKept'
<1>1. since' = since /\ same' \subseteq same
  BY DEF HostGrows
<1>2. MacBuf => MacBuf'
  BY <1>1 DEF MacBuf
<1>3. MacRows => MacRows'
  BY <1>1 DEF MacRows, MacRow
<1>4. MacHeld'
  BY DEF MacKept, MacHeld
<1> QED
  BY <1>2, <1>3, <1>4 DEF MacKept

LEMMA MacMessages ==
  ASSUME present \subseteq Interfaces
  PROVE  Len(MacOS!Messages) \in Nat
BY MessagesFacts, LenProperties

(* A call that fails returns nothing and holds nothing. *)
LEMMA MacFailsKept ==
  ASSUME MacKept, pc \in {"size", "fetch", "getifaddrs"}, MacOS!Fails
  PROVE  MacKept'
<1>1. /\ pc' = "failed" /\ held' = {} /\ networks' = <<>>
      /\ UNCHANGED <<present, counter, since, same>>
  BY DEF MacKept, MacOS!Fails, MacOS!HeldAfterReturn, MacOS!hostVars, MacOS!history
<1>2. HostKept'
  BY <1>1 DEF MacKept, HostKept
<1> QED
  BY <1>1, <1>2 DEF MacKept, MacHeld

LEMMA MacThrowKept ==
  ASSUME MacKept, MacOS!Throw
  PROVE  MacKept'
<1>1. /\ pc' = "thrown" /\ held' = {} /\ networks' = <<>>
      /\ UNCHANGED <<present, counter, since, same>>
  BY DEF MacOS!Throw, MacOS!HeldAfterReturn, MacOS!hostVars, MacOS!history
<1>2. HostKept'
  BY <1>1 DEF MacKept, HostKept
<1> QED
  BY <1>1, <1>2 DEF MacKept, MacHeld

LEMMA MacAskSizeKept ==
  ASSUME MacKept, MacOS!AskSize
  PROVE  MacKept'
<1>1. CASE MacOS!Fails
  BY <1>1, MacFailsKept DEF MacOS!AskSize
<1>2. CASE ~ MacOS!Fails
  <2>1. /\ pc = "size" /\ pc' = "fetch" /\ len' = Len(MacOS!Messages) + Spare
        /\ held' = held \cup {"buf"}
        /\ UNCHANGED <<networks, next_ptr, present, counter, since, same>>
    BY <1>2 DEF MacOS!AskSize, MacOS!hostVars, MacOS!history
  <2>2. HostKept'
    BY <2>1 DEF MacKept, HostKept
  <2>3. len' \in Nat
    BY <2>1, MacMessages, MCAssumption DEF MacKept, HostKept
  <2> QED
    BY <2>1, <2>2, <2>3 DEF MacKept, MacHeld
<1> QED
  BY <1>1, <1>2

LEMMA MacFetchKept ==
  ASSUME MacKept, MacOS!Fetch
  PROVE  MacKept'
<1>1. CASE MacOS!Fails
  BY <1>1, MacFailsKept DEF MacOS!Fetch
<1>2. CASE ~ MacOS!Fails
  <2>1. /\ pc = "fetch" /\ Len(MacOS!Messages) <= len
        /\ pc' = "getifaddrs" /\ len' = Len(MacOS!Messages) /\ Taken
        /\ buf' = MacOS!Messages \o [k \in 1..len - Len(MacOS!Messages) |-> MacOS!Garbage]
        /\ UNCHANGED <<networks, next_ptr, held, present, counter>>
    BY <1>2, SameHost DEF MacOS!Fetch, MacOS!Used, MacOS!hostVars
  <2>2. HostKept' /\ present \subseteq Interfaces /\ since' = counter /\ same' = present
    BY <2>1, HostTaken DEF MacKept, HostKept, Taken
  <2> DEFINE M == MacOS!Messages
             E == {Message(t, i, counter) : t \in Types, i \in present}
  <2>3. /\ M \in Seq(E) /\ Len(M) \in Nat
        /\ \A i \in Interfaces : Count(M, Link(i, counter)) = IF i \in present THEN 1 ELSE 0
    BY <2>2, MessagesFacts, LenProperties
  <2>4. Len(M) <= Len(buf') /\ \A k \in 1..Len(M) : buf'[k] = M[k] /\ M[k] \in E
    <3>1. PICK n \in Nat : n = len - Len(M)
      BY <2>1, <2>3 DEF MacKept
    <3> DEFINE G == [k \in 1..n |-> MacOS!Garbage]
               T == E \cup {MacOS!Garbage}
    <3>2. G \in Seq(T) /\ Len(G) = n
      <4>1. G \in [1..n -> T]
        OBVIOUS
      <4> HIDE DEF T, G
      <4>2. \A f \in [1..n -> T] : f \in Seq(T) /\ Len(f) = n
        BY SeqDef
      <4> QED
        BY <4>1, <4>2
    <3>3. M \in Seq(T)
      BY <2>3, SeqMonotonic
    <3>4. buf' = M \o G
      BY <2>1, <3>1
    <3>5. \A k \in 1..Len(M) : M[k] \in E
      BY <2>3, ElementOfSeq
    <3> HIDE DEF T, G, E, M
    <3> QED
      BY <2>3, <3>2, <3>3, <3>4, <3>5, ConcatProperties
  <2>5. \A k \in 1..len' : \E t \in Types, i \in Interfaces : buf'[k] = Message(t, i, since')
    BY <2>1, <2>2, <2>4
  <2>6. ASSUME NEW i \in Interfaces
        PROVE  Upto(buf', len', Link(i, since')) = IF i \in present THEN 1 ELSE 0
    <3>1. PICK b, n, G : b = buf' /\ n = Len(M) /\ G = Link(i, counter)
      OBVIOUS
    <3>2. n \in Nat /\ \A k \in 1..n : b[k] \in G <=> M[k] \in G
      BY <2>3, <2>4, <3>1
    <3>3. Upto(b, n, G) = Upto(M, n, G)
      BY <3>2, UptoSame
    <3>4. len' = n /\ Link(i, since') = G
      <4>1. \A c : c = counter => Link(i, c) = Link(i, counter)
        OBVIOUS
      <4> QED
        BY <2>1, <2>2, <3>1, <4>1
    <3>5. Upto(M, n, G) = IF i \in present THEN 1 ELSE 0
      BY <2>3, <3>1 DEF Count
    <3> QED
      BY <3>1, <3>3, <3>4, <3>5
  <2>7. MacBuf'
    <3>1. \A i \in Interfaces : (IF i \in present THEN 1 ELSE 0) <= 1
      OBVIOUS
    <3>5. len' = Len(M)
      BY <2>1
    <3>2. len' \in Nat /\ len' <= Len(buf')
      <4> HIDE DEF M
      <4> QED
        BY <2>3, <2>4, <3>5
    <3>3. \A i \in Interfaces : Upto(buf', len', Link(i, since')) <= 1
      BY <2>6, <3>1
    <3>4. \A i \in same' : Upto(buf', len', Link(i, since')) = 1
      BY <2>2, <2>6
    <3> QED
      BY <2>5, <3>2, <3>3, <3>4 DEF MacBuf
  <2> QED
    BY <2>1, <2>2, <2>7 DEF MacKept, MacHeld
<1> QED
  BY <1>1, <1>2

LEMMA MacGetIfAddrsKept ==
  ASSUME MacKept, MacOS!GetIfAddrs
  PROVE  MacKept'
<1>1. CASE MacOS!Fails
  BY <1>1, MacFailsKept DEF MacOS!GetIfAddrs
<1>2. CASE ~ MacOS!Fails
  <2>1. /\ pc = "getifaddrs" /\ pc' = "message" /\ ifaddr' = AddressList
        /\ held' = held \cup {"ifaddr"} /\ HostKept /\ MacBuf /\ next_ptr = 1 /\ networks = <<>>
        /\ UNCHANGED <<len, buf, next_ptr, networks, present, counter, since, same>>
    BY <1>2, SameLists DEF MacOS!GetIfAddrs, MacOS!hostVars, MacOS!history, MacKept
  <2>2. HostKept' /\ MacBuf'
    BY <2>1 DEF HostKept, MacBuf
  <2>3. /\ ifaddr' \in Seq([of : present, family : Families])
        /\ \A i \in Interfaces :
             Count(ifaddr', Inet(i)) = IF i \in present THEN Cardinality(InetFamilies(i)) ELSE 0
    BY <2>1, AddressListFacts DEF HostKept
  <2>4. ifaddr' \in Seq([of : Interfaces, family : Families])
    <3>1. [of : present, family : Families] \subseteq [of : Interfaces, family : Families]
      BY <2>1 DEF HostKept
    <3> QED
      BY <2>3, <3>1, SeqMonotonic
  <2>5. \A i \in same' : Count(ifaddr', Inet(i)) = Cardinality(InetFamilies(i))
    BY <2>1, <2>3 DEF HostKept
  <2>6. next_ptr' \in 1..len' + 1
    BY <2>1 DEF MacBuf
  <2>7. networks' \in Seq({MacRow(i) : i \in Interfaces}')
    BY <2>1, EmptySeq
  <2>8. ASSUME NEW i \in Interfaces
        PROVE  Count(networks', {MacRow(i)}')
                 = IF Count(ifaddr', Inet(i)) > 0
                   THEN Upto(buf', next_ptr' - 1, Link(i, since')) ELSE 0
    <3>1. next_ptr' - 1 = 0 /\ Len(networks') = 0
      BY <2>1
    <3>2. \A s, G : Upto(s, 0, G) = 0
      BY UptoType
    <3>3. Upto(buf', next_ptr' - 1, Link(i, since')) = 0
      BY <3>1, <3>2
    <3>4. Count(networks', {MacRow(i)}') = 0
      BY <3>1, <3>2 DEF Count
    <3> QED
      BY <3>3, <3>4
  <2>9. MacRows'
    BY <2>4, <2>5, <2>6, <2>7, <2>8 DEF MacRows
  <2> QED
    BY <2>1, <2>2, <2>9 DEF MacKept, MacHeld
<1> QED
  BY <1>1, <1>2

(* An interface has a row of its own if it has an IPv4 address. *)
LEMMA MacMatches ==
  ASSUME ifaddr \in Seq([of : Interfaces, family : Families]), NEW i \in Interfaces
  PROVE  MacOS!Cardinality(MacOS!Matches(i.name)) = IF Count(ifaddr, Inet(i)) > 0 THEN 1 ELSE 0
<1> DEFINE A == {n \in 1..Len(ifaddr) : ifaddr[n] \in Inet(i)}
<1>0. Len(ifaddr) \in Nat
  BY LenProperties
<1>1. MacOS!Addresses(i.name) = A
  <2>1. ASSUME NEW n \in 1..Len(ifaddr)
        PROVE  ifaddr[n].of.name = i.name /\ ifaddr[n].family = "inet" <=> ifaddr[n] \in Inet(i)
    <3>1. ifaddr[n] \in [of : Interfaces, family : Families]
      BY ElementOfSeq
    <3>2. ifaddr[n].of.name = i.name <=> ifaddr[n].of = i
      BY <3>1, NetworkAssumption
    <3> QED
      BY <3>1, <3>2 DEF Inet
  <2> QED
    BY <2>1 DEF MacOS!Addresses
<1>2. PICK W : W = MacOS!Matches(i.name)
  OBVIOUS
<1>3. W = {n \in A : \A o \in A : n <= o}
  BY <1>1, <1>2 DEF MacOS!Matches
<1>7. IsFiniteSet(A)
  BY <1>0, UptoType
<1>8. Cardinality(A) = Count(ifaddr, Inet(i)) /\ \A n \in A : n \in Nat
  BY <1>0 DEF Count, Upto
<1> HIDE DEF A
<1>4. \A S : MacOS!Cardinality(S) = Cardinality(S)
  BY DEF Cardinality, MacOS!Cardinality
<1>5. CASE A = {}
  <2>1. W = {} /\ Cardinality(A) = 0
    BY <1>3, <1>5, FS_EmptySet
  <2>2. Cardinality(W) = 0
    BY <2>1, FS_EmptySet
  <2> QED
    BY <1>2, <1>4, <1>8, <2>1, <2>2
<1>6. CASE A # {}
  <2>1. PICK m : m = Min(A)
    OBVIOUS
  <2>2. m \in A /\ \A o \in A : m <= o
    BY <1>6, <1>8, <2>1, MinOfNats
  <2>3. \A n \in A : (\A o \in A : n <= o) <=> n = m
    BY <1>8, <2>2
  <2>4. W = {m}
    BY <1>3, <2>2, <2>3
  <2>5. Cardinality(A) # 0 /\ Cardinality(A) \in Nat
    BY <1>6, <1>7, FS_EmptySet, FS_CardinalityType
  <2>6. Cardinality(W) = 1
    BY <2>4, FS_Singleton
  <2>7. Count(ifaddr, Inet(i)) > 0
    BY <1>8, <2>5
  <2> QED
    BY <1>2, <1>4, <2>6, <2>7
<1> QED
  BY <1>5, <1>6

LEMMA MacMessageKept ==
  ASSUME MacKept, MacOS!ReadMessage
  PROVE  MacKept'
<1>0. /\ pc = "message" /\ HostKept /\ MacBuf /\ MacRows /\ held = {"buf", "ifaddr"}
      /\ UNCHANGED <<len, buf, ifaddr, present, counter, since, same>>
  BY DEF MacOS!ReadMessage, MacOS!hostVars, MacOS!history, MacKept, MacHeld
<1>1. HostKept' /\ MacBuf'
  BY <1>0 DEF HostKept, MacBuf
<1>2. len \in Nat /\ next_ptr \in 1..len + 1
  BY <1>0 DEF MacBuf, MacRows
<1>3. CASE next_ptr > len
  <2>1. pc' = "done" /\ held' = {} /\ UNCHANGED <<next_ptr, networks>> /\ next_ptr = len + 1
    BY <1>2, <1>3 DEF MacOS!ReadMessage, MacOS!HeldAfterReturn
  <2>2. MacRows'
    BY <1>0, <2>1 DEF MacRows, MacRow
  <2> QED
    BY <1>0, <1>1, <2>1, <2>2 DEF MacKept, MacHeld
<1>4. CASE ~ (next_ptr > len)
  <2>1. /\ pc' = pc /\ held' = held /\ next_ptr' = next_ptr + 1
        /\ networks' = IF ~ MacOS!IsInterface(next_ptr) THEN networks
                       ELSE networks \o
                              [m \in 1..MacOS!Cardinality(MacOS!Matches(buf[next_ptr].of.name)) |->
                                 [of |-> buf[next_ptr].of, stat |-> MacOS!Columns(next_ptr)]]
    BY <1>4 DEF MacOS!ReadMessage
  <2>2. PICK n \in Nat : n + 1 = next_ptr /\ n = next_ptr - 1
    BY <1>2
  <2>3. n + 1 \in 1..len
    BY <1>2, <1>4, <2>2
  <2>4. PICK t \in Types, i \in Interfaces : buf[n + 1] = Message(t, i, since)
    BY <1>0, <2>3 DEF MacBuf
  <2>5. buf[n + 1].of = i /\ buf[n + 1].type = t /\ buf[n + 1].stat = since[i]
    BY <2>4 DEF Message
  <2>6. ASSUME NEW j \in Interfaces
        PROVE  /\ Upto(buf, n, Link(j, since)) \in Nat
               /\ Upto(buf, n + 1, Link(j, since))
                    = Upto(buf, n, Link(j, since)) + (IF t = "RTM_IFINFO2" /\ j = i THEN 1 ELSE 0)
    <3>1. buf[n + 1] \in Link(j, since) <=> t = "RTM_IFINFO2" /\ j = i
      BY <2>4 DEF Link, Message
    <3>2. Upto(buf, n + 1, Link(j, since))
            = Upto(buf, n, Link(j, since)) + (IF buf[n + 1] \in Link(j, since) THEN 1 ELSE 0)
      BY UptoNext
    <3> QED
      BY <3>1, <3>2, UptoType
  <2> DEFINE R == {MacRow(j) : j \in Interfaces}
             c == IF t = "RTM_IFINFO2" /\ Count(ifaddr, Inet(i)) > 0 THEN 1 ELSE 0
             new == [m \in 1..c |-> MacRow(i)]
  <2>7. networks \in Seq(R) /\ c \in Nat
    BY <1>0 DEF MacRows
  <2>8. networks' = networks \o new
    <3>1. CASE t # "RTM_IFINFO2"
      <4>1. new = <<>>
        BY <3>1
      <4>2. networks' = networks
        BY <2>1, <2>2, <2>5, <3>1 DEF MacOS!IsInterface
      <4> HIDE DEF new, R
      <4> QED
        BY <2>7, <4>1, <4>2, ConcatEmptySeq
    <3>2. CASE t = "RTM_IFINFO2"
      <4>1. MacOS!Cardinality(MacOS!Matches(i.name)) = c
        BY <1>0, <3>2, MacMatches DEF MacRows
      <4>2. [of |-> buf[next_ptr].of, stat |-> MacOS!Columns(next_ptr)] = MacRow(i)
        BY <2>2, <2>5 DEF MacRow, MacOS!Columns
      <4>3. MacOS!IsInterface(next_ptr) /\ buf[next_ptr].of = i
        BY <2>2, <2>5, <3>2 DEF MacOS!IsInterface
      <4> QED
        BY <2>1, <4>1, <4>2, <4>3
    <3> QED
      BY <3>1, <3>2
  <2>9. /\ new \in Seq(R) /\ Len(new) = c
        /\ \A m \in 1..c : new[m] = MacRow(i)
    <3>1. new \in [1..c -> R]
      OBVIOUS
    <3>2. \A m \in 1..c : new[m] = MacRow(i)
      OBVIOUS
    <3> HIDE DEF new, R, c
    <3>3. \A f \in [1..c -> R] : f \in Seq(R) /\ Len(f) = c
      BY <2>7, SeqDef
    <3> QED
      BY <3>1, <3>2, <3>3
  <2>10. ASSUME NEW j \in Interfaces
         PROVE  Count(new, {MacRow(j)}) = IF j = i THEN c ELSE 0
    <3>1. MacRow(i) \in {MacRow(j)} <=> j = i
      BY DEF MacRow
    <3> HIDE DEF new, c
    <3>2. {m \in 1..c : new[m] \in {MacRow(j)}} = IF j = i THEN 1..c ELSE {}
      BY <2>9, <3>1
    <3>3. Cardinality(1..c) = c
      BY <2>7, FS_Interval
    <3> QED
      BY <2>9, <3>2, <3>3, FS_EmptySet DEF Count, Upto
  <2>11. ASSUME NEW j \in Interfaces
         PROVE  Count(networks \o new, {MacRow(j)})
                  = IF Count(ifaddr, Inet(j)) > 0 THEN Upto(buf, n + 1, Link(j, since)) ELSE 0
    <3>1. Count(networks \o new, {MacRow(j)}) = Count(networks, {MacRow(j)}) + Count(new, {MacRow(j)})
      <4> HIDE DEF new, R
      <4> QED
        BY <2>7, <2>9, CountJoined
    <3>2. Count(networks, {MacRow(j)})
            = IF Count(ifaddr, Inet(j)) > 0 THEN Upto(buf, n, Link(j, since)) ELSE 0
      BY <1>0, <2>2 DEF MacRows
    <3>3. Count(new, {MacRow(j)}) = IF j = i THEN c ELSE 0
      BY <2>10
    <3> HIDE DEF new, R
    <3> QED
      BY <2>6, <3>1, <3>2, <3>3
  <2>12. networks' \in Seq(R)
    <3> HIDE DEF new, R
    <3> QED
      BY <2>7, <2>8, <2>9, CountJoined
  <2>13. \A j \in Interfaces : MacRow(j)' = MacRow(j)
    BY <1>0 DEF MacRow
  <2>14. networks' \in Seq({MacRow(j) : j \in Interfaces}')
    <3>1. {MacRow(j) : j \in Interfaces}' = R
      BY <2>13
    <3> QED
      BY <2>12, <3>1
  <2>15. next_ptr' - 1 = n + 1 /\ next_ptr' \in 1..len' + 1
    BY <1>0, <1>2, <2>1, <2>2, <2>3
  <2> HIDE DEF new, R, c
  <2>16. ASSUME NEW j \in Interfaces
         PROVE  Count(networks', {MacRow(j)}')
                  = IF Count(ifaddr', Inet(j)) > 0
                    THEN Upto(buf', next_ptr' - 1, Link(j, since')) ELSE 0
    BY <1>0, <2>8, <2>11, <2>13, <2>15
  <2>17. MacRows'
    BY <1>0, <2>14, <2>15, <2>16 DEF MacRows
  <2> QED
    BY <1>0, <1>1, <2>1, <2>17 DEF MacKept, MacHeld
<1> QED
  BY <1>3, <1>4

LEMMA MacNextKept ==
  ASSUME MacKept, MacOS!Next
  PROVE  MacKept'
<1>1. CASE MacOS!HostStep /\ UNCHANGED MacOS!callVars
  <2>1. HostKept' /\ HostGrows
    BY <1>1, SameHost, HostStepKept DEF MacKept
  <2> QED
    BY <1>1, <2>1, MacHostKept DEF MacOS!callVars
<1>2. CASE MacOS!Finished
  <2>1. /\ UNCHANGED <<present, counter, since, same>>
        /\ UNCHANGED <<pc, len, buf, next_ptr, ifaddr, held, networks>>
    BY <1>2 DEF MacOS!Finished, MacOS!vars, MacOS!hostVars, MacOS!history, MacOS!callVars
  <2>2. HostKept' /\ HostGrows
    <3>1. \A i \in same : \A s \in Stat : counter[i][s] <= counter[i][s]
      BY DEF MacKept, HostKept
    <3> QED
      BY <2>1, <3>1 DEF MacKept, HostKept, HostGrows
  <2> QED
    BY <2>1, <2>2, MacHostKept
<1> QED
  BY <1>1, <1>2, MacAskSizeKept, MacFetchKept, MacGetIfAddrsKept, MacMessageKept, MacThrowKept
  DEF MacOS!Next, MacOS!Step

LEMMA MacRowsSound ==
  ASSUME MacKept
  PROVE  MacOS!CountersOfOneMoment /\ MacOS!RowPerInterface /\ MacOS!MemoryHeld
<1>1. /\ networks \in Seq({MacRow(i) : i \in Interfaces})
      /\ \A i \in Interfaces : Count(networks, {MacRow(i)}) <= 1
      /\ pc = "done" => \A i \in same :
           Count(networks, {MacRow(i)}) = IF Cardinality(InetFamilies(i)) > 0 THEN 1 ELSE 0
  <2>1. CASE pc \in {"message", "done"}
    <3>1. MacBuf /\ MacRows
      BY <2>1 DEF MacKept
    <3>2. next_ptr - 1 \in Nat /\ next_ptr - 1 <= len /\ len \in Nat
      BY <3>1 DEF MacBuf, MacRows
    <3>3. \A i \in Interfaces : Upto(buf, next_ptr - 1, Link(i, since)) <= 1
      <4> SUFFICES ASSUME NEW i \in Interfaces
                   PROVE  Upto(buf, next_ptr - 1, Link(i, since)) <= 1
        OBVIOUS
      <4>1. PICK p, G : p \in Nat /\ p = next_ptr - 1 /\ G = Link(i, since)
        BY <3>2
      <4>2. /\ {k \in 1..p : buf[k] \in G} \subseteq {k \in 1..len : buf[k] \in G}
            /\ IsFiniteSet({k \in 1..len : buf[k] \in G})
        BY <3>2, <4>1, UptoType
      <4>3. /\ Cardinality({k \in 1..p : buf[k] \in G}) <= Cardinality({k \in 1..len : buf[k] \in G})
        BY <4>2, FS_Subset
      <4>4. Upto(buf, p, G) \in Nat /\ Upto(buf, len, G) \in Nat /\ Upto(buf, len, G) <= 1
        BY <3>1, <3>2, <4>1, UptoType DEF MacBuf
      <4>5. Upto(buf, p, G) <= 1
        BY <4>3, <4>4 DEF Upto
      <4> QED
        BY <4>1, <4>5
    <3>4. pc = "done" => next_ptr - 1 = len
      BY <3>2 DEF MacKept
    <3>5. \A i \in same : i \in Interfaces
      BY DEF MacKept, HostKept
    <3>6. ASSUME NEW i \in Interfaces
          PROVE  /\ Count(networks, {MacRow(i)}) <= 1
                 /\ pc = "done" /\ i \in same =>
                      Count(networks, {MacRow(i)}) = IF Cardinality(InetFamilies(i)) > 0 THEN 1 ELSE 0
      <4>1. Count(networks, {MacRow(i)})
              = IF Count(ifaddr, Inet(i)) > 0 THEN Upto(buf, next_ptr - 1, Link(i, since)) ELSE 0
        BY <3>1 DEF MacRows
      <4>2. i \in same => Count(ifaddr, Inet(i)) = Cardinality(InetFamilies(i))
        BY <3>1 DEF MacRows
      <4>3. i \in same /\ pc = "done" => Upto(buf, next_ptr - 1, Link(i, since)) = 1
        BY <3>1, <3>4 DEF MacBuf
      <4>4. Upto(buf, next_ptr - 1, Link(i, since)) <= 1
        BY <3>3
      <4> QED
        BY <4>1, <4>2, <4>3, <4>4
    <3>7. networks \in Seq({MacRow(i) : i \in Interfaces})
      BY <3>1 DEF MacRows
    <3> QED
      BY <3>5, <3>6, <3>7
  <2>2. CASE pc \notin {"message", "done"}
    <3>1. networks = <<>>
      BY <2>2 DEF MacKept
    <3>2. networks \in Seq({MacRow(i) : i \in Interfaces}) /\ Len(networks) = 0
      BY <3>1, EmptySeq
    <3>3. \A i \in Interfaces : Count(networks, {MacRow(i)}) = 0
      BY <3>2, UptoType DEF Count
    <3> QED
      BY <2>2, <3>2, <3>3
  <2> QED
    BY <2>1, <2>2
<1>2. \A k \in 1..Len(networks) : \E i \in Interfaces : networks[k] = MacRow(i)
  BY <1>1, ElementOfSeq
<1>3. MacOS!CountersOfOneMoment
  <2>1. ASSUME NEW row \in MacOS!Range(networks)
        PROVE  row.stat = [since[row.of] EXCEPT !["tx_dropped"] = 0]
    <3>1. PICK k \in 1..Len(networks) : networks[k] = row
      BY <1>1, LenProperties DEF MacOS!Range
    <3>2. PICK i \in Interfaces : row = MacRow(i)
      BY <1>2, <3>1
    <3> QED
      BY <3>2 DEF MacRow
  <2> QED
    BY <2>1 DEF MacOS!CountersOfOneMoment
<1>4. MacOS!RowPerInterface
  <2>1. ASSUME NEW i \in Interfaces
        PROVE  LET rows == {k \in 1..Len(networks) : networks[k].of = i} IN
               /\ MacOS!Cardinality(rows) <= 1
               /\ pc = "done" /\ i \in same =>
                    (rows # {} <=> \E n \in 1..Len(i.families) : i.families[n] = "inet")
    <3>1. PICK rows : rows = {k \in 1..Len(networks) : networks[k].of = i}
      OBVIOUS
    <3>2. \A k \in 1..Len(networks) : networks[k].of = i <=> networks[k] \in {MacRow(i)}
      <4>1. \A j \in Interfaces : MacRow(j).of = j
        BY DEF MacRow
      <4> QED
        BY <1>2, <4>1
    <3>3. rows = {k \in 1..Len(networks) : networks[k] \in {MacRow(i)}}
      BY <3>1, <3>2
    <3>4. Cardinality(rows) = Count(networks, {MacRow(i)})
      BY <3>3 DEF Count, Upto
    <3>5. IsFiniteSet(rows) /\ Cardinality(rows) \in Nat
      <4>1. PICK n, G : n \in Nat /\ n = Len(networks) /\ G = {MacRow(i)}
        BY <1>1, LenProperties
      <4>2. IsFiniteSet({k \in 1..n : networks[k] \in G})
        <5>1. n \in Nat
          BY <4>1
        <5> QED
          BY <5>1, UptoType
      <4> QED
        BY <3>3, <4>1, <4>2, FS_CardinalityType
    <3>6. MacOS!Cardinality(rows) = Cardinality(rows)
      BY DEF Cardinality, MacOS!Cardinality
    <3>7. rows # {} <=> Cardinality(rows) # 0
      BY <3>5, FS_EmptySet
    <3>8. Cardinality(InetFamilies(i)) > 0 <=> \E n \in 1..Len(i.families) : i.families[n] = "inet"
      <4>1. IsFiniteSet(InetFamilies(i))
        <5>1. Len(i.families) \in Nat
          BY NetworkAssumption, LenProperties
        <5>2. IsFiniteSet(1..Len(i.families))
          BY <5>1, FS_Interval
        <5> QED
          BY <5>2, FS_Subset DEF InetFamilies
      <4>2. Cardinality(InetFamilies(i)) \in Nat
        BY <4>1, FS_CardinalityType
      <4>3. InetFamilies(i) # {} <=> Cardinality(InetFamilies(i)) # 0
        BY <4>1, FS_EmptySet
      <4>4. InetFamilies(i) # {} <=> \E n \in 1..Len(i.families) : i.families[n] = "inet"
        BY DEF InetFamilies
      <4> QED
        BY <4>2, <4>3, <4>4
    <3>9. MacOS!Cardinality(rows) <= 1
      BY <1>1, <3>4, <3>6
    <3>10. pc = "done" /\ i \in same =>
             (rows # {} <=> \E n \in 1..Len(i.families) : i.families[n] = "inet")
      BY <1>1, <3>4, <3>7, <3>8
    <3> QED
      BY <3>1, <3>9, <3>10
  <2> QED
    BY <2>1 DEF MacOS!RowPerInterface
<1>5. MacOS!MemoryHeld
  <2>1. ASSUME pc = "message", next_ptr <= len
        PROVE  next_ptr <= Len(buf) /\ buf[next_ptr] # MacOS!Garbage
    <3>1. MacBuf /\ next_ptr \in 1..len
      BY <2>1 DEF MacKept, MacBuf, MacRows
    <3>2. PICK t \in Types, i \in Interfaces : buf[next_ptr] = Message(t, i, since)
      BY <3>1 DEF MacBuf
    <3>3. buf[next_ptr].type # "garbage"
      BY <3>2 DEF Message, Types
    <3>4. buf[next_ptr] # MacOS!Garbage
      BY <3>3 DEF MacOS!Garbage
    <3>5. next_ptr <= Len(buf)
      <4>1. buf = buf /\ len <= Len(buf) /\ len \in Nat
        BY <3>1 DEF MacBuf
      <4> QED
        BY <3>1, <4>1
    <3> QED
      BY <3>4, <3>5
  <2> QED
    BY <2>1 DEF MacOS!MemoryHeld, MacOS!Over, MacKept, MacHeld
<1> QED
  BY <1>3, <1>4, <1>5

-----------------------------------------------------------------------------
(* Either reader. *)

Kept ==
  /\ platform \in {"Linux", "macOS"}
  /\ platform = "Linux" => LinuxKept
  /\ platform = "macOS" => MacKept

LEMMA KeptInit == Init => Kept
BY LinuxKeptInit, MacKeptInit DEF Init, Kept

LEMMA KeptNext == Kept /\ [Next]_vars => Kept'
<1> SUFFICES ASSUME Kept, [Next]_vars
             PROVE  Kept'
  OBVIOUS
<1>1. CASE platform = "Linux" /\ Linux!Next /\ UNCHANGED <<platform, macVars>>
  BY <1>1, LinuxNextKept DEF Kept
<1>2. CASE platform = "macOS" /\ MacOS!Next /\ UNCHANGED <<platform, linuxVars>>
  BY <1>2, MacNextKept DEF Kept
<1>3. CASE UNCHANGED vars
  <2>1. /\ UNCHANGED <<present, counter, since, same, platform, pc, ifaddr, networks>>
        /\ UNCHANGED <<ifa, info, len, buf, next_ptr, held>>
    BY <1>3 DEF vars, hostVars, history, linuxVars, macVars
  <2>2. HostKept => HostKept' /\ HostGrows
    <3>1. HostKept => \A i \in same : \A s \in Stat : counter[i][s] <= counter[i][s]
      BY DEF HostKept
    <3> QED
      BY <2>1, <3>1 DEF HostKept, HostGrows
  <2>3. LinuxKept => LinuxKept'
    <3>1. LinuxKept => HostKept
      BY DEF LinuxKept
    <3> QED
      BY <2>1, <2>2, <3>1, LinuxHostKept
  <2>4. MacKept => MacKept'
    <3>1. MacKept => HostKept
      BY DEF MacKept
    <3> QED
      BY <2>1, <2>2, <3>1, MacHostKept
  <2> QED
    BY <2>1, <2>3, <2>4 DEF Kept
<1> QED
  BY <1>1, <1>2, <1>3 DEF Next

(* The invariant the four theorems follow from: the counters of an          *)
(* interface that stayed only grow and fit its packets; the statistics read *)
(* so far lie between those at the list and those of now, but for the       *)
(* columns whose file was refused, which are 0; and the rows so             *)
(* far are those of the part of the list that has been read.                *)
THEOREM AlwaysKept == Spec => []Kept
BY KeptInit, KeptNext, PTL DEF Spec

(* Of an interface that stayed, every column of a row is a value of that    *)
(* statistic since the list was taken, or 0 if its own file was refused     *)
(* (Linux), or its value at the moment of the second sysctl (macOS),        *)
(* whatever flows, whatever else vanishes and whichever other file fails.   *)
THEOREM ColumnsAreOfTheScan == Spec => []CountersWithinScan
<1>1. Kept => CountersWithinScan
  BY LinuxRowsSound, MacRowsSound DEF Kept, CountersWithinScan
<1> QED
  BY <1>1, AlwaysKept, PTL

(* The Linux reader asks for the bytes before the packets: however many     *)
(* packets arrive in between and whichever other files are refused, no row  *)
(* whose packets could be read shows more bytes than these can carry.       *)
THEOREM BytesFit == Spec => []BytesFitPackets
<1>1. Kept => BytesFitPackets
  BY LinuxRowsSound DEF Kept, BytesFitPackets
<1> QED
  BY <1>1, AlwaysKept, PTL

(* Linux lists each IPv4 address of an interface that stayed once; macOS    *)
(* each interface at most once, and once if it stayed and has one.          *)
THEOREM RowsAreListedOnce == Spec => []OneRowEach
<1>1. Kept => OneRowEach
  BY LinuxRowsSound, MacRowsSound DEF Kept, OneRowEach
<1> QED
  BY <1>1, AlwaysKept, PTL

(* The macOS reader reads only messages the second sysctl has written, of   *)
(* memory it still holds, and releases both blocks on every way out.        *)
THEOREM BuffersAreHeld == Spec => []MemoryHeld
<1>1. Kept => MemoryHeld
  BY MacRowsSound DEF Kept, MemoryHeld
<1> QED
  BY <1>1, AlwaysKept, PTL
=============================================================================
