--------------------------- MODULE InputFilterProofs ---------------------------
(***************************************************************************)
(* InputFilter for every input, output, cut and limit.  What the filter lets    *)
(* through and what is left without release reports are recursive functions of   *)
(* what was typed; what they yield is proved by induction over its length, which  *)
(* here is the fact that a set of naturals has a least element (Least).        *)
(***************************************************************************)
EXTENDS InputFilter, SequenceTheorems, WellFoundedInduction, TLAPS

-----------------------------------------------------------------------------
(* Induction                                                                *)

\* A set of naturals that is not empty has a least element.
LEMMA Least ==
    ASSUME NEW T \in SUBSET Nat, T # {}
    PROVE  \E m \in T : \A k \in T : m <= k
<1>1. PICK m \in T : \A k \in T : ~(<<k, m>> \in OpToRel(<, Nat))
  BY NatLessThanWellFounded, WFMin
<1>2. \A k \in T : ~(k < m)
  BY <1>1 DEF OpToRel
<1> QED
  BY <1>2

\* A set that holds a sequence when it holds the shorter ones holds all of them.
LEMMA ByLength ==
    ASSUME NEW T,
           \A s \in Seq(Bytes) :
               (\A t \in Seq(Bytes) : Len(t) < Len(s) => t \in T) => s \in T
    PROVE  \A s \in Seq(Bytes) : s \in T
<1> SUFFICES ASSUME NEW s \in Seq(Bytes), s \notin T PROVE FALSE
  OBVIOUS
<1> DEFINE Lengths == {n \in Nat : \E t \in Seq(Bytes) : t \notin T /\ Len(t) = n}
<1>1. Len(s) \in Lengths
  OBVIOUS
<1>2. PICK n \in Lengths : \A k \in Lengths : n <= k
  BY <1>1, Least
<1>3. PICK t \in Seq(Bytes) : t \notin T /\ Len(t) = n
  BY <1>2
<1>4. \A u \in Seq(Bytes) : Len(u) < n => u \in T
  <2> SUFFICES ASSUME NEW u \in Seq(Bytes), Len(u) < n, u \notin T PROVE FALSE
    OBVIOUS
  <2>1. Len(u) \in Nat
    OBVIOUS
  <2>2. Len(u) \in Lengths
    BY <2>1
  <2> QED
    BY <1>2, <2>1, <2>2
<1> QED
  BY <1>3, <1>4

\* What rule H makes of s depends only on what f is for shorter sequences.
Local(Fs, H) ==
    \A s \in Seq(Bytes) : \A f, g \in Fs :
        (\A t \in Seq(Bytes) : Len(t) < Len(s) => f[t] = g[t]) => H[s][f] = H[s][g]

\* f says what it should of every sequence shorter than n.
Solves(f, H, n) == \A s \in Seq(Bytes) : Len(s) < n => f[s] = H[s][f]

\* f and g are the same for every sequence that is shorter than n and than m.
Alike(f, g, n, m) == \A s \in Seq(Bytes) : Len(s) < n /\ Len(s) < m => f[s] = g[s]

\* Two such functions agree where both do.
LEMMA Agree ==
    \A Fs, H : Local(Fs, H) =>
        \A n, m \in Nat : \A f, g \in Fs :
            Solves(f, H, n) /\ Solves(g, H, m) => Alike(f, g, n, m)
<1> SUFFICES ASSUME NEW Fs, NEW H, Local(Fs, H),
                    NEW n \in Nat, NEW m \in Nat,
                    NEW f \in Fs, NEW g \in Fs,
                    Solves(f, H, n), Solves(g, H, m)
             PROVE  Alike(f, g, n, m)
  OBVIOUS
<1> DEFINE T == {s \in Seq(Bytes) : Len(s) < n /\ Len(s) < m => f[s] = g[s]}
<1>1. ASSUME NEW s \in Seq(Bytes), \A t \in Seq(Bytes) : Len(t) < Len(s) => t \in T
      PROVE  s \in T
  <2> SUFFICES ASSUME Len(s) < n, Len(s) < m PROVE f[s] = g[s]
    OBVIOUS
  <2>1. Len(s) \in Nat /\ \A t \in Seq(Bytes) : Len(t) \in Nat
    OBVIOUS
  <2>2. ASSUME NEW t \in Seq(Bytes), Len(t) < Len(s) PROVE f[t] = g[t]
    <3>1. Len(t) < n /\ Len(t) < m
      BY <2>1, <2>2
    <3>2. t \in T
      BY <1>1, <2>2
    <3> QED
      BY <3>1, <3>2
  <2>3. H[s][f] = H[s][g]
    BY <2>2 DEF Local
  <2>4. f[s] = H[s][f] /\ g[s] = H[s][g]
    BY DEF Solves
  <2> QED
    BY <2>3, <2>4
<1> HIDE DEF T
<1>2. \A s \in Seq(Bytes) : s \in T
  BY <1>1, ByLength
<1> QED
  BY <1>2 DEF T, Alike

\* H makes of every sequence, and of what f in Fs says of shorter ones, a member of R.
Rule(R, Fs, H) ==
    Fs = [Seq(Bytes) -> R] /\ H \in [Seq(Bytes) -> [Fs -> R]] /\ Local(Fs, H)

\* A rule that looks only at shorter sequences defines a function.
LEMMA Recursion ==
    \A R, Fs, H : R # {} /\ Rule(R, Fs, H) =>
        \E f \in Fs : \A s \in Seq(Bytes) : f[s] = H[s][f]
<1> SUFFICES ASSUME NEW R, NEW Fs, NEW H, R # {}, Rule(R, Fs, H)
             PROVE  \E f \in Fs : \A s \in Seq(Bytes) : f[s] = H[s][f]
  OBVIOUS
<1>1. PICK r \in R : TRUE
  OBVIOUS
<1> USE DEF Rule
<1>2. \A n \in Nat : \E f \in Fs : Solves(f, H, n)
  <2> DEFINE Failing == {n \in Nat : ~\E f \in Fs : Solves(f, H, n)}
  <2> SUFFICES ASSUME Failing # {} PROVE FALSE
    OBVIOUS
  <2>1. PICK n \in Failing : \A k \in Failing : n <= k
    BY Least
  <2>2. n # 0
    <3>1. [s \in Seq(Bytes) |-> r] \in Fs /\ \A s \in Seq(Bytes) : ~(Len(s) < 0)
      OBVIOUS
    <3>2. Solves([s \in Seq(Bytes) |-> r], H, 0)
      BY <3>1 DEF Solves
    <3> QED
      BY <2>1, <3>1, <3>2
  <2>3. n - 1 \in Nat /\ n - 1 \notin Failing
    BY <2>1, <2>2
  <2>4. PICK f \in Fs : Solves(f, H, n - 1)
    BY <2>3
  <2> DEFINE g == [s \in Seq(Bytes) |-> IF Len(s) < n - 1 THEN f[s] ELSE H[s][f]]
  <2>5. g \in Fs
    OBVIOUS
  <2>6. ASSUME NEW s \in Seq(Bytes), Len(s) < n PROVE g[s] = H[s][g]
    <3>1. \A t \in Seq(Bytes) : Len(t) < Len(s) => f[t] = g[t]
      <4> SUFFICES ASSUME NEW t \in Seq(Bytes), Len(t) < Len(s) PROVE f[t] = g[t]
        OBVIOUS
      <4>1. Len(t) < n - 1
        BY <2>3, <2>6
      <4> QED
        BY <4>1
    <3>2. H[s][f] = H[s][g]
      BY <2>5, <3>1 DEF Local
    <3>3. g[s] = H[s][f]
      BY <2>4 DEF Solves
    <3> QED
      BY <3>2, <3>3
  <2>7. Solves(g, H, n)
    BY <2>6 DEF Solves
  <2> QED
    BY <2>1, <2>5, <2>7
<1> DEFINE Some(n) == CHOOSE f \in Fs : Solves(f, H, n)
           F == [s \in Seq(Bytes) |-> Some(Len(s) + 1)[s]]
<1>3. \A n \in Nat : Some(n) \in Fs /\ Solves(Some(n), H, n)
  BY <1>2
<1>4. \A s \in Seq(Bytes) : Len(s) + 1 \in Nat
  OBVIOUS
<1> HIDE DEF Some
<1>5. F \in Fs
  BY <1>3, <1>4
<1>6. ASSUME NEW s \in Seq(Bytes) PROVE F[s] = H[s][F]
  <2>1. PICK n \in Nat, f \in Fs : n = Len(s) + 1 /\ f = Some(n) /\ Solves(f, H, n)
    BY <1>3, <1>4
  <2>2. ASSUME NEW t \in Seq(Bytes), Len(t) < Len(s) PROVE f[t] = F[t]
    <3>1. PICK m \in Nat, e \in Fs : m = Len(t) + 1 /\ e = Some(m) /\ Solves(e, H, m)
      BY <1>3, <1>4
    <3>2. Len(t) < n /\ Len(t) < m
      BY <2>1, <2>2, <3>1
    <3>3. Alike(f, e, n, m)
      BY <2>1, <3>1, Agree
    <3>4. f[t] = e[t]
      BY <3>2, <3>3 DEF Alike
    <3>5. F[t] = e[t]
      BY <3>1
    <3> QED
      BY <3>4, <3>5
  <2>3. Len(s) < n
    BY <2>1
  <2>4. f[s] = H[s][f]
    BY <2>1, <2>3 DEF Solves
  <2>5. H[s][f] = H[s][F]
    BY <1>5, <2>2 DEF Local
  <2>6. F[s] = f[s]
    BY <2>1
  <2> QED
    BY <2>4, <2>5, <2>6
<1> QED
  BY <1>5, <1>6

-----------------------------------------------------------------------------
(* Pieces of sequences                                                       *)

\* The least element that Min chooses.
LEMMA MinIs ==
    ASSUME NEW T \in SUBSET Nat, T # {}
    PROVE  Min(T) \in T /\ \A k \in T : Min(T) <= k
<1>1. \E m \in T : \A k \in T : m <= k
  BY Least
<1> QED
  BY <1>1 DEF Min

\* A sequence cut after its first n elements.
LEMMA CutAt ==
    ASSUME NEW s \in Seq(Bytes), NEW n \in 0..Len(s)
    PROVE  /\ SubSeq(s, 1, n) \in Seq(Bytes) /\ Len(SubSeq(s, 1, n)) = n
           /\ \A i \in 1..n : SubSeq(s, 1, n)[i] = s[i]
           /\ Drop(s, n) \in Seq(Bytes) /\ Len(Drop(s, n)) = Len(s) - n
           /\ \A i \in 1..(Len(s) - n) : Drop(s, n)[i] = s[n + i]
           /\ s = SubSeq(s, 1, n) \o Drop(s, n)
<1>1. Len(s) \in Nat /\ \A i \in 1..Len(s) : s[i] \in Bytes
  OBVIOUS
<1>2. /\ SubSeq(s, 1, n) \in Seq(Bytes) /\ Len(SubSeq(s, 1, n)) = n
      /\ \A i \in 1..n : SubSeq(s, 1, n)[i] = s[i]
  BY <1>1, SubSeqProperties
<1>3. /\ Drop(s, n) \in Seq(Bytes) /\ Len(Drop(s, n)) = Len(s) - n
      /\ \A i \in 1..(Len(s) - n) : Drop(s, n)[i] = s[n + i]
  BY <1>1, SubSeqProperties DEF Drop
<1>4. s = SubSeq(s, 1, n) \o Drop(s, n)
  <2>1. Len(SubSeq(s, 1, n) \o Drop(s, n)) = Len(s)
    BY <1>1, <1>2, <1>3
  <2>2. \A i \in 1..Len(s) : (SubSeq(s, 1, n) \o Drop(s, n))[i] = s[i]
    BY <1>1, <1>2, <1>3, ConcatProperties
  <2> QED
    BY <1>2, <1>3, <2>1, <2>2, SeqEqual, ConcatProperties
<1> QED
  BY <1>2, <1>3, <1>4

\* The elements of a concatenation.
LEMMA JoinIs ==
    ASSUME NEW s \in Seq(Bytes), NEW t \in Seq(Bytes)
    PROVE  /\ s \o t \in Seq(Bytes) /\ Len(s \o t) = Len(s) + Len(t)
           /\ \A i \in 1..Len(s) : (s \o t)[i] = s[i]
           /\ \A i \in 1..Len(t) : (s \o t)[Len(s) + i] = t[i]
<1>1. Len(s) \in Nat /\ Len(t) \in Nat
  OBVIOUS
<1>2. s \o t \in Seq(Bytes) /\ Len(s \o t) = Len(s) + Len(t)
  BY ConcatProperties
<1>3. ASSUME NEW i \in 1..Len(s) PROVE (s \o t)[i] = s[i]
  BY <1>1, ConcatProperties
<1>4. ASSUME NEW i \in 1..Len(t) PROVE (s \o t)[Len(s) + i] = t[i]
  <2>1. /\ Len(s) + i \in 1..(Len(s) + Len(t)) /\ ~(Len(s) + i <= Len(s))
        /\ (Len(s) + i) - Len(s) = i
    BY <1>1
  <2>2. (s \o t)[Len(s) + i] = IF Len(s) + i <= Len(s) THEN s[Len(s) + i]
                               ELSE t[(Len(s) + i) - Len(s)]
    BY <1>1, <2>1, ConcatProperties
  <2> QED
    BY <2>1, <2>2
<1> QED
  BY <1>2, <1>3, <1>4

\* Three sequences, joined either way.
EitherWay(s, t, u) == (s \o t) \o u = s \o (t \o u)

\* It is the same.
LEMMA JoinsAssociate ==
    \A s, t, u \in Seq(Bytes) : EitherWay(s, t, u)
BY ConcatAssociative DEF EitherWay

\* A concatenation cut in its first part.
LEMMA JoinAt ==
    ASSUME NEW s \in Seq(Bytes), NEW t \in Seq(Bytes), NEW n \in 0..Len(s)
    PROVE  /\ SubSeq(s \o t, 1, n) = SubSeq(s, 1, n)
           /\ Drop(s \o t, n) = Drop(s, n) \o t
<1>1. PICK st \in Seq(Bytes) :
          /\ st = s \o t /\ Len(st) = Len(s) + Len(t)
          /\ \A i \in 1..Len(s) : st[i] = s[i]
          /\ \A i \in 1..Len(t) : st[Len(s) + i] = t[i]
  BY JoinIs
<1>2. /\ Len(s) \in Nat /\ Len(t) \in Nat /\ n \in Nat /\ n <= Len(s)
      /\ n \in 0..Len(st)
  BY <1>1
<1>3. PICK a \in Seq(Bytes), d \in Seq(Bytes) :
          /\ a = SubSeq(s, 1, n) /\ Len(a) = n /\ \A i \in 1..n : a[i] = s[i]
          /\ d = Drop(s, n) /\ Len(d) = Len(s) - n
          /\ \A i \in 1..(Len(s) - n) : d[i] = s[n + i]
  BY CutAt
<1>4. PICK b \in Seq(Bytes), e \in Seq(Bytes) :
          /\ b = SubSeq(st, 1, n) /\ Len(b) = n /\ \A i \in 1..n : b[i] = st[i]
          /\ e = Drop(st, n) /\ Len(e) = Len(st) - n
          /\ \A i \in 1..(Len(st) - n) : e[i] = st[n + i]
  <2>1. PICK m \in 0..Len(st) : m = n
    BY <1>2
  <2>2. /\ SubSeq(st, 1, m) \in Seq(Bytes) /\ Len(SubSeq(st, 1, m)) = m
        /\ \A i \in 1..m : SubSeq(st, 1, m)[i] = st[i]
        /\ Drop(st, m) \in Seq(Bytes) /\ Len(Drop(st, m)) = Len(st) - m
        /\ \A i \in 1..(Len(st) - m) : Drop(st, m)[i] = st[m + i]
    BY CutAt
  <2> QED
    BY <2>1, <2>2
<1>5. a = b
  <2>1. \A i \in 1..n : a[i] = b[i]
    BY <1>1, <1>2, <1>3, <1>4
  <2> QED
    BY <1>3, <1>4, <2>1, SeqEqual
<1>6. e = d \o t
  <2>0. PICK dt \in Seq(Bytes) : dt = d \o t
    BY JoinIs
  <2>1. /\ Len(dt) = Len(d) + Len(t)
        /\ \A i \in 1..Len(d) : dt[i] = d[i]
        /\ \A i \in 1..Len(t) : dt[Len(d) + i] = t[i]
    BY <2>0, JoinIs
  <2>2. Len(e) = Len(dt) /\ Len(e) = Len(s) + Len(t) - n
    BY <1>1, <1>2, <1>3, <1>4, <2>1
  <2>3. ASSUME NEW i \in 1..Len(e) PROVE e[i] = dt[i]
    <3>1. i \in Nat /\ i >= 1 /\ i <= Len(s) + Len(t) - n
      BY <1>2, <2>2
    <3>2. e[i] = st[n + i]
      BY <1>1, <1>2, <1>4, <3>1
    <3>3. CASE i <= Len(s) - n
      <4>1. i \in 1..Len(d) /\ n + i \in 1..Len(s) /\ i \in 1..(Len(s) - n)
        BY <1>2, <1>3, <3>1, <3>3
      <4> QED
        BY <1>1, <1>3, <2>1, <3>2, <4>1
    <3>4. CASE i > Len(s) - n
      <4> DEFINE k == (n + i) - Len(s)
      <4>1. k \in 1..Len(t) /\ n + i = Len(s) + k
        BY <1>2, <3>1, <3>4
      <4> HIDE DEF k
      <4>2. i = Len(d) + k
        BY <1>2, <1>3, <3>1, <4>1
      <4>3. dt[i] = t[k] /\ st[n + i] = t[k]
        BY <1>1, <2>1, <4>1, <4>2
      <4> QED
        BY <3>2, <4>3
    <3> QED
      BY <1>2, <3>1, <3>3, <3>4
  <2>4. e = dt
    BY <2>2, <2>3, SeqEqual
  <2> QED
    BY <2>0, <2>4
<1> QED
  BY <1>1, <1>3, <1>4, <1>5, <1>6

-----------------------------------------------------------------------------
(* Classify                                                                 *)

\* Where a control sequence that s begins with may end.
Ends(s) == {i \in 3..Len(s) : ~IsDigit(s[i]) /\ s[i] \notin {";", ":"}}

\* The elements of a middle part.
LEMMA MiddleAt ==
    ASSUME NEW s \in Seq(Bytes), NEW m \in Nat, NEW n \in Nat,
           m >= 1, n <= Len(s), m <= n + 1
    PROVE  /\ SubSeq(s, m, n) \in Seq(Bytes) /\ Len(SubSeq(s, m, n)) = n - m + 1
           /\ \A i \in 1..(n - m + 1) : SubSeq(s, m, n)[i] = s[m + i - 1]
<1>1. \A i \in m..n : s[i] \in Bytes
  BY ElementOfSeq
<1> QED
  BY <1>1, SubSeqProperties

\* The same, as bounds.
LEMMA EndsAre ==
    ASSUME NEW s \in Seq(Bytes), NEW i
    PROVE  /\ Len(s) \in Nat
           /\ i \in Ends(s) <=> /\ i \in Nat /\ 3 <= i /\ i <= Len(s)
                              /\ ~IsDigit(s[i]) /\ s[i] \notin {";", ":"}
<1>1. Len(s) \in Nat
  OBVIOUS
<1>2. i \in 3..Len(s) <=> i \in Nat /\ 3 <= i /\ i <= Len(s)
  BY <1>1
<1>3. i \in Ends(s) <=> i \in 3..Len(s) /\ ~IsDigit(s[i]) /\ s[i] \notin {";", ":"}
  BY DEF Ends
<1> QED
  BY <1>1, <1>2, <1>3

\* What Classify says of a sequence, one case at a time.
LEMMA ClassifyCases ==
    ASSUME NEW s \in Seq(Bytes), s # <<>>
    PROVE  /\ Len(s) \in Nat /\ Len(s) >= 1
           /\ s[1] # "esc" => Classify(s) = Class("plain", 1)
           /\ s[1] = "esc" /\ Len(s) = 1 => Classify(s) = Class("incomplete", 0)
           /\ s[1] = "esc" /\ Len(s) > 1 /\ s[2] # "[" => Classify(s) = Class("plain", 1)
           /\ s[1] = "esc" /\ Len(s) > 1 /\ s[2] = "[" =>
                /\ Ends(s) = {} => Classify(s) = Class("incomplete", 0)
                /\ Ends(s) # {} =>
                     /\ Min(Ends(s)) \in Ends(s) /\ \A i \in Ends(s) : Min(Ends(s)) <= i
                     /\ s[Min(Ends(s))] # "u" => Classify(s) = Class("plain", 1)
                     /\ s[Min(Ends(s))] = "u" =>
                          Classify(s) =
                              Class(IF IsKittyRelease(SubSeq(s, 3, Min(Ends(s)) - 1))
                                    THEN "release" ELSE "other", Min(Ends(s)))
<1>1. Len(s) \in Nat /\ Len(s) >= 1
  BY EmptySeq
<1>2. Ends(s) # {} => Min(Ends(s)) \in Ends(s) /\ \A i \in Ends(s) : Min(Ends(s)) <= i
  <2>1. Ends(s) \in SUBSET Nat
    BY EndsAre
  <2> QED
    BY <2>1, MinIs
<1>3. Classify(s) =
        CASE s[1] # "esc" -> Class("plain", 1)
          [] s[1] = "esc" /\ Len(s) = 1 -> Class("incomplete", 0)
          [] s[1] = "esc" /\ Len(s) > 1 /\ s[2] # "[" -> Class("plain", 1)
          [] OTHER -> IF Ends(s) = {} THEN Class("incomplete", 0)
                      ELSE IF s[Min(Ends(s))] # "u" THEN Class("plain", 1)
                      ELSE IF IsKittyRelease(SubSeq(s, 3, Min(Ends(s)) - 1))
                           THEN Class("release", Min(Ends(s)))
                           ELSE Class("other", Min(Ends(s)))
  BY DEF Classify, Ends
<1> QED
  BY <1>1, <1>2, <1>3

\* The length of what a sequence begins with.
LEMMA ClassifyLength ==
    ASSUME NEW s \in Seq(Bytes), s # <<>>
    PROVE  /\ Classify(s).kind = "incomplete" => s[1] = "esc"
           /\ Classify(s).kind # "incomplete" => Classify(s).length \in 1..Len(s)
<1>0. Len(s) \in Nat /\ Len(s) >= 1
  BY ClassifyCases
<1>1. Ends(s) \subseteq 1..Len(s)
  <2> SUFFICES ASSUME NEW i \in Ends(s) PROVE i \in 1..Len(s)
    OBVIOUS
  <2>1. PICK k \in Nat : k = i /\ 3 <= k /\ k <= Len(s)
    BY EndsAre
  <2> QED
    BY <2>1
<1>2. CASE s[1] # "esc"
  BY <1>2, ClassifyCases DEF Class
<1>3. CASE s[1] = "esc" /\ Len(s) = 1
  BY <1>3, ClassifyCases DEF Class
<1>4. CASE s[1] = "esc" /\ Len(s) > 1 /\ s[2] # "["
  BY <1>4, ClassifyCases DEF Class
<1>5. CASE s[1] = "esc" /\ Len(s) > 1 /\ s[2] = "["
  BY <1>1, <1>5, ClassifyCases DEF Class
<1>6. Len(s) = 1 \/ Len(s) > 1
  <2>1. PICK n \in Nat : n = Len(s) /\ n >= 1
    BY <1>0
  <2> QED
    BY <2>1
<1> QED
  BY <1>2, <1>3, <1>4, <1>5, <1>6

\* What a sequence begins with, once it is known, stays what it is when more comes.
LEMMA ClassifyStays ==
    ASSUME NEW s \in Seq(Bytes), NEW t \in Seq(Bytes), s # <<>>,
           Classify(s).kind # "incomplete"
    PROVE  Classify(s \o t) = Classify(s)
<1>1. PICK st \in Seq(Bytes) : st = s \o t
  BY JoinIs
<1>2. Len(st) = Len(s) + Len(t) /\ \A i \in 1..Len(s) : st[i] = s[i]
  BY <1>1, JoinIs
<1>3. Len(s) \in Nat /\ Len(s) >= 1 /\ Len(t) \in Nat /\ st # <<>>
  BY <1>2, EmptySeq
<1>4. st[1] = s[1] /\ (Len(s) > 1 => st[2] = s[2])
  BY <1>2, <1>3
<1>5. CASE s[1] # "esc"
  BY <1>1, <1>3, <1>4, <1>5, ClassifyCases
<1>6. CASE s[1] = "esc" /\ Len(s) = 1
  BY <1>6, ClassifyCases DEF Class
<1>7. CASE s[1] = "esc" /\ Len(s) > 1 /\ s[2] # "["
  <2>1. st[1] = "esc" /\ Len(st) > 1 /\ st[2] # "["
    BY <1>2, <1>3, <1>4, <1>7
  <2> QED
    BY <1>1, <1>3, <1>7, <2>1, ClassifyCases
<1>8. CASE s[1] = "esc" /\ Len(s) > 1 /\ s[2] = "["
  <2>1. Ends(s) # {}
    BY <1>8, ClassifyCases DEF Class
  <2> DEFINE end == Min(Ends(s))
  <2>2. end \in Ends(s) /\ \A i \in Ends(s) : end <= i
    BY <1>8, <2>1, ClassifyCases
  <2> HIDE DEF end
  <2>3. end \in Nat /\ end >= 3 /\ end <= Len(s)
    BY <2>2, EndsAre
  <2>4. end \in Ends(st)
    <3>1. end <= Len(st) /\ st[end] = s[end]
      BY <1>2, <1>3, <2>3
    <3>2. ~IsDigit(s[end]) /\ s[end] \notin {";", ":"}
      BY <2>2, EndsAre
    <3> QED
      BY <2>3, <3>1, <3>2, EndsAre
  <2>5. ASSUME NEW i \in Ends(st) PROVE end <= i
    <3>0. PICK k \in Nat : k = i /\ k >= 3
      BY EndsAre
    <3>1. ~IsDigit(st[k]) /\ st[k] \notin {";", ":"}
      BY <3>0, EndsAre
    <3>2. ASSUME k <= Len(s) PROVE end <= k
      <4>1. st[k] = s[k]
        <5>1. k >= 1 /\ k <= Len(s)
          BY <3>0, <3>2
        <5> QED
          BY <1>2, <5>1
      <4>2. k \in Ends(s)
        BY <3>0, <3>1, <3>2, <4>1, EndsAre
      <4> QED
        BY <2>2, <4>2
    <3>3. ASSUME ~(k <= Len(s)) PROVE end <= k
      BY <1>3, <2>3, <3>3
    <3> QED
      BY <3>0, <3>2, <3>3
  <2>6. Min(Ends(st)) = end
    <3>1. Min(Ends(st)) \in Ends(st) /\ \A i \in Ends(st) : Min(Ends(st)) <= i
      BY <1>2, <1>3, <1>4, <1>8, <2>4, ClassifyCases
    <3>2. Min(Ends(st)) \in Nat
      BY <3>1, EndsAre
    <3> QED
      BY <2>3, <2>4, <2>5, <3>1, <3>2
  <2>7. SubSeq(st, 3, end - 1) = SubSeq(s, 3, end - 1)
    <3>1. /\ SubSeq(st, 3, end - 1) \in Seq(Bytes) /\ Len(SubSeq(st, 3, end - 1)) = end - 3
          /\ \A i \in 1..(end - 3) : SubSeq(st, 3, end - 1)[i] = st[3 + i - 1]
      BY <1>2, <1>3, <2>3, MiddleAt
    <3>2. /\ SubSeq(s, 3, end - 1) \in Seq(Bytes) /\ Len(SubSeq(s, 3, end - 1)) = end - 3
          /\ \A i \in 1..(end - 3) : SubSeq(s, 3, end - 1)[i] = s[3 + i - 1]
      BY <2>3, MiddleAt
    <3>3. \A i \in 1..(end - 3) : st[3 + i - 1] = s[3 + i - 1]
      BY <1>2, <1>3, <2>3
    <3> QED
      BY <3>1, <3>2, <3>3, SeqEqual
  <2>8. st[end] = s[end]
    BY <1>2, <2>3
  <2> DEFINE kind == IF IsKittyRelease(SubSeq(s, 3, end - 1)) THEN "release" ELSE "other"
  <2>9. Classify(s) = IF s[end] # "u" THEN Class("plain", 1) ELSE Class(kind, end)
    BY <1>8, <2>1, ClassifyCases DEF end
  <2>10. Classify(st) = IF s[end] # "u" THEN Class("plain", 1) ELSE Class(kind, end)
    <3>1. st[1] = "esc" /\ Len(st) > 1 /\ st[2] = "[" /\ Ends(st) # {}
      BY <1>2, <1>3, <1>4, <1>8, <2>4
    <3>2. st[Min(Ends(st))] = s[end]
      BY <2>6, <2>8
    <3>3. s[end] # "u" => Classify(st) = Class("plain", 1)
      BY <1>3, <3>1, <3>2, ClassifyCases
    <3>4. s[end] = "u" => Classify(st) = Class(kind, end)
      BY <1>3, <2>6, <2>7, <3>1, <3>2, ClassifyCases
    <3> QED
      BY <3>3, <3>4
  <2> QED
    BY <1>1, <2>9, <2>10
<1>9. Len(s) = 1 \/ Len(s) > 1
  <2>1. PICK n \in Nat : n = Len(s) /\ n >= 1
    BY <1>3
  <2> QED
    BY <2>1
<1> QED
  BY <1>5, <1>6, <1>7, <1>8, <1>9

\* The second field of p is between the separators at a and b, or its end.
FieldAt(p, separator, a, b) ==
    /\ a >= 1 /\ a < b /\ b <= Len(p) + 1
    /\ p[a] = separator /\ \A i \in 1..(a - 1) : p[i] # separator
    /\ b <= Len(p) => p[b] = separator
    /\ \A i \in (a + 1)..(b - 1) : p[i] # separator
    /\ Second(p, separator) = SubSeq(p, a + 1, b - 1)

\* The field that Second finds is one.
LEMMA SecondIs ==
    ASSUME NEW p \in Seq(Bytes), NEW separator \in Bytes, Second(p, separator) # <<>>
    PROVE  \E a, b \in Nat : FieldAt(p, separator, a, b)
<1> DEFINE cuts == {i \in 1..Len(p) : p[i] = separator}
           a == Min(cuts)
           next == cuts \ {a}
           b == IF next = {} THEN Len(p) + 1 ELSE Min(next)
<1>1. Second(p, separator) =
        IF cuts = {} THEN <<>>
        ELSE SubSeq(p, a + 1, IF next = {} THEN Len(p) ELSE Min(next) - 1)
  BY DEF Second
<1>2. cuts # {} /\ cuts \in SUBSET Nat /\ next \in SUBSET Nat /\ Len(p) \in Nat
  BY <1>1
<1>3. a \in cuts /\ \A i \in cuts : a <= i
  BY <1>2, MinIs
<1>4. next # {} => Min(next) \in next /\ \A i \in next : Min(next) <= i
  BY <1>2, MinIs
<1>5. \A i : i \in cuts <=> i \in 1..Len(p) /\ p[i] = separator
  OBVIOUS
<1>6. \A i : i \in next <=> i \in cuts /\ i # a
  OBVIOUS
<1> HIDE DEF cuts, a, next
<1>7. a \in Nat /\ a >= 1 /\ a <= Len(p) /\ p[a] = separator
  BY <1>2, <1>3, <1>5
<1>8. b \in Nat /\ a < b /\ b <= Len(p) + 1 /\ (b <= Len(p) => p[b] = separator)
  <2>1. CASE next = {}
    BY <1>2, <1>7, <2>1
  <2>2. CASE next # {}
    <3>1. PICK k \in Nat : k = Min(next) /\ k \in cuts /\ k # a
      BY <1>2, <1>4, <1>6, <2>2
    <3>2. k >= 1 /\ k <= Len(p) /\ p[k] = separator /\ a <= k
      BY <1>2, <1>3, <1>5, <3>1
    <3> QED
      BY <1>2, <1>7, <2>2, <3>1, <3>2
  <2> QED
    BY <2>1, <2>2
<1>9. \A i \in 1..(a - 1) : p[i] # separator
  BY <1>2, <1>3, <1>5, <1>7
<1>10. ASSUME NEW i \in (a + 1)..(b - 1), p[i] = separator PROVE FALSE
  <2>0. PICK n \in Nat : n = b
    BY <1>8
  <2>1. i \in Nat /\ i > a /\ i < n /\ n <= Len(p) + 1
    BY <1>7, <1>8, <2>0
  <2>2. i \in 1..Len(p)
    BY <1>2, <1>7, <2>1
  <2>3. i \in next
    BY <1>5, <1>6, <1>7, <1>10, <2>1, <2>2
  <2>4. b = Min(next) /\ b <= i
    BY <1>4, <2>3
  <2> QED
    BY <2>0, <2>1, <2>4
<1>11. Second(p, separator) = SubSeq(p, a + 1, b - 1)
  <2>1. CASE next = {}
    <3>1. b - 1 = Len(p)
      BY <1>2, <2>1
    <3> QED
      BY <1>1, <1>2, <2>1, <3>1
  <2>2. CASE next # {}
    BY <1>1, <1>2, <2>2
  <2> QED
    BY <2>1, <2>2
<1> HIDE DEF b
<1>12. FieldAt(p, separator, a, b)
  BY <1>7, <1>8, <1>9, <1>10, <1>11 DEF FieldAt
<1> QED
  BY <1>7, <1>8, <1>12

\* The second field of nothing.
LEMMA SecondOfNone ==
    ASSUME NEW separator \in Bytes
    PROVE  Second(<<>>, separator) = <<>>
<1>1. <<>> \in Seq(Bytes) /\ Len(<<>>) = 0
  BY EmptySeq
<1>2. ASSUME NEW a \in Nat, NEW b \in Nat, FieldAt(<<>>, separator, a, b)
      PROVE  FALSE
  <2>1. a >= 1 /\ a < b /\ b <= Len(<<>>) + 1
    BY <1>2 DEF FieldAt
  <2> QED
    BY <1>1, <2>1
<1> QED
  BY <1>1, <1>2, SecondIs

\* What Classify takes for a release is a release report.
LEMMA ReleaseIsReport ==
    ASSUME NEW s \in Seq(Bytes), s # <<>>, Classify(s).kind = "release"
    PROVE  IsReleaseReport(SubSeq(s, 1, Classify(s).length))
<1>1. Len(s) \in Nat /\ Len(s) >= 1 /\ (Len(s) = 1 \/ Len(s) > 1)
  <2>1. PICK n \in Nat : n = Len(s) /\ n >= 1
    BY ClassifyCases
  <2> QED
    BY <2>1
<1>2. s[1] = "esc" /\ Len(s) > 1 /\ s[2] = "["
  BY <1>1, ClassifyCases DEF Class
<1>3. Ends(s) # {}
  BY <1>2, ClassifyCases DEF Class
<1> DEFINE end == Min(Ends(s))
<1>4. end \in Ends(s) /\ \A i \in Ends(s) : end <= i
  BY <1>2, <1>3, ClassifyCases
<1>5. /\ s[end] = "u" /\ Classify(s).length = end
      /\ IsKittyRelease(SubSeq(s, 3, end - 1))
  BY <1>2, <1>3, ClassifyCases DEF Class
<1> HIDE DEF end
<1>6. end \in Nat /\ 3 <= end /\ end <= Len(s)
  BY <1>4, EndsAre
<1>7. ASSUME NEW i \in 3..(end - 1) PROVE IsDigit(s[i]) \/ s[i] \in {";", ":"}
  <2>1. i \in Nat /\ 3 <= i /\ i < end /\ i <= Len(s)
    BY <1>1, <1>6
  <2>2. i \notin Ends(s)
    BY <1>4, <1>6, <2>1
  <2> QED
    BY <2>1, <2>2, EndsAre
<1>8. PICK p \in Seq(Bytes) :
          /\ p = SubSeq(s, 3, end - 1) /\ Len(p) = end - 3
          /\ \A i \in 1..(end - 3) : p[i] = s[i + 2]
  <2>0. /\ end - 1 \in Nat /\ end - 1 <= Len(s) /\ 3 <= (end - 1) + 1
        /\ 3 \in Nat /\ 3 >= 1
    BY <1>1, <1>6
  <2>1. PICK p \in Seq(Bytes) : p = SubSeq(s, 3, end - 1)
    <3>1. SubSeq(s, 3, end - 1) \in Seq(Bytes)
      BY <2>0, MiddleAt
    <3> QED
      BY <3>1
  <2>2. Len(p) = (end - 1) - 3 + 1 /\ \A i \in 1..((end - 1) - 3 + 1) : p[i] = s[3 + i - 1]
    BY <2>0, <2>1, MiddleAt
  <2>3. (end - 1) - 3 + 1 = end - 3 /\ \A i \in 1..(end - 3) : 3 + i - 1 = i + 2
    BY <1>6
  <2> QED
    BY <2>1, <2>2, <2>3
<1>9. Second(Second(p, ";"), ":") = <<"3">>
  BY <1>5, <1>8 DEF IsKittyRelease
<1>30. <<"3">> # <<>>
  OBVIOUS
<1>10. ";" \in Bytes /\ ":" \in Bytes
  BY DEF Bytes
<1>11. Second(p, ";") # <<>>
  <2>1. ASSUME Second(p, ";") = <<>> PROVE Second(<<>>, ":") = <<"3">>
    BY <1>9, <2>1, Zenon
  <2> QED
    BY <1>10, <1>30, <2>1, SecondOfNone
<1>12. PICK a \in Nat, b \in Nat :
          /\ a >= 1 /\ a < b /\ b <= Len(p) + 1
          /\ p[a] = ";" /\ \A i \in 1..(a - 1) : p[i] # ";"
          /\ b <= Len(p) => p[b] = ";"
          /\ \A i \in (a + 1)..(b - 1) : p[i] # ";"
          /\ Second(p, ";") = SubSeq(p, a + 1, b - 1)
  <2>1. \E a, b \in Nat : FieldAt(p, ";", a, b)
    BY <1>10, <1>11, SecondIs
  <2> QED
    BY <2>1 DEF FieldAt
<1> DEFINE lp == Len(p)
<1>31. lp \in Nat /\ lp = end - 3
  BY <1>6, <1>8
<1>32. a >= 1 /\ a < b /\ b <= lp + 1
  BY <1>12
<1> HIDE DEF lp
<1>13. PICK q \in Seq(Bytes) :
          /\ q = Second(p, ";") /\ Len(q) = b - a - 1
          /\ \A i \in 1..(b - a - 1) : q[i] = p[a + i]
  <2>0. a + 1 \in Nat /\ b - 1 \in Nat /\ b - 1 <= Len(p) /\ a + 1 <= (b - 1) + 1 /\ a + 1 >= 1
    <3>1. b - 1 <= lp
      BY <1>31, <1>32
    <3> QED
      BY <1>32, <3>1 DEF lp
  <2>1. PICK q \in Seq(Bytes) : q = SubSeq(p, a + 1, b - 1)
    BY <2>0, MiddleAt
  <2>2. /\ Len(q) = (b - 1) - (a + 1) + 1
        /\ \A i \in 1..((b - 1) - (a + 1) + 1) : q[i] = p[(a + 1) + i - 1]
    BY <2>0, <2>1, MiddleAt
  <2>3. /\ (b - 1) - (a + 1) + 1 = b - a - 1
        /\ \A i \in 1..(b - a - 1) : (a + 1) + i - 1 = a + i
    BY <1>32
  <2> QED
    BY <1>12, <2>1, <2>2, <2>3
<1>14. PICK c \in Nat, d \in Nat :
          /\ c >= 1 /\ c < d /\ d <= Len(q) + 1
          /\ q[c] = ":" /\ \A i \in 1..(c - 1) : q[i] # ":"
          /\ d <= Len(q) => q[d] = ":"
          /\ SubSeq(q, c + 1, d - 1) = <<"3">>
  <2>0. Second(q, ":") = <<"3">>
    BY <1>9, <1>13, Zenon
  <2>1. Second(q, ":") # <<>>
    BY <1>30, <2>0
  <2>2. \E c, d \in Nat : FieldAt(q, ":", c, d)
    BY <1>10, <2>1, SecondIs
  <2> QED
    BY <2>0, <2>2 DEF FieldAt
<1> DEFINE lq == Len(q)
<1>33. lq \in Nat /\ lq = b - a - 1
  <2>1. Len(q) \in Nat
    OBVIOUS
  <2> QED
    BY <1>13, <2>1
<1>34. c >= 1 /\ c < d /\ d <= lq + 1
  BY <1>14
<1> HIDE DEF lq
<1>15. d = c + 2 /\ q[c + 1] = "3"
  <2>0. /\ c + 1 \in Nat /\ d - 1 \in Nat /\ d - 1 <= Len(q) /\ c + 1 <= (d - 1) + 1
        /\ c + 1 >= 1
    <3>1. d - 1 <= lq
      BY <1>33, <1>34
    <3> QED
      BY <1>34, <3>1 DEF lq
  <2>1. /\ Len(SubSeq(q, c + 1, d - 1)) = (d - 1) - (c + 1) + 1
        /\ \A i \in 1..((d - 1) - (c + 1) + 1) :
              SubSeq(q, c + 1, d - 1)[i] = q[(c + 1) + i - 1]
    BY <2>0, MiddleAt
  <2>2. Len(<<"3">>) = 1 /\ <<"3">>[1] = "3"
    OBVIOUS
  <2>3. (d - 1) - (c + 1) + 1 = 1
    BY <1>14, <2>1, <2>2
  <2>4. <<"3">>[1] = q[(c + 1) + 1 - 1]
    <3>1. SubSeq(q, c + 1, d - 1) = <<"3">>
      BY <1>14
    <3>2. 1 \in 1..((d - 1) - (c + 1) + 1)
      BY <2>3
    <3> QED
      BY <2>1, <3>1, <3>2
  <2>5. (c + 1) + 1 - 1 = c + 1 /\ d = c + 2
    BY <1>34, <2>3
  <2> QED
    BY <2>2, <2>4, <2>5
<1> DEFINE semi == a + 2
           colon == a + c + 2
<1>16. PICK r \in Seq(Bytes) :
          /\ r = SubSeq(s, 1, end) /\ Len(r) = end /\ \A i \in 1..end : r[i] = s[i]
  <2>1. end \in 0..Len(s)
    BY <1>1, <1>6
  <2>2. PICK r \in Seq(Bytes) : r = SubSeq(s, 1, end)
    BY <2>1, CutAt
  <2> QED
    BY <2>1, <2>2, CutAt
<1>35. d = c + 2
  BY <1>15
<1>17. /\ semi \in Nat /\ colon \in Nat /\ 3 <= semi /\ semi < colon /\ colon + 2 <= end
       /\ end - 3 \in Nat /\ a + c + 1 <= end - 3 /\ a <= end - 3 /\ b <= end - 2
       /\ c + 1 <= b - a - 1 /\ b - a - 1 \in Nat
  BY <1>6, <1>31, <1>32, <1>33, <1>34, <1>35
<1>18. \A i \in 1..(end - 3) : r[i + 2] = p[i]
  BY <1>6, <1>8, <1>16, <1>17
<1>19. \A i \in 1..(b - a - 1) : r[semi + i] = q[i]
  <2> SUFFICES ASSUME NEW i \in 1..(b - a - 1) PROVE r[semi + i] = q[i]
    OBVIOUS
  <2>1. a + i \in 1..(end - 3)
    <3>1. i >= 1 /\ i <= b - a - 1 /\ i \in Nat
      BY <1>17
    <3>2. b <= end - 2
      BY <1>17
    <3> QED
      BY <1>6, <1>32, <3>1, <3>2
  <2>2. semi + i = (a + i) + 2
    OBVIOUS
  <2> QED
    BY <1>13, <1>18, <2>1, <2>2
<1>20. r[semi] = ";" /\ r[colon] = ":" /\ r[colon + 1] = "3"
  <2>1. a \in 1..(end - 3) /\ c \in 1..(b - a - 1) /\ c + 1 \in 1..(b - a - 1)
    BY <1>17, <1>32, <1>34
  <2>2. colon = semi + c /\ colon + 1 = semi + (c + 1)
    BY <1>32, <1>34
  <2>3. p[a] = ";" /\ q[c] = ":"
    BY <1>12, <1>14
  <2>4. r[semi] = p[a] /\ r[colon] = q[c] /\ r[colon + 1] = q[c + 1]
    BY <1>18, <1>19, <2>1, <2>2
  <2> QED
    BY <1>15, <2>3, <2>4
<1>21. r[colon + 2] \in {";", ":", "u"}
  <2>1. CASE d <= lq
    <3>1. d \in 1..(b - a - 1) /\ colon + 2 = semi + d
      BY <1>17, <1>33, <1>34, <1>35, <2>1
    <3>2. q[d] = ":"
      BY <1>14, <2>1 DEF lq
    <3> QED
      BY <1>19, <3>1, <3>2
  <2>2. CASE ~(d <= lq)
    <3>1. d = b - a /\ colon + 2 = b + 2
      BY <1>32, <1>33, <1>34, <1>35, <2>2
    <3>2. CASE b <= lp
      <4>1. b \in 1..(end - 3)
        BY <1>31, <1>32, <3>2
      <4>2. p[b] = ";"
        BY <1>12, <3>2 DEF lp
      <4> QED
        BY <1>18, <3>1, <4>1, <4>2
    <3>3. CASE ~(b <= lp)
      <4>1. colon + 2 = end /\ end \in 1..end
        BY <1>6, <1>31, <1>32, <3>1, <3>3
      <4> QED
        BY <1>5, <1>16, <4>1
    <3> QED
      BY <3>2, <3>3
  <2> QED
    BY <2>1, <2>2
<1>22. \A i \in 3..(semi - 1) : r[i] # ";"
  <2> SUFFICES ASSUME NEW i \in 3..(semi - 1) PROVE r[i] # ";"
    OBVIOUS
  <2>1. i - 2 \in 1..(a - 1) /\ i - 2 \in 1..(end - 3) /\ (i - 2) + 2 = i
    BY <1>17, <1>32
  <2>2. p[i - 2] # ";"
    BY <1>12, <2>1
  <2> QED
    BY <1>18, <2>1, <2>2
<1>23. \A i \in (semi + 1)..(colon - 1) : r[i] \notin {";", ":"}
  <2> SUFFICES ASSUME NEW i \in (semi + 1)..(colon - 1) PROVE r[i] \notin {";", ":"}
    OBVIOUS
  <2> DEFINE k == i - semi
  <2>1. k \in 1..(c - 1) /\ k \in 1..(b - a - 1) /\ a + k \in (a + 1)..(b - 1) /\ semi + k = i
    BY <1>17, <1>32, <1>34
  <2> HIDE DEF k
  <2>2. r[i] = q[k] /\ q[k] = p[a + k]
    BY <1>13, <1>19, <2>1
  <2>3. q[k] # ":" /\ p[a + k] # ";"
    BY <1>12, <1>14, <2>1
  <2> QED
    BY <2>2, <2>3
<1>24. /\ r[1] = "esc" /\ r[2] = "[" /\ r[end] = "u" /\ end >= 6
       /\ \A i \in 3..(end - 1) : IsDigit(r[i]) \/ r[i] \in {";", ":"}
  <2>1. \A i \in 3..(end - 1) : r[i] = s[i]
    BY <1>6, <1>16
  <2>2. 1 \in 1..end /\ 2 \in 1..end /\ end \in 1..end /\ end >= 6
    BY <1>6, <1>17, <1>32, <1>34
  <2> QED
    BY <1>2, <1>5, <1>7, <1>16, <2>1, <2>2
<1>25. semi \in 3..(end - 2) /\ colon \in 3..(end - 2)
  BY <1>6, <1>17
<1> HIDE DEF semi, colon
<1>26. IsReleaseReport(r)
  BY <1>16, <1>17, <1>20, <1>21, <1>22, <1>23, <1>24, <1>25 DEF IsReleaseReport
<1> QED
  BY <1>5, <1>16, <1>26

-----------------------------------------------------------------------------
(* Pass                                                                     *)

Passed == [out : Seq(Bytes), rest : Seq(Bytes)]

\* What Pass says of s, if f is what it says of shorter sequences.
PassBody(f, s) ==
    IF s = <<>> THEN [out |-> <<>>, rest |-> <<>>]
    ELSE LET class == Classify(s)
             after == f[Drop(s, class.length)]
         IN  CASE class.kind = "incomplete" -> [out |-> <<>>, rest |-> s]
               [] class.kind = "release" -> after
               [] OTHER -> [out  |-> SubSeq(s, 1, class.length) \o after.out,
                            rest |-> after.rest]

\* What remains after what s begins with is shorter.
LEMMA DropShorter ==
    ASSUME NEW s \in Seq(Bytes), s # <<>>, Classify(s).kind # "incomplete"
    PROVE  /\ Classify(s).length \in 0..Len(s) /\ Classify(s).length # 0
           /\ Drop(s, Classify(s).length) \in Seq(Bytes)
           /\ Len(Drop(s, Classify(s).length)) < Len(s)
           /\ SubSeq(s, 1, Classify(s).length) \in Seq(Bytes)
<1> DEFINE n == Classify(s).length
<1>1. n \in 1..Len(s)
  BY ClassifyLength
<1> HIDE DEF n
<1>2. n \in 0..Len(s) /\ n # 0 /\ Len(s) \in Nat
  BY <1>1
<1>3. Drop(s, n) \in Seq(Bytes) /\ SubSeq(s, 1, n) \in Seq(Bytes) /\ Len(Drop(s, n)) = Len(s) - n
  BY <1>2, CutAt
<1>4. Len(Drop(s, n)) < Len(s)
  BY <1>1, <1>2, <1>3
<1> QED
  BY <1>2, <1>3, <1>4 DEF n

\* Pass is the function its definition describes.
LEMMA PassIs ==
    /\ Pass \in [Seq(Bytes) -> Passed]
    /\ \A s \in Seq(Bytes) : Pass[s] = PassBody(Pass, s)
<1> DEFINE Fs == [Seq(Bytes) -> Passed]
           H  == [s \in Seq(Bytes) |-> [f \in Fs |-> PassBody(f, s)]]
<1>0. Fs = [Seq(Bytes) -> Passed]
  OBVIOUS
<1>1. ASSUME NEW s \in Seq(Bytes), NEW f,
             \A t \in Seq(Bytes) : Len(t) < Len(s) => f[t] \in Passed
      PROVE  PassBody(f, s) \in Passed
  <2>1. CASE s = <<>> \/ Classify(s).kind = "incomplete"
    BY <2>1, EmptySeq DEF PassBody, Passed
  <2>2. CASE s # <<>> /\ Classify(s).kind # "incomplete"
    <3>1. PICK a \in Passed : a = f[Drop(s, Classify(s).length)]
      BY <1>1, <2>2, DropShorter
    <3>2. a.out \in Seq(Bytes) /\ a.rest \in Seq(Bytes)
      BY DEF Passed
    <3>3. SubSeq(s, 1, Classify(s).length) \o a.out \in Seq(Bytes)
      BY <2>2, <3>2, DropShorter, JoinIs
    <3>4. PassBody(f, s) = IF Classify(s).kind = "release" THEN a
                           ELSE [out  |-> SubSeq(s, 1, Classify(s).length) \o a.out,
                                 rest |-> a.rest]
      BY <2>2, <3>1 DEF PassBody
    <3> QED
      BY <3>2, <3>3, <3>4 DEF Passed
  <2> QED
    BY <2>1, <2>2
<1>2. Local(Fs, H)
  <2> SUFFICES ASSUME NEW s \in Seq(Bytes), NEW f \in Fs, NEW g \in Fs,
                      \A t \in Seq(Bytes) : Len(t) < Len(s) => f[t] = g[t]
               PROVE  PassBody(f, s) = PassBody(g, s)
    BY DEF Local
  <2>1. CASE s = <<>> \/ Classify(s).kind = "incomplete"
    BY <2>1 DEF PassBody
  <2>2. CASE s # <<>> /\ Classify(s).kind # "incomplete"
    <3>1. f[Drop(s, Classify(s).length)] = g[Drop(s, Classify(s).length)]
      BY <2>2, DropShorter
    <3> QED
      BY <3>1 DEF PassBody
  <2> QED
    BY <2>1, <2>2
<1>3. H \in [Seq(Bytes) -> [Fs -> Passed]]
  BY <1>1
<1>4. [out |-> <<>>, rest |-> <<>>] \in Passed
  BY EmptySeq DEF Passed
<1> HIDE DEF H, Fs
<1>5. PICK f \in Fs : \A s \in Seq(Bytes) : f[s] = H[s][f]
  <2>1. Rule(Passed, Fs, H)
    BY <1>0, <1>2, <1>3 DEF Rule
  <2> QED
    BY <1>4, <2>1, Recursion
<1>6. \A s \in Seq(Bytes) : f[s] = PassBody(f, s)
  BY <1>5 DEF H
<1>7. f = [s \in Seq(Bytes) |-> PassBody(f, s)]
  BY <1>0, <1>6
<1>8. Pass = [s \in Seq(Bytes) |-> PassBody(Pass, s)]
  BY <1>7 DEF Pass, PassBody
<1>9. \A s \in Seq(Bytes) : Pass[s] = PassBody(Pass, s)
  BY <1>8
<1> DEFINE T == {s \in Seq(Bytes) : Pass[s] \in Passed}
<1>10. ASSUME NEW s \in Seq(Bytes), \A t \in Seq(Bytes) : Len(t) < Len(s) => t \in T
       PROVE  s \in T
  <2>1. \A t \in Seq(Bytes) : Len(t) < Len(s) => Pass[t] \in Passed
    BY <1>10
  <2>2. PassBody(Pass, s) \in Passed
    BY <1>1, <2>1
  <2> QED
    BY <1>9, <2>2
<1> HIDE DEF T
<1>11. \A s \in Seq(Bytes) : s \in T
  BY <1>10, ByLength
<1> QED
  BY <1>8, <1>9, <1>11 DEF T

\* s begins with something that is known.
Starts(s) == s # <<>> /\ Classify(s).kind # "incomplete"

\* Pass, one case at a time.
LEMMA PassCases ==
    ASSUME NEW s \in Seq(Bytes)
    PROVE  /\ Pass[s].out \in Seq(Bytes) /\ Pass[s].rest \in Seq(Bytes)
           /\ ~Starts(s) => Pass[s].out = <<>> /\ Pass[s].rest = s
           /\ Starts(s) =>
                /\ Pass[s].rest = Pass[Drop(s, Classify(s).length)].rest
                /\ Pass[s].out = IF Classify(s).kind = "release"
                                 THEN Pass[Drop(s, Classify(s).length)].out
                                 ELSE SubSeq(s, 1, Classify(s).length)
                                          \o Pass[Drop(s, Classify(s).length)].out
<1>1. Pass[s] \in Passed /\ Pass[s] = PassBody(Pass, s)
  BY PassIs
<1>2. Pass[s].out \in Seq(Bytes) /\ Pass[s].rest \in Seq(Bytes)
  BY <1>1 DEF Passed
<1>3. ASSUME ~Starts(s)
      PROVE  PassBody(Pass, s).out = <<>> /\ PassBody(Pass, s).rest = s
  BY <1>3 DEF PassBody, Starts
<1>4. ASSUME Starts(s)
      PROVE  /\ PassBody(Pass, s).rest = Pass[Drop(s, Classify(s).length)].rest
             /\ PassBody(Pass, s).out = IF Classify(s).kind = "release"
                                   THEN Pass[Drop(s, Classify(s).length)].out
                                   ELSE SubSeq(s, 1, Classify(s).length)
                                            \o Pass[Drop(s, Classify(s).length)].out
  BY <1>4 DEF PassBody, Starts
<1> QED
  BY <1>1, <1>2, <1>3, <1>4

\* What s begins with, the rest, and what Pass makes of both.
LEMMA PassStep ==
    ASSUME NEW s \in Seq(Bytes), Starts(s)
    PROVE  \E n \in 1..Len(s), d, h \in Seq(Bytes) :
              /\ n = Classify(s).length /\ d = Drop(s, n) /\ h = SubSeq(s, 1, n)
              /\ Len(d) < Len(s) /\ s = h \o d
              /\ Pass[s].rest = Pass[d].rest
              /\ Pass[s].out = IF Classify(s).kind = "release" THEN Pass[d].out
                               ELSE h \o Pass[d].out
<1>1. s # <<>> /\ Classify(s).kind # "incomplete"
  BY DEF Starts
<1>2. PICK n \in 1..Len(s) : n = Classify(s).length
  BY <1>1, ClassifyLength
<1>3. n \in 0..Len(s)
  OBVIOUS
<1>4. PICK d \in Seq(Bytes), h \in Seq(Bytes) :
         d = Drop(s, n) /\ h = SubSeq(s, 1, n) /\ s = h \o d /\ Len(d) = Len(s) - n
  BY <1>3, CutAt
<1>5. Len(d) < Len(s)
  <2>1. PICK k \in Nat : k = Len(s)
    OBVIOUS
  <2> QED
    BY <1>4, <2>1
<1>6. /\ Pass[s].rest = Pass[d].rest
      /\ Pass[s].out = IF Classify(s).kind = "release" THEN Pass[d].out
                       ELSE h \o Pass[d].out
  BY <1>2, <1>4, PassCases
<1> QED
  BY <1>2, <1>4, <1>5, <1>6

\* What Pass holds back is the start of a sequence.
LEMMA PassHoldsBack ==
    \A s \in Seq(Bytes) : ~Starts(Pass[s].rest)
<1> DEFINE T == {s \in Seq(Bytes) : ~Starts(Pass[s].rest)}
<1>1. ASSUME NEW s \in Seq(Bytes), \A t \in Seq(Bytes) : Len(t) < Len(s) => t \in T
      PROVE  s \in T
  <2>1. CASE ~Starts(s)
    BY <2>1, PassCases
  <2>2. CASE Starts(s)
    <3>1. PICK d \in Seq(Bytes) : Len(d) < Len(s) /\ Pass[s].rest = Pass[d].rest
      BY <2>2, PassStep
    <3>2. d \in T
      BY <1>1, <3>1
    <3> QED
      BY <3>1, <3>2
  <2> QED
    BY <2>1, <2>2
<1> HIDE DEF T
<1>2. \A s \in Seq(Bytes) : s \in T
  BY <1>1, ByLength
<1> QED
  BY <1>2 DEF T

\* What comes of a and then b: what comes of a, and then of what it holds back and b.
Joins(a, b) ==
    /\ Pass[a \o b].out = Pass[a].out \o Pass[Pass[a].rest \o b].out
    /\ Pass[a \o b].rest = Pass[Pass[a].rest \o b].rest

\* It makes no difference to Pass how its input is cut.
LEMMA PassJoins ==
    ASSUME NEW a \in Seq(Bytes), NEW b \in Seq(Bytes)
    PROVE  Joins(a, b)
<1> DEFINE T == {s \in Seq(Bytes) : Joins(s, b)}
<1>1. ASSUME NEW s \in Seq(Bytes), \A t \in Seq(Bytes) : Len(t) < Len(s) => t \in T
      PROVE  Joins(s, b)
  <2>0. PICK sb \in Seq(Bytes) : sb = s \o b
    BY JoinIs
  <2>1. CASE ~Starts(s)
    <3>1. Pass[s].out = <<>> /\ Pass[s].rest = s
      BY <2>1, PassCases
    <3>2. <<>> \o Pass[sb].out = Pass[sb].out
      BY PassCases, ConcatEmptySeq
    <3> QED
      BY <2>0, <3>1, <3>2 DEF Joins
  <2>2. CASE Starts(s)
    <3>1. PICK n \in 1..Len(s), d \in Seq(Bytes), h \in Seq(Bytes) :
              /\ n = Classify(s).length /\ d = Drop(s, n) /\ h = SubSeq(s, 1, n)
              /\ Len(d) < Len(s) /\ s = h \o d
              /\ Pass[s].rest = Pass[d].rest
              /\ Pass[s].out = IF Classify(s).kind = "release" THEN Pass[d].out
                               ELSE h \o Pass[d].out
      BY <2>2, PassStep
    <3>2. Classify(sb) = Classify(s) /\ sb # <<>>
      <4>1. s # <<>> /\ Classify(s).kind # "incomplete"
        BY <2>2 DEF Starts
      <4>2. Classify(sb) = Classify(s)
        BY <2>0, <4>1, ClassifyStays
      <4>3. sb # <<>>
        BY <2>0, <4>1, ConcatEqualIffEmpty
      <4> QED
        BY <4>2, <4>3
    <3>3. n \in 0..Len(s)
      OBVIOUS
    <3>4. Drop(sb, n) = d \o b /\ SubSeq(sb, 1, n) = h
      <4>1. SubSeq(s \o b, 1, n) = SubSeq(s, 1, n) /\ Drop(s \o b, n) = Drop(s, n) \o b
        BY <3>3, JoinAt
      <4> QED
        BY <2>0, <3>1, <4>1
    <3>5. Starts(sb)
      BY <2>2, <3>2 DEF Starts
    <3>6. /\ Pass[sb].rest = Pass[d \o b].rest
          /\ Pass[sb].out = IF Classify(s).kind = "release" THEN Pass[d \o b].out
                            ELSE h \o Pass[d \o b].out
      <4>1. /\ Pass[sb].rest = Pass[Drop(sb, Classify(sb).length)].rest
            /\ Pass[sb].out = IF Classify(sb).kind = "release"
                              THEN Pass[Drop(sb, Classify(sb).length)].out
                              ELSE SubSeq(sb, 1, Classify(sb).length)
                                       \o Pass[Drop(sb, Classify(sb).length)].out
        BY <3>5, PassCases
      <4>2. Classify(sb).length = n /\ Classify(sb).kind = Classify(s).kind
        BY <3>1, <3>2
      <4> QED
        BY <3>4, <4>1, <4>2
    <3>7. Joins(d, b)
      <4>1. d \in T
        BY <1>1, <3>1
      <4> QED
        BY <4>1
    <3>8. PICK o \in Seq(Bytes), r \in Seq(Bytes) : o = Pass[d].out /\ r = Pass[d].rest
      BY PassCases
    <3>9. PICK q \in Seq(Bytes) : q = Pass[r \o b].out
      <4>1. r \o b \in Seq(Bytes)
        BY JoinIs
      <4> QED
        BY <4>1, PassCases
    <3>10. Pass[d \o b].out = o \o q /\ Pass[d \o b].rest = Pass[r \o b].rest
      BY <3>7, <3>8, <3>9 DEF Joins
    <3>11. Pass[s].rest = r
      BY <3>1, <3>8
    <3>12. CASE Classify(s).kind = "release"
      <4>1. Pass[s].out = o
        BY <3>1, <3>8, <3>12
      <4> QED
        BY <2>0, <3>6, <3>9, <3>10, <3>11, <3>12, <4>1 DEF Joins
    <3>13. CASE Classify(s).kind # "release"
      <4>1. Pass[s].out = h \o o
        BY <3>1, <3>8, <3>13
      <4>2. (h \o o) \o q = h \o (o \o q)
        <5>1. EitherWay(h, o, q)
          BY JoinsAssociate
        <5> QED
          BY <5>1 DEF EitherWay
      <4>3. Pass[sb].out = h \o (o \o q)
        BY <3>6, <3>10, <3>13
      <4> QED
        BY <2>0, <3>6, <3>9, <3>10, <3>11, <4>1, <4>2, <4>3 DEF Joins
    <3> QED
      BY <3>12, <3>13
  <2> QED
    BY <2>1, <2>2
<1>2. ASSUME NEW s \in Seq(Bytes), \A t \in Seq(Bytes) : Len(t) < Len(s) => t \in T
      PROVE  s \in T
  BY <1>1, <1>2
<1> HIDE DEF T
<1>3. \A s \in Seq(Bytes) : s \in T
  BY <1>2, ByLength
<1> QED
  BY <1>3 DEF T

-----------------------------------------------------------------------------
(* Thinnings                                                                *)

\* n elements of s, at its start, that are a release report.
ReportEnds(s) == {n \in 1..Len(s) : IsReleaseReport(SubSeq(s, 1, n))}

\* What may be left of s, if f says it of shorter sequences.
ThinBody(f, s) ==
    IF s = <<>> THEN {<<>>}
    ELSE {<<s[1]>> \o t : t \in f[Drop(s, 1)]}
            \cup UNION {f[Drop(s, n)] : n \in ReportEnds(s)}

\* Without some of its elements s is shorter.
LEMMA CutShorter ==
    ASSUME NEW s \in Seq(Bytes), NEW n \in 1..Len(s)
    PROVE  /\ n \in 0..Len(s) /\ Drop(s, n) \in Seq(Bytes) /\ Len(Drop(s, n)) < Len(s)
           /\ s[1] \in Bytes
<1>1. PICK k \in Nat : k = Len(s) /\ n <= k /\ n >= 1
  OBVIOUS
<1>2. n \in 0..Len(s) /\ 1 \in 1..Len(s)
  BY <1>1
<1>3. Drop(s, n) \in Seq(Bytes) /\ Len(Drop(s, n)) = Len(s) - n
  BY <1>2, CutAt
<1>4. Len(Drop(s, n)) < Len(s)
  BY <1>1, <1>3
<1> QED
  BY <1>2, <1>3, <1>4, ElementOfSeq

\* A sequence that is not empty has a first element.
LEMMA FirstOf ==
    ASSUME NEW s \in Seq(Bytes), s # <<>>
    PROVE  1 \in 1..Len(s)
<1>1. Len(s) \in Nat \ {0}
  BY EmptySeq
<1>2. PICK k \in Nat : k = Len(s) /\ k # 0
  BY <1>1
<1> QED
  BY <1>2

\* Thinnings is the function its definition describes.
LEMMA ThinningsAre ==
    \A s \in Seq(Bytes) :
        Thinnings[s] \in SUBSET Seq(Bytes) /\ Thinnings[s] = ThinBody(Thinnings, s)
<1> DEFINE R  == SUBSET Seq(Bytes)
           Fs == [Seq(Bytes) -> R]
           H  == [s \in Seq(Bytes) |-> [f \in Fs |-> ThinBody(f, s)]]
<1>0. Fs = [Seq(Bytes) -> R]
  OBVIOUS
<1>1. ASSUME NEW s \in Seq(Bytes), NEW f,
             \A t \in Seq(Bytes) : Len(t) < Len(s) => f[t] \in R
      PROVE  ThinBody(f, s) \in R
  <2>1. CASE s = <<>>
    BY <2>1, EmptySeq DEF ThinBody
  <2>2. CASE s # <<>>
    <3>1. 1 \in 1..Len(s)
      BY <2>2, FirstOf
    <3>2. s[1] \in Bytes /\ f[Drop(s, 1)] \in R
      BY <1>1, <3>1, CutShorter
    <3>3. ASSUME NEW t \in f[Drop(s, 1)] PROVE <<s[1]>> \o t \in Seq(Bytes)
      <4>1. t \in Seq(Bytes) /\ <<s[1]>> \in Seq(Bytes)
        BY <3>2, <3>3
      <4> QED
        BY <4>1, JoinIs
    <3>4. \A n \in ReportEnds(s) : f[Drop(s, n)] \in R
      BY <1>1, CutShorter DEF ReportEnds
    <3> QED
      BY <2>2, <3>3, <3>4 DEF ThinBody
  <2> QED
    BY <2>1, <2>2
<1>2. Local(Fs, H)
  <2> SUFFICES ASSUME NEW s \in Seq(Bytes), NEW f \in Fs, NEW g \in Fs,
                      \A t \in Seq(Bytes) : Len(t) < Len(s) => f[t] = g[t]
               PROVE  ThinBody(f, s) = ThinBody(g, s)
    BY DEF Local
  <2>1. CASE s = <<>>
    BY <2>1 DEF ThinBody
  <2>2. CASE s # <<>>
    <3>1. f[Drop(s, 1)] = g[Drop(s, 1)]
      BY <2>2, FirstOf, CutShorter
    <3>2. \A n \in ReportEnds(s) : f[Drop(s, n)] = g[Drop(s, n)]
      BY CutShorter DEF ReportEnds
    <3>3. {f[Drop(s, n)] : n \in ReportEnds(s)} = {g[Drop(s, n)] : n \in ReportEnds(s)}
      BY <3>2
    <3>4. {<<s[1]>> \o t : t \in f[Drop(s, 1)]} = {<<s[1]>> \o t : t \in g[Drop(s, 1)]}
      BY <3>1
    <3> QED
      BY <2>2, <3>3, <3>4 DEF ThinBody
  <2> QED
    BY <2>1, <2>2
<1>3. H \in [Seq(Bytes) -> [Fs -> R]]
  <2>1. ASSUME NEW s \in Seq(Bytes), NEW f \in Fs PROVE ThinBody(f, s) \in R
    <3>1. \A t \in Seq(Bytes) : f[t] \in R
      OBVIOUS
    <3> HIDE DEF R
    <3> QED
      BY <1>1, <3>1
  <2> HIDE DEF R, Fs
  <2> QED
    BY <2>1
<1>4. R # {}
  OBVIOUS
<1> HIDE DEF H, Fs, R
<1>5. PICK f \in Fs : \A s \in Seq(Bytes) : f[s] = H[s][f]
  <2>1. Rule(R, Fs, H)
    BY <1>0, <1>2, <1>3 DEF Rule
  <2> QED
    BY <1>4, <2>1, Recursion
<1>6. \A s \in Seq(Bytes) : f[s] = ThinBody(f, s)
  BY <1>5 DEF H
<1>7. f = [s \in Seq(Bytes) |-> ThinBody(f, s)]
  BY <1>0, <1>6
<1>8. Thinnings = [s \in Seq(Bytes) |-> ThinBody(Thinnings, s)]
  BY <1>7 DEF Thinnings, ThinBody, ReportEnds
<1>9. \A s \in Seq(Bytes) : Thinnings[s] = ThinBody(Thinnings, s)
  BY <1>8
<1> DEFINE T == {s \in Seq(Bytes) : Thinnings[s] \in R}
<1>10. ASSUME NEW s \in Seq(Bytes), \A t \in Seq(Bytes) : Len(t) < Len(s) => t \in T
       PROVE  s \in T
  <2>1. \A t \in Seq(Bytes) : Len(t) < Len(s) => Thinnings[t] \in R
    BY <1>10
  <2>2. ThinBody(Thinnings, s) \in R
    BY <1>1, <2>1
  <2> QED
    BY <1>9, <2>2
<1> HIDE DEF T
<1>11. \A s \in Seq(Bytes) : s \in T
  BY <1>10, ByLength
<1> QED
  BY <1>9, <1>11 DEF T, R

\* p is left of s.
LeftOf(p, s) == p \in Thinnings[s]

\* What may be left of s, one case at a time.
LEMMA ThinningCases ==
    ASSUME NEW s \in Seq(Bytes), NEW p
    PROVE  /\ LeftOf(p, s) => p \in Seq(Bytes)
           /\ s = <<>> => (LeftOf(p, s) <=> p = <<>>)
           /\ s # <<>> =>
                (LeftOf(p, s) <=>
                    \/ \E t \in Thinnings[Drop(s, 1)] : p = <<s[1]>> \o t
                    \/ \E n \in ReportEnds(s) : LeftOf(p, Drop(s, n)))
<1>1. Thinnings[s] \in SUBSET Seq(Bytes) /\ Thinnings[s] = ThinBody(Thinnings, s)
  BY ThinningsAre
<1>2. s = <<>> => (p \in ThinBody(Thinnings, s) <=> p = <<>>)
  BY DEF ThinBody
<1>3. s # <<>> =>
        (p \in ThinBody(Thinnings, s) <=>
            \/ \E t \in Thinnings[Drop(s, 1)] : p = <<s[1]>> \o t
            \/ \E n \in ReportEnds(s) : p \in Thinnings[Drop(s, n)])
  BY DEF ThinBody
<1> QED
  BY <1>1, <1>2, <1>3 DEF LeftOf

\* What is left of s and of t may be left of both in a row.
LEMMA ThinningsJoin ==
    ASSUME NEW t \in Seq(Bytes), NEW q, LeftOf(q, t)
    PROVE  \A s \in Seq(Bytes) : \A p \in Seq(Bytes) : LeftOf(p, s) => LeftOf(p \o q, s \o t)
<1> DEFINE T == {s \in Seq(Bytes) :
                    \A p \in Seq(Bytes) : LeftOf(p, s) => LeftOf(p \o q, s \o t)}
<1>0. q \in Seq(Bytes)
  BY ThinningCases
<1>1. ASSUME NEW s \in Seq(Bytes), \A u \in Seq(Bytes) : Len(u) < Len(s) => u \in T,
             NEW p \in Seq(Bytes), LeftOf(p, s)
      PROVE  LeftOf(p \o q, s \o t)
  <2>0. PICK st \in Seq(Bytes) : st = s \o t
    BY JoinIs
  <2>1. CASE s = <<>>
    <3>1. p = <<>> /\ st = t
      BY <1>1, <2>0, <2>1, ThinningCases, ConcatEmptySeq
    <3>2. p \o q = q
      BY <1>0, <3>1, ConcatEmptySeq
    <3> QED
      BY <2>0, <3>1, <3>2
  <2>2. CASE s # <<>>
    <3>0. 1 \in 1..Len(s) /\ st # <<>>
      BY <2>0, <2>2, FirstOf, ConcatEqualIffEmpty
    <3>1. \/ \E u \in Thinnings[Drop(s, 1)] : p = <<s[1]>> \o u
          \/ \E n \in ReportEnds(s) : LeftOf(p, Drop(s, n))
      BY <1>1, <2>2, ThinningCases
    <3>2. ASSUME NEW u \in Thinnings[Drop(s, 1)], p = <<s[1]>> \o u
          PROVE  LeftOf(p \o q, st)
      <4>1. PICK d \in Seq(Bytes) : d = Drop(s, 1) /\ d \in T
        BY <1>1, <3>0, CutShorter
      <4>2. u \in Seq(Bytes) /\ LeftOf(u, d)
        BY <3>2, <4>1, ThinningCases DEF LeftOf
      <4>3. LeftOf(u \o q, d \o t)
        BY <4>1, <4>2
      <4>4. Drop(st, 1) = d \o t
        BY <2>0, <3>0, <4>1, CutShorter, JoinAt
      <4>5. st[1] = s[1]
        BY <2>0, <3>0, JoinIs
      <4>6. p \o q = <<st[1]>> \o (u \o q)
        <5>0. s[1] \in Bytes
          BY <3>0, CutShorter
        <5>1. <<s[1]>> \in Seq(Bytes)
          BY <5>0
        <5>2. EitherWay(<<s[1]>>, u, q)
          BY <1>0, <4>2, <5>1, JoinsAssociate
        <5> QED
          BY <3>2, <4>5, <5>1, <5>2 DEF EitherWay
      <4>7. u \o q \in Thinnings[Drop(st, 1)]
        BY <4>3, <4>4 DEF LeftOf
      <4> QED
        BY <3>0, <4>6, <4>7, ThinningCases
    <3>3. ASSUME NEW n \in ReportEnds(s), LeftOf(p, Drop(s, n))
          PROVE  LeftOf(p \o q, st)
      <4>1. n \in 1..Len(s) /\ IsReleaseReport(SubSeq(s, 1, n))
        BY DEF ReportEnds
      <4>2. PICK d \in Seq(Bytes) : d = Drop(s, n) /\ d \in T /\ n \in 0..Len(s)
        BY <1>1, <4>1, CutShorter
      <4>3. LeftOf(p \o q, d \o t)
        BY <3>3, <4>2
      <4>4. Drop(st, n) = d \o t /\ SubSeq(st, 1, n) = SubSeq(s, 1, n)
        BY <2>0, <4>2, JoinAt
      <4>5. n \in 1..Len(st)
        <5>1. PICK k \in Nat, m \in Nat : k = Len(s) /\ m = Len(t)
          OBVIOUS
        <5>2. Len(st) = k + m
          BY <2>0, <5>1, JoinIs
        <5> QED
          BY <4>1, <5>1, <5>2
      <4>6. n \in ReportEnds(st)
        <5>1. IsReleaseReport(SubSeq(st, 1, n))
          BY <4>1, <4>4
        <5> QED
          BY <4>5, <5>1 DEF ReportEnds
      <4>7. LeftOf(p \o q, Drop(st, n))
        BY <4>3, <4>4
      <4> QED
        BY <3>0, <4>6, <4>7, ThinningCases
    <3> QED
      BY <2>0, <3>1, <3>2, <3>3
  <2> QED
    BY <2>1, <2>2
<1>2. ASSUME NEW s \in Seq(Bytes), \A u \in Seq(Bytes) : Len(u) < Len(s) => u \in T
      PROVE  s \in T
  BY <1>1, <1>2
<1> HIDE DEF T
<1>3. \A s \in Seq(Bytes) : s \in T
  BY <1>2, ByLength
<1> QED
  BY <1>3 DEF T

\* All of s may be left of it.
LEMMA ThinningOfAll ==
    \A s \in Seq(Bytes) : LeftOf(s, s)
<1> DEFINE T == {s \in Seq(Bytes) : LeftOf(s, s)}
<1>1. ASSUME NEW s \in Seq(Bytes), \A u \in Seq(Bytes) : Len(u) < Len(s) => u \in T
      PROVE  LeftOf(s, s)
  <2>1. CASE s = <<>>
    BY <2>1, ThinningCases
  <2>2. CASE s # <<>>
    <3>1. 1 \in 1..Len(s)
      BY <2>2, FirstOf
    <3>2. PICK d \in Seq(Bytes) : d = Drop(s, 1) /\ d \in T /\ 1 \in 0..Len(s) /\ s[1] \in Bytes
      <4>1. /\ 1 \in 0..Len(s) /\ Drop(s, 1) \in Seq(Bytes) /\ Len(Drop(s, 1)) < Len(s)
            /\ s[1] \in Bytes
        BY <3>1, CutShorter
      <4>2. Drop(s, 1) \in T
        BY <1>1, <4>1
      <4> QED
        BY <4>1, <4>2
    <3>3. PICK h \in Seq(Bytes) : h = SubSeq(s, 1, 1) /\ s = h \o d
      <4>1. SubSeq(s, 1, 1) \in Seq(Bytes) /\ s = SubSeq(s, 1, 1) \o Drop(s, 1)
        BY <3>2, CutAt
      <4> QED
        BY <3>2, <4>1
    <3>4. h = <<s[1]>>
      <4>1. Len(h) = 1 /\ \A i \in 1..1 : h[i] = s[i]
        BY <3>2, <3>3, CutAt
      <4>2. <<s[1]>> \in Seq(Bytes) /\ Len(<<s[1]>>) = 1 /\ <<s[1]>>[1] = s[1]
        BY <3>2
      <4>3. \A i \in 1..Len(h) : h[i] = <<s[1]>>[i]
        BY <4>1, <4>2
      <4> QED
        BY <4>1, <4>2, <4>3, SeqEqual
    <3>5. d \in Thinnings[Drop(s, 1)] /\ s = <<s[1]>> \o d
      BY <3>2, <3>3, <3>4 DEF LeftOf
    <3> QED
      BY <2>2, <3>5, ThinningCases
  <2> QED
    BY <2>1, <2>2
<1>2. ASSUME NEW s \in Seq(Bytes), \A u \in Seq(Bytes) : Len(u) < Len(s) => u \in T
      PROVE  s \in T
  BY <1>1, <1>2
<1> HIDE DEF T
<1>3. \A s \in Seq(Bytes) : s \in T
  BY <1>2, ByLength
<1> QED
  BY <1>3 DEF T

\* Nothing may be left of a release report.
LEMMA ThinningOfReport ==
    ASSUME NEW s \in Seq(Bytes), IsReleaseReport(s)
    PROVE  LeftOf(<<>>, s)
<1>1. PICK n \in Nat : n = Len(s) /\ n >= 6
  <2>1. Len(s) >= 6
    BY Zenon DEF IsReleaseReport
  <2>2. Len(s) \in Nat
    OBVIOUS
  <2> QED
    BY <2>1, <2>2
<1>2. n \in 1..Len(s) /\ n \in 0..Len(s)
  BY <1>1
<1>3. SubSeq(s, 1, n) = s
  BY <1>1, SubSeqFull
<1>4. n \in ReportEnds(s)
  BY <1>2, <1>3 DEF ReportEnds
<1>5. Drop(s, n) \in Seq(Bytes) /\ Len(Drop(s, n)) = 0
  BY <1>1, <1>2, CutAt
<1>6. Drop(s, n) = <<>>
  BY <1>5, EmptySeq
<1>7. LeftOf(<<>>, Drop(s, n))
  BY <1>6, EmptySeq, ThinningCases
<1>8. s # <<>>
  BY <1>1, EmptySeq
<1> QED
  BY <1>4, <1>7, <1>8, ThinningCases

\* What goes on may be left of what was typed and is not held back.
Split(s, v) == s = v \o Pass[s].rest /\ LeftOf(Pass[s].out, v)

\* Pass leaves out whole release reports only.
LEMMA PassThins ==
    \A s \in Seq(Bytes) : \E v \in Seq(Bytes) : Split(s, v)
<1> DEFINE T == {s \in Seq(Bytes) : \E v \in Seq(Bytes) : Split(s, v)}
<1>1. ASSUME NEW s \in Seq(Bytes), \A u \in Seq(Bytes) : Len(u) < Len(s) => u \in T
      PROVE  \E v \in Seq(Bytes) : Split(s, v)
  <2>1. CASE ~Starts(s)
    <3>1. Pass[s].out = <<>> /\ Pass[s].rest = s
      BY <2>1, PassCases
    <3>2. <<>> \in Seq(Bytes) /\ s = <<>> \o s
      BY EmptySeq, ConcatEmptySeq
    <3>3. LeftOf(<<>>, <<>>)
      BY <3>2, ThinningCases
    <3> QED
      BY <3>1, <3>2, <3>3 DEF Split
  <2>2. CASE Starts(s)
    <3>1. PICK n \in 1..Len(s), d \in Seq(Bytes), h \in Seq(Bytes) :
              /\ n = Classify(s).length /\ d = Drop(s, n) /\ h = SubSeq(s, 1, n)
              /\ Len(d) < Len(s) /\ s = h \o d
              /\ Pass[s].rest = Pass[d].rest
              /\ Pass[s].out = IF Classify(s).kind = "release" THEN Pass[d].out
                               ELSE h \o Pass[d].out
      BY <2>2, PassStep
    <3>2. PICK w \in Seq(Bytes) : Split(d, w)
      BY <1>1, <3>1
    <3>3. PICK r \in Seq(Bytes), o \in Seq(Bytes) : r = Pass[d].rest /\ o = Pass[d].out
      BY PassCases
    <3>4. d = w \o r /\ LeftOf(o, w)
      BY <3>2, <3>3 DEF Split
    <3>5. PICK v \in Seq(Bytes) : v = h \o w
      BY JoinIs
    <3>6. s = v \o r
      <4>1. EitherWay(h, w, r)
        BY JoinsAssociate
      <4> QED
        BY <3>1, <3>4, <3>5, <4>1 DEF EitherWay
    <3>7. LeftOf(Pass[s].out, v)
      <4>1. CASE Classify(s).kind = "release"
        <5>1. LeftOf(<<>>, h)
          BY <2>2, <3>1, <4>1, ReleaseIsReport, ThinningOfReport DEF Starts
        <5>2. <<>> \in Seq(Bytes) /\ <<>> \o o = o
          BY EmptySeq, ConcatEmptySeq
        <5>3. LeftOf(<<>> \o o, v)
          BY <3>4, <3>5, <5>1, <5>2, ThinningsJoin
        <5> QED
          BY <3>1, <3>3, <4>1, <5>2, <5>3
      <4>2. CASE Classify(s).kind # "release"
        <5>1. LeftOf(h, h)
          BY ThinningOfAll
        <5>2. LeftOf(h \o o, v)
          BY <3>4, <3>5, <5>1, ThinningsJoin
        <5> QED
          BY <3>1, <3>3, <4>2, <5>2
      <4> QED
        BY <4>1, <4>2
    <3> QED
      BY <3>1, <3>3, <3>6, <3>7 DEF Split
  <2> QED
    BY <2>1, <2>2
<1>2. ASSUME NEW s \in Seq(Bytes), \A u \in Seq(Bytes) : Len(u) < Len(s) => u \in T
      PROVE  s \in T
  BY <1>1, <1>2
<1> HIDE DEF T
<1>3. \A s \in Seq(Bytes) : s \in T
  BY <1>2, ByLength
<1> QED
  BY <1>3 DEF T

-----------------------------------------------------------------------------
(* Resets                                                                   *)

\* s has from i to n what t has from j to m.
Same(s, i, n, t, j, m) ==
    /\ i >= 1 /\ n <= Len(s) /\ i <= n + 1
    /\ j >= 1 /\ m <= Len(t) /\ j <= m + 1
    /\ n - i = m - j /\ \A k \in 0..(n - i) : s[i + k] = t[j + k]

Parts(s, i, n, t, j, m) == SubSeq(s, i, n) = SubSeq(t, j, m)

\* Parts of the same length with the same elements are the same.
LEMMA SameMiddle ==
    \A s, t \in Seq(Bytes) : \A i, n, j, m \in Nat :
        Same(s, i, n, t, j, m) => Parts(s, i, n, t, j, m)
<1> SUFFICES ASSUME NEW s \in Seq(Bytes), NEW t \in Seq(Bytes),
                    NEW i \in Nat, NEW n \in Nat, NEW j \in Nat, NEW m \in Nat,
                    Same(s, i, n, t, j, m)
             PROVE  Parts(s, i, n, t, j, m)
  OBVIOUS
<1> USE DEF Same
<1>1. /\ SubSeq(s, i, n) \in Seq(Bytes) /\ Len(SubSeq(s, i, n)) = n - i + 1
      /\ \A k \in 1..(n - i + 1) : SubSeq(s, i, n)[k] = s[i + k - 1]
  BY MiddleAt
<1>2. /\ SubSeq(t, j, m) \in Seq(Bytes) /\ Len(SubSeq(t, j, m)) = m - j + 1
      /\ \A k \in 1..(m - j + 1) : SubSeq(t, j, m)[k] = t[j + k - 1]
  BY MiddleAt
<1>3. ASSUME NEW k \in 1..(n - i + 1) PROVE s[i + k - 1] = t[j + k - 1]
  <2>1. k - 1 \in 0..(n - i) /\ i + (k - 1) = i + k - 1 /\ j + (k - 1) = j + k - 1
    OBVIOUS
  <2> QED
    BY <2>1
<1>4. n - i + 1 = m - j + 1
  OBVIOUS
<1>5. SubSeq(s, i, n) = SubSeq(t, j, m)
  BY <1>1, <1>2, <1>3, <1>4, SeqEqual
<1> QED
  BY <1>5 DEF Parts

Further(s, m, i, n) == SubSeq(Drop(s, m), i, n) = SubSeq(s, m + i, m + n)

\* A part of what remains of s.
LEMMA DropMiddle ==
    ASSUME NEW s \in Seq(Bytes), NEW m \in 0..Len(s),
           NEW i \in Nat, NEW n \in Nat, i >= 1, i <= n + 1, n <= Len(s) - m
    PROVE  Further(s, m, i, n)
<1>1. PICK k \in Nat : k = Len(s) /\ m \in Nat /\ m <= k
  OBVIOUS
<1>2. PICK d \in Seq(Bytes) : d = Drop(s, m)
  BY CutAt
<1>3. Len(d) = k - m /\ \A j \in 1..(k - m) : d[j] = s[m + j]
  BY <1>1, <1>2, CutAt
<1>4. /\ m + i \in Nat /\ m + n \in Nat /\ m + i >= 1 /\ m + n <= k /\ m + i <= (m + n) + 1
      /\ n - i = (m + n) - (m + i) /\ n <= k - m
  BY <1>1
<1>5. ASSUME NEW l \in 0..(n - i) PROVE d[i + l] = s[(m + i) + l]
  <2>1. i + l \in 1..(k - m) /\ m + (i + l) = (m + i) + l
    BY <1>1, <1>4
  <2> QED
    BY <1>3, <2>1
<1>6. n <= Len(d) /\ m + n <= Len(s)
  BY <1>1, <1>3, <1>4
<1>7. SubSeq(d, i, n) = SubSeq(s, m + i, m + n)
  <2>1. PICK a \in Nat, e \in Nat : a = m + i /\ e = m + n
    BY <1>4
  <2>2. Same(d, i, n, s, a, e)
    BY <1>4, <1>5, <1>6, <2>1 DEF Same
  <2>3. Parts(d, i, n, s, a, e)
    BY <2>2, SameMiddle
  <2> QED
    BY <2>1, <2>3 DEF Parts
<1> QED
  BY <1>2, <1>7 DEF Further

\* A part of s, when more comes.
LEMMA JoinMiddle ==
    ASSUME NEW s \in Seq(Bytes), NEW t \in Seq(Bytes),
           NEW i \in Nat, NEW n \in Nat, i >= 1, i <= n + 1, n <= Len(s)
    PROVE  SubSeq(s \o t, i, n) = SubSeq(s, i, n)
<1>1. PICK k \in Nat, m \in Nat : k = Len(s) /\ m = Len(t)
  OBVIOUS
<1>2. PICK st \in Seq(Bytes) : st = s \o t
  BY JoinIs
<1>3. Len(st) = k + m /\ \A j \in 1..k : st[j] = s[j]
  BY <1>1, <1>2, JoinIs
<1>4. ASSUME NEW l \in 0..(n - i) PROVE st[i + l] = s[i + l]
  <2>1. i + l \in 1..k
    BY <1>1
  <2> QED
    BY <1>3, <2>1
<1>5. n <= Len(st) /\ n - i = n - i
  BY <1>1, <1>3
<1>6. SubSeq(st, i, n) = SubSeq(s, i, n)
  <2>1. Same(st, i, n, s, i, n)
    BY <1>4, <1>5 DEF Same
  <2>2. Parts(st, i, n, s, i, n)
    BY <2>1, SameMiddle
  <2> QED
    BY <2>2 DEF Parts
<1> QED
  BY <1>2, <1>6

\* The start of a part of s.
LEMMA MiddleStart ==
    ASSUME NEW s \in Seq(Bytes),
           NEW i \in Nat, NEW n \in Nat, i >= 1, i <= n + 1, n <= Len(s),
           NEW k \in Nat, k <= n - i + 1
    PROVE  SubSeq(SubSeq(s, i, n), 1, k) = SubSeq(s, i, i + k - 1)
<1>1. PICK d \in Seq(Bytes) : d = SubSeq(s, i, n)
  BY MiddleAt
<1>2. Len(d) = n - i + 1 /\ \A j \in 1..(n - i + 1) : d[j] = s[i + j - 1]
  BY <1>1, MiddleAt
<1>3. PICK e \in Nat : e = i + k - 1 /\ e <= n /\ i <= e + 1 /\ k - 1 = e - i
  <2>1. i + k - 1 \in Nat
    OBVIOUS
  <2> QED
    BY <2>1
<1>4. ASSUME NEW l \in 0..(k - 1) PROVE d[1 + l] = s[i + l]
  <2>1. 1 + l \in 1..(n - i + 1) /\ i + (1 + l) - 1 = i + l
    OBVIOUS
  <2> QED
    BY <1>2, <2>1
<1>5. k <= Len(d) /\ e <= Len(s) /\ 1 <= k + 1 /\ 1 \in Nat /\ 1 >= 1
  BY <1>2, <1>3
<1>6. SubSeq(d, 1, k) = SubSeq(s, i, e)
  <2>1. Same(d, 1, k, s, i, e)
    BY <1>3, <1>4, <1>5 DEF Same
  <2>2. PICK one \in Nat : one = 1
    OBVIOUS
  <2>3. Same(d, one, k, s, i, e)
    BY <2>1, <2>2
  <2>4. Parts(d, one, k, s, i, e)
    BY <2>3, SameMiddle
  <2> QED
    BY <2>2, <2>4 DEF Parts
<1> QED
  BY <1>1, <1>3, <1>6

\* IsResetPrefix, element by element.
Begins(s, n) ==
    /\ n >= 1 /\ s[1] = "esc"
    /\ n >= 2 => s[2] = "["
    /\ n >= 3 => \/ s[3] = "<" /\ \A i \in 4..n : IsDigit(s[i])
                 \/ s[3] = "=" /\ \A i \in 4..n : IsDigit(s[i]) \/ s[i] = ";"

\* It says the same.
LEMMA BeginsIs ==
    ASSUME NEW s \in Seq(Bytes)
    PROVE  IsResetPrefix(s) <=> Begins(s, Len(s))
<1>1. PICK n \in Nat : n = Len(s)
  OBVIOUS
<1>2. /\ <<"esc">> \in Seq(Bytes) /\ <<"esc", "[">> \in Seq(Bytes)
      /\ Len(<<"esc">>) = 1 /\ Len(<<"esc", "[">>) = 2
      /\ <<"esc">>[1] = "esc" /\ <<"esc", "[">>[1] = "esc" /\ <<"esc", "[">>[2] = "["
  <2>1. "esc" \in Bytes /\ "[" \in Bytes
    BY DEF Bytes
  <2>2. <<"esc">> \in Seq(Bytes) /\ <<"esc", "[">> \in Seq(Bytes)
    BY <2>1
  <2> QED
    BY <2>2
<1>3. s = <<"esc">> <=> n = 1 /\ s[1] = "esc"
  <2>1. ASSUME n = 1, s[1] = "esc" PROVE s = <<"esc">>
    <3>1. \A i \in 1..Len(s) : s[i] = <<"esc">>[i]
      BY <1>1, <1>2, <2>1
    <3> QED
      BY <1>1, <1>2, <2>1, <3>1, SeqEqual
  <2> QED
    BY <1>1, <1>2, <2>1
<1>4. ASSUME NEW t \in Seq(Bytes)
      PROVE  t = <<"esc", "[">> <=> Len(t) = 2 /\ t[1] = "esc" /\ t[2] = "["
  <2>1. ASSUME Len(t) = 2, t[1] = "esc", t[2] = "[" PROVE t = <<"esc", "[">>
    <3>1. \A i \in 1..2 : t[i] = <<"esc", "[">>[i]
      BY <1>2, <2>1
    <3> QED
      BY <1>2, <2>1, <3>1, SeqEqual
  <2> QED
    BY <1>2, <2>1
<1>5. s = <<"esc", "[">> <=> n = 2 /\ s[1] = "esc" /\ s[2] = "["
  BY <1>1, <1>4
<1>6. n >= 3 => (SubSeq(s, 1, 2) = <<"esc", "[">> <=> s[1] = "esc" /\ s[2] = "[")
  <2> SUFFICES ASSUME n >= 3
               PROVE  SubSeq(s, 1, 2) = <<"esc", "[">> <=> s[1] = "esc" /\ s[2] = "["
    OBVIOUS
  <2>1. 2 \in 0..Len(s)
    BY <1>1
  <2>2. PICK t \in Seq(Bytes) : t = SubSeq(s, 1, 2)
    BY <2>1, CutAt
  <2>3. Len(t) = 2 /\ \A i \in 1..2 : t[i] = s[i]
    BY <2>1, <2>2, CutAt
  <2>4. t[1] = s[1] /\ t[2] = s[2]
    BY <2>3
  <2> QED
    BY <1>4, <2>2, <2>3, <2>4
<1>7. IsResetPrefix(s) <=>
        \/ s = <<"esc">> \/ s = <<"esc", "[">>
        \/ /\ n >= 3 /\ SubSeq(s, 1, 2) = <<"esc", "[">>
           /\ \/ s[3] = "<" /\ \A i \in 4..n : IsDigit(s[i])
              \/ s[3] = "=" /\ \A i \in 4..n : IsDigit(s[i]) \/ s[i] = ";"
  BY <1>1 DEF IsResetPrefix
<1> DEFINE Rest == \/ s[3] = "<" /\ \A i \in 4..n : IsDigit(s[i])
                   \/ s[3] = "=" /\ \A i \in 4..n : IsDigit(s[i]) \/ s[i] = ";"
<1>8. IsResetPrefix(s) <=>
        \/ n = 1 /\ s[1] = "esc"
        \/ n = 2 /\ s[1] = "esc" /\ s[2] = "["
        \/ n >= 3 /\ s[1] = "esc" /\ s[2] = "[" /\ Rest
  BY <1>3, <1>5, <1>6, <1>7
<1>9. Begins(s, n) <=> /\ n >= 1 /\ s[1] = "esc" /\ (n >= 2 => s[2] = "[")
                       /\ n >= 3 => Rest
  BY DEF Begins
<1> HIDE DEF Rest
<1> QED
  BY <1>1, <1>8, <1>9

\* The start of what may turn out to be a reset may, too.
LEMMA BeginsEarlier ==
    ASSUME NEW s \in Seq(Bytes), NEW n \in Nat, NEW k \in Nat,
           k >= 1, k <= n, n <= Len(s), Begins(s, n)
    PROVE  IsResetPrefix(SubSeq(s, 1, k))
<1>1. PICK m \in Nat : m = Len(s)
  OBVIOUS
<1>2. k \in 0..Len(s)
  BY <1>1
<1>3. PICK t \in Seq(Bytes) : t = SubSeq(s, 1, k)
  BY <1>2, CutAt
<1>4. Len(t) = k /\ \A i \in 1..k : t[i] = s[i]
  BY <1>2, <1>3, CutAt
<1>5. t[1] = "esc" /\ (k >= 2 => t[2] = "[")
  <2>1. t[1] = s[1] /\ (k >= 2 => t[2] = s[2])
    BY <1>4
  <2>2. s[1] = "esc" /\ (n >= 2 => s[2] = "[")
    BY DEF Begins
  <2>3. k >= 2 => n >= 2
    OBVIOUS
  <2> QED
    BY <2>1, <2>2, <2>3
<1>6. ASSUME k >= 3
      PROVE  \/ t[3] = "<" /\ \A i \in 4..k : IsDigit(t[i])
             \/ t[3] = "=" /\ \A i \in 4..k : IsDigit(t[i]) \/ t[i] = ";"
  <2>1. t[3] = s[3] /\ \A i \in 4..k : t[i] = s[i] /\ i \in 4..n
    BY <1>4, <1>6
  <2>2. n >= 3
    BY <1>6
  <2>3. \/ s[3] = "<" /\ \A i \in 4..n : IsDigit(s[i])
        \/ s[3] = "=" /\ \A i \in 4..n : IsDigit(s[i]) \/ s[i] = ";"
    BY <2>2 DEF Begins
  <2> QED
    BY <2>1, <2>3
<1>7. Begins(t, k)
  BY <1>5, <1>6 DEF Begins
<1> QED
  BY <1>3, <1>4, <1>7, BeginsIs

\* A reset begins like one.
LEMMA ResetBegins ==
    ASSUME NEW s \in Seq(Bytes), IsReset(s)
    PROVE  Len(s) >= 4 /\ Begins(s, Len(s) - 1)
<1>1. PICK n \in Nat : n = Len(s)
  OBVIOUS
<1>2. /\ n >= 4 /\ s[1] = "esc" /\ s[2] = "["
      /\ \/ s[3] = "<" /\ \A i \in 4..(n - 1) : IsDigit(s[i])
         \/ s[3] = "=" /\ \A i \in 4..(n - 1) : IsDigit(s[i]) \/ s[i] = ";"
  BY <1>1 DEF IsReset
<1>3. n >= 4
  BY <1>2
<1>4. Begins(s, n - 1)
  <2>1. n - 1 >= 1
    BY <1>3
  <2> QED
    BY <1>2, <2>1 DEF Begins
<1> QED
  BY <1>1, <1>2, <1>4

\* What begins at i in s may turn out to be a reset, and is not too long.
Candidate(s, i) == Len(s) - i < MaxPrefix /\ IsResetPrefix(Drop(s, i - 1))

\* Of the output s, p is kept: its end, from where a candidate begins.
Kept(s, p) ==
    /\ Len(p) <= Len(s) /\ p = Drop(s, Len(s) - Len(p))
    /\ \A i \in 1..Len(s) : Candidate(s, i) => i > Len(s) - Len(p)

\* What is looked at when b comes is the end of all the output.
LEMMA KeptEnd ==
    ASSUME NEW s \in Seq(Bytes), NEW p \in Seq(Bytes), NEW b \in Seq(Bytes), Kept(s, p)
    PROVE  \E m \in 0..Len(s) :
              /\ m = Len(s) - Len(p) /\ p \o b = Drop(s \o b, m)
              /\ s \o b \in Seq(Bytes) /\ Len(s \o b) = Len(s) + Len(b)
<1>1. PICK k \in Nat, l \in Nat : k = Len(s) /\ l = Len(p)
  OBVIOUS
<1>2. l <= k /\ p = Drop(s, k - l)
  BY <1>1 DEF Kept
<1>3. k - l \in 0..Len(s)
  BY <1>1, <1>2
<1>4. PICK m \in 0..Len(s) : m = k - l
  BY <1>3
<1>5. Drop(s \o b, m) = Drop(s, m) \o b
  BY JoinAt
<1>6. s \o b \in Seq(Bytes) /\ Len(s \o b) = Len(s) + Len(b)
  BY JoinIs
<1> QED
  BY <1>1, <1>2, <1>4, <1>5, <1>6

\* A candidate that began before b came is kept.
LEMMA CandidateKept ==
    ASSUME NEW s \in Seq(Bytes), NEW p \in Seq(Bytes), NEW b \in Seq(Bytes), Kept(s, p),
           NEW i \in Nat, NEW n \in Nat, NEW e \in Nat,
           i >= 1, i <= Len(s), n <= Len(s) + Len(b), Len(s) < i + e, e <= n - i + 1,
           Len(s) - i < MaxPrefix, Begins(SubSeq(s \o b, i, n), e)
    PROVE  i > Len(s) - Len(p)
<1>1. PICK k \in Nat, l \in Nat : k = Len(s) /\ l = Len(b)
  OBVIOUS
<1>2. PICK x \in Seq(Bytes) : x = s \o b
  BY JoinIs
<1>3. Len(x) = k + l
  BY <1>1, <1>2, JoinIs
<1>4. /\ i <= k /\ n <= k + l /\ k < i + e /\ e <= n - i + 1 /\ i <= n + 1 /\ n <= Len(x)
      /\ i <= k + 1
  BY <1>1, <1>3
<1>5. PICK r \in Seq(Bytes) : r = SubSeq(x, i, n)
  BY <1>4, MiddleAt
<1>6. Len(r) = n - i + 1
  BY <1>4, <1>5, MiddleAt
<1>7. PICK j \in Nat : j = k - i + 1 /\ j >= 1 /\ j <= e /\ j <= n - i + 1 /\ i + j - 1 = k
  <2>1. k - i + 1 \in Nat
    BY <1>4
  <2> QED
    BY <1>4, <2>1
<1>8. IsResetPrefix(SubSeq(r, 1, j))
  <2>1. Begins(r, e) /\ e <= Len(r)
    BY <1>2, <1>4, <1>5, <1>6
  <2> QED
    BY <1>7, <2>1, BeginsEarlier
<1>9. SubSeq(r, 1, j) = SubSeq(x, i, k)
  BY <1>4, <1>5, <1>7, MiddleStart
<1>10. SubSeq(x, i, k) = SubSeq(s, i, k)
  BY <1>1, <1>2, <1>4, JoinMiddle
<1>11. Drop(s, i - 1) = SubSeq(s, i, k)
  <2>1. (i - 1) + 1 = i
    OBVIOUS
  <2> QED
    BY <1>1, <2>1 DEF Drop
<1>12. Candidate(s, i)
  BY <1>8, <1>9, <1>10, <1>11 DEF Candidate
<1>13. i \in 1..Len(s)
  BY <1>1
<1> QED
  BY <1>12, <1>13 DEF Kept

\* What is kept of the output is what has to be.
LEMMA KeptLater ==
    ASSUME NEW s \in Seq(Bytes), NEW p \in Seq(Bytes), NEW b \in Seq(Bytes), Kept(s, p)
    PROVE  /\ Kept(s \o b, TrailingPrefix(p \o b))
           /\ TrailingPrefix(p \o b) \in Seq(Bytes)
           /\ TrailingPrefix(p \o b) # <<>> => IsResetPrefix(TrailingPrefix(p \o b))
<1>1. PICK k \in Nat, l \in Nat : k = Len(s) /\ l = Len(b)
  OBVIOUS
<1>2. PICK m \in 0..Len(s) :
          /\ m = Len(s) - Len(p) /\ p \o b = Drop(s \o b, m)
          /\ s \o b \in Seq(Bytes) /\ Len(s \o b) = Len(s) + Len(b)
  BY KeptEnd
<1>3. PICK x \in Seq(Bytes) : x = s \o b /\ Len(x) = k + l
  BY <1>1, <1>2
<1>4. m \in Nat /\ m <= k /\ m \in 0..Len(x)
  BY <1>1, <1>3
<1>5. PICK y \in Seq(Bytes) : y = Drop(x, m) /\ y = p \o b
  BY <1>2, <1>3, <1>4, CutAt
<1>6. Len(y) = k + l - m
  <2>1. Len(y) = Len(x) - m
    BY <1>4, <1>5, CutAt
  <2> QED
    BY <1>3, <2>1
<1>7. ASSUME NEW j \in Nat, j <= k + l - m PROVE Drop(y, j) = Drop(x, m + j)
  <2>1. /\ j + 1 \in Nat /\ k + l - m \in Nat /\ j + 1 >= 1 /\ j + 1 <= (k + l - m) + 1
        /\ k + l - m <= Len(x) - m
        /\ m + (j + 1) = (m + j) + 1 /\ m + (k + l - m) = Len(x)
    BY <1>3, <1>4, <1>7
  <2>2. PICK i \in Nat, n \in Nat : i = j + 1 /\ n = k + l - m
    BY <2>1
  <2>3. i >= 1 /\ i <= n + 1 /\ n <= Len(x) - m /\ m + i = (m + j) + 1 /\ m + n = Len(x)
    BY <1>4, <2>1, <2>2
  <2>4. m \in 0..Len(x)
    BY <1>4
  <2>5. SubSeq(Drop(x, m), i, n) = SubSeq(x, m + i, m + n)
    <3>1. i >= 1 /\ i <= n + 1 /\ n <= Len(x) - m
      BY <2>3
    <3>2. Further(x, m, i, n)
      BY <2>4, <3>1, DropMiddle
    <3> QED
      BY <3>2 DEF Further
  <2>6. Drop(y, j) = SubSeq(y, i, n)
    BY <1>6, <2>2 DEF Drop
  <2>7. Drop(x, m + j) = SubSeq(x, m + i, m + n)
    BY <2>3 DEF Drop
  <2> QED
    BY <1>5, <2>5, <2>6, <2>7
<1>8. ASSUME NEW i \in 1..(k + l), Candidate(x, i)
      PROVE  i > m /\ i - m \in 1..(k + l - m) /\ Candidate(y, i - m)
  <2>1. i \in Nat /\ i >= 1 /\ i <= k + l
    BY <1>1
  <2>2. (k + l) - i < MaxPrefix /\ IsResetPrefix(Drop(x, i - 1))
    BY <1>3, <1>8 DEF Candidate
  <2>3. i > m
    <3>1. CASE i <= k
      <4> DEFINE e == k + l - i + 1
      <4>1. e \in Nat /\ e = (k + l) - i + 1 /\ k < i + e /\ k - i < MaxPrefix
        BY <2>1, <2>2, <3>1, FilterAssumption
      <4>2. Drop(x, i - 1) = SubSeq(x, i, k + l)
        <5>1. (i - 1) + 1 = i
          BY <2>1
        <5> QED
          BY <1>3, <5>1 DEF Drop
      <4>3. SubSeq(x, i, k + l) \in Seq(Bytes) /\ Len(SubSeq(x, i, k + l)) = e
        <5>1. k + l \in Nat /\ i <= (k + l) + 1 /\ k + l <= Len(x)
          BY <1>3, <2>1
        <5> QED
          BY <2>1, <5>1, MiddleAt
      <4>4. Begins(SubSeq(x, i, k + l), e)
        BY <2>2, <4>2, <4>3, BeginsIs
      <4>5. i <= Len(s) /\ k + l <= Len(s) + Len(b) /\ Len(s) < i + e /\ k + l \in Nat
        BY <1>1, <3>1, <4>1
      <4> HIDE DEF e
      <4>6. i > Len(s) - Len(p)
        BY <1>1, <1>3, <2>1, <4>1, <4>4, <4>5, CandidateKept
      <4> QED
        BY <1>2, <4>6
    <3>2. CASE i > k
      BY <1>4, <2>1, <3>2
    <3> QED
      BY <2>1, <3>1, <3>2
  <2>4. PICK j \in Nat : j = i - m /\ j >= 1 /\ j <= k + l - m
    BY <1>4, <2>1, <2>3
  <2>5. PICK h \in Nat : h = j - 1 /\ h <= k + l - m /\ m + h = i - 1
    <3>1. j - 1 \in Nat
      BY <2>4
    <3> QED
      BY <1>4, <2>1, <2>4, <3>1
  <2>6. Drop(y, h) = Drop(x, i - 1)
    BY <1>7, <2>5
  <2>7. Len(y) - j < MaxPrefix
    BY <1>4, <1>6, <2>1, <2>2, <2>4
  <2>8. Candidate(y, j)
    BY <2>2, <2>5, <2>6, <2>7 DEF Candidate
  <2> QED
    BY <2>3, <2>4, <2>8
<1> DEFINE starts == {i \in 1..Len(y) : Len(y) - i < MaxPrefix /\ IsResetPrefix(Drop(y, i - 1))}
           q == TrailingPrefix(y)
<1>9. \A i : i \in starts <=> i \in 1..Len(y) /\ Candidate(y, i)
  BY DEF Candidate
<1>10. q = IF starts = {} THEN <<>> ELSE Drop(y, Min(starts) - 1)
  BY DEF TrailingPrefix
<1>11. starts \in SUBSET Nat
  OBVIOUS
<1> HIDE DEF starts, q
<1>12. CASE starts = {}
  <2>1. q = <<>> /\ q \in Seq(Bytes) /\ Len(q) = 0
    BY <1>10, <1>12, EmptySeq
  <2>2. <<>> = Drop(x, Len(x) - 0)
    <3>1. PICK z \in 0..Len(x) : z = k + l /\ z = Len(x)
      BY <1>3
    <3>2. Drop(x, z) \in Seq(Bytes) /\ Len(Drop(x, z)) = 0
      <4>1. Drop(x, z) \in Seq(Bytes) /\ Len(Drop(x, z)) = Len(x) - z
        BY CutAt
      <4> QED
        BY <3>1, <4>1
    <3>3. Len(x) - 0 = z
      BY <3>1
    <3> QED
      BY <3>2, <3>3, EmptySeq
  <2>3. \A i \in 1..(k + l) : ~Candidate(x, i)
    BY <1>6, <1>8, <1>9, <1>12
  <2>4. Kept(x, q)
    <3>1. Len(q) <= Len(x)
      BY <1>3, <2>1
    <3>2. q = Drop(x, Len(x) - Len(q))
      BY <2>1, <2>2
    <3> QED
      BY <1>3, <2>3, <3>1, <3>2 DEF Kept
  <2> QED
    BY <1>3, <1>5, <2>1, <2>4 DEF q
<1>13. CASE starts # {}
  <2>1. PICK c \in Nat : c = Min(starts) /\ c \in starts /\ \A i \in starts : c <= i
    BY <1>11, <1>13, MinIs
  <2>2. c \in 1..Len(y) /\ Candidate(y, c)
    BY <1>9, <2>1
  <2>3. c >= 1 /\ c <= k + l - m
    BY <1>6, <2>2
  <2>4. PICK h \in Nat : h = c - 1 /\ h <= k + l - m /\ h \in 0..Len(y)
    <3>1. c - 1 \in Nat
      BY <2>3
    <3> QED
      BY <1>6, <2>3, <3>1
  <2>5. q = Drop(y, h) /\ q \in Seq(Bytes) /\ Len(q) = (k + l - m) - h
    <3>1. q = Drop(y, h)
      BY <1>10, <1>13, <2>1, <2>4
    <3>2. Drop(y, h) \in Seq(Bytes) /\ Len(Drop(y, h)) = Len(y) - h
      BY <2>4, CutAt
    <3> QED
      BY <1>6, <3>1, <3>2
  <2>6. IsResetPrefix(q)
    BY <2>2, <2>4, <2>5 DEF Candidate
  <2>7. Drop(y, h) = Drop(x, m + h)
    BY <1>7, <2>4
  <2>8. Len(x) - Len(q) = m + h /\ Len(q) <= Len(x)
    BY <1>3, <1>4, <2>4, <2>5
  <2>9. ASSUME NEW i \in 1..(k + l), Candidate(x, i) PROVE i > m + h
    <3>1. PICK j \in Nat : j = i - m /\ j \in 1..(k + l - m) /\ Candidate(y, j) /\ i > m
      BY <1>8, <2>9
    <3>2. c <= j
      BY <1>6, <1>9, <2>1, <3>1
    <3> QED
      BY <1>4, <2>4, <3>1, <3>2
  <2>10. Kept(x, q)
    BY <1>3, <2>5, <2>7, <2>8, <2>9 DEF Kept
  <2> QED
    BY <1>3, <1>5, <2>5, <2>6, <2>10 DEF q
<1> QED
  BY <1>12, <1>13

\* What has been shown holds a reset that is not longer than what is kept.
Short(s) == \E i, n \in 1..Len(s) : n - i <= MaxPrefix /\ IsReset(SubSeq(s, i, n))

\* A part of s that is a reset has its place in s.
LEMMA ResetAt ==
    ASSUME NEW s \in Seq(Bytes), NEW i \in Nat, NEW n \in Nat, i >= 1, n <= Len(s),
           IsReset(SubSeq(s, i, n))
    PROVE  i + 3 <= n /\ SubSeq(s, i, n) \in Seq(Bytes) /\ Len(SubSeq(s, i, n)) = n - i + 1
<1>1. Len(SubSeq(s, i, n)) >= 4
  BY DEF IsReset
<1>2. CASE i <= n + 1
  <2>1. SubSeq(s, i, n) \in Seq(Bytes) /\ Len(SubSeq(s, i, n)) = n - i + 1
    BY <1>2, MiddleAt
  <2> QED
    BY <1>1, <2>1
<1>3. CASE i > n + 1
  <2>1. Len(SubSeq(s, i, n)) = 0
    BY <1>3
  <2> QED
    BY <1>1, <2>1
<1> QED
  BY <1>2, <1>3

\* What was a reset stays one when more output follows.
LEMMA ResetStays ==
    ASSUME NEW s \in Seq(Bytes), NEW b \in Seq(Bytes), Resets(s)
    PROVE  Resets(s \o b)
<1>1. PICK i \in 1..Len(s), n \in 1..Len(s) : IsReset(SubSeq(s, i, n))
  BY DEF Resets
<1>2. i \in Nat /\ n \in Nat /\ i >= 1 /\ n <= Len(s)
  OBVIOUS
<1>3. i + 3 <= n
  BY <1>1, <1>2, ResetAt
<1>4. i <= n + 1
  BY <1>2, <1>3
<1>5. SubSeq(s \o b, i, n) = SubSeq(s, i, n)
  BY <1>2, <1>4, JoinMiddle
<1>6. i \in 1..Len(s \o b) /\ n \in 1..Len(s \o b)
  BY <1>2, JoinIs
<1> QED
  BY <1>1, <1>5, <1>6 DEF Resets

\* A reset in the end of x is one in x.
LEMMA ResetInEnd ==
    ASSUME NEW x \in Seq(Bytes), NEW m \in 0..Len(x), Resets(Drop(x, m))
    PROVE  Resets(x)
<1>1. PICK y \in Seq(Bytes) : y = Drop(x, m) /\ Len(y) = Len(x) - m
  BY CutAt
<1>2. PICK i \in 1..Len(y), n \in 1..Len(y) : IsReset(SubSeq(y, i, n))
  BY <1>1 DEF Resets
<1>3. i \in Nat /\ n \in Nat /\ i >= 1 /\ n <= Len(y) /\ n >= 1
  OBVIOUS
<1>4. i + 3 <= n
  BY <1>2, <1>3, ResetAt
<1>5. i <= n + 1 /\ n <= Len(x) - m
  BY <1>1, <1>3, <1>4
<1>6. SubSeq(Drop(x, m), i, n) = SubSeq(x, m + i, m + n)
  <2>1. Further(x, m, i, n)
    BY <1>3, <1>5, DropMiddle
  <2> QED
    BY <2>1 DEF Further
<1>7. PICK j \in Nat, h \in Nat : j = m + i /\ h = m + n
  BY <1>3
<1>8. j \in 1..Len(x) /\ h \in 1..Len(x)
  BY <1>3, <1>4, <1>5, <1>7
<1>9. IsReset(SubSeq(x, j, h))
  BY <1>1, <1>2, <1>6, <1>7
<1> QED
  BY <1>8, <1>9 DEF Resets

\* A reset that is not too long is seen where it ends.
LEMMA ShortSeen ==
    ASSUME NEW s \in Seq(Bytes), NEW p \in Seq(Bytes), NEW b \in Seq(Bytes), Kept(s, p),
           Short(s \o b)
    PROVE  Short(s) \/ Resets(p \o b)
<1>1. PICK m \in 0..Len(s) :
          /\ m = Len(s) - Len(p) /\ p \o b = Drop(s \o b, m)
          /\ s \o b \in Seq(Bytes) /\ Len(s \o b) = Len(s) + Len(b)
  BY KeptEnd
<1>2. PICK x \in Seq(Bytes) : x = s \o b /\ Len(x) = Len(s) + Len(b)
  BY <1>1
<1>3. PICK i \in 1..Len(x), n \in 1..Len(x) : n - i <= MaxPrefix /\ IsReset(SubSeq(x, i, n))
  BY <1>2 DEF Short
<1>4. i \in Nat /\ n \in Nat /\ i >= 1 /\ n <= Len(x) /\ n >= 1
  OBVIOUS
<1>5. i + 3 <= n /\ SubSeq(x, i, n) \in Seq(Bytes) /\ Len(SubSeq(x, i, n)) = n - i + 1
  BY <1>3, <1>4, ResetAt
<1>6. CASE n <= Len(s)
  <2>1. i <= n + 1
    BY <1>4, <1>5
  <2>2. SubSeq(s \o b, i, n) = SubSeq(s, i, n)
    BY <1>4, <1>6, <2>1, JoinMiddle
  <2>3. i \in 1..Len(s) /\ n \in 1..Len(s)
    BY <1>4, <1>5, <1>6
  <2> QED
    BY <1>2, <1>3, <2>2, <2>3 DEF Short
<1>7. CASE n > Len(s)
  <2>1. i > m
    <3>1. CASE i <= Len(s)
      <4>1. PICK e \in Nat : e = n - i
        BY <1>4, <1>5
      <4>2. Begins(SubSeq(x, i, n), Len(SubSeq(x, i, n)) - 1)
        BY <1>3, <1>5, ResetBegins
      <4>3. Len(SubSeq(x, i, n)) - 1 = e
        BY <1>4, <1>5, <4>1
      <4>4. Begins(SubSeq(s \o b, i, n), e)
        BY <1>2, <4>2, <4>3
      <4>5. /\ n <= Len(s) + Len(b) /\ Len(s) < i + e /\ e <= n - i + 1
            /\ Len(s) - i < MaxPrefix
        <5>1. n <= Len(s) + Len(b)
          BY <1>2, <1>4
        <5>2. PICK k \in Nat : k = Len(s)
          OBVIOUS
        <5> QED
          BY <1>3, <1>4, <1>7, <4>1, <5>1, <5>2, FilterAssumption
      <4>6. i > Len(s) - Len(p)
        BY <1>4, <3>1, <4>4, <4>5, CandidateKept
      <4> QED
        BY <1>1, <4>6
    <3>2. CASE i > Len(s)
      BY <3>2
    <3> QED
      BY <1>4, <3>1, <3>2
  <2>2. m \in 0..Len(x)
    BY <1>2
  <2>3. PICK y \in Seq(Bytes) : y = Drop(x, m) /\ Len(y) = Len(x) - m
    BY <2>2, CutAt
  <2>4. PICK j \in Nat, h \in Nat : j = i - m /\ h = n - m /\ j >= 1 /\ j + 3 <= h
    <3>1. i - m \in Nat /\ n - m \in Nat
      BY <1>4, <1>5, <2>1
    <3> QED
      BY <1>4, <1>5, <2>1, <3>1
  <2>5. j <= h + 1 /\ h <= Len(x) - m /\ m + j = i /\ m + h = n
    BY <1>4, <2>4
  <2>6. SubSeq(Drop(x, m), j, h) = SubSeq(x, m + j, m + h)
    <3>1. j >= 1 /\ j <= h + 1 /\ h <= Len(x) - m
      BY <2>4, <2>5
    <3>2. Further(x, m, j, h)
      BY <2>2, <3>1, DropMiddle
    <3> QED
      BY <3>2 DEF Further
  <2>7. IsReset(SubSeq(y, j, h))
    BY <1>3, <2>3, <2>5, <2>6
  <2>8. j \in 1..Len(y) /\ h \in 1..Len(y)
    BY <2>3, <2>4, <2>5
  <2>9. Resets(y)
    BY <2>7, <2>8 DEF Resets
  <2> QED
    BY <1>1, <1>2, <2>3, <2>9
<1> QED
  BY <1>4, <1>6, <1>7

-----------------------------------------------------------------------------
(* The types                                                                *)

\* What is in the variables, whatever their histories.
Types ==
    /\ window \in {"none", "open", "past"}
    /\ pending \in Seq(Bytes) /\ ~Starts(pending)
    /\ aged \in BOOLEAN
    /\ outputPending \in Seq(Bytes) /\ (outputPending # <<>> => IsResetPrefix(outputPending))
    /\ sent \in Seq(Bytes) /\ fed \in Seq(Bytes) /\ shown \in Seq(Bytes)
    /\ detected \in BOOLEAN /\ steady \in BOOLEAN
    /\ pieces \in 0..MaxPieces

\* What a read returns is a sequence of bytes.
LEMMA ChunksAre ==
    /\ \A b \in Chunks(InputPieces) : b \in Seq(Bytes)
    /\ \A b \in Chunks(OutputPieces) : b \in Seq(Bytes)
<1>1. ASSUME NEW set, set \subseteq Seq(Bytes), NEW b \in Chunks(set)
      PROVE  b \in Seq(Bytes)
  <2>1. CASE b \in set
    BY <1>1, <2>1
  <2>2. CASE \E p \in set, q \in set : b = p \o q
    <3>1. PICK p \in set, q \in set : b = p \o q
      BY <2>2
    <3>2. p \in Seq(Bytes) /\ q \in Seq(Bytes)
      BY <1>1
    <3> QED
      BY <3>1, <3>2, JoinIs
  <2> QED
    BY <2>1, <2>2 DEF Chunks
<1> QED
  BY <1>1, FilterAssumption

\* A read of b, with f coming of age and k still held back.
Taken(f, k, b) ==
    /\ pending = f \o k
    /\ aged => f = pending /\ k = <<>>
    /\ ~aged => f = <<>> /\ k = pending
    /\ fed' = fed \o b
    /\ \/ /\ window = "open" /\ window' = "open"
          /\ sent' = (sent \o f) \o Pass[k \o b].out /\ pending' = Pass[k \o b].rest
       \/ /\ window # "open" /\ window' = "none"
          /\ sent' = ((sent \o f) \o k) \o b /\ pending' = <<>>

\* Every read is one.
LEMMA ReadTakes ==
    ASSUME Types, ReadInput
    PROVE  \E f \in Seq(Bytes) : \E k \in Seq(Bytes) : \E b \in Seq(Bytes) : Taken(f, k, b)
<1>1. PICK b \in Chunks(InputPieces) : FilterInput(b) /\ fed' = fed \o b
  BY DEF ReadInput
<1>2. b \in Seq(Bytes)
  BY ChunksAre
<1>3. pending \in Seq(Bytes) /\ aged \in BOOLEAN
  BY DEF Types
<1>4. pending = pending \o <<>> /\ pending = <<>> \o pending /\ <<>> \in Seq(Bytes)
  BY <1>3, ConcatEmptySeq, EmptySeq
<1>5. PICK f \in Seq(Bytes), k \in Seq(Bytes) :
          f = (IF aged THEN pending ELSE <<>>) /\ k = IF aged THEN <<>> ELSE pending
  BY <1>3, <1>4
<1>6. /\ pending = f \o k
      /\ aged => f = pending /\ k = <<>>
      /\ ~aged => f = <<>> /\ k = pending
  BY <1>3, <1>4, <1>5
<1>7. \/ /\ window = "open" /\ window' = "open"
         /\ sent' = (sent \o f) \o Pass[k \o b].out /\ pending' = Pass[k \o b].rest
      \/ /\ window # "open" /\ window' = "none"
         /\ sent' = ((sent \o f) \o k) \o b /\ pending' = <<>>
  BY <1>1, <1>5 DEF FilterInput
<1>8. Taken(f, k, b)
  BY <1>1, <1>6, <1>7 DEF Taken
<1> QED
  BY <1>2, <1>8

\* Nothing is held back at first, which is where no sequence starts.
LEMMA EmptyStarts ==
    <<>> \in Seq(Bytes) /\ ~Starts(<<>>)
BY EmptySeq DEF Starts

\* The types hold at first, and the output that is kept is what has to be.
LEMMA InitTypes ==
    ASSUME Init
    PROVE  Types /\ Kept(shown, outputPending)
<1>1. Types
  <2>1. pieces \in 0..MaxPieces
    BY FilterAssumption DEF Init
  <2> QED
    BY <2>1, EmptyStarts DEF Init, Types
<1>2. shown = <<>> /\ outputPending = <<>> /\ Len(<<>>) = 0
  BY EmptySeq DEF Init
<1>3. Drop(<<>>, 0) = <<>>
  BY EmptyStarts DEF Drop
<1> QED
  BY <1>1, <1>2, <1>3 DEF Kept

\* Every step keeps both.
LEMMA StepTypes ==
    ASSUME Types, Kept(shown, outputPending), [Next]_vars
    PROVE  Types' /\ Kept(shown, outputPending)'
<1>1. CASE ReadInput
  <2>0. /\ pieces' \in 0..MaxPieces /\ aged' \in BOOLEAN /\ steady' \in BOOLEAN
        /\ detected' \in BOOLEAN /\ shown' \in Seq(Bytes) /\ outputPending' \in Seq(Bytes)
        /\ outputPending' # <<>> => IsResetPrefix(outputPending')
        /\ shown' = shown /\ outputPending' = outputPending
    <3>1. pieces' \in 0..MaxPieces
      BY <1>1, FilterAssumption DEF Types, ReadInput
    <3>2. /\ aged' = FALSE /\ steady' = (steady /\ ~aged) /\ detected' = detected
          /\ shown' = shown /\ outputPending' = outputPending
      BY <1>1 DEF ReadInput
    <3> QED
      BY <3>1, <3>2 DEF Types
  <2>1. PICK f \in Seq(Bytes), k \in Seq(Bytes), b \in Seq(Bytes) : Taken(f, k, b)
    BY <1>1, ReadTakes
  <2>2. sent \in Seq(Bytes) /\ fed \in Seq(Bytes)
    BY DEF Types
  <2>3. PICK kb \in Seq(Bytes), sf \in Seq(Bytes) : kb = k \o b /\ sf = sent \o f
    BY <2>2, JoinIs
  <2>4. Pass[kb].out \in Seq(Bytes) /\ Pass[kb].rest \in Seq(Bytes) /\ ~Starts(Pass[kb].rest)
    BY PassCases, PassHoldsBack
  <2>5. PICK sfk \in Seq(Bytes) : sfk = sf \o k
    BY JoinIs
  <2>6. sf \o Pass[kb].out \in Seq(Bytes) /\ sfk \o b \in Seq(Bytes) /\ fed \o b \in Seq(Bytes)
    BY <2>2, <2>4, JoinIs
  <2>7. CASE window = "open"
    <3>1. /\ sent' = sf \o Pass[kb].out /\ pending' = Pass[kb].rest /\ window' = "open"
          /\ fed' = fed \o b
      BY <2>1, <2>3, <2>7 DEF Taken
    <3>2. sent' \in Seq(Bytes) /\ fed' \in Seq(Bytes) /\ pending' \in Seq(Bytes) /\ ~Starts(pending')
      BY <2>4, <2>6, <3>1
    <3> QED
      BY <2>0, <3>1, <3>2 DEF Types
  <2>8. CASE window # "open"
    <3>1. /\ sent' = sfk \o b /\ pending' = <<>> /\ window' = "none"
          /\ fed' = fed \o b
      BY <2>1, <2>3, <2>5, <2>8 DEF Taken
    <3>2. sent' \in Seq(Bytes) /\ fed' \in Seq(Bytes) /\ pending' \in Seq(Bytes) /\ ~Starts(pending')
      BY <2>6, <3>1, EmptyStarts
    <3> QED
      BY <2>0, <3>1, <3>2 DEF Types
  <2> QED
    BY <2>7, <2>8
<1>2. CASE ObserveOutput
  <2>1. PICK b \in Chunks(OutputPieces) : Observe(b) /\ shown' = shown \o b
    BY <1>2 DEF ObserveOutput
  <2>2. b \in Seq(Bytes) /\ shown \in Seq(Bytes) /\ outputPending \in Seq(Bytes)
    BY ChunksAre DEF Types
  <2>3. /\ Kept(shown \o b, TrailingPrefix(outputPending \o b))
        /\ TrailingPrefix(outputPending \o b) \in Seq(Bytes)
        /\ TrailingPrefix(outputPending \o b) # <<>>
              => IsResetPrefix(TrailingPrefix(outputPending \o b))
    BY <2>2, KeptLater
  <2>4. PICK q \in Seq(Bytes) :
            outputPending' = q /\ Kept(shown', q) /\ (q # <<>> => IsResetPrefix(q))
    BY <2>1, <2>3 DEF Observe
  <2>5. shown' \in Seq(Bytes) /\ window' \in {"none", "open", "past"} /\ detected' \in BOOLEAN
    <3>1. shown' \in Seq(Bytes)
      BY <2>1, <2>2, JoinIs
    <3>2. Resets(outputPending \o b) \in BOOLEAN
      BY DEF Resets
    <3> QED
      BY <2>1, <3>1, <3>2 DEF Observe, Types
  <2>6. Types'
    <3>1. pieces' \in 0..MaxPieces
      BY <1>2, FilterAssumption DEF Types, ObserveOutput
    <3>2. /\ pending' = pending /\ aged' = aged /\ sent' = sent /\ fed' = fed /\ steady' = steady
      BY <1>2 DEF ObserveOutput
    <3>3. outputPending' \in Seq(Bytes) /\ (outputPending' # <<>> => IsResetPrefix(outputPending'))
      BY <2>4
    <3> QED
      BY <2>5, <3>1, <3>2, <3>3 DEF Types
  <2> QED
    BY <2>4, <2>6
<1>3. CASE Flush
  <2>1. sent' \in Seq(Bytes)
    BY <1>3, JoinIs DEF Flush, Types
  <2>2. pending' = <<>> /\ pending' \in Seq(Bytes) /\ ~Starts(pending')
    BY <1>3, EmptyStarts DEF Flush
  <2>3. shown' = shown /\ outputPending' = outputPending
    BY <1>3 DEF Flush
  <2>4. Types'
    BY <1>3, <2>1, <2>2 DEF Flush, Types
  <2> QED
    BY <2>3, <2>4
<1>4. CASE ComesOfAge
  BY <1>4 DEF ComesOfAge, Types
<1>5. CASE WindowEnds
  BY <1>5 DEF WindowEnds, Types
<1>6. CASE UNCHANGED vars
  BY <1>6 DEF vars, Types
<1> QED
  BY <1>1, <1>2, <1>3, <1>4, <1>5, <1>6 DEF Next

\* So they always hold.
LEMMA TypesAlways ==
    Spec => [](Types /\ Kept(shown, outputPending))
<1> DEFINE I == Types /\ Kept(shown, outputPending)
<1>1. Init => I
  BY InitTypes
<1>2. I /\ [Next]_vars => I'
  BY StepTypes
<1> QED
  BY <1>1, <1>2, PTL DEF Spec

\* InputFilter's type invariant: all that is ever held back is the start of a sequence
\* (set_pending) or of a reset (trailing_keyboard_reset_prefix), never more.
THEOREM FilterTypeCorrect ==
    Spec => []TypeOK
<1>1. Types => TypeOK
  BY DEF Types, TypeOK, Starts
<1> QED
  BY <1>1, TypesAlways, PTL

-----------------------------------------------------------------------------
(* The output                                                               *)

\* What was detected was shown, and what was shown and not too long was detected.
Seen ==
    /\ detected => Resets(shown)
    /\ Short(shown) => detected

\* It holds at first, when nothing was shown.
LEMMA InitSeen ==
    ASSUME Init
    PROVE  Seen
<1>1. shown = <<>> /\ detected = FALSE /\ Len(<<>>) = 0
  BY EmptySeq DEF Init
<1> QED
  BY <1>1 DEF Seen, Short

\* Every step keeps it.
LEMMA StepSeen ==
    ASSUME Types, Kept(shown, outputPending), Seen, [Next]_vars
    PROVE  Seen'
<1>1. CASE ObserveOutput
  <2>1. PICK b \in Chunks(OutputPieces) : Observe(b) /\ shown' = shown \o b
    BY <1>1 DEF ObserveOutput
  <2>2. b \in Seq(Bytes) /\ shown \in Seq(Bytes) /\ outputPending \in Seq(Bytes)
    BY ChunksAre DEF Types
  <2>3. detected' = (detected \/ Resets(outputPending \o b))
    BY <2>1 DEF Observe
  <2>4. Resets(outputPending \o b) => Resets(shown \o b)
    <3>1. PICK m \in 0..Len(shown) :
              /\ outputPending \o b = Drop(shown \o b, m)
              /\ shown \o b \in Seq(Bytes) /\ Len(shown \o b) = Len(shown) + Len(b)
      BY <2>2, KeptEnd
    <3>2. m \in 0..Len(shown \o b)
      BY <2>2, <3>1
    <3> QED
      BY <3>1, <3>2, ResetInEnd
  <2>5. Resets(shown) => Resets(shown \o b)
    BY <2>2, ResetStays
  <2>6. Short(shown \o b) => Short(shown) \/ Resets(outputPending \o b)
    BY <2>2, ShortSeen
  <2> QED
    BY <2>1, <2>3, <2>4, <2>5, <2>6 DEF Seen
<1>2. CASE UNCHANGED <<shown, detected>>
  BY <1>2 DEF Seen, Short, Resets
<1>3. ReadInput \/ Flush \/ ComesOfAge \/ WindowEnds \/ UNCHANGED vars
          => UNCHANGED <<shown, detected>>
  BY DEF ReadInput, Flush, ComesOfAge, WindowEnds, vars
<1> QED
  BY <1>1, <1>2, <1>3 DEF Next

\* bridge.rs, output_resets_kitty_keyboard_protocol and trailing_keyboard_reset_prefix: the
\* end of the protocol is detected in any output, cut anywhere, as long as it is not longer
\* than what is kept of the output, and nothing else is taken for it.
THEOREM EveryResetDetected ==
    Spec => []ResetDetected
<1> DEFINE I == Types /\ Kept(shown, outputPending)
<1>1. Init => Seen
  BY InitSeen
<1>2. I /\ Seen /\ [Next]_vars => Seen'
  BY StepSeen
<1>3. Seen => ResetDetected
  BY DEF Seen, Short, ResetDetected
<1> QED
  BY <1>1, <1>2, <1>3, TypesAlways, PTL DEF Spec

-----------------------------------------------------------------------------
(* The input                                                                *)

\* v is what was typed but for what is held back, and what was sent is left of it.
Sent(v) == fed = v \o pending /\ LeftOf(sent, v)

\* Every read takes what was typed further.
LEMMA ReadSends ==
    ASSUME Types, NEW v \in Seq(Bytes), Sent(v),
           NEW f \in Seq(Bytes), NEW k \in Seq(Bytes), NEW b \in Seq(Bytes), Taken(f, k, b)
    PROVE  \E w \in Seq(Bytes) : Sent(w)'
<1>1. sent \in Seq(Bytes) /\ fed \in Seq(Bytes) /\ pending \in Seq(Bytes)
  BY DEF Types
<1>2. PICK vf \in Seq(Bytes), sf \in Seq(Bytes), kb \in Seq(Bytes), fk \in Seq(Bytes) :
          vf = v \o f /\ sf = sent \o f /\ kb = k \o b /\ fk = f \o k
  BY <1>1, JoinIs
<1>3. LeftOf(sf, vf)
  <2>1. LeftOf(f, f) /\ LeftOf(sent, v)
    BY ThinningOfAll DEF Sent
  <2> QED
    BY <1>1, <1>2, <2>1, ThinningsJoin
<1>4. fed' = vf \o kb
  <2>1. fed' = (v \o fk) \o b
    BY <1>2 DEF Sent, Taken
  <2>2. v \o fk = vf \o k
    <3>1. EitherWay(v, f, k)
      BY JoinsAssociate
    <3> QED
      BY <1>2, <3>1 DEF EitherWay
  <2>3. (vf \o k) \o b = vf \o (k \o b)
    <3>1. EitherWay(vf, k, b)
      BY JoinsAssociate
    <3> QED
      BY <3>1 DEF EitherWay
  <2> QED
    BY <1>2, <2>1, <2>2, <2>3
<1>5. CASE window = "open"
  <2>1. sent' = sf \o Pass[kb].out /\ pending' = Pass[kb].rest
    BY <1>2, <1>5 DEF Taken
  <2>2. PICK w \in Seq(Bytes) : Split(kb, w)
    BY PassThins
  <2>3. PICK o \in Seq(Bytes), r \in Seq(Bytes) : o = Pass[kb].out /\ r = Pass[kb].rest
    BY PassCases
  <2>4. kb = w \o r /\ LeftOf(o, w)
    BY <2>2, <2>3 DEF Split
  <2>5. PICK z \in Seq(Bytes) : z = vf \o w
    BY JoinIs
  <2>6. LeftOf(sf \o o, z)
    BY <1>3, <2>4, <2>5, ThinningsJoin
  <2>7. vf \o kb = z \o r
    <3>1. EitherWay(vf, w, r)
      BY JoinsAssociate
    <3> QED
      BY <2>4, <2>5, <3>1 DEF EitherWay
  <2> QED
    BY <1>4, <2>1, <2>3, <2>6, <2>7 DEF Sent
<1>6. CASE window # "open"
  <2>1. sent' = (sf \o k) \o b /\ pending' = <<>>
    BY <1>2, <1>6 DEF Taken
  <2>2. (sf \o k) \o b = sf \o kb
    <3>1. EitherWay(sf, k, b)
      BY JoinsAssociate
    <3> QED
      BY <1>2, <3>1 DEF EitherWay
  <2>3. LeftOf(kb, kb)
    BY ThinningOfAll
  <2>4. PICK z \in Seq(Bytes) : z = vf \o kb
    BY JoinIs
  <2>5. LeftOf(sf \o kb, z)
    BY <1>3, <2>3, <2>4, ThinningsJoin
  <2>6. z = z \o <<>>
    BY ConcatEmptySeq
  <2> QED
    BY <1>4, <2>1, <2>2, <2>4, <2>5, <2>6 DEF Sent
<1> QED
  BY <1>5, <1>6

\* At first nothing was typed.
LEMMA InitSent ==
    ASSUME Init
    PROVE  \E v \in Seq(Bytes) : Sent(v)
<1>1. fed = <<>> /\ pending = <<>> /\ sent = <<>>
  BY DEF Init
<1>2. <<>> \in Seq(Bytes) /\ <<>> = <<>> \o <<>>
  BY EmptySeq, ConcatEmptySeq
<1>3. LeftOf(<<>>, <<>>)
  BY <1>2, ThinningOfAll
<1> QED
  BY <1>1, <1>2, <1>3 DEF Sent

\* Every step keeps it.
LEMMA StepSent ==
    ASSUME Types, \E v \in Seq(Bytes) : Sent(v), [Next]_vars
    PROVE  \E v \in Seq(Bytes) : Sent(v)'
<1>1. PICK v \in Seq(Bytes) : Sent(v)
  OBVIOUS
<1>2. CASE ReadInput
  <2>1. PICK f \in Seq(Bytes), k \in Seq(Bytes), b \in Seq(Bytes) : Taken(f, k, b)
    BY <1>2, ReadTakes
  <2> QED
    BY <1>1, <2>1, ReadSends
<1>3. CASE Flush
  <2>1. sent' = sent \o pending /\ pending' = <<>> /\ fed' = fed
    BY <1>3 DEF Flush
  <2>2. fed = v \o pending /\ LeftOf(sent, v)
    BY <1>1 DEF Sent
  <2>3. sent \in Seq(Bytes) /\ fed \in Seq(Bytes) /\ pending \in Seq(Bytes)
    BY DEF Types
  <2>4. LeftOf(pending, pending)
    BY <2>3, ThinningOfAll
  <2>5. LeftOf(sent \o pending, fed)
    BY <2>2, <2>3, <2>4, ThinningsJoin
  <2>6. fed = fed \o <<>>
    BY <2>3, ConcatEmptySeq
  <2> QED
    BY <2>1, <2>3, <2>5, <2>6 DEF Sent
<1>4. CASE UNCHANGED <<sent, fed, pending>>
  BY <1>1, <1>4 DEF Sent
<1>5. ObserveOutput \/ ComesOfAge \/ WindowEnds \/ UNCHANGED vars
          => UNCHANGED <<sent, fed, pending>>
  BY DEF ObserveOutput, ComesOfAge, WindowEnds, vars
<1> QED
  BY <1>2, <1>3, <1>4, <1>5 DEF Next

\* bridge.rs:466, "drop only those release reports for a short window": whatever is typed and
\* however it is cut, through any timeouts and windows, what was sent and what is held back
\* are what was typed without some of its release reports.
THEOREM FilterDropsOnlyReleases ==
    Spec => []OnlyReleasesDropped
<1> DEFINE I == Types /\ Kept(shown, outputPending)
           J == \E v \in Seq(Bytes) : Sent(v)
<1>1. Init => J
  BY InitSent
<1>2. I /\ J /\ [Next]_vars => J'
  BY StepSent
<1>3. I /\ J => OnlyReleasesDropped
  <2> SUFFICES ASSUME I, J PROVE OnlyReleasesDropped
    OBVIOUS
  <2>1. PICK v \in Seq(Bytes) : Sent(v)
    OBVIOUS
  <2>2. sent \in Seq(Bytes) /\ pending \in Seq(Bytes)
    BY DEF Types
  <2>3. LeftOf(pending, pending) /\ LeftOf(sent, v) /\ fed = v \o pending
    BY <2>1, <2>2, ThinningOfAll DEF Sent
  <2>4. LeftOf(sent \o pending, fed)
    BY <2>2, <2>3, ThinningsJoin
  <2> QED
    BY <2>4 DEF LeftOf, OnlyReleasesDropped
<1> HIDE DEF J
<1> QED
  BY <1>1, <1>2, <1>3, TypesAlways, PTL DEF Spec

\* As long as the filter is steady, it has done to the input what Pass does to all of it.
Uncut ==
    steady => window = "open" /\ Pass[fed].out = sent /\ Pass[fed].rest = pending

\* It has at first.
LEMMA InitUncut ==
    ASSUME Init
    PROVE  Uncut
<1>1. fed = <<>> /\ pending = <<>> /\ sent = <<>> /\ (steady => window = "open")
  BY DEF Init
<1>2. Pass[<<>>].out = <<>> /\ Pass[<<>>].rest = <<>>
  BY EmptyStarts, PassCases
<1> QED
  BY <1>1, <1>2 DEF Uncut

\* It has after every step.
LEMMA StepUncut ==
    ASSUME Types, Uncut, [Next]_vars
    PROVE  Uncut'
<1>1. CASE ReadInput
  <2>1. PICK f \in Seq(Bytes), k \in Seq(Bytes), b \in Seq(Bytes) : Taken(f, k, b)
    BY <1>1, ReadTakes
  <2>2. CASE steady'
    <3>1. steady /\ ~aged
      BY <1>1, <2>2 DEF ReadInput
    <3>2. /\ window = "open" /\ Pass[fed].out = sent /\ Pass[fed].rest = pending
          /\ f = <<>> /\ k = pending
      BY <2>1, <3>1 DEF Uncut, Taken
    <3>3. /\ window' = "open" /\ fed' = fed \o b
          /\ sent' = (sent \o <<>>) \o Pass[pending \o b].out
          /\ pending' = Pass[pending \o b].rest
      BY <2>1, <3>2 DEF Taken
    <3>4. sent \in Seq(Bytes) /\ fed \in Seq(Bytes) /\ sent \o <<>> = sent
      BY ConcatEmptySeq DEF Types
    <3>5. Joins(fed, b)
      BY <3>4, PassJoins
    <3>6. /\ Pass[fed \o b].out = sent \o Pass[pending \o b].out
          /\ Pass[fed \o b].rest = Pass[pending \o b].rest
      BY <3>2, <3>5 DEF Joins
    <3> QED
      BY <3>3, <3>4, <3>6 DEF Uncut
  <2>3. CASE ~steady'
    BY <2>3 DEF Uncut
  <2> QED
    BY <2>2, <2>3
<1>2. CASE ObserveOutput
  <2>1. PICK b \in Chunks(OutputPieces) : Observe(b)
    BY <1>2 DEF ObserveOutput
  <2>2. (window = "open" => window' = "open") /\ UNCHANGED <<sent, fed, pending, steady>>
    BY <1>2, <2>1 DEF ObserveOutput, Observe
  <2> QED
    BY <2>2 DEF Uncut
<1>3. CASE Flush \/ WindowEnds
  BY <1>3 DEF Flush, WindowEnds, Uncut
<1>4. CASE ComesOfAge \/ UNCHANGED vars
  <2>1. UNCHANGED <<window, sent, fed, pending, steady>>
    BY <1>4 DEF ComesOfAge, vars
  <2> QED
    BY <2>1 DEF Uncut
<1> QED
  BY <1>1, <1>2, <1>3, <1>4 DEF Next

\* bridge.rs, take_pending_then and set_pending: as long as the window is open and nothing
\* came of age, the shell gets, and the filter holds back, what it would have had all the
\* input come in one piece.
THEOREM FilterIgnoresCuts ==
    Spec => []CutsDoNotMatter
<1> DEFINE I == Types /\ Kept(shown, outputPending)
<1>1. Init => Uncut
  BY InitUncut
<1>2. I /\ Uncut /\ [Next]_vars => Uncut'
  BY StepUncut
<1>3. I /\ Uncut => CutsDoNotMatter
  <2> SUFFICES ASSUME I, Uncut, steady PROVE Pass[fed] = [out |-> sent, rest |-> pending]
    BY DEF CutsDoNotMatter
  <2>1. fed \in Seq(Bytes) /\ Pass[fed].out = sent /\ Pass[fed].rest = pending
    BY DEF Types, Uncut
  <2>2. Pass[fed] \in Passed
    BY <2>1, PassIs
  <2>3. PICK o \in Seq(Bytes), r \in Seq(Bytes) : Pass[fed] = [out |-> o, rest |-> r]
    BY <2>2 DEF Passed
  <2> QED
    BY <2>1, <2>3
<1> QED
  BY <1>1, <1>2, <1>3, TypesAlways, PTL DEF Spec
===============================================================================
