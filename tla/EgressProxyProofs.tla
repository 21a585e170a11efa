------------------------- MODULE EgressProxyProofs --------------------------
(***************************************************************************)
(* Proofs about EgressProxy, for every allowlist, every host name and any  *)
(* number of chunks.  The verdict is proved about the names themselves;    *)
(* the tunnel by an invariant that says which parts of a connection exist  *)
(* at each stage of its handler (StageInv), and that no pipe is left       *)
(* behind unless a timer fired (PipeInv).                                  *)
(***************************************************************************)
EXTENDS EgressProxy, SequenceTheorems, TLAPS

-----------------------------------------------------------------------------
(* Names.                                                                  *)

LEMMA ReverseType ==
    ASSUME NEW S, NEW s \in Seq(S)
    PROVE  /\ Reverse(s) \in Seq(S)
           /\ Len(Reverse(s)) = Len(s)
           /\ \A i \in 1..Len(s) : Reverse(s)[i] = s[Len(s) - i + 1]
<1>1. Len(s) \in Nat /\ s \in [1..Len(s) -> S]
  OBVIOUS
<1>2. \A i \in 1..Len(s) : Len(s) - i + 1 \in 1..Len(s)
  BY <1>1
<1>3. Reverse(s) = [i \in 1..Len(s) |-> s[Len(s) - i + 1]]
  BY DEF Reverse
<1>4. Reverse(s) \in [1..Len(s) -> S]
  BY <1>1, <1>2, <1>3
<1>5. QED
  BY <1>1, <1>3, <1>4

(* The end of a name, letter by letter.                                    *)
LEMMA SuffixMeans ==
    ASSUME NEW S, NEW s \in Seq(S), NEW t \in Seq(S), IsSuffix(s, t)
    PROVE  /\ Len(s) <= Len(t)
           /\ \A i \in 1..Len(s) : s[i] = t[Len(t) - Len(s) + i]
<1> DEFINE rs == Reverse(s)
           rt == Reverse(t)
<1>1. Len(s) \in Nat /\ Len(t) \in Nat
  OBVIOUS
<1>2. /\ Len(rs) = Len(s) /\ Len(rt) = Len(t)
      /\ \A i \in 1..Len(s) : rs[i] = s[Len(s) - i + 1]
      /\ \A i \in 1..Len(t) : rt[i] = t[Len(t) - i + 1]
      /\ rs \in Seq(S) /\ rt \in Seq(S)
  BY ReverseType
<1>3. /\ Len(s) <= Len(t)
      /\ SubSeq(rs, 1, Len(s)) = SubSeq(rt, 1, Len(s))
  BY <1>2 DEF IsSuffix, IsPrefix
<1>4. ASSUME NEW k \in 1..Len(s)
      PROVE  rs[k] = rt[k]
  <2>1. SubSeq(rs, 1, Len(s))[k] = rs[k]
    BY <1>1, <1>2
  <2>2. SubSeq(rt, 1, Len(s))[k] = rt[k]
    BY <1>1, <1>2, <1>3
  <2>3. QED
    BY <2>1, <2>2, <1>3
<1>5. ASSUME NEW i \in 1..Len(s)
      PROVE  s[i] = t[Len(t) - Len(s) + i]
  <2> DEFINE k == Len(s) - i + 1
  <2>1. k \in 1..Len(s) /\ k \in 1..Len(t)
    BY <1>1, <1>3
  <2>2. rs[k] = s[Len(s) - k + 1] /\ rt[k] = t[Len(t) - k + 1]
    BY <1>2, <2>1
  <2>3. Len(s) - k + 1 = i /\ Len(t) - k + 1 = Len(t) - Len(s) + i
    BY <1>1
  <2>4. QED
    BY <1>4, <2>1, <2>2, <2>3
<1>6. QED
  BY <1>3, <1>5

LEMMA DotIsAName ==
    ASSUME NEW S, Dot \in S
    PROVE  \E dot \in Seq(S) : dot = <<Dot>> /\ Len(dot) = 1 /\ dot[1] = Dot
<1>1. <<Dot>> \in Seq(S) /\ Len(<<Dot>>) = 1 /\ <<Dot>>[1] = Dot
  OBVIOUS
<1>2. QED
  BY <1>1

LEMMA NormalizedMeans ==
    ASSUME NEW S, Dot \in S, NEW name \in Seq(S)
    PROVE  /\ Normalized(name) \in Seq(S)
           /\ \/ Normalized(name) = name
              \/ /\ name # << >> /\ name[Len(name)] = Dot
                 /\ Normalized(name) = SubSeq(name, 1, Len(name) - 1)
                 /\ Len(Normalized(name)) = Len(name) - 1
                 /\ \A i \in 1..(Len(name) - 1) : Normalized(name)[i] = name[i]
<1>1. CASE ~ IsSuffix(<<Dot>>, name)
  BY <1>1 DEF Normalized
<1>2. CASE IsSuffix(<<Dot>>, name)
  <2>1. PICK dot \in Seq(S) : dot = <<Dot>> /\ Len(dot) = 1 /\ dot[1] = Dot
    BY DotIsAName
  <2>2. /\ Len(name) \in Nat /\ 1 <= Len(name) /\ Len(name) - 1 \in Nat
        /\ Dot = name[Len(name)]
    <3>1. IsSuffix(dot, name)
      BY <1>2, <2>1
    <3>2. /\ Len(dot) <= Len(name)
          /\ \A i \in 1..Len(dot) : dot[i] = name[Len(name) - Len(dot) + i]
      BY <3>1, SuffixMeans
    <3>3. Len(name) \in Nat /\ 1 \in 1..Len(dot) /\ Len(name) - Len(dot) + 1 = Len(name)
      BY <2>1
    <3>4. QED
      BY <2>1, <3>2, <3>3
  <2>3. Normalized(name) = SubSeq(name, 1, Len(name) - 1)
    BY <1>2 DEF Normalized, Front
  <2>4. /\ SubSeq(name, 1, Len(name) - 1) \in Seq(S)
        /\ Len(SubSeq(name, 1, Len(name) - 1)) = Len(name) - 1
        /\ \A i \in 1..(Len(name) - 1) : SubSeq(name, 1, Len(name) - 1)[i] = name[i]
    <3>1. PICK n \in Nat : n = Len(name) - 1
      BY <2>2
    <3>2. \A i \in 1..n : name[i] \in S
      BY <2>2, <3>1
    <3>3. /\ SubSeq(name, 1, n) \in Seq(S)
          /\ Len(SubSeq(name, 1, n)) = n
          /\ \A i \in 1..n : SubSeq(name, 1, n)[i] = name[i]
      BY <3>2, SubSeqProperties
    <3>4. QED
      BY <3>1, <3>3
  <2>5. name # << >>
    BY <2>2
  <2>6. /\ Normalized(name) \in Seq(S)
        /\ Len(Normalized(name)) = Len(name) - 1
        /\ \A i \in 1..(Len(name) - 1) : Normalized(name)[i] = name[i]
    BY <2>3, <2>4
  <2>7. QED
    BY <2>2, <2>3, <2>5, <2>6, Zenon
<1>3. QED
  BY <1>1, <1>2

Ends(N, E, n) ==
    /\ Len(N) = n + Len(E)
    /\ n > 0 => N[n] = Dot
    /\ \A i \in 1..Len(E) : E[i] = N[n + i]

(* An allowed name is an entry with a number of letters in front, the last *)
(* of them a dot.                                                          *)
LEMMA EndsInEntry ==
    ASSUME NEW S, Dot \in S, NEW N \in Seq(S), NEW E \in Seq(S),
           N = E \/ IsSuffix(<<Dot>> \o E, N)
    PROVE  \E n \in Nat : Ends(N, E, n)
<1>0. Len(N) \in Nat /\ Len(E) \in Nat
  OBVIOUS
<1>1. CASE N = E
  <2>1. /\ Len(N) = 0 + Len(E) /\ ~ (0 > 0)
        /\ \A i \in 1..Len(E) : 0 + i = i
    BY <1>0, <1>1
  <2>2. \A i \in 1..Len(E) : E[i] = N[0 + i]
    BY <1>1, <2>1
  <2>3. QED
    BY <2>1, <2>2 DEF Ends
<1>2. CASE IsSuffix(<<Dot>> \o E, N)
  <2> DEFINE X == <<Dot>> \o E
             n == Len(N) - Len(E)
  <2>1. /\ X \in Seq(S) /\ Len(X) = Len(E) + 1 /\ X[1] = Dot
        /\ \A i \in 1..Len(E) : X[i + 1] = E[i]
    <3>1. <<Dot>> \in Seq(S) /\ Len(<<Dot>>) = 1 /\ <<Dot>>[1] = Dot
      OBVIOUS
    <3>2. /\ X \in Seq(S) /\ Len(X) = 1 + Len(E)
          /\ \A i \in 1..(1 + Len(E)) : X[i] = IF i <= 1 THEN <<Dot>>[i] ELSE E[i - 1]
      BY <3>1, ConcatProperties
    <3>3. 1 \in 1..(1 + Len(E)) /\ 1 <= 1
      BY <1>0
    <3>4. ASSUME NEW i \in 1..Len(E)
          PROVE  X[i + 1] = E[i]
      <4>1. i + 1 \in 1..(1 + Len(E)) /\ ~ (i + 1 <= 1) /\ i + 1 - 1 = i
        BY <1>0
      <4>2. QED
        BY <3>2, <4>1
    <3>5. QED
      BY <1>0, <3>1, <3>2, <3>3, <3>4
  <2>2. /\ Len(X) <= Len(N)
        /\ \A i \in 1..Len(X) : X[i] = N[Len(N) - Len(X) + i]
    BY <1>2, <2>1, SuffixMeans
  <2>3. n \in Nat /\ n > 0 /\ Len(N) = n + Len(E) /\ Len(N) - Len(X) + 1 = n
    BY <1>0, <2>1, <2>2
  <2>4. N[n] = Dot
    <3>1. 1 \in 1..Len(X)
      BY <1>0, <2>1
    <3>2. QED
      BY <2>1, <2>2, <2>3, <3>1
  <2>5. ASSUME NEW i \in 1..Len(E)
        PROVE  E[i] = N[n + i]
    <3>1. i + 1 \in 1..Len(X) /\ Len(N) - Len(X) + (i + 1) = n + i
      BY <1>0, <2>1
    <3>2. QED
      BY <2>1, <2>2, <3>1
  <2>6. QED
    BY <2>3, <2>4, <2>5 DEF Ends
<1>3. QED
  BY <1>1, <1>2

(* The tail of a name from a letter on.                                    *)
LEMMA TailIs ==
    ASSUME NEW S, NEW name \in Seq(S), NEW end \in Seq(S), NEW n \in Nat,
           Len(name) = n + Len(end),
           \A i \in 1..Len(end) : end[i] = name[n + i]
    PROVE  SubSeq(name, n + 1, Len(name)) = end
<1>0. Len(name) \in Nat /\ Len(end) \in Nat
  OBVIOUS
<1>1. CASE Len(end) = 0
  <2>1. SubSeq(name, n + 1, Len(name)) = << >>
    BY <1>0, <1>1
  <2>2. end = << >>
    BY <1>1
  <2>3. QED
    BY <2>1, <2>2
<1>2. CASE Len(end) > 0
  <2>1. /\ SubSeq(name, n + 1, Len(name)) \in Seq(S)
        /\ Len(SubSeq(name, n + 1, Len(name))) = Len(end)
        /\ \A i \in 1..Len(end) : SubSeq(name, n + 1, Len(name))[i] = name[n + i]
    BY <1>0, <1>2
  <2>2. QED
    BY <2>1, SeqEqual
<1>3. QED
  BY <1>0, <1>1, <1>2

Words == {Dot} \cup (UNION {Range(name) : name \in Hosts \cup Allowlist})

LEMMA NameType == ASSUME NEW name \in Hosts \cup Allowlist PROVE name \in Seq(Words)
<1>1. name \in Seq(Range(name)) /\ Range(name) \subseteq Words
  BY ProxyAssumption DEF Words
<1>2. QED
  BY <1>1, SeqMonotonic

(* What a host belongs to once its name without the root's dot ends in a   *)
(* domain.                                                                 *)
LEMMA EndsInDomain ==
    ASSUME NEW S, Dot \in S, NEW host \in Seq(S), NEW N \in Seq(S), NEW E \in Seq(S),
           NEW n \in Nat, Ends(N, E, n),
           \/ N = host
           \/ /\ host # << >> /\ host[Len(host)] = Dot
              /\ Len(N) = Len(host) - 1
              /\ \A i \in 1..(Len(host) - 1) : N[i] = host[i]
    PROVE  BelongsTo(host, E) \/ BelongsTo(host, E \o <<Dot>>)
<1> USE DEF Ends
<1>6. Len(N) \in Nat /\ Len(E) \in Nat /\ Len(host) \in Nat
  OBVIOUS
<1>7. CASE N = host
  <2>1. SubSeq(host, n + 1, Len(host)) = E
    BY <1>7, TailIs
  <2>2. n \in 0..Len(host) /\ (n > 0 => host[n] = Dot)
    BY <1>6, <1>7
  <2>3. QED
    BY <2>1, <2>2 DEF BelongsTo
<1>8. CASE /\ host # << >> /\ host[Len(host)] = Dot
           /\ Len(N) = Len(host) - 1
           /\ \A i \in 1..(Len(host) - 1) : N[i] = host[i]
  <2>1. PICK F \in Seq(S) :
           /\ F = E \o <<Dot>> /\ Len(F) = Len(E) + 1
           /\ \A i \in 1..Len(E) : F[i] = E[i]
           /\ F[Len(E) + 1] = Dot
    <3>1. PICK dot \in Seq(S) : dot = <<Dot>> /\ Len(dot) = 1 /\ dot[1] = Dot
      BY DotIsAName
    <3>2. /\ E \o dot \in Seq(S) /\ Len(E \o dot) = Len(E) + Len(dot)
          /\ \A i \in 1..(Len(E) + Len(dot)) :
                (E \o dot)[i] = IF i <= Len(E) THEN E[i] ELSE dot[i - Len(E)]
      BY ConcatProperties
    <3>3. /\ \A i \in 1..Len(E) : i \in 1..(Len(E) + Len(dot)) /\ i <= Len(E)
          /\ Len(E) + 1 \in 1..(Len(E) + Len(dot)) /\ ~ (Len(E) + 1 <= Len(E))
          /\ Len(E) + 1 - Len(E) = 1
      BY <1>6, <3>1
    <3>4. /\ \A i \in 1..Len(E) : (E \o dot)[i] = E[i]
          /\ (E \o dot)[Len(E) + 1] = Dot
      BY <3>1, <3>2, <3>3
    <3>5. QED
      BY <3>1, <3>2, <3>4
  <2>2. Len(host) = n + Len(F)
    BY <1>6, <1>8, <2>1
  <2>3. ASSUME NEW i \in 1..Len(F)
        PROVE  F[i] = host[n + i]
    <3>1. CASE i = Len(E) + 1
      <4>1. n + i = Len(host)
        BY <2>1, <2>2, <3>1
      <4>2. QED
        BY <1>8, <2>1, <3>1, <4>1
    <3>2. CASE i \in 1..Len(E)
      <4>1. n + i \in 1..(Len(host) - 1)
        BY <1>6, <2>1, <2>2, <3>2
      <4>2. QED
        BY <1>8, <2>1, <3>2, <4>1
    <3>3. QED
      BY <1>6, <2>1, <3>1, <3>2
  <2>4. SubSeq(host, n + 1, Len(host)) = F
    BY <2>1, <2>2, <2>3, TailIs
  <2>5. n \in 0..Len(host) /\ (n > 0 => host[n] = Dot)
    <3>1. n <= Len(host) - 1
      BY <1>6, <2>1, <2>2
    <3>2. n > 0 => n \in 1..(Len(host) - 1)
      BY <1>6, <3>1
    <3>3. QED
      BY <1>6, <1>8, <3>1, <3>2
  <2>6. BelongsTo(host, F)
    BY <2>4, <2>5 DEF BelongsTo
  <2>7. QED
    BY <2>1, <2>6
<1>9. QED
  BY <1>7, <1>8

(* The converse of SuffixMeans.                                            *)
LEMMA SuffixIs ==
    ASSUME NEW S, NEW s \in Seq(S), NEW t \in Seq(S), Len(s) <= Len(t),
           \A i \in 1..Len(s) : s[i] = t[Len(t) - Len(s) + i]
    PROVE  IsSuffix(s, t)
<1> DEFINE rs == Reverse(s)
           rt == Reverse(t)
<1>1. Len(s) \in Nat /\ Len(t) \in Nat
  OBVIOUS
<1>2. /\ Len(rs) = Len(s) /\ Len(rt) = Len(t)
      /\ \A i \in 1..Len(s) : rs[i] = s[Len(s) - i + 1]
      /\ \A i \in 1..Len(t) : rt[i] = t[Len(t) - i + 1]
      /\ rs \in Seq(S) /\ rt \in Seq(S)
  BY ReverseType
<1> HIDE DEF rs, rt
<1>3. ASSUME NEW k \in 1..Len(s)
      PROVE  rs[k] = rt[k]
  <2> DEFINE i == Len(s) - k + 1
  <2>1. i \in 1..Len(s) /\ k \in 1..Len(t) /\ Len(t) - Len(s) + i = Len(t) - k + 1
    BY <1>1
  <2>2. s[i] = t[Len(t) - k + 1]
    BY <2>1
  <2> QED
    BY <1>2, <2>1, <2>2
<1>4. SubSeq(rs, 1, Len(s)) = SubSeq(rt, 1, Len(s))
  <2>1. /\ SubSeq(rs, 1, Len(s)) \in Seq(S) /\ Len(SubSeq(rs, 1, Len(s))) = Len(s)
        /\ \A k \in 1..Len(s) : SubSeq(rs, 1, Len(s))[k] = rs[k]
    BY <1>1, <1>2
  <2>2. /\ SubSeq(rt, 1, Len(s)) \in Seq(S) /\ Len(SubSeq(rt, 1, Len(s))) = Len(s)
        /\ \A k \in 1..Len(s) : SubSeq(rt, 1, Len(s))[k] = rt[k]
    BY <1>1, <1>2
  <2> QED
    BY <1>3, <2>1, <2>2, SeqEqual
<1> QED
  BY <1>2, <1>4 DEF IsSuffix, IsPrefix, rs, rt

(* To belong to a domain is to be it, or to end in a dot and in it.        *)
LEMMA BelongingIsEnding ==
    ASSUME NEW S, Dot \in S, NEW N \in Seq(S), NEW E \in Seq(S), E # << >>
    PROVE  BelongsTo(N, E) <=> N = E \/ IsSuffix(<<Dot>> \o E, N)
<1>0. Len(N) \in Nat /\ Len(E) \in Nat /\ Len(E) > 0
  OBVIOUS
<1>1. ASSUME N = E \/ IsSuffix(<<Dot>> \o E, N)
      PROVE  BelongsTo(N, E)
  <2>1. PICK n \in Nat : Ends(N, E, n)
    BY <1>1, EndsInEntry
  <2>2. SubSeq(N, n + 1, Len(N)) = E
    BY <2>1, TailIs DEF Ends
  <2>3. n \in 0..Len(N) /\ (n > 0 => N[n] = Dot)
    BY <1>0, <2>1 DEF Ends
  <2> QED
    BY <2>2, <2>3 DEF BelongsTo
<1>2. ASSUME BelongsTo(N, E)
      PROVE  N = E \/ IsSuffix(<<Dot>> \o E, N)
  <2>1. PICK n \in 0..Len(N) : (n > 0 => N[n] = Dot) /\ SubSeq(N, n + 1, Len(N)) = E
    BY <1>2 DEF BelongsTo
  <2>2. /\ Len(N) = n + Len(E)
        /\ \A i \in 1..Len(E) : E[i] = N[n + i]
    <3>1. n < Len(N)
      <4>1. ASSUME n = Len(N) PROVE FALSE
        <5>1. SubSeq(N, n + 1, Len(N)) = << >>
          BY <1>0, <4>1
        <5> QED
          BY <2>1, <5>1
      <4> QED
        BY <1>0, <4>1
    <3>2. /\ Len(SubSeq(N, n + 1, Len(N))) = Len(N) - n
          /\ \A i \in 1..(Len(N) - n) : SubSeq(N, n + 1, Len(N))[i] = N[n + i]
      BY <1>0, <3>1
    <3>3. Len(E) = Len(N) - n
      BY <2>1, <3>2
    <3> QED
      BY <1>0, <2>1, <3>2, <3>3
  <2>3. CASE n = 0
    <3>1. Len(N) = Len(E) /\ \A i \in 1..Len(E) : E[i] = N[i]
      BY <1>0, <2>2, <2>3
    <3> QED
      BY <3>1, SeqEqual
  <2>4. CASE n > 0
    <3> DEFINE X == <<Dot>> \o E
    <3>1. /\ X \in Seq(S) /\ Len(X) = 1 + Len(E)
          /\ \A i \in 1..(1 + Len(E)) : X[i] = IF i <= 1 THEN <<Dot>>[i] ELSE E[i - 1]
      <4>1. <<Dot>> \in Seq(S) /\ Len(<<Dot>>) = 1
        OBVIOUS
      <4> QED
        BY <4>1, ConcatProperties
    <3> HIDE DEF X
    <3>2. ASSUME NEW i \in 1..Len(X)
          PROVE  X[i] = N[Len(N) - Len(X) + i]
      <4>1. Len(N) - Len(X) + i = n + i - 1
        BY <1>0, <2>2, <3>1
      <4>2. CASE i = 1
        <5>1. X[1] = Dot
          BY <1>0, <3>1
        <5>2. n + i - 1 = n
          BY <4>2
        <5> QED
          BY <2>1, <2>4, <4>1, <4>2, <5>1, <5>2
      <4>3. CASE i # 1
        <5>1. i - 1 \in 1..Len(E) /\ n + (i - 1) = n + i - 1 /\ ~ (i <= 1)
          BY <1>0, <3>1, <4>3
        <5>2. X[i] = E[i - 1]
          BY <3>1, <5>1
        <5> QED
          BY <2>2, <4>1, <5>1, <5>2
      <4> QED
        BY <4>2, <4>3
    <3>3. Len(X) <= Len(N)
      BY <1>0, <2>2, <2>4, <3>1
    <3>4. IsSuffix(X, N)
      BY <3>1, <3>2, <3>3, SuffixIs
    <3> QED
      BY <3>4 DEF X
  <2> QED
    BY <2>3, <2>4
<1> QED
  BY <1>1, <1>2

(* The verdict is exact: is_allowed lets a host pass if and only if its    *)
(* name, without the dot of the root, belongs to what an entry of the      *)
(* allowlist names.  No subdomain is refused, and nothing else allowed;    *)
(* that a name of nothing but the root is refused needs no check of its    *)
(* own.                                                                    *)
THEOREM VerdictIsExact ==
    ASSUME NEW host \in Hosts
    PROVE  IsAllowed(host) <=>
               \E entry \in Allowlist :
                   /\ Normalized(entry) # << >>
                   /\ BelongsTo(Normalized(host), Normalized(entry))
<1> DEFINE N == Normalized(host)
<1>1. Dot \in Words
  BY DEF Words
<1>2. N \in Seq(Words)
  BY <1>1, NameType, NormalizedMeans
<1>3. ASSUME NEW entry \in Allowlist, Normalized(entry) # << >>
      PROVE  BelongsTo(N, Normalized(entry)) <=>
                 /\ N # << >>
                 /\ N = Normalized(entry) \/ IsSuffix(<<Dot>> \o Normalized(entry), N)
  <2> DEFINE E == Normalized(entry)
  <2>1. E \in Seq(Words)
    BY <1>1, NameType, NormalizedMeans
  <2> HIDE DEF N, E
  <2>2. E # << >>
    BY <1>3 DEF E
  <2>3. BelongsTo(N, E) <=> N = E \/ IsSuffix(<<Dot>> \o E, N)
    BY <1>1, <1>2, <2>1, <2>2, BelongingIsEnding
  <2>4. ASSUME BelongsTo(N, E) PROVE N # << >>
    <3>1. PICK n \in Nat : Ends(N, E, n)
      BY <1>1, <1>2, <2>1, <2>3, <2>4, EndsInEntry
    <3>2. Len(E) \in Nat /\ Len(E) > 0
      BY <2>1, <2>2
    <3> QED
      BY <1>2, <3>1, <3>2 DEF Ends
  <2> QED
    BY <2>3, <2>4 DEF E
<1> QED
  BY <1>3 DEF IsAllowed

(* Whoever is allowed belongs to a domain of the allowlist.                *)
LEMMA AllowedBelongs ==
    ASSUME NEW host \in Hosts, IsAllowed(host)
    PROVE  \E domain \in Domains :
               BelongsTo(host, domain) \/ BelongsTo(host, domain \o <<Dot>>)
<1>1. PICK entry \in Allowlist :
          /\ Normalized(entry) # << >>
          /\ \/ Normalized(host) = Normalized(entry)
             \/ IsSuffix(<<Dot>> \o Normalized(entry), Normalized(host))
  BY DEF IsAllowed
<1>2. Dot \in Words /\ host \in Seq(Words) /\ entry \in Seq(Words)
  <2>1. Dot \in Words
    BY DEF Words
  <2>2. QED
    BY <2>1, NameType
<1>3. PICK N \in Seq(Words) :
         /\ N = Normalized(host)
         /\ \/ N = host
            \/ /\ host # << >> /\ host[Len(host)] = Dot
               /\ Len(N) = Len(host) - 1
               /\ \A i \in 1..(Len(host) - 1) : N[i] = host[i]
  <2>1. /\ Normalized(host) \in Seq(Words)
        /\ \/ Normalized(host) = host
           \/ /\ host # << >> /\ host[Len(host)] = Dot
              /\ Len(Normalized(host)) = Len(host) - 1
              /\ \A i \in 1..(Len(host) - 1) : Normalized(host)[i] = host[i]
    BY <1>2, NormalizedMeans, Zenon
  <2>2. QED
    BY <2>1, Zenon
<1>4. PICK E \in Seq(Words) :
         /\ E = Normalized(entry)
         /\ \/ E = entry
            \/ /\ entry # << >> /\ entry[Len(entry)] = Dot
               /\ E = SubSeq(entry, 1, Len(entry) - 1)
  BY <1>2, NormalizedMeans
<1>5. E \in Domains
  <2>1. CASE E = entry
    BY <1>1, <1>4, <2>1 DEF Domains
  <2>2. CASE /\ entry # << >> /\ entry[Len(entry)] = Dot
             /\ E = SubSeq(entry, 1, Len(entry) - 1)
    BY <1>1, <1>4, <2>2 DEF Domains
  <2>3. QED
    BY <1>4, <2>1, <2>2
<1>6. PICK n \in Nat : Ends(N, E, n)
  <2>1. N = E \/ IsSuffix(<<Dot>> \o E, N)
    BY <1>1, <1>3, <1>4
  <2>2. QED
    BY <1>2, <2>1, EndsInEntry
<1>7. BelongsTo(host, E) \/ BelongsTo(host, E \o <<Dot>>)
  <2>1. Dot \in Words /\ host \in Seq(Words)
    BY <1>2
  <2>3. \/ N = host
        \/ /\ host # << >> /\ host[Len(host)] = Dot
           /\ Len(N) = Len(host) - 1
           /\ \A i \in 1..(Len(host) - 1) : N[i] = host[i]
    BY <1>3
  <2>4. QED
    BY <1>6, <2>1, <2>3, EndsInDomain, Zenon
<1>8. QED
  BY <1>5, <1>7

-----------------------------------------------------------------------------
(* The invariant.                                                          *)

(* What exists at each stage of the handler.                               *)
StageInv ==
    /\ handler \in {"reading", "dialing", "answering"} =>
          /\ status = "none"
          /\ told = {}
          /\ expired = {}
          /\ \A d \in Directions : pipe[d] = "off"
    /\ handler \in {"tunnel", "joining"} => status = "200"
    /\ upstream = "closed" => handler = "closed"
    /\ handler = "answering" => upstream = "open"
    /\ handler \in {"dialing", "answering"} \/ status = "200" =>
          target \in Hosts /\ IsAllowed(target)
    /\ status # "200" => \A d \in Directions : taken[d] = 0 /\ pipe[d] = "off"

(* No pipe is left behind unless a timer fired.                            *)
PipeInv ==
    /\ handler = "joining" => pipe["out"] = "over"
    /\ status = "200" /\ expired = {} =>
          /\ \A d \in told : pipe[d] = "over"
          /\ handler = "closed" => \A d \in Directions : pipe[d] = "over"
    /\ handler = "tunnel" => pipe["out"] = "copying"
    /\ \A d \in Directions : pipe[d] = "over" => d \in told

ProxyInv == TypeOK /\ StageInv /\ PipeInv /\ EndOfStreamIsTrue

LEMMA TwoDirections == Directions = {"in", "out"} /\ "in" # "out"
BY DEF Directions

LEMMA ProxyInvAtFirst == Init => ProxyInv
<1> SUFFICES ASSUME Init PROVE ProxyInv
  OBVIOUS
<1>1. TypeOK
  <2>1. \A d \in Directions : given[d] = 0 /\ taken[d] = 0 /\ sent[d] - Lost(d) = 0
    BY DEF Init, Lost, Directions
  <2>2. \A d \in Directions : /\ given[d] \in 0..taken[d]
                             /\ taken[d] \in given[d]..(sent[d] - Lost(d))
    BY <2>1
  <2>3. QED
    BY <2>2, ProxyAssumption DEF Init, TypeOK, PeerStates, Statuses, Directions
<1>2. StageInv /\ PipeInv /\ EndOfStreamIsTrue
  BY DEF Init, StageInv, PipeInv, EndOfStreamIsTrue, Directions
<1>3. QED
  BY <1>1, <1>2 DEF ProxyInv

LEMMA ProxyTypesAreKept ==
    ASSUME TypeOK, StageInv, [Next]_vars
    PROVE  TypeOK'
<1> USE ProxyAssumption DEF TypeOK, Directions
<1>0. /\ \A d \in Directions : /\ sent[d] \in Nat /\ taken[d] \in Nat /\ given[d] \in Nat
                               /\ Lost(d) \in Nat
      /\ MaxChunks \in Nat /\ ahead \in Nat /\ "out" \in Directions
  BY DEF Lost
<1>l. ahead' = ahead => \A d : Lost(d)' = Lost(d)
  BY DEF Lost
<1>1. CASE RefuseMethod \/ RefuseAuthority \/ \E h \in Hosts : RefuseHost(h)
  BY <1>0, <1>l, <1>1 DEF RefuseMethod, RefuseAuthority, RefuseHost, Refuse, Close, Statuses, counters
<1>2. ASSUME NEW h \in Hosts, Dial(h)
      PROVE  TypeOK'
  <2>1. ahead' \in 0..sent["out"] /\ \A d \in Directions : taken[d] = 0 /\ given[d] = 0
    BY <1>0, <1>2 DEF Dial, StageInv
  <2>2. \A d \in Directions : sent[d] - Lost(d)' \in Nat
    BY <1>0, <2>1 DEF Lost
  <2>3. \A d \in Directions : /\ given[d] \in 0..taken[d]
                             /\ taken[d] \in given[d]..(sent[d] - Lost(d)')
    BY <2>1, <2>2
  <2>4. QED
    BY <1>2, <2>1, <2>3 DEF Dial
<1>3. CASE DialFails \/ DialRaises
  BY <1>0, <1>l, <1>3 DEF DialFails, DialRaises, Close, Statuses, counters
<1>4. CASE Connect
  BY <1>0, <1>l, <1>4 DEF Connect, counters
<1>5. CASE Establish
  BY <1>0, <1>l, <1>5 DEF Establish, Statuses, counters, StageInv
<1>6. CASE AnswerFails
  BY <1>0, <1>l, <1>6 DEF AnswerFails, Close, counters
<1>7. ASSUME NEW d \in Directions, PeerSends(d)
      PROVE  TypeOK'
  <2>1. sent' = [sent EXCEPT ![d] = sent[d] + 1] /\ sent[d] < MaxChunks /\ ahead' = ahead
    BY <1>7 DEF PeerSends
  <2>2. \A e \in Directions : /\ sent'[e] \in 0..MaxChunks /\ sent'[e] >= sent[e]
                             /\ taken[e] \in given[e]..(sent'[e] - Lost(e)')
    <3>1. TAKE e \in Directions
    <3>2. /\ sent'[e] \in {sent[e], sent[e] + 1} /\ sent'[e] \in 0..MaxChunks
          /\ Lost(e)' = Lost(e)
      BY <1>0, <1>l, <2>1
    <3>3. /\ sent[e] \in Nat /\ taken[e] \in Nat /\ given[e] \in Nat /\ Lost(e) \in Nat
          /\ taken[e] \in given[e]..(sent[e] - Lost(e))
      BY <1>0
    <3>4. sent'[e] >= sent[e] /\ taken[e] \in given[e]..(sent'[e] - Lost(e))
      BY ONLY <3>2, <3>3, SMT
    <3>5. QED
      BY <3>2, <3>4
  <2>3. ahead' \in 0..sent'["out"]
    <3>1. /\ ahead \in Nat /\ sent["out"] \in Nat /\ ahead <= sent["out"]
          /\ sent'["out"] \in Nat /\ sent'["out"] >= sent["out"]
      BY <1>0, <2>2
    <3>2. QED
      BY ONLY <2>1, <3>1, SMT
  <2>4. QED
    BY <1>0, <1>7, <2>1, <2>2, <2>3 DEF PeerSends
<1>8. ASSUME NEW d \in Directions, NEW how \in {"ended", "gone"}, PeerStops(d, how)
      PROVE  TypeOK'
  BY <1>0, <1>l, <1>8 DEF PeerStops, counters, PeerStates
<1>9. ASSUME NEW d \in Directions, Receive(d)
      PROVE  TypeOK'
  <2>1. /\ taken[d] + Lost(d) < sent[d] /\ taken' = [taken EXCEPT ![d] = taken[d] + 1]
        /\ ahead' = ahead
    BY <1>9 DEF Receive
  <2>2. \A e \in Directions : /\ given[e] \in 0..taken'[e]
                             /\ taken'[e] \in given[e]..(sent[e] - Lost(e)')
    <3>1. TAKE e \in Directions
    <3>2. /\ Lost(e)' = Lost(e)
          /\ taken'[e] = taken[e] \/ (taken'[e] = taken[e] + 1 /\ taken[e] + Lost(e) < sent[e])
      BY <1>0, <1>l, <2>1
    <3>3. /\ sent[e] \in Nat /\ taken[e] \in Nat /\ given[e] \in Nat /\ Lost(e) \in Nat
          /\ given[e] \in 0..taken[e] /\ taken[e] \in given[e]..(sent[e] - Lost(e))
      BY <1>0
    <3>4. given[e] \in 0..taken'[e] /\ taken'[e] \in given[e]..(sent[e] - Lost(e))
      BY ONLY <3>2, <3>3, SMT
    <3>5. QED
      BY <3>2, <3>4
  <2>3. QED
    BY <1>9, <2>2 DEF Receive
<1>10. ASSUME NEW d \in Directions, Give(d)
       PROVE  TypeOK'
  <2>1. /\ given[d] < taken[d] /\ given' = [given EXCEPT ![d] = given[d] + 1]
        /\ ahead' = ahead
    BY <1>0, <1>10 DEF Give, Holding
  <2>2. \A e \in Directions : /\ given'[e] \in 0..taken[e]
                             /\ taken[e] \in given'[e]..(sent[e] - Lost(e)')
    <3>1. TAKE e \in Directions
    <3>2. /\ Lost(e)' = Lost(e)
          /\ given'[e] = given[e] \/ (given'[e] = given[e] + 1 /\ given[e] < taken[e])
      BY <1>0, <1>l, <2>1
    <3>3. /\ sent[e] \in Nat /\ taken[e] \in Nat /\ given[e] \in Nat /\ Lost(e) \in Nat
          /\ given[e] \in 0..taken[e] /\ taken[e] \in given[e]..(sent[e] - Lost(e))
      BY <1>0
    <3>4. given'[e] \in 0..taken[e] /\ taken[e] \in given'[e]..(sent[e] - Lost(e))
      BY ONLY <3>2, <3>3, SMT
    <3>5. QED
      BY <3>2, <3>4
  <2>3. QED
    BY <1>10, <2>2 DEF Give
<1>11. ASSUME NEW d \in Directions, EndOfStream(d) \/ PipeFails(d)
       PROVE  TypeOK'
  BY <1>0, <1>l, <1>11 DEF EndOfStream, PipeFails, PipeOver, counters
<1>12. CASE RecvTimesOut \/ SendTimesOut
  BY <1>0, <1>l, <1>12 DEF RecvTimesOut, SendTimesOut, PipeOver, counters
<1>13. CASE Joined \/ JoinTimesOut
  BY <1>0, <1>l, <1>13 DEF Joined, JoinTimesOut, Close, counters
<1>14. CASE UNCHANGED vars
  BY <1>0, <1>l, <1>14 DEF vars, counters
<1>15. QED
  BY <1>1, <1>2, <1>3, <1>4, <1>5, <1>6, <1>7, <1>8, <1>9, <1>10, <1>11, <1>12, <1>13, <1>14
  DEF Next, Handshake, Piping

LEMMA StagesAreKept ==
    ASSUME TypeOK, StageInv, [Next]_vars
    PROVE  StageInv'
<1> USE DEF TypeOK, StageInv, Directions
<1>1. CASE RefuseMethod \/ RefuseAuthority \/ \E h \in Hosts : RefuseHost(h)
  BY <1>1 DEF RefuseMethod, RefuseAuthority, RefuseHost, Refuse, Close, counters
<1>2. ASSUME NEW h \in Hosts, Dial(h)
      PROVE  StageInv'
  BY <1>2 DEF Dial, counters
<1>3. CASE DialFails \/ DialRaises
  BY <1>3 DEF DialFails, DialRaises, Close, counters
<1>4. CASE Connect
  BY <1>4 DEF Connect, counters
<1>5. CASE Establish
  BY <1>5 DEF Establish, counters
<1>6. CASE AnswerFails
  BY <1>6 DEF AnswerFails, Close, counters
<1>7. ASSUME NEW d \in Directions, PeerSends(d)
      PROVE  StageInv'
  BY <1>7 DEF PeerSends
<1>8. ASSUME NEW d \in Directions, NEW how \in {"ended", "gone"}, PeerStops(d, how)
      PROVE  StageInv'
  BY <1>8 DEF PeerStops, counters
<1>9. ASSUME NEW d \in Directions, Receive(d) \/ Give(d)
      PROVE  StageInv'
  BY <1>9 DEF Receive, Give
<1>11. ASSUME NEW d \in Directions, EndOfStream(d) \/ PipeFails(d)
       PROVE  StageInv'
  BY <1>11 DEF EndOfStream, PipeFails, PipeOver, counters
<1>12. CASE RecvTimesOut \/ SendTimesOut
  BY <1>12 DEF RecvTimesOut, SendTimesOut, PipeOver, counters
<1>13. CASE Joined \/ JoinTimesOut
  BY <1>13 DEF Joined, JoinTimesOut, Close, counters
<1>14. CASE UNCHANGED vars
  BY <1>14 DEF vars, counters
<1>15. QED
  BY <1>1, <1>2, <1>3, <1>4, <1>5, <1>6, <1>7, <1>8, <1>9, <1>11, <1>12, <1>13, <1>14
  DEF Next, Handshake, Piping

(* As long as no timer has fired, the pipes go before the handler does.    *)
LEMMA PipesAreKept ==
    ASSUME TypeOK, StageInv, PipeInv, [Next]_vars
    PROVE  PipeInv'
<1> USE DEF TypeOK, StageInv, PipeInv, Directions
<1>1. CASE Handshake
  <2>1. CASE RefuseMethod \/ RefuseAuthority \/ \E h \in Hosts : RefuseHost(h)
    BY <2>1 DEF RefuseMethod, RefuseAuthority, RefuseHost, Refuse, Close
  <2>2. CASE \E h \in Hosts : Dial(h)
    BY <2>2 DEF Dial
  <2>3. CASE DialFails \/ DialRaises \/ Connect \/ AnswerFails
    BY <2>3 DEF DialFails, DialRaises, Connect, AnswerFails, Close
  <2>4. CASE Establish
    BY <2>4 DEF Establish
  <2>5. QED
    BY <1>1, <2>1, <2>2, <2>3, <2>4 DEF Handshake
<1>2. ASSUME NEW d \in Directions,
             \/ PeerSends(d) \/ Receive(d) \/ Give(d)
             \/ \E how \in {"ended", "gone"} : PeerStops(d, how)
      PROVE  PipeInv'
  BY <1>2 DEF PeerSends, Receive, Give, PeerStops
<1>3. ASSUME NEW d \in Directions, EndOfStream(d) \/ PipeFails(d)
      PROVE  PipeInv'
  BY <1>3 DEF EndOfStream, PipeFails, PipeOver
<1>4. CASE RecvTimesOut \/ SendTimesOut
  BY <1>4 DEF RecvTimesOut, SendTimesOut, PipeOver
<1>5. CASE Joined \/ JoinTimesOut
  BY <1>5 DEF Joined, JoinTimesOut, Close
<1>6. CASE UNCHANGED vars
  BY <1>6 DEF vars
<1>7. QED
  BY <1>1, <1>2, <1>3, <1>4, <1>5, <1>6 DEF Next, Piping

(* An end that was announced is not taken back, and not made untrue.       *)
LEMMA EndsAreKept ==
    ASSUME ProxyInv, [Next]_vars
    PROVE  EndOfStreamIsTrue'
<1> USE DEF ProxyInv, TypeOK, StageInv, PipeInv, EndOfStreamIsTrue, Directions
<1>l. ahead' = ahead => \A d \in Directions : Lost(d)' = Lost(d)
  BY DEF Lost
<1>n. \A d \in Directions : /\ sent[d] \in Nat /\ taken[d] \in Nat /\ given[d] \in Nat
                           /\ Lost(d) \in Nat
                           /\ given[d] <= taken[d] /\ taken[d] + Lost(d) <= sent[d]
  BY DEF Lost
<1>1. CASE Handshake
  <2>1. CASE RefuseMethod \/ RefuseAuthority \/ \E h \in Hosts : RefuseHost(h)
    BY <2>1 DEF RefuseMethod, RefuseAuthority, RefuseHost, Refuse
  <2>2. CASE \E h \in Hosts : Dial(h)
    BY <2>2 DEF Dial
  <2>3. CASE DialFails \/ DialRaises \/ Connect \/ AnswerFails
    BY <2>3 DEF DialFails, DialRaises, Connect, AnswerFails
  <2>4. CASE Establish
    BY <2>4 DEF Establish
  <2>5. QED
    BY <1>1, <2>1, <2>2, <2>3, <2>4 DEF Handshake
<1>2. ASSUME NEW d \in Directions, PeerSends(d)
      PROVE  EndOfStreamIsTrue'
  BY <1>l, <1>n, <1>2 DEF PeerSends
<1>3. ASSUME NEW d \in Directions, NEW how \in {"ended", "gone"}, PeerStops(d, how)
      PROVE  EndOfStreamIsTrue'
  BY <1>l, <1>n, <1>3 DEF PeerStops, counters
<1>4. ASSUME NEW d \in Directions, Receive(d)
      PROVE  EndOfStreamIsTrue'
  BY <1>l, <1>n, <1>4 DEF Receive
<1>5. ASSUME NEW d \in Directions, Give(d)
      PROVE  EndOfStreamIsTrue'
  BY <1>l, <1>n, <1>5 DEF Give
<1>6. ASSUME NEW d \in Directions, EndOfStream(d)
      PROVE  EndOfStreamIsTrue'
  <2>1. taken[d] = given[d] /\ given[d] + Lost(d) = sent[d] /\ peer[d] \in {"ended", "gone"}
    BY <1>6 DEF EndOfStream, Drained, Holding, PeerStates
  <2>2. UNCHANGED <<status, peer, sent, ahead, given, expired>> /\ told' = told \cup {d}
    BY <1>6 DEF EndOfStream, PipeOver, counters
  <2>3. QED
    BY <1>l, <2>1, <2>2
<1>7. ASSUME NEW d \in Directions, PipeFails(d)
      PROVE  EndOfStreamIsTrue'
  <2>1. CASE upstream = "closed"
    <3>1. status = "200" /\ handler = "closed" /\ expired # {}
      BY <1>7, <2>1 DEF PipeFails
    <3>2. expired' # {}
      BY <1>7, <3>1 DEF PipeFails
    <3>3. QED
      BY <3>2
  <2>2. CASE peer[Opposite(d)] = "gone"
    <3>1. Opposite(d) \in Directions /\ peer' = peer
      BY <1>7 DEF PipeFails, Opposite
    <3>2. QED
      BY <2>2, <3>1
  <2>3. QED
    BY <1>7, <2>1, <2>2 DEF PipeFails
<1>8. CASE RecvTimesOut \/ SendTimesOut \/ JoinTimesOut
  <2>1. expired' # {}
    BY <1>8 DEF RecvTimesOut, SendTimesOut, JoinTimesOut
  <2>2. QED
    BY <2>1
<1>9. CASE Joined
  <2>1. /\ UNCHANGED <<status, peer, sent, ahead, given, expired>>
        /\ told' = told \cup {"in"}
    BY <1>9 DEF Joined, Close, counters
  <2>2. status = "200" /\ pipe["in"] = "over"
    BY <1>9 DEF Joined
  <2>3. "in" \in told
    BY <2>2
  <2>4. QED
    BY <1>l, <2>1, <2>3
<1>10. CASE UNCHANGED vars
  BY <1>l, <1>n, <1>10 DEF vars, counters
<1>11. QED
  BY <1>1, <1>2, <1>3, <1>4, <1>5, <1>6, <1>7, <1>8, <1>9, <1>10 DEF Next, Piping

LEMMA ProxyInvariant == Spec => []ProxyInv
<1>1. ProxyInv /\ [Next]_vars => ProxyInv'
  BY ProxyTypesAreKept, StagesAreKept, PipesAreKept, EndsAreKept DEF ProxyInv
<1>2. QED
  BY <1>1, ProxyInvAtFirst, PTL DEF Spec

-----------------------------------------------------------------------------
(* The theorems.                                                           *)

(* The state has its types: in particular no chunk is passed on that was   *)
(* not received, and a handler in its tunnel has its upstream socket.      *)
THEOREM ProxyTypes == Spec => []TypeOK
BY ProxyInvariant, PTL DEF ProxyInv

(* A byte passes only to a host that belongs to a domain of the allowlist, *)
(* whatever the names are (security/egress.py, egress_proxy.py).           *)
THEOREM NoByteWithoutAVerdict == Spec => []BytesNeedAVerdict
<1>1. ProxyInv => BytesNeedAVerdict
  <2>1. ASSUME ProxyInv, NEW d \in Directions, taken[d] > 0
        PROVE  status = "200" /\ target \in Hosts /\ IsAllowed(target)
    <3>1. taken[d] # 0
      BY <2>1
    <3>2. QED
      BY <2>1, <3>1 DEF ProxyInv, StageInv
  <2>2. ASSUME ProxyInv, NEW d \in Directions, taken[d] > 0
        PROVE  \E domain \in Domains :
                   BelongsTo(target, domain) \/ BelongsTo(target, domain \o <<Dot>>)
    BY <2>1, <2>2, AllowedBelongs
  <2>3. QED
    BY <2>1, <2>2 DEF BytesNeedAVerdict
<1>2. QED
  BY <1>1, ProxyInvariant, PTL

(* Unless a timer fires, an end of stream is announced only when the       *)
(* sender has ended it and everything it sent has been handed over.        *)
THEOREM EndsOfStreamsAreTrue == Spec => []EndOfStreamIsTrue
BY ProxyInvariant, PTL DEF ProxyInv
=============================================================================
