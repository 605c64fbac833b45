--------------------------- MODULE DLiteUrlProofs ---------------------------
(***************************************************************************)
(* Proofs about the metadata url helpers of dlite.c (module DLiteUrl).     *)
(* Two facts about dlite_split_metadata alone carry them: whenever it      *)
(* succeeds it splits where the specification does (SplitOkIsSpec), and   *)
(* it takes apart what dlite_join_metadata built from three plain strings *)
(* (SplitOfJoin).  UrlInv ties the url, the last join and the last split   *)
(* together, and RoundTrip and SplitSound follow from it for every         *)
(* alphabet, word set and length bound.                                    *)
(***************************************************************************)
EXTENDS DLiteUrl, FiniteSetTheorems, SequenceTheorems, WellFoundedInduction,
        TLAPS

-----------------------------------------------------------------------------
(* The largest element of a set, as Max of FiniteSetsExt chooses it. *)

(* A non-empty set of positions 0..N has a largest element: the smallest *)
(* of the distances N - k, which < on Nat being well founded provides.    *)
LEMMA MaxExists ==
    ASSUME NEW N \in Nat, NEW S \in SUBSET (0..N), S # {}
    PROVE  \E m \in S : \A y \in S : m >= y
<1> DEFINE T == {N - k : k \in S}
<1>1. T \subseteq Nat /\ T # {}
  <2>1. \A k \in S : N - k \in Nat
    OBVIOUS
  <2>2. PICK k0 \in S : TRUE
    OBVIOUS
  <2>3. N - k0 \in T
    BY DEF T
  <2>4. QED
    BY <2>1, <2>3 DEF T
<1>2. PICK x \in T : \A y \in T : ~(<<y, x>> \in OpToRel(<, Nat))
  BY <1>1, WFMin, NatLessThanWellFounded, Zenon
<1>3. \A y \in T : ~(y < x)
  BY <1>1, <1>2 DEF OpToRel
<1>4. PICK m \in S : x = N - m
  BY DEF T
<1>5. \A y \in S : N - y \in T
  BY DEF T
<1>6. \A y \in S : m >= y
  <2> TAKE y \in S
  <2>1. ~(N - y < N - m)
    BY <1>3, <1>4, <1>5
  <2>2. QED
    BY <2>1
<1>7. QED
  BY <1>6

(* Max(S) is the element that is at least every element of S. *)
LEMMA MaxIs ==
    ASSUME NEW S \in SUBSET Int, NEW m \in S, \A y \in S : m >= y
    PROVE  Max(S) = m
<1>1. Max(S) \in S /\ \A y \in S : Max(S) >= y
  BY Zenon DEF Max
<1>2. Max(S) \in Int /\ Max(S) >= m /\ m >= Max(S)
  BY <1>1
<1>3. QED
  BY <1>2

(* Max of a non-empty set of positions 0..N is in it and bounds it. *)
LEMMA MaxProps ==
    ASSUME NEW N \in Nat, NEW S \in SUBSET (0..N), S # {}
    PROVE  /\ Max(S) \in S
           /\ \A y \in S : Max(S) >= y
<1>1. PICK m \in S : \A y \in S : m >= y
  BY MaxExists
<1>2. Max(S) = m
  BY <1>1, MaxIs
<1>3. QED
  BY <1>1, <1>2

-----------------------------------------------------------------------------
(***************************************************************************)
(* dlite_split_metadata alone: when it returns the three strings, it cut  *)
(* the url at the last '/' and at the '/' before it, so the specification *)
(* split cuts at the same two places; it never succeeds where the         *)
(* specification fails.  (It may fail where the specification succeeds:  *)
(* run url_spec.)                                                          *)
(***************************************************************************)
LEMMA SplitOkIsSpec ==
    ASSUME NEW s \in Seq(Chars), CodeSplit(s).status = "ok"
    PROVE  CodeSplit(s) = SpecSplit(s)
<1> DEFINE S == SlashesIn(s)
           p == Max(S)
           before == {k \in 2..p - 1 : s[k] = Slash}
           q == Max(before)
<1>1. Len(s) \in Nat /\ S \subseteq 0..Len(s)
  BY DEF SlashesIn
<1>2. S # {}
  <2> SUFFICES ASSUME S = {} PROVE FALSE
    OBVIOUS
  <2>1. CodeSplit(s) = Failed
    BY DEF CodeSplit
  <2>2. QED
    BY <2>1 DEF Failed
<1>3. p \in S /\ \A y \in S : p >= y
  BY <1>1, <1>2, MaxProps
<1>4. p \in 1..Len(s) /\ s[p] = Slash
  BY <1>3 DEF SlashesIn
<1>5. p # 1
  <2> SUFFICES ASSUME p = 1 PROVE FALSE
    OBVIOUS
  <2>1. CodeSplit(s) = Crashed
    BY <1>2 DEF CodeSplit
  <2>2. QED
    BY <2>1 DEF Crashed
<1>6. before # {}
  <2> SUFFICES ASSUME before = {} PROVE FALSE
    OBVIOUS
  <2>1. CodeSplit(s) = Failed
    BY <1>2, <1>5 DEF CodeSplit
  <2>2. QED
    BY <2>1 DEF Failed
<1>7. q \in before /\ \A y \in before : q >= y
  <2>1. before \subseteq 0..Len(s)
    BY <1>4
  <2>2. QED
    BY <1>1, <1>6, <2>1, MaxProps
<1>8. q \in 2..p - 1 /\ s[q] = Slash
  BY <1>4, <1>7
<1>9. CodeSplit(s) = Parts(SubSeq(s, p + 1, Len(s)), SubSeq(s, q + 1, p - 1),
                           SubSeq(s, 1, q - 1))
  BY <1>2, <1>5, <1>6, <1>8 DEF CodeSplit
<1>10. Cardinality(S) \in Nat /\ Cardinality(S) >= 2
  <2>1. IsFiniteSet(S) /\ Cardinality(S) \in Nat
    <3>1. IsFiniteSet(0..Len(s))
      BY <1>1, FS_Interval
    <3>2. IsFiniteSet(S)
      BY <1>1, <3>1, FS_Subset, Zenon
    <3>3. QED
      BY <3>2, FS_CardinalityType
  <2>2. {q} \cup {p} \subseteq S /\ q \notin {p}
    BY <1>3, <1>4, <1>8 DEF SlashesIn
  <2>3. IsFiniteSet({q} \cup {p}) /\ Cardinality({q} \cup {p}) = 2
    <3>1. IsFiniteSet({q}) /\ Cardinality({q}) = 1
      BY FS_Singleton
    <3>2. /\ IsFiniteSet({q} \cup {p})
          /\ Cardinality({q} \cup {p}) = IF p \in {q} THEN Cardinality({q})
                                                   ELSE Cardinality({q}) + 1
      BY <3>1, FS_AddElement, Zenon
    <3>3. QED
      BY <2>2, <3>1, <3>2
  <2>4. Cardinality({q} \cup {p}) <= Cardinality(S)
    BY <2>1, <2>2, FS_Subset
  <2>5. QED
    BY <2>1, <2>3, <2>4
<1>11. Max(S \ {p}) = q
  <2>1. q \in S \ {p}
    BY <1>4, <1>8 DEF SlashesIn
  <2>2. \A y \in S \ {p} : q >= y
    <3> TAKE y \in S \ {p}
    <3>1. y \in 1..p - 1 /\ s[y] = Slash
      BY <1>3, <1>4 DEF SlashesIn
    <3>2. CASE y >= 2
      BY <1>7, <3>1, <3>2
    <3>3. CASE y < 2
      BY <1>8, <3>1, <3>3
    <3>4. QED
      BY <3>1, <3>2, <3>3
  <2>3. S \ {p} \in SUBSET Int
    BY <1>1
  <2>4. QED
    BY <2>1, <2>2, <2>3, MaxIs, Zenon
<1>12. SpecSplit(s) = Parts(SubSeq(s, p + 1, Len(s)),
                            SubSeq(s, Max(S \ {p}) + 1, p - 1),
                            SubSeq(s, 1, Max(S \ {p}) - 1))
  BY <1>10 DEF SpecSplit, S, p
<1>13. QED
  BY <1>9, <1>11, <1>12

-----------------------------------------------------------------------------
(* The characters of the url dlite_join_metadata writes with               *)
(* "%s/%s/%s": the namespace, a '/', the version, a '/', the name.         *)
LEMMA JoinAt ==
    ASSUME NEW n \in Seq(Chars), NEW v \in Seq(Chars), NEW ns \in Seq(Chars)
    PROVE  /\ JoinUrl(n, v, ns) \in Seq(Chars)
           /\ Len(JoinUrl(n, v, ns)) = Len(ns) + Len(v) + Len(n) + 2
           /\ \A k \in 1..Len(ns) : JoinUrl(n, v, ns)[k] = ns[k]
           /\ JoinUrl(n, v, ns)[Len(ns) + 1] = Slash
           /\ \A k \in 1..Len(v) : JoinUrl(n, v, ns)[Len(ns) + 1 + k] = v[k]
           /\ JoinUrl(n, v, ns)[Len(ns) + Len(v) + 2] = Slash
           /\ \A k \in 1..Len(n) :
                 JoinUrl(n, v, ns)[Len(ns) + Len(v) + 2 + k] = n[k]
<1> DEFINE sl == <<Slash>>
           s1 == ns \o sl
           s2 == s1 \o v
           s3 == s2 \o sl
<1>1. sl \in Seq(Chars) /\ Len(sl) = 1 /\ sl[1] = Slash
  BY DEF Chars
<1>2. s1 \in Seq(Chars) /\ Len(s1) = Len(ns) + 1
      /\ \A k \in 1..Len(ns) + 1 : s1[k] = IF k <= Len(ns) THEN ns[k] ELSE Slash
  BY <1>1, ConcatProperties
<1>3. s2 \in Seq(Chars) /\ Len(s2) = Len(ns) + 1 + Len(v)
      /\ \A k \in 1..Len(s1) + Len(v) :
            s2[k] = IF k <= Len(s1) THEN s1[k] ELSE v[k - Len(s1)]
  BY <1>2, ConcatProperties
<1>4. s3 \in Seq(Chars) /\ Len(s3) = Len(s2) + 1
      /\ \A k \in 1..Len(s2) + 1 : s3[k] = IF k <= Len(s2) THEN s2[k] ELSE Slash
  BY <1>1, <1>3, ConcatProperties
<1>5. JoinUrl(n, v, ns) = s3 \o n
  BY DEF JoinUrl
<1>6. s3 \o n \in Seq(Chars) /\ Len(s3 \o n) = Len(s3) + Len(n)
      /\ \A k \in 1..Len(s3) + Len(n) :
            (s3 \o n)[k] = IF k <= Len(s3) THEN s3[k] ELSE n[k - Len(s3)]
  BY <1>4, ConcatProperties
<1>7. QED
  BY <1>2, <1>3, <1>4, <1>5, <1>6

(* The three strings dlite_split_metadata copies out, once the last '/'  *)
(* is at p > 1 and the backward scan from p - 1 stops at a '/' at q > 1.   *)
LEMMA CodeSplitOk ==
    ASSUME NEW s, NEW p, NEW q,
           SlashesIn(s) # {}, Max(SlashesIn(s)) = p, p # 1,
           {k \in 2..p - 1 : s[k] = Slash} # {},
           Max({k \in 2..p - 1 : s[k] = Slash}) = q, q \notin {0, 1}
    PROVE  CodeSplit(s) = Parts(SubSeq(s, p + 1, Len(s)), SubSeq(s, q + 1, p - 1),
                                SubSeq(s, 1, q - 1))
BY DEF CodeSplit

(* A slice of a string that agrees with w position by position is w. *)
LEMMA SliceIs ==
    ASSUME NEW s \in Seq(Chars), NEW w \in Seq(Chars), NEW m \in Nat,
           m + Len(w) <= Len(s),
           \A k \in 1..Len(w) : s[m + k] = w[k]
    PROVE  SubSeq(s, m + 1, m + Len(w)) = w
<1>1. \A i \in m + 1..m + Len(w) : s[i] \in Chars
  OBVIOUS
<1>2. /\ SubSeq(s, m + 1, m + Len(w)) \in Seq(Chars)
      /\ Len(SubSeq(s, m + 1, m + Len(w))) = Len(w)
      /\ \A i \in 1..Len(w) : SubSeq(s, m + 1, m + Len(w))[i] = s[m + i]
  BY <1>1, SubSeqProperties
<1>3. QED
  BY <1>2, SeqEqual

(***************************************************************************)
(* dlite_split_metadata takes apart what dlite_join_metadata built from a  *)
(* non-empty name, version and namespace without '/': the url has exactly *)
(* two '/', the backward scan stops at the first of them (which is not at *)
(* the start, the namespace being non-empty), and the three copies are the *)
(* three strings joined.                                                   *)
(***************************************************************************)
LEMMA SplitOfJoin ==
    ASSUME NEW n \in Seq(Chars), NEW v \in Seq(Chars), NEW ns \in Seq(Chars),
           Plain(n), Plain(v), Plain(ns)
    PROVE  CodeSplit(JoinUrl(n, v, ns)) = Parts(n, v, ns)
<1> DEFINE s == JoinUrl(n, v, ns)
           a == Len(ns)
           b == Len(v)
           c == Len(n)
<1>1. a \in Nat /\ b \in Nat /\ c \in Nat /\ a >= 1 /\ b >= 1 /\ c >= 1
  BY DEF Plain
<1>2. /\ s \in Seq(Chars)
      /\ Len(s) = a + b + c + 2
      /\ \A k \in 1..a : s[k] = ns[k]
      /\ s[a + 1] = Slash
      /\ \A k \in 1..b : s[a + 1 + k] = v[k]
      /\ s[a + b + 2] = Slash
      /\ \A k \in 1..c : s[a + b + 2 + k] = n[k]
  BY JoinAt
<1>3. SlashesIn(s) = {a + 1, a + b + 2}
  <2>1. \A k \in 1..Len(s) : s[k] = Slash => k \in {a + 1, a + b + 2}
    <3> SUFFICES ASSUME NEW k \in 1..Len(s), k \notin {a + 1, a + b + 2}
                 PROVE  s[k] # Slash
      OBVIOUS
    <3>1. CASE k <= a
      <4>1. k \in 1..a
        BY <1>1, <3>1
      <4>2. s[k] = ns[k]
        BY <1>2, <4>1
      <4>3. QED
        BY <4>1, <4>2 DEF Plain
    <3>2. CASE a + 1 < k /\ k < a + b + 2
      <4>1. k - a - 1 \in 1..b /\ k = a + 1 + (k - a - 1)
        BY <1>1, <3>2
      <4>2. s[k] = v[k - a - 1]
        BY <1>2, <4>1
      <4>3. QED
        BY <4>1, <4>2 DEF Plain
    <3>3. CASE a + b + 2 < k
      <4>1. k - a - b - 2 \in 1..c /\ k = a + b + 2 + (k - a - b - 2)
        BY <1>1, <1>2, <3>3
      <4>2. s[k] = n[k - a - b - 2]
        BY <1>2, <4>1
      <4>3. QED
        BY <4>1, <4>2 DEF Plain
    <3>4. QED
      BY <1>1, <3>1, <3>2, <3>3
  <2>2. QED
    BY <1>1, <1>2, <2>1 DEF SlashesIn
<1>4. Max(SlashesIn(s)) = a + b + 2
  <2>1. SlashesIn(s) \in SUBSET Int /\ a + b + 2 \in SlashesIn(s)
        /\ \A y \in SlashesIn(s) : a + b + 2 >= y
    BY <1>1, <1>3
  <2>2. QED
    BY <2>1, MaxIs, Zenon
<1>5. {k \in 2..(a + b + 2) - 1 : s[k] = Slash} = {a + 1}
  BY <1>1, <1>2, <1>3 DEF SlashesIn
<1>6. Max({a + 1}) = a + 1
  <2>1. {a + 1} \in SUBSET Int /\ a + 1 \in {a + 1} /\ \A y \in {a + 1} : a + 1 >= y
    BY <1>1
  <2>2. QED
    BY <2>1, MaxIs, Zenon
<1>7. CodeSplit(s) = Parts(SubSeq(s, (a + b + 2) + 1, Len(s)),
                           SubSeq(s, (a + 1) + 1, (a + b + 2) - 1),
                           SubSeq(s, 1, (a + 1) - 1))
  <2>1. SlashesIn(s) # {} /\ a + b + 2 # 1 /\ a + 1 \notin {0, 1}
    BY <1>1, <1>3
  <2>2. {k \in 2..(a + b + 2) - 1 : s[k] = Slash} # {}
    BY <1>5
  <2>3. QED
    BY <1>4, <1>5, <1>6, <2>1, <2>2, CodeSplitOk
<1>8. SubSeq(s, (a + b + 2) + 1, Len(s)) = n
  <2>1. SubSeq(s, (a + b + 2) + 1, (a + b + 2) + c) = n
    <3>1. /\ a + b + 2 \in Nat /\ (a + b + 2) + Len(n) <= Len(s)
          /\ \A k \in 1..Len(n) : s[(a + b + 2) + k] = n[k]
      BY <1>1, <1>2
    <3>2. QED
      BY <1>2, <3>1, SliceIs, Zenon
  <2>2. QED
    BY <1>1, <1>2, <2>1
<1>9. SubSeq(s, (a + 1) + 1, (a + b + 2) - 1) = v
  <2>1. SubSeq(s, (a + 1) + 1, (a + 1) + b) = v
    <3>1. /\ a + 1 \in Nat /\ (a + 1) + Len(v) <= Len(s)
          /\ \A k \in 1..Len(v) : s[(a + 1) + k] = v[k]
      BY <1>1, <1>2
    <3>2. QED
      BY <1>2, <3>1, SliceIs, Zenon
  <2>2. QED
    BY <1>1, <2>1
<1>10. SubSeq(s, 1, (a + 1) - 1) = ns
  <2>1. SubSeq(s, 0 + 1, 0 + a) = ns
    BY <1>1, <1>2, SliceIs
  <2>2. QED
    BY <1>1, <2>1
<1>11. QED
  BY <1>7, <1>8, <1>9, <1>10

-----------------------------------------------------------------------------
(* The urls a caller gives to split are strings. *)
LEMMA StringsAreSeqs == Strings \subseteq Seq(Chars)
BY UrlAssumption DEF Strings

(***************************************************************************)
(* The url a caller holds is a string; a split result on record is what   *)
(* dlite_split_metadata returns on the url as it is now (a later join or a *)
(* new url clears it); and a url on record as joined is the one            *)
(* dlite_join_metadata built from those three strings.  RoundTrip and      *)
(* SplitSound follow from it and two facts about the split alone.  It is  *)
(* the induction hypothesis of the proofs, not a property of its own.     *)
(***************************************************************************)
UrlInv ==
    /\ url \in Seq(Chars)
    /\ out # NoResult => out = CodeSplit(url)
    /\ joined # <<>> =>
          \E n, v, ns \in Words : joined = <<n, v, ns>> /\ url = JoinUrl(n, v, ns)

(***************************************************************************)
(* UrlInv is inductive.  A join sets the url and the record of the join   *)
(* together and clears the split result; a url from the caller clears     *)
(* both records; a split records CodeSplit of the url it leaves alone.     *)
(***************************************************************************)
LEMMA UrlInvariant == Spec => []UrlInv
<1>1. Init => UrlInv
  BY StringsAreSeqs DEF Init, UrlInv
<1>2. UrlInv /\ [Next]_vars => UrlInv'
  <2> SUFFICES ASSUME UrlInv, [Next]_vars PROVE UrlInv'
    OBVIOUS
  <2>1. ASSUME NEW n \in Words, NEW v \in Words, NEW ns \in Words,
               JoinMetadata(n, v, ns)
        PROVE  UrlInv'
    <3>1. n \in Seq(Chars) /\ v \in Seq(Chars) /\ ns \in Seq(Chars)
      BY UrlAssumption
    <3>2. url' \in Seq(Chars)
      BY <2>1, <3>1, JoinAt DEF JoinMetadata
    <3>3. QED
      BY <2>1, <3>2 DEF JoinMetadata, UrlInv
  <2>2. ASSUME NEW s \in Strings, GiveUrl(s)
        PROVE  UrlInv'
    BY <2>2, StringsAreSeqs DEF GiveUrl, UrlInv
  <2>3. CASE SplitMetadata
    <3>1. out' # NoResult => out' = CodeSplit(url')
      BY <2>3 DEF SplitMetadata
    <3>2. QED
      BY <2>3, <3>1 DEF SplitMetadata, UrlInv
  <2>4. CASE UNCHANGED vars
    BY <2>4 DEF vars, UrlInv
  <2>5. QED
    BY <2>1, <2>2, <2>3, <2>4 DEF Next
<1>3. QED
  BY <1>1, <1>2, PTL DEF Spec

(***************************************************************************)
(* RoundTrip for every alphabet, word set and bound: a split of the url   *)
(* dlite_join_metadata built from a plain name, version and namespace      *)
(* gives the three back.                                                   *)
(***************************************************************************)
THEOREM RoundTripProved == Spec => []RoundTrip
<1>1. UrlInv => RoundTrip
  <2> SUFFICES ASSUME UrlInv, joined # <<>>, out # NoResult,
                      \A k \in 1..3 : Plain(joined[k])
               PROVE  out = Parts(joined[1], joined[2], joined[3])
    BY DEF RoundTrip
  <2>1. PICK n \in Words, v \in Words, ns \in Words :
              joined = <<n, v, ns>> /\ url = JoinUrl(n, v, ns)
    BY DEF UrlInv
  <2>2. n \in Seq(Chars) /\ v \in Seq(Chars) /\ ns \in Seq(Chars)
    BY UrlAssumption
  <2>3. Plain(n) /\ Plain(v) /\ Plain(ns)
    <3>1. Plain(joined[1]) /\ Plain(joined[2]) /\ Plain(joined[3])
      OBVIOUS
    <3>2. QED
      BY <2>1, <3>1
  <2>4. out = CodeSplit(url)
    BY DEF UrlInv
  <2>5. QED
    BY <2>1, <2>2, <2>3, <2>4, SplitOfJoin
<1>2. QED
  BY <1>1, UrlInvariant, PTL

(***************************************************************************)
(* SplitSound for every alphabet, word set and bound: whenever             *)
(* dlite_split_metadata returns three strings, for a joined url or one the *)
(* caller gave, they are the strings the specification's split gives.      *)
(***************************************************************************)
THEOREM SplitSoundProved == Spec => []SplitSound
<1>1. UrlInv => SplitSound
  <2> SUFFICES ASSUME UrlInv, out.status = "ok"
               PROVE  out = SpecSplit(url)
    BY DEF SplitSound
  <2>1. out # NoResult
    BY DEF NoResult
  <2>2. out = CodeSplit(url) /\ url \in Seq(Chars)
    BY <2>1 DEF UrlInv
  <2>3. QED
    BY <2>2, SplitOkIsSpec
<1>2. QED
  BY <1>1, UrlInvariant, PTL
=============================================================================
