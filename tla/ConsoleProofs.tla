-------------------------- MODULE ConsoleProofs -----------------------------
(***************************************************************************)
(* Proofs about the two parts of the web console that keep state of their  *)
(* own, each under its own specification: AiSettings, for every set of     *)
(* hosts, typed URLs, keys, models and request bodies and any number of    *)
(* waiting requests, with what Endpoint makes of the URLs; and LoginGuard, *)
(* for every number of addresses, every limit and every length of a ban.   *)
(*                                                                         *)
(* The argument for the URLs.  From a host's prefix, with a version or     *)
(* without, and with an API path behind it or none, the loop over the API  *)
(* paths takes just that path (ApiPathGoes); whether a version is then     *)
(* added or removed depends on host and protocol alone (StyleIsOfHost).    *)
(* So every saved or loaded base is the prefix, with the version or        *)
(* without, as its style asks for (Settled), and the client's part of the  *)
(* URL is the same whatever was typed (SettledReaches).                    *)
(***************************************************************************)
EXTENDS AiSettings, LoginGuard, SequenceTheorems, TLAPS

(***************************************************************************)
(* Paths: a suffix, and slashes at the end                                 *)
(***************************************************************************)

\* The names in the paths of this section.
Name == Segment \cup ApiNames

\* A suffix, by its elements.
LEMMA SuffixShows ==
    ASSUME NEW s \in Seq(Name), NEW t \in Seq(Name)
    PROVE  IsSuffix(s, t) <=>
               /\ Len(s) <= Len(t)
               /\ \A i \in 1 .. Len(s) : s[i] = t[Len(t) - Len(s) + i]
<1> DEFINE a == Reverse(s)
           b == Reverse(t)
<1>1. /\ a \in Seq(Name) /\ Len(a) = Len(s)
      /\ \A i \in 1 .. Len(s) : a[i] = s[(Len(s) - i) + 1]
  BY DEF Reverse
<1>2. /\ b \in Seq(Name) /\ Len(b) = Len(t)
      /\ \A i \in 1 .. Len(t) : b[i] = t[(Len(t) - i) + 1]
  BY DEF Reverse
<1>3. IsSuffix(s, t) <=> Len(a) <= Len(b) /\ SubSeq(a, 1, Len(a)) = SubSeq(b, 1, Len(a))
  BY DEF IsSuffix, IsPrefix
<1> HIDE DEF a, b
<1>4. SUFFICES ASSUME Len(s) <= Len(t)
               PROVE  SubSeq(a, 1, Len(a)) = SubSeq(b, 1, Len(a))
                      <=> \A i \in 1 .. Len(s) : s[i] = t[Len(t) - Len(s) + i]
  BY <1>1, <1>2, <1>3
<1>5. SubSeq(a, 1, Len(a)) = SubSeq(b, 1, Len(a)) <=> \A i \in 1 .. Len(s) : a[i] = b[i]
  <2> DEFINE x == SubSeq(a, 1, Len(a))
             y == SubSeq(b, 1, Len(a))
  <2>1. /\ x \in Seq(Name) /\ Len(x) = Len(s) /\ \A i \in 1 .. Len(s) : x[i] = a[i]
        /\ y \in Seq(Name) /\ Len(y) = Len(s) /\ \A i \in 1 .. Len(s) : y[i] = b[i]
    BY <1>1, <1>2, <1>4
  <2> HIDE DEF x, y
  <2>2. x = y <=> \A i \in 1 .. Len(s) : a[i] = b[i]
    BY <2>1, SeqEqual
  <2> QED BY <2>2 DEF x, y
<1>6. ASSUME \A i \in 1 .. Len(s) : a[i] = b[i], NEW i \in 1 .. Len(s)
      PROVE  s[i] = t[Len(t) - Len(s) + i]
  <2>1. Len(s) - i + 1 \in 1 .. Len(s) /\ Len(s) - i + 1 \in 1 .. Len(t)
    BY <1>4
  <2> DEFINE m == Len(s)
             n == Len(t)
             j == m - i + 1
  <2>2. s[m - j + 1] = t[n - j + 1]
    <3>1. j \in 1 .. m /\ j \in 1 .. n
      BY <2>1
    <3> HIDE DEF m, n, j
    <3>2. a[j] = s[(m - j) + 1] /\ b[j] = t[(n - j) + 1] /\ a[j] = b[j]
      BY <1>1, <1>2, <1>6, <3>1 DEF m, n
    <3> QED BY <3>2
  <2>3. m - (m - i + 1) + 1 = i /\ n - (m - i + 1) + 1 = n - m + i
    <3>1. m \in Nat /\ n \in Nat /\ i \in Nat
      OBVIOUS
    <3> HIDE DEF m, n
    <3> QED BY <3>1
  <2> QED BY <2>2, <2>3
<1>7. ASSUME \A i \in 1 .. Len(s) : s[i] = t[Len(t) - Len(s) + i], NEW i \in 1 .. Len(s)
      PROVE  a[i] = b[i]
  <2>1. Len(s) - i + 1 \in 1 .. Len(s) /\ i \in 1 .. Len(t)
    BY <1>4
  <2>2. s[Len(s) - i + 1] = t[Len(t) - Len(s) + (Len(s) - i + 1)]
    BY <1>7, <2>1
  <2>3. Len(t) - Len(s) + (Len(s) - i + 1) = Len(t) - i + 1
    OBVIOUS
  <2> QED BY <1>1, <1>2, <2>1, <2>2, <2>3
<1> QED BY <1>5, <1>6, <1>7

\* A path that does not end in a slash keeps all of its segments.
LEMMA NothingToStrip ==
    ASSUME NEW path \in Seq(Name), Len(path) > 0 => path[Len(path)] # Blank
    PROVE  WithoutSlashes(path) = path
<1> DEFINE S == {0} \cup {i \in DOMAIN path : path[i] # Blank}
<1> DEFINE m == Len(path)
<1>0. m \in Nat /\ DOMAIN path = 1 .. m
  BY LenProperties
<1>1. m \in S /\ \A y \in S : y \in Nat /\ m >= y
  <2> HIDE DEF m
  <2>1. m > 0 => path[m] # Blank
    BY DEF m
  <2> QED BY <1>0, <2>1
<1>2. Max(S) \in S /\ \A y \in S : Max(S) >= y
  <2> HIDE DEF S
  <2> QED BY <1>1 DEF Max
<1>3. Max(S) = m
  <2> DEFINE x == Max(S)
  <2> HIDE DEF S, m
  <2>1. x \in Nat /\ x >= m /\ m >= x
    BY <1>1, <1>2
  <2> HIDE DEF x
  <2>2. \A i \in Nat, j \in Nat : i >= j /\ j >= i => i = j
    OBVIOUS
  <2>3. x = m
    BY <1>0, <2>1, <2>2, Zenon
  <2> QED BY <2>3 DEF x
<1>4. SubSeq(path, 1, m) = path
  BY SubSeqFull
<1> QED BY <1>3, <1>4 DEF WithoutSlashes

(***************************************************************************)
(* API paths                                                               *)
(***************************************************************************)

\* The API paths one by one.
LEMMA ApiPathsShown ==
    /\ Len(ApiPaths) = 5 /\ DOMAIN ApiPaths = 1 .. 5
    /\ ApiPaths[1] = <<"chat", "completions">> /\ ApiPaths[2] = <<"completions">>
    /\ ApiPaths[3] = <<"messages">> /\ ApiPaths[4] = <<"responses">>
    /\ ApiPaths[5] = <<"models">>
BY DEF ApiPaths

\* The last name of each.
LastName == <<"completions", "completions", "messages", "responses", "models">>

\* Their lengths and names.
LEMMA ApiPathsTyped ==
    ASSUME NEW n \in 1 .. 5
    PROVE  /\ ApiPaths[n] \in Seq(Name)
           /\ Len(ApiPaths[n]) \in {1, 2} /\ Len(ApiPaths[n]) > 0
           /\ Len(ApiPaths[n]) = 2 <=> n = 1
           /\ ApiPaths[n][Len(ApiPaths[n])] = LastName[n]
           /\ LastName[n] \in ApiNames /\ ApiPaths[n][Len(ApiPaths[n])] \in ApiNames
           /\ n = 1 => ApiPaths[n][1] = "chat"
<1>1. /\ <<"chat", "completions">> \in Seq(Name) /\ <<"completions">> \in Seq(Name)
      /\ <<"messages">> \in Seq(Name) /\ <<"responses">> \in Seq(Name)
      /\ <<"models">> \in Seq(Name)
  BY DEF Name, ApiNames
<1>2. CASE n = 1
  BY <1>1, <1>2, ApiPathsShown DEF LastName, ApiNames
<1>3. CASE n = 2
  BY <1>1, <1>3, ApiPathsShown DEF LastName, ApiNames
<1>4. CASE n = 3
  BY <1>1, <1>4, ApiPathsShown DEF LastName, ApiNames
<1>5. CASE n = 4
  BY <1>1, <1>5, ApiPathsShown DEF LastName, ApiNames
<1>6. CASE n = 5
  BY <1>1, <1>6, ApiPathsShown DEF LastName, ApiNames
<1> QED BY <1>2, <1>3, <1>4, <1>5, <1>6

\* A path that ends in another name than a suffix is left as it is.
LEMMA StripLeaves ==
    ASSUME NEW path \in Seq(Name), NEW a \in Seq(Name), Len(a) > 0,
           Len(path) > 0 => path[Len(path)] # a[Len(a)]
    PROVE  StripSuffix(path, a) = path
<1> DEFINE k == Len(a)
           m == Len(path)
<1>1. k \in Nat /\ k > 0 /\ m \in Nat
  BY LenProperties
<1>2. ~IsSuffix(a, path)
  <2> SUFFICES ASSUME k <= m, \A i \in 1 .. k : a[i] = path[m - k + i] PROVE FALSE
    BY <1>1, SuffixShows
  <2>1. k \in 1 .. k /\ m - k + k = m /\ m > 0
    BY <1>1
  <2> QED BY <1>1, <2>1
<1> QED BY <1>2 DEF StripSuffix

\* Nor is one that ends in completions, without chat before it, by the first.
LEMMA StripNeedsChat ==
    ASSUME NEW path \in Seq(Name), Len(path) > 1 => path[Len(path) - 1] # "chat"
    PROVE  StripSuffix(path, ApiPaths[1]) = path
<1> DEFINE a == ApiPaths[1]
           k == Len(a)
           m == Len(path)
<1>1. a \in Seq(Name) /\ k = 2 /\ a[1] = "chat" /\ m \in Nat
  BY ApiPathsTyped, LenProperties
<1> HIDE DEF a
<1>2. ~IsSuffix(a, path)
  <2> SUFFICES ASSUME k <= m, \A i \in 1 .. k : a[i] = path[m - k + i] PROVE FALSE
    BY <1>1, SuffixShows
  <2>1. 1 \in 1 .. k /\ m - k + 1 = m - 1 /\ m > 1
    BY <1>1
  <2> QED BY <1>1, <2>1
<1> QED BY <1>2 DEF StripSuffix, a

\* A suffix at the end is taken away.
LEMMA StripTakes ==
    ASSUME NEW path \in Seq(Name), NEW a \in Seq(Name)
    PROVE  StripSuffix(path \o a, a) = path
<1> DEFINE k == Len(a)
           m == Len(path)
           whole == path \o a
<1>1. k \in Nat /\ m \in Nat
  BY LenProperties
<1>2. /\ whole \in Seq(Name) /\ Len(whole) = m + k
      /\ \A i \in 1 .. m : whole[i] = path[i]
      /\ \A i \in 1 .. k : whole[m + i] = a[i]
  BY <1>1, ConcatProperties
<1> HIDE DEF whole
<1>3. IsSuffix(a, whole)
  <2>1. k <= Len(whole) /\ \A i \in 1 .. k : a[i] = whole[Len(whole) - k + i]
    BY <1>1, <1>2
  <2> QED BY <1>1, <1>2, <2>1, SuffixShows
<1>4. SubSeq(whole, 1, Len(whole) - k) = path
  <2> DEFINE x == SubSeq(whole, 1, m)
  <2>1. x \in Seq(Name) /\ Len(x) = m /\ \A i \in 1 .. m : x[i] = path[i]
    BY <1>1, <1>2, SubSeqProperties
  <2> HIDE DEF x
  <2>2. x = path
    BY <2>1, SeqEqual
  <2>3. Len(whole) - k = m
    BY <1>1, <1>2
  <2> QED BY <2>2, <2>3 DEF x
<1> QED BY <1>3, <1>4 DEF StripSuffix, whole

\* The steps of the loop over the API paths.
LEMMA LoopUnrolls ==
    ASSUME NEW path
    PROVE  \E s : /\ s[0] = WithoutSlashes(path)
                  /\ s[1] = StripSuffix(s[0], ApiPaths[1])
                  /\ s[2] = StripSuffix(s[1], ApiPaths[2])
                  /\ s[3] = StripSuffix(s[2], ApiPaths[3])
                  /\ s[4] = StripSuffix(s[3], ApiPaths[4])
                  /\ s[5] = StripSuffix(s[4], ApiPaths[5])
                  /\ WithoutApiPath(path) = WithoutSlashes(s[5])
<1> DEFINE S0 == WithoutSlashes(path)
           S1 == StripSuffix(S0, ApiPaths[1])
           S2 == StripSuffix(S1, ApiPaths[2])
           S3 == StripSuffix(S2, ApiPaths[3])
           S4 == StripSuffix(S3, ApiPaths[4])
           S5 == StripSuffix(S4, ApiPaths[5])
           f == [n \in 0 .. 5 |->
                    IF n = 0 THEN S0 ELSE IF n = 1 THEN S1 ELSE IF n = 2 THEN S2
                    ELSE IF n = 3 THEN S3 ELSE IF n = 4 THEN S4 ELSE S5]
           Is(g) == g = [n \in 0 .. Len(ApiPaths) |->
                            IF n = 0 THEN WithoutSlashes(path)
                                     ELSE StripSuffix(g[n - 1], ApiPaths[n])]
           s == CHOOSE g : Is(g)
<1>1. Is(f)
  <2>1. /\ f[0] = S0 /\ f[1] = S1 /\ f[2] = S2 /\ f[3] = S3 /\ f[4] = S4 /\ f[5] = S5
    OBVIOUS
  <2> DEFINE h == [n \in 0 .. 5 |-> IF n = 0 THEN S0 ELSE StripSuffix(f[n - 1], ApiPaths[n])]
  <2>2. ASSUME NEW n \in 0 .. 5 PROVE f[n] = h[n]
    <3>1. n \in {0, 1, 2, 3, 4, 5}
      OBVIOUS
    <3>2. h[0] = S0 /\ \A k \in 1 .. 5 : h[k] = StripSuffix(f[k - 1], ApiPaths[k])
      OBVIOUS
    <3>3. /\ h[1] = StripSuffix(f[0], ApiPaths[1]) /\ h[2] = StripSuffix(f[1], ApiPaths[2])
          /\ h[3] = StripSuffix(f[2], ApiPaths[3]) /\ h[4] = StripSuffix(f[3], ApiPaths[4])
          /\ h[5] = StripSuffix(f[4], ApiPaths[5])
      BY <3>2
    <3> HIDE DEF f, h
    <3> QED BY <2>1, <3>1, <3>2, <3>3, Zenon
  <2>3. f = h
    <3>1. DOMAIN f = 0 .. 5 /\ DOMAIN h = 0 .. 5
      OBVIOUS
    <3>2. f = [n \in 0 .. 5 |-> f[n]] /\ h = [n \in 0 .. 5 |-> h[n]]
      OBVIOUS
    <3> HIDE DEF f, h
    <3> QED BY <2>2, <3>2, Zenon
  <2> QED BY <2>3, ApiPathsShown
<1>2. Is(s)
  <2> HIDE DEF Is
  <2> QED BY <1>1
<1>3. WithoutApiPath(path) = WithoutSlashes(s[5])
  BY ApiPathsShown DEF WithoutApiPath
<1> HIDE DEF s
<1>4. s = [n \in 0 .. 5 |-> IF n = 0 THEN WithoutSlashes(path)
                                     ELSE StripSuffix(s[n - 1], ApiPaths[n])]
  BY <1>2, ApiPathsShown
<1> HIDE DEF S0
<1>5. s[0] = WithoutSlashes(path)
  BY <1>4
<1>6. \A n \in 1 .. 5 : s[n] = StripSuffix(s[n - 1], ApiPaths[n])
  BY <1>4
<1>7. /\ s[1] = StripSuffix(s[1 - 1], ApiPaths[1]) /\ s[2] = StripSuffix(s[2 - 1], ApiPaths[2])
      /\ s[3] = StripSuffix(s[3 - 1], ApiPaths[3]) /\ s[4] = StripSuffix(s[4 - 1], ApiPaths[4])
      /\ s[5] = StripSuffix(s[5 - 1], ApiPaths[5])
  <2>1. 1 \in 1 .. 5 /\ 2 \in 1 .. 5 /\ 3 \in 1 .. 5 /\ 4 \in 1 .. 5 /\ 5 \in 1 .. 5
    OBVIOUS
  <2> QED BY <1>6, <2>1, Zenon
<1>8. 1 - 1 = 0 /\ 2 - 1 = 1 /\ 3 - 1 = 2 /\ 4 - 1 = 3 /\ 5 - 1 = 4
  OBVIOUS
<1> QED BY <1>3, <1>5, <1>7, <1>8

\* What a path may end in, so that nothing more is taken from it.
Plain(path) == Len(path) > 0 => path[Len(path)] \notin ApiNames \cup {Blank}

\* From a plain path, with an API path and slashes behind it or not, just these
\* are taken.
LEMMA ApiPathGoes ==
    ASSUME NEW base \in Seq(Name), Plain(base), NEW path,
           NEW api \in {<<>>} \cup Range(ApiPaths), WithoutSlashes(path) = base \o api
    PROVE  WithoutApiPath(path) = base
<1>1. PICK s : /\ s[0] = WithoutSlashes(path)
               /\ s[1] = StripSuffix(s[0], ApiPaths[1])
               /\ s[2] = StripSuffix(s[1], ApiPaths[2])
               /\ s[3] = StripSuffix(s[2], ApiPaths[3])
               /\ s[4] = StripSuffix(s[3], ApiPaths[4])
               /\ s[5] = StripSuffix(s[4], ApiPaths[5])
               /\ WithoutApiPath(path) = WithoutSlashes(s[5])
  BY LoopUnrolls
<1>3. ASSUME NEW n \in 1 .. 5 PROVE StripSuffix(base, ApiPaths[n]) = base
  <2>1. /\ ApiPaths[n] \in Seq(Name) /\ Len(ApiPaths[n]) > 0
        /\ ApiPaths[n][Len(ApiPaths[n])] \in ApiNames
    BY ApiPathsTyped
  <2> QED BY <2>1, StripLeaves DEF Plain
<1>4. SUFFICES s[5] = base
  BY <1>1, NothingToStrip DEF Plain
<1>5. CASE api = <<>>
  <2>1. s[0] = base
    BY <1>1, <1>5, ConcatEmptySeq
  <2> QED BY <1>1, <1>3, <2>1
<1>6. ASSUME NEW k \in 1 .. 5, api = ApiPaths[k] PROVE s[5] = base
  <2> DEFINE whole == base \o ApiPaths[k]
             m == Len(base)
             j == Len(ApiPaths[k])
  <2>1. /\ whole \in Seq(Name) /\ Len(whole) = m + j /\ m \in Nat /\ j \in {1, 2}
        /\ \A i \in 1 .. m : whole[i] = base[i]
        /\ whole[Len(whole)] = LastName[k]
        /\ k = 2 => j = 1
    <3>1. ApiPaths[k] \in Seq(Name) /\ j \in {1, 2} /\ ApiPaths[k][j] = LastName[k]
          /\ (k = 2 => j = 1)
      BY ApiPathsTyped
    <3>2. /\ whole \in Seq(Name) /\ Len(whole) = m + j /\ m \in Nat
          /\ \A i \in 1 .. m + j : whole[i] = IF i <= m THEN base[i] ELSE ApiPaths[k][i - m]
      BY <3>1, ConcatProperties, LenProperties
    <3> HIDE DEF whole, m, j
    <3>3. m + j \in 1 .. m + j /\ ~(m + j <= m) /\ m + j - m = j
      BY <3>1, <3>2
    <3> QED BY <3>1, <3>2, <3>3
  <2>2. ASSUME NEW n \in 1 .. 5, n < k PROVE StripSuffix(whole, ApiPaths[n]) = whole
    <3>1. CASE n = 1 /\ k = 2
      <4>1. Len(whole) > 1 => whole[Len(whole) - 1] # "chat"
        <5> SUFFICES ASSUME m > 0 PROVE whole[m] # "chat"
          <6> HIDE DEF whole, m, j
          <6>1. Len(whole) = m + 1 /\ m \in Nat
            BY <2>1, <3>1
          <6>2. Len(whole) - 1 = m /\ (Len(whole) > 1 <=> m > 0)
            BY <6>1
          <6> QED BY <6>2
        <5>1. whole[m] = base[m] /\ base[m] \notin ApiNames
          BY <2>1 DEF Plain
        <5> HIDE DEF whole, m, j
        <5> QED BY <5>1 DEF ApiNames
      <4> HIDE DEF whole
      <4> QED BY <2>1, <3>1, <4>1, StripNeedsChat
    <3>2. CASE ~(n = 1 /\ k = 2)
      <4>1. LastName[n] # LastName[k]
        BY <2>2, <3>2 DEF LastName
      <4> HIDE DEF whole
      <4>2. /\ ApiPaths[n] \in Seq(Name) /\ Len(ApiPaths[n]) > 0
            /\ ApiPaths[n][Len(ApiPaths[n])] = LastName[n]
        BY ApiPathsTyped
      <4> QED BY <2>1, <4>1, <4>2, StripLeaves
    <3> QED BY <3>1, <3>2
  <2>3. StripSuffix(whole, ApiPaths[k]) = base
    BY StripTakes, ApiPathsTyped
  <2>4. s[0] = whole
    BY <1>1, <1>6
  <2> HIDE DEF whole, m, j
  <2>5. CASE k = 1
    BY <1>1, <1>3, <2>3, <2>4, <2>5
  <2>6. CASE k = 2
    BY <1>1, <1>3, <2>2, <2>3, <2>4, <2>6
  <2>7. CASE k = 3
    BY <1>1, <1>3, <2>2, <2>3, <2>4, <2>7
  <2>8. CASE k = 4
    BY <1>1, <1>3, <2>2, <2>3, <2>4, <2>8
  <2>9. CASE k = 5
    BY <1>1, <1>3, <2>2, <2>3, <2>4, <2>9
  <2> QED BY <2>5, <2>6, <2>7, <2>8, <2>9
<1> QED BY <1>5, <1>6, ApiPathsShown DEF Range

(***************************************************************************)
(* Normal forms                                                            *)
(***************************************************************************)

Version == <<"v1">>

\* A prefix alone and with its version: both end plainly, the one has no version,
\* the other has.
LEMMA PrefixShape ==
    ASSUME NEW host \in Host
    PROVE  /\ Prefix[host] \in Seq(Segment) /\ Prefix[host] \in Seq(Name)
           /\ Plain(Prefix[host])
           /\ \A i \in DOMAIN Prefix[host] : Prefix[host][i] \notin StartsWithV1
           /\ Version \in Seq(Segment) /\ Version \in Seq(Name)
           /\ Prefix[host] \o Version \in Seq(Segment)
           /\ Prefix[host] \o Version \in Seq(Name)
           /\ Plain(Prefix[host] \o Version)
           /\ \E i \in DOMAIN (Prefix[host] \o Version) :
                 (Prefix[host] \o Version)[i] \in StartsWithV1
<1> DEFINE P == Prefix[host]
           m == Len(P)
           whole == P \o Version
<1>1. /\ P \in Seq(Segment) /\ m \in Nat /\ DOMAIN P = 1 .. m
      /\ \A i \in 1 .. m : P[i] \notin StartsWithV1
      /\ m > 0 => P[m] \notin ApiNames \cup {Blank}
  <2>1. P \in Seq(Segment)
    BY PrefixesArePlain
  <2>2. m \in Nat /\ DOMAIN P = 1 .. m
    BY <2>1, LenProperties
  <2>3. /\ \A i \in 1 .. m : P[i] \notin StartsWithV1
        /\ m \in 1 .. m => P[m] \notin ApiNames \cup {Blank}
    BY <2>2, PrefixesArePlain
  <2>4. m > 0 => m \in 1 .. m
    BY <2>2
  <2> QED BY <2>1, <2>2, <2>3, <2>4
<1>2. Segment \subseteq Name /\ "v1" \in Segment /\ "v1" \in StartsWithV1
  BY NamesAreKnown DEF Name
<1>3. P \in Seq(Name) /\ Plain(P)
  <2> HIDE DEF m, P
  <2> QED BY <1>1, <1>2, SeqMonotonic DEF Plain, m
<1>4. /\ Version \in Seq(Segment) /\ Version \in Seq(Name) /\ Len(Version) = 1
      /\ Version[1] = "v1"
  BY <1>2 DEF Version
<1> HIDE DEF P
<1>5. /\ whole \in Seq(Segment) /\ whole \in Seq(Name) /\ Len(whole) = m + 1
      /\ whole[m + 1] = "v1"
  <2>1. /\ whole \in Seq(Segment) /\ whole \in Seq(Name) /\ Len(whole) = m + 1
        /\ \A i \in 1 .. m + 1 : whole[i] = IF i <= m THEN P[i] ELSE Version[i - m]
    <3>1. whole \in Seq(Segment)
      BY <1>1, <1>4, ConcatProperties
    <3>2. /\ whole \in Seq(Name) /\ Len(whole) = m + Len(Version)
          /\ \A i \in 1 .. m + Len(Version) :
                whole[i] = IF i <= m THEN P[i] ELSE Version[i - m]
      BY <1>3, <1>4, ConcatProperties
    <3> QED BY <1>4, <3>1, <3>2
  <2> HIDE DEF whole, m
  <2>2. m + 1 \in 1 .. m + 1 /\ ~(m + 1 <= m) /\ m + 1 - m = 1
    BY <1>1
  <2>3. whole[m + 1] = Version[m + 1 - m]
    BY <1>1, <2>1, <2>2
  <2> QED BY <1>4, <2>1, <2>2, <2>3
<1> HIDE DEF whole
<1>6. Plain(whole)
  <2>1. "v1" \notin ApiNames \cup {Blank}
    BY Zenon DEF ApiNames, Blank
  <2> QED BY <1>5, <2>1 DEF Plain
<1>7. \E i \in DOMAIN whole : whole[i] \in StartsWithV1
  <2>1. m + 1 \in DOMAIN whole
    BY <1>1, <1>5, LenProperties
  <2> QED BY <1>2, <1>5, <2>1
<1> QED BY <1>1, <1>3, <1>4, <1>5, <1>6, <1>7 DEF P, whole

\* The same of a prefix with its version or without.
LEMMA VersionedShape ==
    ASSUME NEW host \in Host, NEW version \in {<<>>, Version}
    PROVE  /\ Prefix[host] \in Seq(Name) /\ Prefix[host] \o <<>> = Prefix[host]
           /\ Prefix[host] \o version \in Seq(Segment)
           /\ Prefix[host] \o version \in Seq(Name) /\ Plain(Prefix[host] \o version)
<1> DEFINE prefix == Prefix[host]
<1>1. /\ prefix \in Seq(Segment) /\ prefix \in Seq(Name) /\ Plain(prefix)
      /\ prefix \o Version \in Seq(Segment) /\ prefix \o Version \in Seq(Name)
      /\ Plain(prefix \o Version)
  BY PrefixShape
<1> HIDE DEF prefix
<1>2. prefix \o <<>> = prefix
  BY <1>1, ConcatEmptySeq
<1>3. CASE version = <<>>
  BY <1>1, <1>2, <1>3, Zenon DEF prefix
<1>4. CASE version = Version
  BY <1>1, <1>2, <1>4, Zenon DEF prefix
<1> QED BY <1>3, <1>4

\* Whether a base is stored without its version depends on its host.
LEMMA StyleIsOfHost ==
    ASSUME NEW url, NEW p \in Providers
    PROVE  AnthropicStyle(url, p) <=>
               \/ url.host \in AnthropicHost
               \/ "anthropic" \in Words[url.host] /\ p \in {"auto", "anthropic"}
<1>1. "anthropic" \in Words[url.host] => GuessFromUrl(url) = "anthropic"
  BY DEF GuessFromUrl
<1>2. p \in {"auto", "openai", "anthropic", "openai_responses"}
  BY DEF Providers, Protocols
<1>3. "anthropic" \in Words[url.host] =>
          (Effective(url, p) = "anthropic" <=> p \in {"auto", "anthropic"})
  BY <1>1, <1>2 DEF Effective
<1> QED BY <1>3 DEF AnthropicStyle

\* What Normalize makes of a path that is a prefix with or without its version.
LEMMA PathIsNormal ==
    ASSUME NEW url \in Url, NEW p \in Providers, NEW version \in {<<>>, Version},
           WithoutApiPath(url.path) = Prefix[url.host] \o version
    PROVE  LET normal == Normalize(url, p)
               prefix == Prefix[url.host] IN
           /\ normal = [host |-> url.host, path |-> normal.path]
           /\ normal.path \in {prefix, prefix \o Version}
           /\ IF AnthropicStyle(url, p)
                THEN /\ prefix = <<>> => normal.path = prefix
                     /\ prefix # <<>> => normal.path = prefix \o version
                ELSE normal.path = prefix \o Version
<1> DEFINE prefix == Prefix[url.host]
           path == prefix \o version
           normal == Normalize(url, p)
<1>1. url.host \in Host /\ url # NoUrl /\ url = [host |-> url.host, path |-> url.path]
  BY NamesAreKnown DEF Url, NoUrl
<1>2. /\ prefix \in Seq(Segment) /\ prefix \o <<>> = prefix
      /\ path \in {prefix, prefix \o Version}
      /\ \A i \in DOMAIN prefix : prefix[i] \notin StartsWithV1
      /\ \E i \in DOMAIN (prefix \o Version) : (prefix \o Version)[i] \in StartsWithV1
  BY <1>1, PrefixShape, ConcatEmptySeq
<1>3. normal = [host |-> url.host,
                path |-> IF ~AnthropicStyle(url, p) THEN WithVersion(path)
                         ELSE IF path = Version THEN <<>> ELSE path]
  BY <1>1 DEF Normalize, Version
<1>4. WithVersion(path) = prefix \o Version
  <2>1. Append(prefix, "v1") = prefix \o Version
    BY <1>2, AppendProperties DEF Version
  <2>2. CASE path = prefix
    BY <1>2, <2>1, <2>2 DEF WithVersion
  <2>3. CASE path = prefix \o Version
    BY <1>2, <2>3 DEF WithVersion
  <2> QED BY <1>2, <2>2, <2>3
<1>5. prefix = <<>> => prefix \o Version = Version
  BY <1>1, PrefixShape, ConcatEmptySeq
<1>6. prefix # <<>> => path # Version
  <2> SUFFICES ASSUME path = Version PROVE prefix = <<>>
    OBVIOUS
  <2>1. prefix # Version
    <3>1. "v1" \in StartsWithV1 /\ Version[1] = "v1" /\ 1 \in DOMAIN Version
      BY NamesAreKnown DEF Version
    <3> QED BY <1>2, <3>1
  <2>2. Version \in Seq(Segment) /\ path = prefix \o version
    BY <1>1, PrefixShape
  <2> HIDE DEF prefix
  <2>3. prefix \o Version = Version
    BY <1>2, <2>1
  <2> QED BY <1>2, <2>2, <2>3, ConcatEqualIffEmpty
<1> HIDE DEF prefix, normal
<1>7. path = prefix \o version
  OBVIOUS
<1> HIDE DEF path
<1>8. CASE ~AnthropicStyle(url, p)
  <2>1. normal = [host |-> url.host, path |-> prefix \o Version]
    BY <1>3, <1>4, <1>8
  <2> QED BY <1>8, <2>1 DEF prefix, normal
<1>9. CASE AnthropicStyle(url, p)
  <2>1. normal = [host |-> url.host, path |-> IF path = Version THEN <<>> ELSE path]
    BY <1>3, <1>9
  <2>2. CASE prefix = <<>>
    <3>1. normal = [host |-> url.host, path |-> prefix]
      BY <1>2, <1>5, <2>1, <2>2
    <3> QED BY <1>9, <2>2, <3>1 DEF prefix, normal
  <2>3. CASE prefix # <<>>
    <3>1. normal = [host |-> url.host, path |-> prefix \o version]
      BY <1>6, <1>7, <2>1, <2>3
    <3>2. prefix \o version \in {prefix, prefix \o Version}
      BY <1>2, <1>7
    <3> QED BY <1>9, <2>3, <3>1, <3>2 DEF prefix, normal
  <2> QED BY <2>2, <2>3
<1> QED BY <1>8, <1>9

\* What a form or an override may bring, and a base that needs no more work for
\* the protocol p.
Usable(url) == url \in Base /\ (url = NoUrl \/ NamesApi(url))
Settled(url, p) == url \in Url /\ NamesApi(url) /\ Normalize(url, p) = url

\* A host's prefix with the version that its style of storing asks for.
LEMMA StoredIsSettled ==
    ASSUME NEW host \in Host, NEW p \in Providers, NEW version \in {<<>>, Version},
           NEW url, url = [host |-> host, path |-> Prefix[host] \o version],
           IF AnthropicStyle(url, p) THEN Prefix[host] = <<>> => version = <<>>
                                     ELSE version = Version
    PROVE  Settled(url, p)
<1> DEFINE prefix == Prefix[host]
           path == prefix \o version
<1>1. /\ prefix \in Seq(Name) /\ prefix \o <<>> = prefix
      /\ path \in Seq(Segment) /\ path \in Seq(Name) /\ Plain(path)
  BY VersionedShape
<1>2. url \in Url /\ url.host = host /\ url.path = path
  BY <1>1 DEF Url
<1> HIDE DEF path
<1>3. WithoutSlashes(path) = path /\ path \o <<>> = path
  BY <1>1, NothingToStrip, ConcatEmptySeq DEF Plain
<1>4. WithoutApiPath(path) = path
  BY <1>1, <1>3, ApiPathGoes
<1>5. NamesApi(url)
  <2>1. WithoutSlashes(url.path) = Prefix[url.host] \o version \o <<>>
    BY <1>2, <1>3 DEF path
  <2> QED BY <2>1 DEF NamesApi, Version
<1>6. WithoutApiPath(url.path) = Prefix[url.host] \o version
  BY <1>2, <1>4 DEF path
<1> DEFINE normal == Normalize(url, p)
<1>7. /\ normal = [host |-> host, path |-> normal.path]
      /\ IF AnthropicStyle(url, p)
           THEN /\ prefix = <<>> => normal.path = prefix
                /\ prefix # <<>> => normal.path = path
           ELSE normal.path = prefix \o Version
  <2> HIDE DEF normal, prefix
  <2> QED BY <1>2, <1>6, PathIsNormal DEF normal, prefix, path
<1>8. normal.path = path
  <2> HIDE DEF normal
  <2> QED BY <1>1, <1>7 DEF path
<1> HIDE DEF normal
<1>9. normal = url
  BY <1>2, <1>7, <1>8 DEF path
<1> QED BY <1>2, <1>5, <1>9 DEF Settled, normal

\* However the URL of an API was typed, its normal form is settled.
LEMMA NormalIsSettled ==
    ASSUME NEW url, Usable(url), NEW p \in Providers
    PROVE  Settled(Normalize(url, p), p)
<1>1. CASE url = NoUrl
  <2>1. "api.openai.com" \in Host /\ Prefix["api.openai.com"] = <<>>
    BY NamesAreKnown, PrefixesArePlain
  <2>2. ~AnthropicStyle(DefaultUrl, p)
    <3>1. "api.openai.com" \notin AnthropicHost /\ "anthropic" \notin Words["api.openai.com"]
      BY NamesAreKnown
    <3> QED BY <3>1, StyleIsOfHost DEF DefaultUrl
  <2>3. DefaultUrl = [host |-> "api.openai.com", path |-> <<>> \o Version]
    BY <2>1, PrefixShape, ConcatEmptySeq DEF DefaultUrl, Version
  <2>4. Settled(DefaultUrl, p)
    BY <2>1, <2>2, <2>3, StoredIsSettled
  <2> QED BY <1>1, <2>4 DEF Normalize
<1>2. CASE url # NoUrl
  <2>1. url \in Url /\ url.host \in Host
    BY <1>2 DEF Usable, Base, Url
  <2> DEFINE prefix == Prefix[url.host]
             normal == Normalize(url, p)
  <2>2. PICK version \in {<<>>, Version}, api \in {<<>>} \cup Range(ApiPaths) :
          WithoutSlashes(url.path) = prefix \o version \o api
    BY <1>2 DEF Usable, NamesApi, Version
  <2>3. prefix \o version \in Seq(Name) /\ Plain(prefix \o version)
    BY <2>1, VersionedShape
  <2>4. WithoutApiPath(url.path) = prefix \o version
    BY <2>2, <2>3, ApiPathGoes
  <2>5. /\ normal = [host |-> url.host, path |-> normal.path]
        /\ IF AnthropicStyle(url, p)
             THEN /\ prefix = <<>> => normal.path = prefix
                  /\ prefix # <<>> => normal.path = prefix \o version
             ELSE normal.path = prefix \o Version
    <3> HIDE DEF normal, prefix
    <3> QED BY <2>1, <2>4, PathIsNormal DEF normal, prefix
  <2> HIDE DEF normal
  <2>6. AnthropicStyle(normal, p) <=> AnthropicStyle(url, p)
    <3>1. normal.host = url.host
      BY <2>5
    <3> QED BY <3>1, StyleIsOfHost
  <2>7. prefix \o <<>> = prefix
    BY <2>1, PrefixShape, ConcatEmptySeq
  <2>8. CASE ~AnthropicStyle(url, p)
    <3>1. normal = [host |-> url.host, path |-> prefix \o Version]
      BY <2>5, <2>8
    <3> QED BY <2>1, <2>6, <2>8, <3>1, StoredIsSettled DEF normal
  <2>9. CASE AnthropicStyle(url, p) /\ prefix = <<>>
    <3>1. normal = [host |-> url.host, path |-> prefix \o <<>>]
      BY <2>5, <2>7, <2>9
    <3> QED BY <2>1, <2>6, <2>9, <3>1, StoredIsSettled DEF normal
  <2>10. CASE AnthropicStyle(url, p) /\ prefix # <<>>
    <3>1. normal = [host |-> url.host, path |-> prefix \o version]
      BY <2>5, <2>10
    <3> QED BY <2>1, <2>6, <2>10, <3>1, StoredIsSettled DEF normal
  <2> QED BY <2>8, <2>9, <2>10
<1> QED BY <1>1, <1>2

(***************************************************************************)
(* Where a question goes                                                   *)
(***************************************************************************)

Text == {"v1"} \cup ApiNames

\* The version and an API path, in one.
LEMMA BelowJoined ==
    /\ Version \o <<"chat", "completions">> = Below["openai"]
    /\ Version \o <<"responses">> = Below["openai_responses"]
    /\ <<"v1", "messages">> = Below["anthropic"]
<1> DEFINE chat == <<"chat", "completions">>
           responses == <<"responses">>
<1>1. /\ Version \in Seq(Text) /\ Len(Version) = 1 /\ Version[1] = "v1"
      /\ chat \in Seq(Text) /\ Len(chat) = 2 /\ chat[1] = "chat" /\ chat[2] = "completions"
      /\ responses \in Seq(Text) /\ Len(responses) = 1 /\ responses[1] = "responses"
  BY DEF Version, Text, ApiNames
<1>2. /\ Below["openai"] = <<"v1", "chat", "completions">>
      /\ Below["openai_responses"] = <<"v1", "responses">>
      /\ Below["anthropic"] = <<"v1", "messages">>
  BY DEF Below
<1>3. Version \o chat = Below["openai"]
  <2> DEFINE x == Version \o chat
             y == Below["openai"]
  <2>1. /\ y \in Seq(Text) /\ Len(y) = 3
        /\ y[1] = "v1" /\ y[2] = "chat" /\ y[3] = "completions"
    BY <1>2 DEF Text, ApiNames
  <2> HIDE DEF chat
  <2>2. /\ x \in Seq(Text) /\ Len(x) = 3
        /\ \A i \in 1 .. 3 : x[i] = IF i <= 1 THEN Version[i] ELSE chat[i - 1]
    <3>1. /\ x \in Seq(Text) /\ Len(x) = Len(Version) + Len(chat)
          /\ \A i \in 1 .. Len(Version) + Len(chat) :
                x[i] = IF i <= Len(Version) THEN Version[i] ELSE chat[i - Len(Version)]
      BY <1>1, ConcatProperties
    <3>2. Len(Version) + Len(chat) = 3
      BY <1>1
    <3> HIDE DEF x
    <3> QED BY <1>1, <3>1, <3>2
  <2> HIDE DEF x, y
  <2>3. \A i \in 1 .. 3 : x[i] = y[i]
    BY <1>1, <2>1, <2>2
  <2>4. x = y
    BY <2>1, <2>2, <2>3, SeqEqual
  <2> QED BY <2>4 DEF x, y
<1>4. Version \o responses = Below["openai_responses"]
  <2> DEFINE x == Version \o responses
             y == Below["openai_responses"]
  <2>1. y \in Seq(Text) /\ Len(y) = 2 /\ y[1] = "v1" /\ y[2] = "responses"
    BY <1>2 DEF Text, ApiNames
  <2> HIDE DEF responses
  <2>2. /\ x \in Seq(Text) /\ Len(x) = 2
        /\ \A i \in 1 .. 2 : x[i] = IF i <= 1 THEN Version[i] ELSE responses[i - 1]
    BY <1>1, ConcatProperties
  <2> HIDE DEF x, y
  <2>3. \A i \in 1 .. 2 : x[i] = y[i]
    BY <1>1, <2>1, <2>2
  <2>4. x = y
    BY <2>1, <2>2, <2>3, SeqEqual
  <2> QED BY <2>4 DEF x, y
<1> QED BY <1>2, <1>3, <1>4

\* The root of a base is its host's prefix, with its version or without.
LEMMA RootIsPrefix ==
    ASSUME NEW host \in Host, NEW path \in {Prefix[host], Prefix[host] \o Version}
    PROVE  ApiRoot(path) = Prefix[host]
<1> DEFINE prefix == Prefix[host]
<1>1. /\ prefix \in Seq(Name) /\ Version \in Seq(Name)
      /\ \A i \in DOMAIN prefix : prefix[i] \notin StartsWithV1
  BY PrefixShape
<1>2. Len(Version) = 1 /\ Version[1] = "v1" /\ "v1" \in StartsWithV1
  BY NamesAreKnown DEF Version
<1>3. Len(prefix) > 0 => prefix[Len(prefix)] # Version[Len(Version)]
  <2> HIDE DEF prefix
  <2>1. Len(prefix) > 0 => Len(prefix) \in DOMAIN prefix
    BY <1>1, LenProperties
  <2> QED BY <1>1, <1>2, <2>1
<1>4. StripSuffix(prefix, Version) = prefix
  <2> HIDE DEF prefix
  <2>1. Len(Version) > 0
    BY <1>2
  <2> QED BY <1>1, <1>3, <2>1, StripLeaves
<1>5. StripSuffix(prefix \o Version, Version) = prefix
  BY <1>1, StripTakes
<1>6. path = prefix \/ path = prefix \o Version
  OBVIOUS
<1> HIDE DEF prefix
<1>7. ApiRoot(path) = prefix
  BY <1>4, <1>5, <1>6 DEF ApiRoot, Version
<1> QED BY <1>7 DEF prefix

\* A settled base leads a question to the API of its protocol.
LEMMA SettledReaches ==
    ASSUME NEW url, NEW p \in Providers, Settled(url, p), NEW protocol \in Protocols,
           protocol = "anthropic" \/ ~AnthropicStyle(url, p)
    PROVE  ChatUrl(url, protocol) =
              [host |-> url.host, path |-> Prefix[url.host] \o Below[protocol]]
<1> DEFINE prefix == Prefix[url.host]
<1>1. /\ url \in Url /\ url.host \in Host /\ Normalize(url, p) = url
      /\ url = [host |-> url.host, path |-> url.path]
  BY DEF Settled, Url
<1>2. PICK version \in {<<>>, Version}, api \in {<<>>} \cup Range(ApiPaths) :
        WithoutSlashes(url.path) = prefix \o version \o api
  BY DEF Settled, NamesApi, Version
<1>3. prefix \o version \in Seq(Name) /\ Plain(prefix \o version)
  BY <1>1, VersionedShape
<1>4. WithoutApiPath(url.path) = prefix \o version
  BY <1>2, <1>3, ApiPathGoes
<1>5. /\ url.path \in {prefix, prefix \o Version}
      /\ ~AnthropicStyle(url, p) => url.path = prefix \o Version
  <2> HIDE DEF prefix
  <2> QED BY <1>1, <1>4, PathIsNormal DEF prefix
<1>6. CASE protocol = "anthropic"
  <2>1. ApiRoot(url.path) = prefix
    <3> HIDE DEF prefix
    <3> QED BY <1>1, <1>5, RootIsPrefix DEF prefix
  <2>2. ChatUrl(url, protocol) = [host |-> url.host, path |-> prefix \o <<"v1", "messages">>]
    <3> HIDE DEF prefix
    <3> QED BY <1>1, <1>6, <2>1 DEF ChatUrl
  <2> QED BY <1>6, <2>2, BelowJoined
<1>7. CASE protocol # "anthropic"
  <2> DEFINE tail == IF protocol = "openai" THEN <<"chat", "completions">> ELSE <<"responses">>
  <2>1. protocol \in {"openai", "openai_responses"}
    BY <1>7 DEF Protocols
  <2>2. url.path = prefix \o Version
    BY <1>5, <1>7
  <2>3. ChatUrl(url, protocol) = [host |-> url.host, path |-> url.path \o tail]
    <3>1. CASE protocol = "openai"
      <4>1. tail = <<"chat", "completions">>
        BY <3>1
      <4>2. ChatUrl(url, protocol) = [url EXCEPT !.path = url.path \o <<"chat", "completions">>]
        BY <3>1, Zenon DEF ChatUrl
      <4> HIDE DEF tail
      <4> QED BY <1>1, <4>1, <4>2
    <3>2. CASE protocol = "openai_responses"
      BY <1>1, <3>2 DEF ChatUrl
    <3> QED BY <2>1, <3>1, <3>2
  <2>4. Version \o tail = Below[protocol]
    BY <2>1, BelowJoined, Zenon
  <2>5. prefix \in Seq(Name) /\ Version \in Seq(Name) /\ tail \in Seq(Name)
    <3>1. <<"chat", "completions">> \in Seq(Name) /\ <<"responses">> \in Seq(Name)
      BY DEF Name, ApiNames
    <3> QED BY <1>1, <3>1, PrefixShape
  <2> HIDE DEF tail, prefix
  <2>6. (prefix \o Version) \o tail = prefix \o (Version \o tail)
    BY <2>5, ConcatAssociative
  <2> QED BY <2>2, <2>3, <2>4, <2>6, Zenon DEF prefix
<1> QED BY <1>6, <1>7

(***************************************************************************)
(* Type correctness                                                        *)
(***************************************************************************)

\* Normalising changes only the base URL.
LEMMA NormalizedIsSettings ==
    ASSUME NEW cfg \in Settings, Usable(cfg.base)
    PROVE  /\ Normalized(cfg) \in Settings
           /\ Normalized(cfg).base = Normalize(cfg.base, cfg.provider)
           /\ \A f \in {"enabled", "key", "model", "provider", "detected"} :
                 Normalized(cfg)[f] = cfg[f]
           /\ Settled(Normalized(cfg).base, Normalized(cfg).provider)
<1>1. Settled(Normalize(cfg.base, cfg.provider), cfg.provider)
  BY NormalIsSettled DEF Settings
<1>2. Normalize(cfg.base, cfg.provider) \in Base
  BY <1>1 DEF Settled, Base
<1> QED BY <1>1, <1>2 DEF Normalized, Settings

\* What is sent to a provider is settings, with a base that is settled.
LEMMA PreparedIsSettings ==
    ASSUME NEW cfg \in Settings, Usable(cfg.base)
    PROVE  Prepared(cfg) \in Settings /\ Settled(Prepared(cfg).base, Prepared(cfg).provider)
<1> DEFINE new == Normalized(cfg)
<1>1. new \in Settings /\ Settled(new.base, new.provider)
  BY NormalizedIsSettings
<1>2. ProviderGuess(cfg.base, cfg.provider) \in Protocols
  BY DEF ProviderGuess, Protocols
<1>3. \A guess \in Protocols :
         /\ [new EXCEPT !.detected = guess] \in Settings
         /\ [new EXCEPT !.detected = guess].base = new.base
         /\ [new EXCEPT !.detected = guess].provider = new.provider
  BY <1>1 DEF Settings
<1> QED BY <1>1, <1>2, <1>3 DEF Prepared

\* A request body turns settings into settings; the base it brings is usable.
LEMMA OverriddenIsSettings ==
    ASSUME NEW cfg \in Settings, Usable(cfg.base), NEW body \in Forms \cup Overrides
    PROVE  Overridden(cfg, body) \in Settings /\ Usable(Overridden(cfg, body).base)
<1>1. IsBody(body, {"enabled", "base", "key", "model", "provider", "detected"})
  BY BodiesAreFields DEF IsBody
<1>2. DOMAIN cfg = {"enabled", "base", "key", "model", "provider", "detected"}
  BY DEF Settings
<1> DEFINE new == Overridden(cfg, body)
<1>3. new = [enabled |-> new.enabled, base |-> new.base, key |-> new.key,
             model |-> new.model, provider |-> new.provider, detected |-> new.detected]
  BY <1>2 DEF Overridden
<1>4. new.enabled \in BOOLEAN /\ new.base \in Base /\ new.provider \in Providers
  BY <1>1, <1>2 DEF IsBody, Overridden, Settings
<1>5. /\ new.key \in Key \cup {None} /\ new.model \in Model \cup {None}
      /\ new.detected \in Protocols \cup {None}
  BY <1>1, <1>2 DEF IsBody, Overridden, Settings
<1>6. new.base = cfg.base \/ ("base" \in DOMAIN body /\ new.base = body.base)
  BY <1>2 DEF Overridden
<1> HIDE DEF new
<1>7. new \in Settings
  BY <1>3, <1>4, <1>5 DEF Settings
<1>8. Usable(new.base)
  BY <1>6, BasesNameApis DEF Usable, Base
<1> QED BY <1>7, <1>8 DEF new

\* The defaults of a file that does not exist are settings, with a settled base.
LEMMA UnsavedIsSettings ==
    Unsaved \in Settings /\ Settled(Unsaved.base, Unsaved.provider)
<1>1. Usable(NoUrl) /\ "auto" \in Providers
  BY DEF Usable, Base, Providers
<1>2. Normalize(NoUrl, "auto") = DefaultUrl
  BY DEF Normalize
<1>3. Settled(DefaultUrl, "auto")
  BY <1>1, <1>2, NormalIsSettled
<1>4. DefaultUrl \in Base
  BY <1>3 DEF Settled, Base
<1> QED BY <1>1, <1>3, <1>4 DEF Unsaved, Settings

(***************************************************************************)
(* The invariant: types, and a base URL in normal form                     *)
(***************************************************************************)

\* The bases of the file and of the settings that requests hold are settled.
BasesAreSettled ==
    /\ Settled(disk.base, disk.provider)
    /\ \A r \in DOMAIN waiting : Settled(waiting[r].cfg.base, waiting[r].cfg.provider)

Invariant == TypeOK /\ BasesAreSettled

\* Nothing is saved and nobody waits at first.
LEMMA InitEstablishesInvariant == Init => Invariant
<1> SUFFICES ASSUME Init PROVE Invariant
  OBVIOUS
<1>1. DOMAIN waiting = {}
  BY DEF Init
<1> QED BY <1>1, UnsavedIsSettings, BoundIsNatural DEF Init, Invariant, TypeOK, BasesAreSettled

\* Every way of writing the file goes through save().
LEMMA SaveStoresSettledBase ==
    ASSUME NEW cfg \in Settings, Usable(cfg.base), Save(cfg)
    PROVE  disk' \in Settings /\ Settled(disk'.base, disk'.provider)
BY NormalizedIsSettings DEF Save

\* A settled base is usable again.
LEMMA SettledIsUsable ==
    ASSUME NEW url, NEW p, Settled(url, p)
    PROVE  Usable(url)
BY DEF Settled, Usable, Base

\* A request begins to wait.
LEMMA WaitKeepsTypes ==
    ASSUME Invariant, NEW r \in Req, NEW kind \in {"models", "chat"}, NEW cfg \in Settings,
           Settled(cfg.base, cfg.provider), Wait(r, kind, cfg)
    PROVE  /\ DOMAIN waiting' \subseteq Req
           /\ \A q \in DOMAIN waiting' :
                 /\ waiting'[q] \in [kind : {"models", "chat"}, cfg : Settings]
                 /\ Settled(waiting'[q].cfg.base, waiting'[q].cfg.provider)
<1>1. ASSUME NEW q \in DOMAIN waiting'
      PROVE  waiting'[q] = IF q = r THEN [kind |-> kind, cfg |-> cfg] ELSE waiting[q]
  BY DEF Wait
<1>2. DOMAIN waiting' = DOMAIN waiting \cup {r}
  BY DEF Wait
<1> QED BY <1>1, <1>2 DEF Invariant, TypeOK, BasesAreSettled

\* A request no longer waits.
LEMMA DoneKeepsTypes ==
    ASSUME Invariant, NEW r \in Req, Done(r)
    PROVE  /\ DOMAIN waiting' \subseteq Req
           /\ \A q \in DOMAIN waiting' :
                 /\ waiting'[q] \in [kind : {"models", "chat"}, cfg : Settings]
                 /\ Settled(waiting'[q].cfg.base, waiting'[q].cfg.provider)
<1>1. DOMAIN waiting' \subseteq DOMAIN waiting /\ \A q \in DOMAIN waiting' : waiting'[q] = waiting[q]
  BY DEF Done
<1> QED BY <1>1 DEF Invariant, TypeOK, BasesAreSettled

\* What a list of models saves: the file as it is now, with the new base URL
\* and protocol, and the key where there was none.
ListSaves(old, cfg, p) ==
    [old EXCEPT !.base = cfg.base, !.detected = p, !.key = IF @ = None THEN cfg.key ELSE @]

\* What a list saves keeps the operator's choices and a stored key.
LEMMA ListSavesSettings ==
    ASSUME NEW old \in Settings, NEW cfg \in Settings, NEW p \in Protocols
    PROVE  /\ ListSaves(old, cfg, p) \in Settings
           /\ ListSaves(old, cfg, p).base = cfg.base
           /\ \A f \in Chosen : ListSaves(old, cfg, p)[f] = old[f]
           /\ old.key # None => ListSaves(old, cfg, p).key = old.key
BY DEF ListSaves, Settings, Chosen

\* The answer to a list of models saves just that.
LEMMA ModelsListedSaves ==
    ASSUME TypeOK, NEW r \in Req, ModelsListed(r)
    PROVE  \E p \in Protocols : Save(ListSaves(disk, waiting[r].cfg, p))
BY DEF ModelsListed, ListSaves, ModelProtocols, Protocols

\* One step per handler: each saves settings through save() or not at all.
LEMMA NextKeepsInvariant == Invariant /\ [Next]_vars => Invariant'
<1> SUFFICES ASSUME Invariant, [Next]_vars PROVE Invariant'
  OBVIOUS
<1>0. /\ TypeOK /\ disk \in Settings /\ requests \in 0 .. MaxRequests
      /\ Settled(disk.base, disk.provider) /\ Usable(disk.base)
      /\ \A r \in DOMAIN waiting : Usable(waiting[r].cfg.base)
  BY SettledIsUsable DEF Invariant, TypeOK, BasesAreSettled
<1>1. CASE SaveForm
  <2>1. PICK body \in Forms : Save(Overridden(disk, body))
    BY <1>1 DEF SaveForm
  <2>2. disk' \in Settings /\ Settled(disk'.base, disk'.provider)
    <3>1. Overridden(disk, body) \in Settings /\ Usable(Overridden(disk, body).base)
      BY <1>0, OverriddenIsSettings
    <3> QED BY <2>1, <3>1, SaveStoresSettledBase
  <2>3. requests' \in 0 .. MaxRequests /\ waiting' = waiting
    BY <1>0, <1>1, BoundIsNatural DEF SaveForm, Asked
  <2> QED BY <1>0, <2>2, <2>3 DEF Invariant, TypeOK, BasesAreSettled
<1>2. CASE Crash
  <2>1. DOMAIN waiting' = {}
    BY <1>2 DEF Crash
  <2> QED BY <1>0, <1>2, <2>1 DEF Crash, Invariant, TypeOK, BasesAreSettled
<1>3. ASSUME NEW r \in Req, AskModels(r) PROVE Invariant'
  <2>1. PICK body \in Overrides : Wait(r, "models", Prepared(Overridden(disk, body)))
    BY <1>3 DEF AskModels
  <2> DEFINE cfg == Prepared(Overridden(disk, body))
  <2>4. Wait(r, "models", cfg)
    BY <2>1
  <2>2. cfg \in Settings /\ Settled(cfg.base, cfg.provider)
    <3>1. Overridden(disk, body) \in Settings /\ Usable(Overridden(disk, body).base)
      BY <1>0, OverriddenIsSettings
    <3> QED BY <3>1, PreparedIsSettings
  <2> HIDE DEF cfg
  <2>3. requests' \in 0 .. MaxRequests /\ disk' = disk
    BY <1>0, <1>3, BoundIsNatural DEF AskModels, Asked
  <2>5. /\ DOMAIN waiting' \subseteq Req
        /\ \A q \in DOMAIN waiting' :
              /\ waiting'[q] \in [kind : {"models", "chat"}, cfg : Settings]
              /\ Settled(waiting'[q].cfg.base, waiting'[q].cfg.provider)
    BY <2>2, <2>4, WaitKeepsTypes
  <2> QED BY <1>0, <2>3, <2>5 DEF Invariant, TypeOK, BasesAreSettled
<1>4. ASSUME NEW r \in Req, ModelsListed(r) PROVE Invariant'
  <2>1. PICK p \in Protocols : Save(ListSaves(disk, waiting[r].cfg, p))
    BY <1>0, <1>4, ModelsListedSaves
  <2>2. waiting[r].cfg \in Settings
    BY <1>0, <1>4 DEF ModelsListed, Awaits, TypeOK
  <2>3. disk' \in Settings /\ Settled(disk'.base, disk'.provider)
    <3> DEFINE new == ListSaves(disk, waiting[r].cfg, p)
    <3>1. new \in Settings /\ new.base = waiting[r].cfg.base
      BY <1>0, <2>2, ListSavesSettings
    <3>2. Usable(new.base)
      BY <1>0, <1>4, <3>1 DEF ModelsListed, Awaits
    <3> HIDE DEF new
    <3>3. Save(new)
      BY <2>1 DEF new
    <3> QED BY <3>1, <3>2, <3>3, SaveStoresSettledBase
  <2>4. Done(r) /\ requests' = requests
    BY <1>4 DEF ModelsListed
  <2> QED BY <1>0, <2>3, <2>4, DoneKeepsTypes DEF Invariant, TypeOK, BasesAreSettled
<1>5. ASSUME NEW r \in Req, AskChat(r) PROVE Invariant'
  <2> DEFINE cfg == Prepared(disk)
  <2>1. Wait(r, "chat", cfg) /\ cfg \in Settings /\ Settled(cfg.base, cfg.provider)
    <3>1. Wait(r, "chat", cfg)
      BY <1>5 DEF AskChat
    <3>2. cfg \in Settings /\ Settled(cfg.base, cfg.provider)
      BY <1>0, PreparedIsSettings
    <3> QED BY <3>1, <3>2
  <2> HIDE DEF cfg
  <2>2. requests' \in 0 .. MaxRequests /\ disk' = disk
    BY <1>0, <1>5, BoundIsNatural DEF AskChat, Asked
  <2>3. /\ DOMAIN waiting' \subseteq Req
        /\ \A q \in DOMAIN waiting' :
              /\ waiting'[q] \in [kind : {"models", "chat"}, cfg : Settings]
              /\ Settled(waiting'[q].cfg.base, waiting'[q].cfg.provider)
    BY <2>1, WaitKeepsTypes
  <2> QED BY <1>0, <2>2, <2>3 DEF Invariant, TypeOK, BasesAreSettled
<1>6. ASSUME NEW r \in Req, Chatted(r) PROVE Invariant'
  <2>1. PICK p \in Protocols : Save([waiting[r].cfg EXCEPT !.detected = p])
    BY <1>6 DEF Chatted, Chain, Protocols
  <2>2. waiting[r].cfg \in Settings
    BY <1>0, <1>6 DEF Chatted, Awaits, TypeOK
  <2>3. /\ [waiting[r].cfg EXCEPT !.detected = p] \in Settings
        /\ Usable([waiting[r].cfg EXCEPT !.detected = p].base)
    <3>1. Usable(waiting[r].cfg.base)
      BY <1>0, <1>6 DEF Chatted, Awaits
    <3>2. /\ [waiting[r].cfg EXCEPT !.detected = p] \in Settings
          /\ [waiting[r].cfg EXCEPT !.detected = p].base = waiting[r].cfg.base
      BY <2>2 DEF Settings
    <3> QED BY <3>1, <3>2
  <2>4. disk' \in Settings /\ Settled(disk'.base, disk'.provider)
    BY <2>1, <2>3, SaveStoresSettledBase
  <2>5. Done(r) /\ requests' = requests
    BY <1>6 DEF Chatted
  <2> QED BY <1>0, <2>4, <2>5, DoneKeepsTypes DEF Invariant, TypeOK, BasesAreSettled
<1>7. ASSUME NEW r \in Req, ProviderFails(r) PROVE Invariant'
  <2>1. Done(r) /\ disk' = disk /\ requests' = requests
    BY <1>7 DEF ProviderFails
  <2> QED BY <1>0, <2>1, DoneKeepsTypes DEF Invariant, TypeOK, BasesAreSettled
<1>8. CASE UNCHANGED vars
  BY <1>8 DEF vars, Invariant, TypeOK, BasesAreSettled
<1> QED BY <1>1, <1>2, <1>3, <1>4, <1>5, <1>6, <1>7, <1>8 DEF Next

\* The invariant holds in every state.
LEMMA InvariantHolds == Spec => []Invariant
<1> QED BY InitEstablishesInvariant, NextKeepsInvariant, PTL DEF Spec

\* The file and the settings that requests hold are settings at all times.
THEOREM TypeCorrect == Spec => []TypeOK
<1>1. Invariant => TypeOK
  BY DEF Invariant
<1> QED BY <1>1, InvariantHolds, PTL

\* Whatever interleaves, a stored base URL is its own normal form.
THEOREM BaseStaysNormal == Spec => []StoredBaseIsNormal
<1>1. Invariant => StoredBaseIsNormal
  BY DEF Invariant, BasesAreSettled, Settled, StoredBaseIsNormal
<1> QED BY <1>1, InvariantHolds, PTL

\* However its URL was typed and whatever is saved meanwhile, a question goes to
\* the API of its host and protocol.
THEOREM EveryQuestionArrives == Spec => []ApiIsReached
<1>1. ASSUME Invariant PROVE ApiIsReached
  <2> SUFFICES ASSUME NEW r \in DOMAIN waiting, NEW protocol \in Protocols,
                      \/ protocol = "anthropic"
                      \/ ~AnthropicStyle(waiting[r].cfg.base, waiting[r].cfg.provider)
               PROVE  ChatUrl(waiting[r].cfg.base, protocol) =
                         [host |-> waiting[r].cfg.base.host,
                          path |-> Prefix[waiting[r].cfg.base.host] \o Below[protocol]]
    BY DEF ApiIsReached
  <2> DEFINE url == waiting[r].cfg.base
             p == waiting[r].cfg.provider
  <2>1. p \in Providers /\ Settled(url, p)
    BY <1>1 DEF Invariant, TypeOK, Settings, BasesAreSettled
  <2> HIDE DEF url, p
  <2>2. protocol = "anthropic" \/ ~AnthropicStyle(url, p)
    BY DEF url, p
  <2>3. ChatUrl(url, protocol) =
           [host |-> url.host, path |-> Prefix[url.host] \o Below[protocol]]
    BY <2>1, <2>2, SettledReaches
  <2> QED BY <2>3 DEF url
<1> QED BY <1>1, InvariantHolds, PTL

(***************************************************************************)
(* A late list of models                                                   *)
(***************************************************************************)

\* A step in which a waiting list of models ends is its answer, its failure or
\* a crash; only the answer writes, and what it writes keeps the choices.
LEMMA ListKeepsChoices ==
    ASSUME Invariant, [Next]_vars, NEW r \in Req, Awaits(r, "models"),
           ~(r \in DOMAIN waiting')
    PROVE  /\ \A f \in Chosen : disk'[f] = disk[f]
           /\ disk.key # None => disk'.key = disk.key
<1>0. TypeOK /\ disk \in Settings /\ r \in DOMAIN waiting /\ waiting[r].kind = "models"
  BY DEF Invariant, TypeOK, Awaits
<1>1. \A q \in Req : q # r => ~Done(q)
  BY <1>0 DEF Done
<1>2. \A q \in Req : \A kind, cfg : ~Wait(q, kind, cfg)
  BY <1>0 DEF Wait
<1>3. waiting' # waiting
  BY <1>0
<1>4. CASE disk' = disk
  BY <1>4
<1>5. CASE ModelsListed(r)
  <2>1. PICK p \in Protocols : Save(ListSaves(disk, waiting[r].cfg, p))
    BY <1>0, <1>5, ModelsListedSaves
  <2>2. waiting[r].cfg \in Settings
    BY <1>0 DEF TypeOK
  <2> DEFINE new == ListSaves(disk, waiting[r].cfg, p)
  <2>3. /\ new \in Settings /\ \A f \in Chosen : new[f] = disk[f]
        /\ disk.key # None => new.key = disk.key
        /\ Usable(new.base)
    <3>1. Usable(waiting[r].cfg.base)
      BY <1>0, SettledIsUsable DEF Invariant, BasesAreSettled
    <3> QED BY <1>0, <2>2, <3>1, ListSavesSettings
  <2>4. disk' = Normalized(new)
    BY <2>1 DEF Save
  <2> HIDE DEF new
  <2>5. \A f \in {"enabled", "key", "model", "provider"} : disk'[f] = new[f]
    BY <2>3, <2>4, NormalizedIsSettings
  <2> QED BY <2>3, <2>5 DEF Chosen
<1>6. disk' = disk \/ ModelsListed(r)
  <2>1. ~SaveForm
    BY <1>3 DEF SaveForm
  <2>2. \A q \in Req : ~AskModels(q) /\ ~AskChat(q)
    BY <1>2 DEF AskModels, AskChat
  <2>3. \A q \in Req : ModelsListed(q) => q = r
    BY <1>1 DEF ModelsListed
  <2>4. \A q \in Req : ~Chatted(q)
    BY <1>0, <1>1 DEF Chatted, Awaits
  <2>5. (UNCHANGED vars) \/ Crash \/ (\E q \in Req : ProviderFails(q)) => disk' = disk
    BY DEF vars, Crash, ProviderFails
  <2> QED BY <2>1, <2>2, <2>3, <2>4, <2>5 DEF Next
<1> QED BY <1>4, <1>5, <1>6

\* A list that arrives late leaves the switch, the model and the protocol as
\* they were saved meanwhile, and a stored key; the base URL it may replace.
THEOREM ListsKeepChoices == Spec => LateListKeepsChoices
<1> DEFINE Keeps == \A r \in Req : Awaits(r, "models") /\ ~(r \in DOMAIN waiting') =>
          /\ \A f \in Chosen : disk'[f] = disk[f]
          /\ disk.key # None => disk'.key = disk.key
<1>1. Invariant /\ [Next]_vars => [Keeps]_vars
  BY ListKeepsChoices
<1> QED BY <1>1, InvariantHolds, PTL DEF Spec, LateListKeepsChoices

(***************************************************************************)
(* The login guard in front of the console                                 *)
(***************************************************************************)

(***************************************************************************)
(* Multiples                                                               *)
(***************************************************************************)

\* One multiple more.
LEMMA NextMultiple ==
    ASSUME NEW m \in Nat, NEW q \in Nat
    PROVE  (q + 1) * m = q * m + m /\ q * m \in Nat
OBVIOUS

\* Multiples grow with their factor.
LEMMA MultiplesGrow ==
    ASSUME NEW m \in Nat, NEW a \in Nat, NEW b \in Nat, a <= b
    PROVE  a * m <= b * m
<1>1. PICK d \in Nat : b = a + d
  <2>1. b - a \in Nat /\ b = a + (b - a)
    OBVIOUS
  <2> QED BY <2>1
<1>2. b * m = a * m + d * m /\ d * m \in Nat /\ a * m \in Nat
  BY <1>1
<1> QED BY <1>2

\* What exceeds b multiples and fits in a + 1 of them has b <= a.
LEMMA FullMultiples ==
    ASSUME NEW m \in Nat, NEW a \in Nat, NEW b \in Nat, b * m < (a + 1) * m
    PROVE  b <= a
<1>1. CASE a + 1 <= b
  <2>1. (a + 1) * m <= b * m
    BY <1>1, MultiplesGrow
  <2>2. (a + 1) * m \in Nat /\ b * m \in Nat
    BY NextMultiple
  <2> QED BY <2>1, <2>2
<1> QED BY <1>1

(***************************************************************************)
(* The inductive invariant                                                 *)
(***************************************************************************)

\* The streak of an address: q bans served, and the failures since the last.
\* A ban that stands, or has expired and is not forgotten yet, was given q
\* bans after the streak began, at the MaxFailures-th failure.
StreakOf(ip, q) ==
    /\ guesses[ip] = q * MaxFailures + failures[ip]
    /\ ip \notin DOMAIN banned =>
          /\ failures[ip] < MaxFailures
          /\ guesses[ip] > 0 => now >= since[ip] + q * BanTime
    /\ ip \in DOMAIN banned =>
          /\ failures[ip] = MaxFailures
          /\ banned[ip] >= since[ip] + q * BanTime + BanTime
          /\ banned[ip] <= now + BanTime

Streaks == \A ip \in Ip : \E q \in Nat : StreakOf(ip, q)

GuardInvariant == GuardTypeOK /\ Streaks

\* Every address begins with an empty streak.
LEMMA GuardInitEstablishesInvariant == GuardInit => GuardInvariant
<1> SUFFICES ASSUME GuardInit PROVE GuardInvariant
  OBVIOUS
<1> USE GuardIsOn, ClockIsBounded DEF GuardInit, NoFailures
<1>0. DOMAIN banned = {}
  OBVIOUS
<1>1. GuardTypeOK
  BY <1>0 DEF GuardTypeOK
<1>2. ASSUME NEW ip \in Ip PROVE StreakOf(ip, 0)
  BY <1>0 DEF StreakOf
<1> QED BY <1>1, <1>2 DEF GuardInvariant, Streaks

\* The streaks of the addresses that a step leaves alone are kept when the
\* clock does not go back.
LEMMA OthersKeepTheirStreak ==
    ASSUME GuardInvariant, NEW ip \in Ip, now' \in Nat, now <= now',
           guesses'[ip] = guesses[ip], failures'[ip] = failures[ip],
           since'[ip] = since[ip],
           (ip \in DOMAIN banned') <=> (ip \in DOMAIN banned),
           ip \in DOMAIN banned => banned'[ip] = banned[ip]
    PROVE  \E q \in Nat : StreakOf(ip, q)'
<1>1. PICK q \in Nat : StreakOf(ip, q)
  BY DEF GuardInvariant, Streaks
<1>2. now \in Nat /\ since[ip] \in Nat /\ q * BanTime \in Nat /\ BanTime \in Nat
  BY NextMultiple, GuardIsOn, ClockIsBounded DEF GuardInvariant, GuardTypeOK
<1>3. ip \in DOMAIN banned => banned[ip] \in Nat
  BY DEF GuardInvariant, GuardTypeOK
<1>4. StreakOf(ip, q)'
  BY <1>1, <1>2, <1>3 DEF StreakOf
<1> QED BY <1>4

\* A failure adds to the streak of its address, after one more ban if it had
\* an expired one.
LEMMA FailureKeepsInvariant ==
    ASSUME GuardInvariant, NEW ip \in Ip, LoginFails(ip)
    PROVE  GuardInvariant'
<1> DEFINE count == FailuresAfterCheck(ip) + 1
<1>1. /\ failures \in [Ip -> 0 .. MaxFailures] /\ guesses \in [Ip -> 0 .. MaxGuesses]
      /\ since \in [Ip -> 0 .. MaxTime] /\ now \in 0 .. MaxTime
      /\ DOMAIN banned \subseteq Ip /\ \A i \in DOMAIN banned : banned[i] \in Nat
      /\ MaxFailures \in Nat \ {0} /\ BanTime \in Nat /\ MaxTime \in Nat /\ MaxGuesses \in Nat
  BY GuardIsOn, ClockIsBounded DEF GuardInvariant, GuardTypeOK
<1>2. PICK q \in Nat : StreakOf(ip, q)
  BY DEF GuardInvariant, Streaks
<1>3. /\ q * MaxFailures \in Nat /\ (q + 1) * MaxFailures = q * MaxFailures + MaxFailures
      /\ q * BanTime \in Nat /\ (q + 1) * BanTime = q * BanTime + BanTime
  BY <1>1, NextMultiple
<1>4. ip \in DOMAIN banned => banned[ip] <= now
  BY <1>1 DEF LoginFails, IsBanned
<1>5. count \in 1 .. MaxFailures
  BY <1>1, <1>2 DEF StreakOf, FailuresAfterCheck
<1>6. /\ failures' = [failures EXCEPT ![ip] = count]
      /\ guesses' = [guesses EXCEPT ![ip] = guesses[ip] + 1] /\ guesses[ip] < MaxGuesses
      /\ since' = [since EXCEPT ![ip] = IF guesses[ip] = 0 THEN now ELSE since[ip]]
      /\ now' = now
  BY DEF LoginFails, RegisterFailure
<1>7. /\ \A i \in Ip \ {ip} : /\ (i \in DOMAIN banned') <=> (i \in DOMAIN banned)
                              /\ i \in DOMAIN banned => banned'[i] = banned[i]
      /\ DOMAIN banned' \subseteq Ip
      /\ (ip \in DOMAIN banned') <=> count >= MaxFailures
      /\ ip \in DOMAIN banned' => banned'[ip] = now + BanTime
  <2>1. CASE count >= MaxFailures
    <3>1. banned' = Banned(ip)
      BY <2>1 DEF LoginFails, RegisterFailure
    <3> QED BY <3>1, <2>1, <1>1 DEF Banned
  <2>2. CASE ~(count >= MaxFailures)
    <3>1. banned' = Unbanned(ip)
      BY <2>2 DEF LoginFails, RegisterFailure
    <3> QED BY <3>1, <2>2, <1>1 DEF Unbanned
  <2> QED BY <2>1, <2>2
<1> HIDE DEF count
<1>8. GuardTypeOK'
  <2>1. \A i \in DOMAIN banned' : banned'[i] \in Nat
    BY <1>1, <1>7
  <2> QED BY <1>1, <1>5, <1>6, <1>7, <2>1 DEF GuardTypeOK
<1>9. \E r \in Nat : StreakOf(ip, r)'
  <2>1. CASE ip \in DOMAIN banned
    <3>1. count = 1 /\ guesses[ip] = q * MaxFailures + MaxFailures
      BY <2>1, <1>2 DEF StreakOf, FailuresAfterCheck, count
    <3>2. guesses[ip] > 0 /\ now >= since[ip] + q * BanTime + BanTime
      BY <2>1, <1>1, <1>2, <1>3, <1>4, <3>1 DEF StreakOf
    <3>3. StreakOf(ip, q + 1)'
      BY <1>1, <1>3, <1>5, <1>6, <1>7, <3>1, <3>2 DEF StreakOf
    <3> QED BY <3>3
  <2>2. CASE ip \notin DOMAIN banned
    <3>1. count = failures[ip] + 1 /\ guesses[ip] = q * MaxFailures + failures[ip]
      BY <2>2, <1>2 DEF StreakOf, FailuresAfterCheck, count
    <3>2. CASE guesses[ip] = 0
      <4>1. failures[ip] = 0 /\ q * MaxFailures = 0
        BY <3>1, <3>2, <1>1, <1>3
      <4>2. 0 * MaxFailures = 0 /\ 0 * BanTime = 0
        BY <1>1
      <4>3. StreakOf(ip, 0)'
        BY <1>1, <1>5, <1>6, <1>7, <3>1, <3>2, <4>1, <4>2 DEF StreakOf
      <4> QED BY <4>3
    <3>3. CASE guesses[ip] # 0
      <4>1. guesses[ip] > 0 /\ now >= since[ip] + q * BanTime
        BY <2>2, <3>3, <1>1, <1>2 DEF StreakOf
      <4>2. StreakOf(ip, q)'
        BY <1>1, <1>3, <1>5, <1>6, <1>7, <3>1, <4>1 DEF StreakOf
      <4> QED BY <4>2
    <3> QED BY <3>2, <3>3
  <2> QED BY <2>1, <2>2
<1>10. ASSUME NEW i \in Ip \ {ip} PROVE \E r \in Nat : StreakOf(i, r)'
  <2>1. /\ guesses'[i] = guesses[i] /\ failures'[i] = failures[i] /\ since'[i] = since[i]
        /\ now' \in Nat /\ now <= now'
    BY <1>1, <1>6
  <2> QED BY <2>1, <1>7, OthersKeepTheirStreak
<1> QED BY <1>8, <1>9, <1>10 DEF GuardInvariant, Streaks

\* A success, or a new process, starts the streak again.
LEMMA FreshStreak ==
    ASSUME NEW ip \in Ip, guesses'[ip] = 0, failures'[ip] = 0, ip \notin DOMAIN banned'
    PROVE  \E q \in Nat : StreakOf(ip, q)'
<1>1. 0 * MaxFailures = 0 /\ MaxFailures > 0
  BY GuardIsOn
<1>2. StreakOf(ip, 0)'
  BY <1>1 DEF StreakOf
<1> QED BY <1>2

\* A success ends the streak of its address.
LEMMA SuccessKeepsInvariant ==
    ASSUME GuardInvariant, NEW ip \in Ip, LoginSucceeds(ip)
    PROVE  GuardInvariant'
<1>1. /\ failures' = [failures EXCEPT ![ip] = 0] /\ guesses' = [guesses EXCEPT ![ip] = 0]
      /\ banned' = Unbanned(ip) /\ now' = now /\ since' = since
  BY DEF LoginSucceeds, RegisterSuccess
<1>2. GuardTypeOK
  BY DEF GuardInvariant
<1>3. GuardTypeOK'
  BY <1>1, <1>2, GuardIsOn, ClockIsBounded DEF GuardTypeOK, Unbanned
<1>4. \E q \in Nat : StreakOf(ip, q)'
  BY <1>1, <1>2, FreshStreak DEF GuardTypeOK, Unbanned
<1>5. ASSUME NEW i \in Ip \ {ip} PROVE \E q \in Nat : StreakOf(i, q)'
  <2>1. /\ guesses'[i] = guesses[i] /\ failures'[i] = failures[i] /\ since'[i] = since[i]
        /\ now' \in Nat /\ now <= now'
        /\ (i \in DOMAIN banned') <=> (i \in DOMAIN banned)
        /\ i \in DOMAIN banned => banned'[i] = banned[i]
    BY <1>1, <1>2, ClockIsBounded DEF GuardTypeOK, Unbanned
  <2> QED BY <2>1, OthersKeepTheirStreak
<1> QED BY <1>3, <1>4, <1>5 DEF GuardInvariant, Streaks

\* Every step keeps the invariant.
LEMMA GuardNextKeepsInvariant == GuardInvariant /\ [GuardNext]_guardVars => GuardInvariant'
<1> SUFFICES ASSUME GuardInvariant, [GuardNext]_guardVars PROVE GuardInvariant'
  OBVIOUS
<1>1. GuardTypeOK
  BY DEF GuardInvariant
<1>2. CASE Tick
  <2>1. GuardTypeOK'
    BY <1>1, <1>2, ClockIsBounded DEF GuardTypeOK, Tick
  <2>2. \A ip \in Ip : \E q \in Nat : StreakOf(ip, q)'
    <3>1. now' \in Nat /\ now <= now'
      BY <1>1, <1>2, ClockIsBounded DEF GuardTypeOK, Tick
    <3>2. UNCHANGED <<failures, banned, guesses, since>>
      BY <1>2 DEF Tick
    <3> QED BY <3>1, <3>2, OthersKeepTheirStreak
  <2> QED BY <2>1, <2>2 DEF GuardInvariant, Streaks
<1>3. CASE Restart
  <2>1. /\ \A ip \in Ip : failures'[ip] = 0 /\ guesses'[ip] = 0 /\ ip \notin DOMAIN banned'
        /\ DOMAIN banned' = {}
    BY <1>3 DEF Restart, NoFailures
  <2>2. GuardTypeOK'
    BY <1>1, <1>3, <2>1, GuardIsOn, ClockIsBounded DEF GuardTypeOK, Restart, NoFailures
  <2>3. \A ip \in Ip : \E q \in Nat : StreakOf(ip, q)'
    BY <2>1, FreshStreak
  <2> QED BY <2>2, <2>3 DEF GuardInvariant, Streaks
<1>4. ASSUME NEW ip \in Ip, LoginFails(ip) PROVE GuardInvariant'
  BY <1>4, FailureKeepsInvariant
<1>5. ASSUME NEW ip \in Ip, LoginSucceeds(ip) PROVE GuardInvariant'
  BY <1>5, SuccessKeepsInvariant
<1>6. CASE UNCHANGED guardVars
  BY <1>6 DEF GuardInvariant, GuardTypeOK, Streaks, StreakOf, guardVars
<1> QED BY <1>2, <1>3, <1>4, <1>5, <1>6 DEF GuardNext

\* The guard's state is well typed and every streak accounts for its bans.
THEOREM GuardInvariantHolds == GuardSpec => []GuardInvariant
<1> QED BY GuardInitEstablishesInvariant, GuardNextKeepsInvariant, PTL DEF GuardSpec

(***************************************************************************)
(* The properties                                                          *)
(***************************************************************************)

\* The guard's dicts keep their types; no count of failures passes the limit.
THEOREM GuardTypeCorrect == GuardSpec => []GuardTypeOK
<1>1. GuardInvariant => GuardTypeOK
  BY DEF GuardInvariant
<1> QED BY <1>1, GuardInvariantHolds, PTL

\* Served bans bound the rate: a streak of more than k times MaxFailures
\* wrong guesses has k bans in it, each of the full length.
LEMMA StreaksBoundTheRate == GuardInvariant => RateLimit
<1> SUFFICES ASSUME GuardInvariant, NEW ip \in Ip, NEW k \in 1 .. MaxGuesses,
                    guesses[ip] > k * MaxFailures
             PROVE  now - since[ip] >= k * BanTime
  BY DEF RateLimit
<1>1. PICK q \in Nat : StreakOf(ip, q)
  BY DEF GuardInvariant, Streaks
<1>2. /\ failures[ip] \in Nat /\ now \in Nat /\ since[ip] \in Nat /\ guesses[ip] \in Nat
      /\ MaxFailures \in Nat \ {0} /\ BanTime \in Nat /\ k \in Nat
      /\ ip \in DOMAIN banned => banned[ip] \in Nat
  BY GuardIsOn, ClockIsBounded DEF GuardInvariant, GuardTypeOK
<1>3. /\ (q + 1) * MaxFailures = q * MaxFailures + MaxFailures /\ q * MaxFailures \in Nat
      /\ k * MaxFailures \in Nat /\ q * BanTime \in Nat /\ k * BanTime \in Nat
  BY <1>2, NextMultiple
<1>4. guesses[ip] = q * MaxFailures + failures[ip] /\ failures[ip] <= MaxFailures
  BY <1>1, <1>2 DEF StreakOf
<1>5. k * MaxFailures < (q + 1) * MaxFailures
  BY <1>2, <1>3, <1>4
<1>6. k <= q
  BY <1>2, <1>5, FullMultiples
<1>7. k * BanTime <= q * BanTime
  BY <1>2, <1>6, MultiplesGrow
<1>8. now >= since[ip] + q * BanTime
  BY <1>1, <1>2, <1>3, <1>4 DEF StreakOf
<1> QED BY <1>2, <1>3, <1>7, <1>8

\* More than k times MaxFailures wrong guesses from an address take k bans.
THEOREM RateIsLimited == GuardSpec => []RateLimit
<1> QED BY GuardInvariantHolds, StreaksBoundTheRate, PTL

\* A streak with a ban in it has MaxFailures guesses.
LEMMA StreaksEarnBans == GuardInvariant => BanIsEarned
<1> SUFFICES ASSUME GuardInvariant, NEW ip \in DOMAIN banned
             PROVE  guesses[ip] >= MaxFailures /\ banned[ip] <= now + BanTime
  BY DEF BanIsEarned
<1>1. ip \in Ip
  BY DEF GuardInvariant, GuardTypeOK
<1>2. PICK q \in Nat : StreakOf(ip, q)
  BY <1>1 DEF GuardInvariant, Streaks
<1>3. q * MaxFailures \in Nat /\ MaxFailures \in Nat
  BY NextMultiple, GuardIsOn
<1> QED BY <1>2, <1>3 DEF StreakOf

\* A ban stands only for an address with MaxFailures wrong guesses of its own,
\* and not for longer than BanTime.
THEOREM BansAreEarned == GuardSpec => []BanIsEarned
<1> QED BY GuardInvariantHolds, StreaksEarnBans, PTL
=============================================================================
