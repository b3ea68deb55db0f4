------------------------ MODULE PaymentRouterProofs ------------------------
(***************************************************************************)
(* What PaymentRouter promises, for any number of calls, administrators    *)
(* and health checks, any requests, priorities, limits and currencies.     *)
(***************************************************************************)
EXTENDS PaymentRouter, FiniteSetTheorems, SequenceTheorems, TLAPS

-----------------------------------------------------------------------------
(* Lists of providers.  The order lists the enabled providers, each once;  *)
(* the route of a payment those of them that take its currency.            *)

Lists(s, S) ==
  /\ s \in Seq(Providers)
  /\ \A i, j \in 1 .. Len(s) : s[i] = s[j] => i = j
  /\ \A p : p \in S <=> \E i \in 1 .. Len(s) : s[i] = p

LEMMA ListsEmpty == Lists(<<>>, {})
BY DEF Lists

LEMMA ListsOne ==
  ASSUME NEW p \in Providers
  PROVE  Lists(<<p>>, {p})
BY DEF Lists

LEMMA ListsAdd ==
  ASSUME NEW s, NEW S, Lists(s, S), NEW p \in Providers, p \notin S
  PROVE  Lists(Append(s, p), S \cup {p})
<1> DEFINE t == Append(s, p)
           n == Len(s)
<1>1. s \in Seq(Providers) /\ n \in Nat
  BY DEF Lists
<1>2. t \in Seq(Providers) /\ Len(t) = n + 1 /\ t[n + 1] = p
      /\ \A i \in 1 .. n : t[i] = s[i]
  BY <1>1
<1>3. \A i \in 1 .. n + 1 : i \in 1 .. n \/ i = n + 1
  BY <1>1
<1>4. n + 1 \in 1 .. n + 1 /\ \A i \in 1 .. n : i \in 1 .. n + 1
  BY <1>1
<1> HIDE DEF t, n
<1>5. \A i, j \in 1 .. n + 1 : t[i] = t[j] => i = j
  BY <1>2, <1>3 DEF Lists, n
<1>6. ASSUME NEW q
      PROVE  q \in S \cup {p} <=> \E i \in 1 .. n + 1 : t[i] = q
  BY <1>2, <1>3, <1>4 DEF Lists, n
<1> QED BY <1>2, <1>5, <1>6 DEF Lists, t

LEMMA ListsShort ==
  ASSUME NEW s, NEW S, Lists(s, S)
  PROVE  Len(s) \in 0 .. 2
<1> DEFINE n == Len(s)
<1>1. n \in Nat /\ \A i \in 1 .. n : s[i] \in Providers
  BY DEF Lists
<1>2. \A i, j \in 1 .. n : s[i] = s[j] => i = j
  BY DEF Lists
<1> HIDE DEF n
<1>3. ASSUME n > 2 PROVE FALSE
  <2>1. 1 \in 1 .. n /\ 2 \in 1 .. n /\ 3 \in 1 .. n
    BY <1>1, <1>3
  <2>2. s[1] # s[2] /\ s[1] # s[3] /\ s[2] # s[3]
    BY <1>2, <2>1
  <2> QED BY <1>1, <2>1, <2>2 DEF Providers
<1>4. n \in 0 .. 2
  BY <1>1, <1>3
<1> QED BY <1>4 DEF n

(* What RebuildOrder chooses from.                                         *)
LEMMA SeqsList ==
  ASSUME NEW S, S \subseteq Providers, NEW s \in SetToSeqs(S)
  PROVE  Lists(s, S)
<1> DEFINE n == Cardinality(S)
<1>1. \/ S = {} /\ n = 0
      \/ n = 1 /\ \E p \in Providers : S = {p}
      \/ S = Providers /\ n = 2
  <2>1. IsFiniteSet({"stripe"}) /\ Cardinality({"stripe"}) = 1
    BY FS_Singleton
  <2>2. Cardinality({"stripe"} \cup {"paypal"}) = 2
    BY <2>1, FS_AddElement
  <2>3. {"stripe"} \cup {"paypal"} = Providers
    BY DEF Providers
  <2>4. S = {} \/ S = Providers \/ \E p \in Providers : S = {p}
    BY DEF Providers
  <2>5. Cardinality({}) = 0 /\ \A p : Cardinality({p}) = 1
    BY FS_EmptySet, FS_Singleton
  <2> QED BY <2>2, <2>3, <2>4, <2>5
<1>2. s \in [1 .. n -> S] /\ \A i, j \in 1 .. n : i # j => s[i] # s[j]
  BY DEF SetToSeqs
<1>3. n \in Nat
  BY <1>1
<1> HIDE DEF n
<1>4. s \in Seq(Providers) /\ Len(s) = n
  BY <1>2, <1>3
<1>5. ASSUME NEW p PROVE p \in S <=> \E i \in 1 .. n : s[i] = p
  <2>1. CASE n = 0 /\ S = {}
    BY <2>1
  <2>2. CASE n = 1 /\ \E q \in Providers : S = {q}
    BY <1>2, <2>2
  <2>3. CASE n = 2 /\ S = Providers
    <3>1. s[1] \in S /\ s[2] \in S /\ s[1] # s[2]
      BY <1>2, <2>3
    <3> QED BY <1>2, <2>3, <3>1 DEF Providers
  <2> QED BY <1>1, <2>1, <2>2, <2>3
<1> QED BY <1>2, <1>4, <1>5 DEF Lists

(* The order is by priority; a route has before each provider all those of *)
(* S that rank before it.                                                  *)
ByPriority == \A i, j \in DOMAIN order : i < j => Priority[order[i]] <= Priority[order[j]]

Ranked(s, S, r) ==
  \A i \in 1 .. Len(s), p \in S : Ranks(r, p, s[i]) => \E j \in 1 .. i - 1 : s[j] = p

(* What is added last ranks before nothing that is there.                  *)
LEMMA RankedAdd ==
  ASSUME NEW s, NEW S, NEW r, Lists(s, S), NEW p \in Providers, p \notin S, Ranked(s, S, r),
         \A q \in S : ~Ranks(r, p, q)
  PROVE  Ranked(Append(s, p), S \cup {p}, r)
<1> DEFINE t == Append(s, p)
           n == Len(s)
<1>1. s \in Seq(Providers) /\ n \in Nat /\ Priority[p] \in Int
  BY ConstantsAssumption DEF Lists
<1>2. Len(t) = n + 1 /\ t[n + 1] = p /\ \A i \in 1 .. n : t[i] = s[i]
  BY <1>1
<1>3. \A q \in S : \E j \in 1 .. n : s[j] = q
  BY DEF Lists
<1>4. \A i \in 1 .. n : s[i] \in S
  BY DEF Lists
<1>5. ~Ranks(r, p, p)
  BY <1>1 DEF Ranks
<1> HIDE DEF t, n
<1>6. ASSUME NEW i \in 1 .. n + 1, NEW q \in S \cup {p}, Ranks(r, q, t[i])
      PROVE  \E j \in 1 .. i - 1 : t[j] = q
  <2>1. CASE i = n + 1
    <3>1. q \in S
      BY <1>2, <1>5, <1>6, <2>1
    <3>2. PICK j \in 1 .. n : s[j] = q
      BY <1>3, <3>1
    <3>3. j \in 1 .. i - 1 /\ t[j] = q
      BY <1>1, <1>2, <2>1, <3>2
    <3> QED BY <3>3
  <2>2. CASE i # n + 1
    <3>1. i \in 1 .. n /\ t[i] = s[i]
      BY <1>1, <1>2, <2>2
    <3>2. q \in S
      BY <1>4, <1>6, <3>1
    <3>3. PICK j \in 1 .. i - 1 : s[j] = q
      BY <1>6, <3>1, <3>2 DEF Ranked, n
    <3>4. j \in 1 .. n
      BY <1>1, <3>1
    <3>5. t[j] = q
      BY <1>2, <3>3, <3>4
    <3> QED BY <3>5
  <2> QED BY <2>1, <2>2
<1> QED BY <1>2, <1>6 DEF Ranked, t

(* The loop of getProvidersForRequest.                                     *)
LEMMA RouteLists ==
  ASSUME NEW r, Lists(order, enabled), enabled \subseteq Providers, ByPriority
  PROVE  LET E == {p \in enabled : SupportsCurrency(p, r.currency)}
         IN  Lists(GetProvidersForRequest(r), E) /\ Ranked(GetProvidersForRequest(r), E, r)
<1> DEFINE N == Len(order)
           first == Preferred(r)
           Take(p) == p # r.preferred /\ SupportsCurrency(p, r.currency)
           Step(i, l) == IF Take(order[i]) THEN Append(l, order[i]) ELSE l
           Loop(l) == l = [i \in 0 .. N |-> IF i = 0 THEN first ELSE Step(i, l[i - 1])]
           list == CHOOSE l : Loop(l)
           one == Step(1, first)
           two == Step(2, one)
<1>1. N \in 0 .. 2
  BY ListsShort
<1>2. Loop([i \in 0 .. N |-> IF i = 0 THEN first ELSE IF i = 1 THEN one ELSE two])
  <2> DEFINE l == [i \in 0 .. N |-> IF i = 0 THEN first ELSE IF i = 1 THEN one ELSE two]
  <2>1. ASSUME NEW i \in 0 .. N, i # 0 PROVE l[i] = Step(i, l[i - 1])
    <3>1. i = 1 \/ i = 2
      <4> HIDE DEF N
      <4> QED BY <1>1, <2>1
    <3>2. CASE i = 1
      <4>1. l[0] = first /\ l[1] = one
        BY <1>1, <3>2
      <4> QED BY <3>2, <4>1
    <3>3. CASE i = 2
      <4>1. l[1] = one /\ l[2] = two
        BY <1>1, <3>3
      <4> QED BY <3>3, <4>1
    <3> QED BY <3>1, <3>2, <3>3
  <2>2. l[0] = first
    BY <1>1
  <2> HIDE DEF Step
  <2> QED BY <2>1, <2>2
<1>3. Loop(list)
  <2> HIDE DEF Loop
  <2> QED BY <1>2
<1>4. GetProvidersForRequest(r) = list[N]
  BY DEF GetProvidersForRequest, WithOthers
<1> HIDE DEF list, Step
<1>5. /\ list[0] = first
      /\ N >= 1 => list[1] = Step(1, list[0])
      /\ N = 2 => list[2] = Step(2, list[1])
  <2>1. list = [i \in 0 .. N |-> IF i = 0 THEN first ELSE Step(i, list[i - 1])]
    BY <1>3
  <2> HIDE DEF N, first
  <2>2. \A i \in 0 .. N : list[i] = IF i = 0 THEN first ELSE Step(i, list[i - 1])
    BY <2>1
  <2>3. 0 \in 0 .. N /\ (N >= 1 => 1 \in 0 .. N) /\ (N = 2 => 2 \in 0 .. N)
    BY <1>1
  <2>4. 1 - 1 = 0 /\ 2 - 1 = 1
    OBVIOUS
  <2> QED BY <2>2, <2>3, <2>4
<1> DEFINE Wanted(i) == {p \in enabled : p = r.preferred /\ SupportsCurrency(p, r.currency)}
                        \cup {p \in enabled : Take(p) /\ \E j \in 1 .. i : order[j] = p}
<1>6. Lists(list[0], Wanted(0)) /\ Ranked(list[0], Wanted(0), r)
  <2>1. CASE r.preferred \in enabled /\ SupportsCurrency(r.preferred, r.currency)
    <3>1. list[0] = <<r.preferred>> /\ Wanted(0) = {r.preferred}
      BY <1>5, <2>1 DEF Preferred
    <3>2. Lists(list[0], Wanted(0))
      BY <2>1, <3>1, ListsOne
    <3>3. \A i \in 1 .. Len(list[0]) : list[0][i] = r.preferred
      BY <3>1
    <3> HIDE DEF Wanted
    <3> QED BY <3>2, <3>3 DEF Ranked, Ranks
  <2>2. CASE ~(r.preferred \in enabled /\ SupportsCurrency(r.preferred, r.currency))
    <3>1. list[0] = <<>> /\ Wanted(0) = {}
      BY <1>5, <2>2 DEF Preferred
    <3>2. Ranked(<<>>, {}, r)
      BY DEF Ranked
    <3> QED BY <3>1, <3>2, ListsEmpty
  <2> QED BY <2>1, <2>2
<1>7. ASSUME NEW i \in 1 .. N, Lists(list[i - 1], Wanted(i - 1)), list[i] = Step(i, list[i - 1]),
             Ranked(list[i - 1], Wanted(i - 1), r)
      PROVE  Lists(list[i], Wanted(i)) /\ Ranked(list[i], Wanted(i), r)
  <2>1. order[i] \in enabled /\ order[i] \in Providers
        /\ \A j \in 1 .. i - 1 : order[j] # order[i]
    BY <1>1 DEF Lists
  <2>2. \A p : (\E j \in 1 .. i : order[j] = p) <=> p = order[i] \/ \E j \in 1 .. i - 1 : order[j] = p
    <3>1. \A j \in 1 .. i : j = i \/ j \in 1 .. i - 1
      BY <1>1
    <3>2. i \in 1 .. i /\ \A j \in 1 .. i - 1 : j \in 1 .. i
      BY <1>1
    <3> QED BY <3>1, <3>2
  <2>3. CASE Take(order[i])
    <3>1. order[i] \notin Wanted(i - 1) /\ Wanted(i) = Wanted(i - 1) \cup {order[i]}
      BY <2>1, <2>2, <2>3
    <3>2. list[i] = Append(list[i - 1], order[i])
      BY <1>7, <2>3 DEF Step
    <3>3. ASSUME NEW q \in Wanted(i - 1) PROVE ~Ranks(r, order[i], q)
      <4>1. CASE q = r.preferred
        BY <4>1 DEF Ranks
      <4>2. CASE q # r.preferred
        <5>1. PICK j \in 1 .. i - 1 : order[j] = q
          BY <3>3, <4>2
        <5>2. j \in DOMAIN order /\ i \in DOMAIN order /\ j < i
          BY <1>1 DEF Lists
        <5>3. Priority[q] <= Priority[order[i]]
          BY <5>1, <5>2 DEF ByPriority
        <5>4. Priority[q] \in Int /\ Priority[order[i]] \in Int
          BY <2>1, <3>3, ConstantsAssumption
        <5> QED BY <2>3, <5>3, <5>4 DEF Ranks
      <4> QED BY <4>1, <4>2
    <3> HIDE DEF Wanted
    <3> QED BY <1>7, <2>1, <3>1, <3>2, <3>3, ListsAdd, RankedAdd
  <2>4. CASE ~Take(order[i])
    <3>1. Wanted(i) = Wanted(i - 1)
      BY <2>2, <2>4
    <3> QED BY <1>7, <2>4, <3>1 DEF Step
  <2> QED BY <2>3, <2>4
<1>8. Lists(list[N], Wanted(N)) /\ Ranked(list[N], Wanted(N), r)
  <2> HIDE DEF Wanted
  <2>1. CASE N = 0
    BY <1>6, <2>1
  <2>2. CASE N = 1
    BY <1>5, <1>6, <1>7, <2>2
  <2>3. CASE N = 2
    <3>1. Lists(list[1], Wanted(1)) /\ Ranked(list[1], Wanted(1), r)
      BY <1>5, <1>6, <1>7, <2>3
    <3> QED BY <1>5, <1>7, <2>3, <3>1
  <2> QED BY <1>1, <2>1, <2>2, <2>3
<1>9. Wanted(N) = {p \in enabled : SupportsCurrency(p, r.currency)}
  BY DEF Lists
<1> QED BY <1>4, <1>8, <1>9

-----------------------------------------------------------------------------
(* The attempts of a payment, as a sequence s, when the providers e were   *)
(* eligible.                                                               *)

Try == [provider : Providers, how : {"ok", "retry", "client"}]
At(s, p) == {i \in DOMAIN s : s[i].provider = p}
Used(s, p) == Cardinality(At(s, p)) = Limit(p)

PolicyOK(s, e) ==
  /\ \A p \in Providers :
       /\ Cardinality(At(s, p)) <= (IF p \in e THEN Limit(p) ELSE 0)
       /\ \A i, j \in At(s, p) : i < j => i .. j \subseteq At(s, p)
  /\ \A i \in 1 .. Len(s) - 1 :
       LET p == s[i].provider IN
       IF s[i + 1].provider = p THEN s[i].how = "retry" ELSE s[i].how = "client" \/ Used(s, p)

(* The last k attempts, which are all there are at p, and may be followed  *)
(* by another one.                                                         *)
Visit(s, p, k) ==
  /\ k \in 0 .. Len(s) /\ k < Limit(p)
  /\ \A i \in 1 .. Len(s) : s[i].provider = p <=> i > Len(s) - k
  /\ Len(s) > 0 =>
       LET last == s[Len(s)] IN
       IF k > 0 THEN last.how = "retry" ELSE last.how = "client" \/ Used(s, last.provider)

(* A provider is tried after all those of e that rank before it.           *)
InOrder(s, e, r) ==
  \A i \in 1 .. Len(s), p \in e :
    Ranks(r, p, s[i].provider) => \E j \in 1 .. i - 1 : s[j].provider = p

LEMMA InOrderGoesOn ==
  ASSUME NEW s \in Seq(Try), NEW e, NEW r, NEW x \in Try, InOrder(s, e, r),
         \A p \in e : Ranks(r, p, x.provider) => At(s, p) # {},
         NEW t, t = Append(s, x)
  PROVE  InOrder(t, e, r)
<1> DEFINE n == Len(s)
<1>1. n \in Nat /\ DOMAIN s = 1 .. n
  OBVIOUS
<1>2. Len(t) = n + 1 /\ t[n + 1] = x /\ \A i \in 1 .. n : t[i] = s[i]
  OBVIOUS
<1> HIDE DEF n
<1> SUFFICES ASSUME NEW i \in 1 .. n + 1, NEW p \in e, Ranks(r, p, t[i].provider)
             PROVE  \E j \in 1 .. i - 1 : t[j].provider = p
  BY <1>2 DEF InOrder
<1>3. CASE i = n + 1
  <2>1. PICK j \in 1 .. n : s[j].provider = p
    BY <1>1, <1>2, <1>3 DEF At
  <2>2. j \in 1 .. i - 1 /\ t[j].provider = p
    BY <1>1, <1>2, <1>3, <2>1
  <2> QED BY <2>2
<1>4. CASE i # n + 1
  <2>1. i \in 1 .. n /\ t[i] = s[i]
    BY <1>1, <1>2, <1>4
  <2>2. PICK j \in 1 .. i - 1 : s[j].provider = p
    BY <2>1 DEF InOrder, n
  <2>3. j \in 1 .. n
    BY <1>1, <2>1
  <2>4. t[j].provider = p
    BY <1>2, <2>2, <2>3
  <2> QED BY <2>4
<1> QED BY <1>3, <1>4

LEMMA LimitType ==
  ASSUME NEW p \in Providers
  PROVE  Limit(p) \in Nat /\ Limit(p) >= 1
<1>1. MaxRetries[p] \in Int
  BY ConstantsAssumption
<1> QED BY <1>1 DEF Limit

LEMMA PolicyEmpty ==
  ASSUME NEW e
  PROVE  PolicyOK(<<>>, e)
<1>1. \A p : At(<<>>, p) = {}
  BY DEF At
<1>2. Cardinality({}) = 0
  BY FS_EmptySet
<1>3. \A p \in Providers : 0 <= (IF p \in e THEN Limit(p) ELSE 0)
  BY LimitType
<1>4. \A p \in Providers : Cardinality(At(<<>>, p)) <= (IF p \in e THEN Limit(p) ELSE 0)
  BY <1>1, <1>2, <1>3
<1> QED BY <1>1, <1>4 DEF PolicyOK

LEMMA VisitStarts ==
  ASSUME NEW s \in Seq(Try), NEW p \in Providers, At(s, p) = {},
         Len(s) > 0 => s[Len(s)].how = "client" \/ Used(s, s[Len(s)].provider)
  PROVE  Visit(s, p, 0)
<1>1. Len(s) \in Nat /\ DOMAIN s = 1 .. Len(s)
  OBVIOUS
<1>2. \A i \in 1 .. Len(s) : s[i].provider # p
  BY <1>1 DEF At
<1> QED BY <1>1, <1>2, LimitType DEF Visit

(* One more attempt, x, at p makes t of s.                                 *)
Grown(s, t, e, p, k, x) ==
  /\ Len(t) = Len(s) + 1 /\ t[Len(t)] = x
  /\ PolicyOK(t, e)
  /\ Cardinality(At(t, p)) = k + 1
  /\ \A i \in 1 .. Len(t) : t[i].provider = p <=> i > Len(t) - (k + 1)
  /\ \A q : q # p => At(t, q) = At(s, q)

LEMMA VisitGoesOn ==
  ASSUME NEW s \in Seq(Try), NEW e, NEW p \in Providers, NEW k, NEW x \in Try,
         p \in e, PolicyOK(s, e), Visit(s, p, k), x.provider = p,
         NEW t, t = Append(s, x)
  PROVE  t \in Seq(Try) /\ Grown(s, t, e, p, k, x)
<1> DEFINE n == Len(s)
<1>1. n \in Nat /\ DOMAIN s = 1 .. n /\ k \in 0 .. n /\ k \in Nat
  BY DEF Visit
<1>2. /\ t \in Seq(Try) /\ Len(t) = n + 1 /\ t[n + 1] = x /\ DOMAIN t = 1 .. n + 1
      /\ \A i \in 1 .. n : t[i] = s[i]
  OBVIOUS
<1>a. \A i \in 1 .. n : s[i].provider = p <=> i > n - k
  BY DEF Visit
<1>3. At(s, p) = n - k + 1 .. n
  BY <1>1, <1>a DEF At
<1>4. \A i \in 1 .. n + 1 : t[i].provider = p <=> i > (n + 1) - (k + 1)
  <2> HIDE DEF n
  <2> SUFFICES ASSUME NEW i \in 1 .. n + 1 PROVE t[i].provider = p <=> i > (n + 1) - (k + 1)
    OBVIOUS
  <2>1. CASE i \in 1 .. n
    BY <1>1, <1>2, <1>a, <2>1
  <2>2. CASE i = n + 1
    BY <1>1, <1>2, <2>2
  <2> QED BY <1>1, <2>1, <2>2
<1>5. At(t, p) = n - k + 1 .. n + 1
  BY <1>1, <1>2, <1>4 DEF At
<1>6. \A q : q # p => At(t, q) = At(s, q)
  <2> HIDE DEF n
  <2> QED BY <1>1, <1>2 DEF At
<1>7. Cardinality(At(t, p)) = k + 1 /\ Cardinality(At(s, p)) = k
  <2> HIDE DEF n
  <2> QED BY <1>1, <1>3, <1>5, FS_Interval
<1>8. k + 1 <= Limit(p)
  BY <1>1, LimitType DEF Visit
<1>9. ASSUME NEW q \in Providers
      PROVE  /\ Cardinality(At(t, q)) <= (IF q \in e THEN Limit(q) ELSE 0)
             /\ \A i, j \in At(t, q) : i < j => i .. j \subseteq At(t, q)
  <2>1. CASE q = p
    BY <1>1, <1>5, <1>7, <1>8, <2>1
  <2>2. CASE q # p
    BY <1>6, <2>2 DEF PolicyOK
  <2> QED BY <2>1, <2>2
<1>10. ASSUME NEW i \in 1 .. n
       PROVE  LET q == t[i].provider IN
              IF t[i + 1].provider = q THEN t[i].how = "retry" ELSE t[i].how = "client" \/ Used(t, q)
  <2>1. t[i] = s[i] /\ s[i].provider \in Providers
    <3>1. t[i] = s[i] /\ s[i] \in Try
      BY <1>2
    <3> QED BY <3>1 DEF Try
  <2>2. CASE i = n
    <3>1. t[i + 1] = x
      BY <1>2, <2>2
    <3>2. CASE k > 0
      <4>1. s[i].provider = p /\ s[i].how = "retry"
        BY <1>1, <1>a, <2>2, <3>2 DEF Visit
      <4> QED BY <2>1, <3>1, <4>1
    <3>3. CASE k = 0
      <4>1. s[i].provider # p /\ (s[i].how = "client" \/ Used(s, s[i].provider))
        BY <1>1, <1>a, <2>2, <3>3 DEF Visit
      <4>2. Used(s, s[i].provider) => Used(t, s[i].provider)
        BY <1>6, <4>1 DEF Used
      <4> QED BY <2>1, <3>1, <4>1, <4>2
    <3> QED BY <1>1, <3>2, <3>3
  <2>3. CASE i # n
    <3>1. i \in 1 .. n - 1 /\ i + 1 \in 1 .. n
      <4> HIDE DEF n
      <4> QED BY <1>1, <2>3
    <3>2. t[i + 1] = s[i + 1]
      BY <1>2, <3>1
    <3>3. IF s[i + 1].provider = s[i].provider
            THEN s[i].how = "retry" ELSE s[i].how = "client" \/ Used(s, s[i].provider)
      BY <3>1 DEF PolicyOK
    <3>4. s[i + 1].provider # s[i].provider => s[i].provider # p
      BY <1>1, <1>a, <3>1
    <3>5. s[i].provider # p => (Used(s, s[i].provider) => Used(t, s[i].provider))
      BY <1>6 DEF Used
    <3> QED BY <2>1, <3>2, <3>3, <3>4, <3>5
  <2> QED BY <2>2, <2>3
<1>11. PolicyOK(t, e)
  <2>1. Len(t) - 1 = n
    BY <1>1, <1>2
  <2> HIDE DEF n
  <2> QED BY <1>9, <1>10, <2>1 DEF PolicyOK
<1> QED BY <1>1, <1>2, <1>4, <1>6, <1>7, <1>11 DEF Grown

-----------------------------------------------------------------------------
(* The inductive invariant.                                                *)

Trying == {"try", "token", "lock", "fetch", "send"}

(* A provider of e that ranks before one on the route l has been tried, or *)
(* is on the route before it.                                              *)
Turns(l, s, e, r) ==
  \A i \in 1 .. Len(l), p \in e :
    Ranks(r, p, l[i]) => At(s, p) # {} \/ \E j \in 1 .. i - 1 : l[j] = p

(* A payment has exhausted the providers before the current one, has made  *)
(* the last attempts there, and has not tried those after it; a refund has *)
(* tried nothing.                                                          *)
TryingOK(c) ==
  /\ route[c] # <<>> /\ result[c] = "none"
  /\ req[c].kind = "refund" => Len(route[c]) = 1 /\ tries[c] = <<>> /\ eligible[c] = {}
  /\ req[c].kind = "payment" =>
       /\ PolicyOK(tries[c], eligible[c])
       /\ Visit(tries[c], Head(route[c]), attempt[c])
       /\ \A i, j \in 1 .. Len(route[c]) : route[c][i] = route[c][j] => i = j
       /\ \A i \in 2 .. Len(route[c]) : At(tries[c], route[c][i]) = {}
       /\ \A i \in 1 .. Len(route[c]) : route[c][i] \in eligible[c]
       /\ \A p \in eligible[c] :
            At(tries[c], p) # {} \/ \E i \in 1 .. Len(route[c]) : route[c][i] = p
       /\ InOrder(tries[c], eligible[c], req[c])
       /\ Turns(route[c], tries[c], eligible[c], req[c])

DoneOK(c) ==
  /\ req[c].kind = "refund" => Len(tries[c]) <= 1 /\ eligible[c] = {}
  /\ req[c].kind = "payment" =>
       PolicyOK(tries[c], eligible[c]) /\ InOrder(tries[c], eligible[c], req[c])
  /\ result[c] = "failed" => Len(tries[c]) > 0 /\ \A p \in eligible[c] : At(tries[c], p) # {}
  /\ result[c] = "no providers" => eligible[c] = {} /\ tries[c] = <<>>

CallOK(c) ==
  /\ pc[c] \in {"idle", "start"} \cup Trying \cup {"done"}
  /\ pc[c] \in {"idle", "start"} =>
       tries[c] = <<>> /\ attempt[c] = 0 /\ result[c] = "none" /\ eligible[c] = {}
  /\ pc[c] = "start" => req[c].kind = "payment"
  /\ pc[c] \in Trying => TryingOK(c)
  /\ pc[c] = "done" => DoneOK(c)

ChargeInv ==
  /\ None \notin seen
  /\ \A k \in seen : \E d \in WithKey(k) : made["stripe"][d] > 0
  /\ \A c \in Calls : req[c].key # None /\ req[c].key \notin seen => made["stripe"][c] = 0
  /\ \A c, d \in Calls : req[c].key # None /\ req[c].key = req[d].key =>
       /\ made["stripe"][c] <= 1
       /\ made["stripe"][c] > 0 /\ made["stripe"][d] > 0 => c = d

RouterInv ==
  /\ TypeOK
  /\ \A c \in Calls : CallOK(c)
  /\ ChargeInv

CallTypes ==
  /\ req \in [Calls -> Requests]
  /\ route \in [Calls -> Seq(Providers)]
  /\ attempt \in [Calls -> Nat]
  /\ result \in [Calls -> Providers \cup {"none", "no providers", "failed"}]
  /\ tries \in [Calls -> Seq(Try)]
  /\ eligible \in [Calls -> SUBSET Providers]

-----------------------------------------------------------------------------
(* What follows an attempt.                                                *)

(* A step of call c leaves the other calls alone.                          *)
OnlyCall(c) ==
  /\ req' = req
  /\ \A d \in Calls \ {c} :
       /\ route'[d] = route[d] /\ attempt'[d] = attempt[d] /\ result'[d] = result[d]
       /\ tries'[d] = tries[d] /\ eligible'[d] = eligible[d]

LEMMA RouteHead ==
  ASSUME CallTypes, NEW c \in Calls, route[c] # <<>>
  PROVE  /\ Provider(c) \in Providers /\ Provider(c) = route[c][1]
         /\ Len(route[c]) \in Nat /\ Len(route[c]) >= 1
<1>1. route[c] \in Seq(Providers)
  BY DEF CallTypes
<1> QED BY <1>1 DEF Provider

LEMMA AttemptAdds ==
  ASSUME CallTypes, NEW c \in Calls, route[c] # <<>>, NEW how \in {"ok", "retry", "client"},
         Ended(c, how)
  PROVE  /\ tries' \in [Calls -> Seq(Try)]
         /\ tries'[c] = Append(tries[c], [provider |-> Provider(c), how |-> how])
         /\ [provider |-> Provider(c), how |-> how] \in Try
         /\ \A d \in Calls \ {c} : tries'[d] = tries[d]
<1> DEFINE x == [provider |-> Provider(c), how |-> how]
<1>1. x \in Try
  BY RouteHead DEF Try
<1>2. tries' = [tries EXCEPT ![c] = Append(@, x)]
  BY DEF Ended
<1> HIDE DEF x
<1>3. tries[c] \in Seq(Try)
  BY DEF CallTypes
<1>4. Append(tries[c], x) \in Seq(Try)
  BY <1>1, <1>3
<1>5. tries' \in [Calls -> Seq(Try)] /\ tries'[c] = Append(tries[c], x)
      /\ \A d \in Calls \ {c} : tries'[d] = tries[d]
  BY <1>2, <1>4 DEF CallTypes
<1> QED BY <1>1, <1>5 DEF x

LEMMA GotoMoves ==
  ASSUME pc \in [Goroutines -> PCs], NEW g \in Goroutines, NEW from, NEW to, Goto(g, from, to)
  PROVE  /\ pc[g] = from /\ pc'[g] = to
         /\ \A h \in Goroutines \ {g} : pc'[h] = pc[h]
BY DEF Goto

(* A payment's attempt, in terms of its sequence of attempts.              *)
LEMMA PaymentTries ==
  ASSUME CallTypes, NEW c \in Calls, TryingOK(c), req[c].kind = "payment",
         NEW how \in {"ok", "retry", "client"}, Ended(c, how)
  PROVE  /\ Len(tries'[c]) = Len(tries[c]) + 1
         /\ tries'[c][Len(tries'[c])] = [provider |-> Provider(c), how |-> how]
         /\ PolicyOK(tries'[c], eligible[c])
         /\ Cardinality(At(tries'[c], Provider(c))) = attempt[c] + 1
         /\ \A i \in 1 .. Len(tries'[c]) :
              tries'[c][i].provider = Provider(c) <=> i > Len(tries'[c]) - (attempt[c] + 1)
         /\ \A q : q # Provider(c) => At(tries'[c], q) = At(tries[c], q)
         /\ At(tries'[c], Provider(c)) # {}
         /\ InOrder(tries'[c], eligible[c], req[c])
<1> DEFINE x == [provider |-> Provider(c), how |-> how]
<1>1. tries[c] \in Seq(Try) /\ route[c] # <<>>
  BY DEF CallTypes, TryingOK
<1>2. x \in Try /\ tries'[c] = Append(tries[c], x)
  BY <1>1, AttemptAdds
<1>3. Provider(c) \in Providers /\ Provider(c) \in eligible[c]
  BY <1>1, RouteHead DEF TryingOK
<1>4. PolicyOK(tries[c], eligible[c]) /\ Visit(tries[c], Provider(c), attempt[c])
  BY DEF TryingOK, Provider
<1>5. x.provider = Provider(c)
  OBVIOUS
<1> HIDE DEF x
<1>6. /\ Len(tries'[c]) = Len(tries[c]) + 1 /\ tries'[c][Len(tries'[c])] = x
      /\ PolicyOK(tries'[c], eligible[c])
      /\ Cardinality(At(tries'[c], Provider(c))) = attempt[c] + 1
      /\ \A i \in 1 .. Len(tries'[c]) :
           tries'[c][i].provider = Provider(c) <=> i > Len(tries'[c]) - (attempt[c] + 1)
      /\ \A q : q # Provider(c) => At(tries'[c], q) = At(tries[c], q)
  <2> PICK p : p = Provider(c)
    OBVIOUS
  <2> PICK s : s = tries[c]
    OBVIOUS
  <2> PICK t : t = tries'[c]
    OBVIOUS
  <2> PICK e : e = eligible[c]
    OBVIOUS
  <2> PICK k : k = attempt[c]
    OBVIOUS
  <2>1. /\ s \in Seq(Try) /\ p \in Providers /\ p \in e /\ t = Append(s, x)
        /\ PolicyOK(s, e) /\ Visit(s, p, k) /\ x.provider = p
    BY <1>1, <1>2, <1>3, <1>4, <1>5
  <2>2. Grown(s, t, e, p, k, x)
    BY <1>2, <2>1, VisitGoesOn
  <2> QED BY <2>2 DEF Grown
<1>9. InOrder(tries'[c], eligible[c], req[c])
  <2>1. 1 \in 1 .. Len(route[c]) /\ route[c][1] = Provider(c)
    BY <1>1, RouteHead
  <2>2. \A q \in eligible[c] : Ranks(req[c], q, Provider(c)) => At(tries[c], q) # {}
    BY <2>1 DEF TryingOK, Turns
  <2>3. InOrder(tries[c], eligible[c], req[c])
    BY DEF TryingOK
  <2> QED BY <1>1, <1>2, <1>5, <2>2, <2>3, InOrderGoesOn
<1>7. attempt[c] + 1 # 0
  <2>1. attempt[c] \in Nat
    BY DEF CallTypes
  <2> QED BY <2>1
<1>8. At(tries'[c], Provider(c)) # {}
  BY <1>6, <1>7, FS_EmptySet
<1> QED BY <1>6, <1>8, <1>9 DEF x

LEMMA SucceedStep ==
  ASSUME CallTypes, pc \in [Goroutines -> PCs], NEW c \in Calls, NEW at \in Trying,
         TryingOK(c), Succeed(c, at)
  PROVE  CallTypes' /\ CallOK(c)' /\ OnlyCall(c) /\ result'[c] = Provider(c)
<1>1. route[c] # <<>> /\ c \in Goroutines
  BY DEF TryingOK, Goroutines
<1>2. Provider(c) \in Providers
  BY <1>1, RouteHead
<1>3. /\ tries' \in [Calls -> Seq(Try)]
      /\ tries'[c] = Append(tries[c], [provider |-> Provider(c), how |-> "ok"])
      /\ \A d \in Calls \ {c} : tries'[d] = tries[d]
  BY <1>1, AttemptAdds DEF Succeed
<1>4. /\ result' \in [Calls -> Providers \cup {"none", "no providers", "failed"}]
      /\ result'[c] = Provider(c) /\ \A d \in Calls \ {c} : result'[d] = result[d]
  BY <1>2 DEF CallTypes, Succeed
<1>5. CallTypes'
  BY <1>3, <1>4 DEF CallTypes, Succeed
<1>6. pc'[c] = "done"
  BY <1>1, GotoMoves DEF Succeed
<1>7. result'[c] # "failed" /\ result'[c] # "no providers"
  BY <1>2, <1>4 DEF Providers
<1>8. req[c].kind = "payment" =>
        PolicyOK(tries'[c], eligible[c]) /\ InOrder(tries'[c], eligible[c], req[c])
  BY PaymentTries DEF Succeed
<1>9. req[c].kind = "refund" => Len(tries'[c]) <= 1 /\ eligible[c] = {}
  BY <1>3 DEF TryingOK
<1>10. DoneOK(c)'
  BY <1>7, <1>8, <1>9 DEF DoneOK, Succeed
<1>11. CallOK(c)'
  BY <1>6, <1>10 DEF CallOK, Trying
<1>12. OnlyCall(c)
  BY <1>3, <1>4 DEF OnlyCall, Succeed
<1> QED BY <1>4, <1>5, <1>11, <1>12

LEMMA TailFacts ==
  ASSUME NEW l \in Seq(Providers), Len(l) > 1
  PROVE  /\ Tail(l) \in Seq(Providers) /\ Len(Tail(l)) = Len(l) - 1 /\ Tail(l) # <<>>
         /\ \A i \in 1 .. Len(l) - 1 : Tail(l)[i] = l[i + 1]
         /\ Head(Tail(l)) = Tail(l)[1] /\ Len(l) \in Nat
<1>1. l # <<>> /\ Len(l) \in Nat
  OBVIOUS
<1>2. /\ Tail(l) \in Seq(Providers) /\ Len(Tail(l)) = Len(l) - 1
      /\ \A i \in 1 .. Len(Tail(l)) : Tail(l)[i] = l[i + 1]
  BY <1>1, HeadTailProperties
<1>3. Tail(l) # <<>>
  <2>1. Len(<<>>) = 0
    BY EmptySeq
  <2>2. Len(Tail(l)) # 0
    BY <1>1, <1>2
  <2> QED BY <2>1, <2>2
<1> QED BY <1>1, <1>2, <1>3

LEMMA FailStep ==
  ASSUME CallTypes, pc \in [Goroutines -> PCs], NEW c \in Calls, NEW at \in Trying,
         TryingOK(c), NEW err, Fail(c, at, err)
  PROVE  CallTypes' /\ CallOK(c)' /\ OnlyCall(c) /\ result'[c] \in {"none", "failed"}
<1> DEFINE how == IF IsClientError(err) THEN "client" ELSE "retry"
           p == Provider(c)
           k == attempt[c]
<1>1. route[c] # <<>> /\ c \in Goroutines /\ result[c] = "none"
  BY DEF TryingOK, Goroutines
<1>2. /\ p \in Providers /\ p = route[c][1] /\ route[c] \in Seq(Providers)
      /\ Len(route[c]) \in Nat /\ Len(route[c]) >= 1 /\ k \in Nat
  BY <1>1, RouteHead DEF CallTypes
<1>3. how \in {"ok", "retry", "client"} /\ Ended(c, how)
  BY DEF Fail
<1> HIDE DEF how
<1>4. /\ tries' \in [Calls -> Seq(Try)]
      /\ tries'[c] = Append(tries[c], [provider |-> p, how |-> how])
      /\ \A d \in Calls \ {c} : tries'[d] = tries[d]
  BY <1>1, <1>3, AttemptAdds
<1>5. req' = req /\ eligible' = eligible
  BY DEF Fail
<1>6. ASSUME req[c].kind = "payment"
      PROVE  /\ Len(tries'[c]) = Len(tries[c]) + 1
             /\ tries'[c][Len(tries'[c])] = [provider |-> p, how |-> how]
             /\ PolicyOK(tries'[c], eligible[c])
             /\ Cardinality(At(tries'[c], p)) = k + 1
             /\ \A i \in 1 .. Len(tries'[c]) :
                  tries'[c][i].provider = p <=> i > Len(tries'[c]) - (k + 1)
             /\ \A q : q # p => At(tries'[c], q) = At(tries[c], q)
             /\ At(tries'[c], p) # {}
             /\ InOrder(tries'[c], eligible[c], req[c])
  BY <1>3, <1>6, PaymentTries
<1>7. tries'[c] \in Seq(Try) /\ tries[c] \in Seq(Try) /\ Len(tries[c]) \in Nat
  <2>1. tries[c] \in Seq(Try)
    BY DEF CallTypes
  <2>2. tries'[c] \in Seq(Try)
    BY <1>4
  <2> QED BY <2>1, <2>2
<1>8. k < Limit(p) \/ req[c].kind # "payment"
  BY DEF TryingOK, Visit, Provider
<1>9. CASE MayRetry(c, err) /\ Goto(c, at, "try")
           /\ attempt' = [attempt EXCEPT ![c] = @ + 1] /\ UNCHANGED <<route, result>>
  <2>1. req[c].kind = "payment" /\ how = "retry" /\ k + 1 < Limit(p)
    BY <1>9 DEF MayRetry, how
  <2>2. attempt' \in [Calls -> Nat] /\ attempt'[c] = k + 1
        /\ \A d \in Calls \ {c} : attempt'[d] = attempt[d]
    <3>1. attempt \in [Calls -> Nat] /\ attempt' = [attempt EXCEPT ![c] = attempt[c] + 1]
      BY <1>9 DEF CallTypes
    <3> QED BY <3>1
  <2>3. pc'[c] = "try"
    BY <1>1, <1>9, GotoMoves
  <2>4. Visit(tries'[c], p, k + 1)
    <3>1. k + 1 \in 0 .. Len(tries'[c])
      <4>1. k \in 0 .. Len(tries[c])
        BY <2>1 DEF TryingOK, Visit
      <4> QED BY <1>2, <1>6, <1>7, <2>1, <4>1
    <3>2. k + 1 > 0 /\ tries'[c][Len(tries'[c])].how = "retry"
      BY <1>2, <1>6, <2>1
    <3> QED BY <1>6, <2>1, <3>1, <3>2 DEF Visit
  <2>5. \A i \in 2 .. Len(route[c]) : route[c][i] # p /\ At(tries'[c], route[c][i]) = {}
    <3> SUFFICES ASSUME NEW i \in 2 .. Len(route[c])
                 PROVE  route[c][i] # p /\ At(tries'[c], route[c][i]) = {}
      OBVIOUS
    <3>1. i \in 1 .. Len(route[c]) /\ 1 \in 1 .. Len(route[c]) /\ i # 1
      BY <1>2
    <3>2. route[c][i] # p
      BY <1>2, <2>1, <3>1 DEF TryingOK
    <3> QED BY <1>6, <2>1, <3>2 DEF TryingOK
  <2>6. \A q \in eligible[c] :
          At(tries'[c], q) # {} \/ \E i \in 1 .. Len(route[c]) : route[c][i] = q
    BY <1>6, <2>1 DEF TryingOK
  <2>10. Turns(route[c], tries'[c], eligible[c], req[c])
    <3>1. Turns(route[c], tries[c], eligible[c], req[c])
      BY <2>1 DEF TryingOK
    <3>2. \A q : At(tries[c], q) # {} => At(tries'[c], q) # {}
      BY <1>6, <2>1
    <3> QED BY <3>1, <3>2 DEF Turns
  <2>7. TryingOK(c)'
    BY <1>1, <1>5, <1>6, <1>9, <2>1, <2>2, <2>4, <2>5, <2>6, <2>10 DEF TryingOK, Provider
  <2>8. CallOK(c)'
    BY <2>3, <2>7 DEF CallOK, Trying
  <2>9. CallTypes' /\ OnlyCall(c)
    BY <1>4, <1>5, <1>9, <2>2 DEF CallTypes, OnlyCall
  <2> QED BY <1>1, <1>9, <2>8, <2>9
<1>10. CASE ~MayRetry(c, err) /\ Len(route[c]) > 1 /\ Goto(c, at, "try")
            /\ route' = [route EXCEPT ![c] = Tail(@)]
            /\ attempt' = [attempt EXCEPT ![c] = 0] /\ UNCHANGED result
  <2>2. attempt' \in [Calls -> Nat] /\ attempt'[c] = 0
        /\ \A d \in Calls \ {c} : attempt'[d] = attempt[d]
    BY <1>10 DEF CallTypes
  <2> PICK n : n = Len(route[c])
    OBVIOUS
  <2> PICK rest : rest = Tail(route[c])
    OBVIOUS
  <2>3. /\ rest \in Seq(Providers) /\ Len(rest) = n - 1 /\ rest # <<>>
        /\ \A i \in 1 .. n - 1 : rest[i] = route[c][i + 1]
        /\ Head(rest) = rest[1] /\ n \in Nat /\ n > 1
    BY <1>2, <1>10, TailFacts
  <2>1. req[c].kind = "payment"
    <3>1. req[c] \in Requests
      BY DEF CallTypes
    <3>2. req[c].kind # "refund"
      BY <2>3 DEF TryingOK
    <3> QED BY <3>1, <3>2, ConstantsAssumption DEF RequestOK
  <2>4. route' \in [Calls -> Seq(Providers)] /\ route'[c] = rest
        /\ \A d \in Calls \ {c} : route'[d] = route[d]
    BY <1>10, <2>3 DEF CallTypes
  <2>5. pc'[c] = "try"
    BY <1>1, <1>10, GotoMoves
  <2>6. ASSUME NEW i \in 1 .. n - 1
        PROVE  rest[i] # p /\ At(tries'[c], rest[i]) = {} /\ rest[i] \in eligible[c]
    <3>1. i + 1 \in 2 .. n /\ i + 1 \in 1 .. n /\ 1 \in 1 .. n /\ i + 1 # 1
      BY <2>3
    <3>2. route[c][i + 1] # p
      BY <1>2, <2>1, <3>1 DEF TryingOK
    <3>3. At(tries[c], route[c][i + 1]) = {} /\ route[c][i + 1] \in eligible[c]
      BY <2>1, <3>1 DEF TryingOK
    <3> QED BY <1>6, <2>1, <2>3, <3>2, <3>3
  <2>7. Visit(tries'[c], rest[1], 0)
    <3>1. 1 \in 1 .. n - 1
      BY <2>3
    <3>2. rest[1] \in Providers /\ At(tries'[c], rest[1]) = {}
      <4>1. rest[1] \in Providers
        BY <2>3, <3>1
      <4>2. At(tries'[c], rest[1]) = {}
        BY <2>6, <3>1, Zenon
      <4> QED BY <4>1, <4>2
    <3>3. how = "client" \/ Used(tries'[c], p)
      <4>1. how = "client" \/ k + 1 >= Limit(p)
        BY <1>2, <1>10, <2>1, LimitType DEF MayRetry, how
      <4>2. k + 1 >= Limit(p) => k + 1 = Limit(p)
        BY <1>2, <1>8, <2>1, LimitType
      <4> QED BY <1>6, <2>1, <4>1, <4>2 DEF Used
    <3>4. Len(tries'[c]) > 0 => tries'[c][Len(tries'[c])].how = "client"
                                \/ Used(tries'[c], tries'[c][Len(tries'[c])].provider)
      BY <1>6, <2>1, <3>3
    <3> QED BY <1>7, <3>2, <3>4, VisitStarts
  <2>8. \A i, j \in 1 .. n - 1 : rest[i] = rest[j] => i = j
    <3> SUFFICES ASSUME NEW i \in 1 .. n - 1, NEW j \in 1 .. n - 1, rest[i] = rest[j] PROVE i = j
      OBVIOUS
    <3>1. i + 1 \in 1 .. n /\ j + 1 \in 1 .. n
      BY <2>3
    <3>2. route[c][i + 1] = route[c][j + 1]
      BY <2>3
    <3>3. \A a, b \in 1 .. n : route[c][a] = route[c][b] => a = b
      BY <2>1 DEF TryingOK
    <3>4. i + 1 = j + 1
      BY <3>1, <3>2, <3>3
    <3> QED BY <3>4
  <2>9. ASSUME NEW q \in eligible[c]
        PROVE  At(tries'[c], q) # {} \/ \E i \in 1 .. n - 1 : rest[i] = q
    <3>1. CASE q = p
      BY <1>6, <2>1, <3>1
    <3>2. CASE q # p /\ At(tries[c], q) # {}
      BY <1>6, <2>1, <3>2
    <3>3. CASE q # p /\ \E i \in 1 .. n : route[c][i] = q
      <4>1. PICK i \in 1 .. n : route[c][i] = q
        BY <3>3
      <4>2. i # 1
        BY <1>2, <3>3, <4>1
      <4>3. i - 1 \in 1 .. n - 1 /\ (i - 1) + 1 = i
        BY <2>3, <4>2
      <4> QED BY <2>3, <4>1, <4>3
    <3> QED BY <2>1, <3>1, <3>2, <3>3 DEF TryingOK
  <2>10. \A i \in 2 .. n - 1 : At(tries'[c], rest[i]) = {}
    <3>1. \A i \in 2 .. n - 1 : i \in 1 .. n - 1
      BY <2>3
    <3> QED BY <2>6, <3>1
  <2>14. ASSUME NEW i \in 1 .. n - 1, NEW q \in eligible[c], Ranks(req[c], q, rest[i])
         PROVE  At(tries'[c], q) # {} \/ \E j \in 1 .. i - 1 : rest[j] = q
    <3>1. i + 1 \in 1 .. n /\ rest[i] = route[c][i + 1] /\ i \in Nat
      BY <2>3
    <3>2. At(tries[c], q) # {} \/ \E j \in 1 .. (i + 1) - 1 : route[c][j] = q
      BY <2>1, <2>14, <3>1 DEF TryingOK, Turns
    <3>3. CASE q = p \/ At(tries[c], q) # {}
      BY <1>6, <2>1, <3>3
    <3>4. CASE q # p /\ \E j \in 1 .. (i + 1) - 1 : route[c][j] = q
      <4>1. PICK j \in 1 .. i : route[c][j] = q
        BY <3>1, <3>4
      <4>2. j # 1
        BY <1>2, <3>4, <4>1
      <4>3. j - 1 \in 1 .. i - 1 /\ j - 1 \in 1 .. n - 1 /\ (j - 1) + 1 = j
        BY <2>3, <3>1, <4>2
      <4>4. rest[j - 1] = q
        BY <2>3, <4>1, <4>3
      <4> QED BY <4>3, <4>4
    <3> QED BY <3>2, <3>3, <3>4
  <2>15. Turns(rest, tries'[c], eligible[c], req[c])
    BY <2>3, <2>14 DEF Turns
  <2>11. TryingOK(c)'
    <3>1. route'[c] = rest /\ rest # <<>> /\ result'[c] = "none" /\ Len(rest) = n - 1
      BY <1>1, <1>10, <2>3, <2>4
    <3>2. PolicyOK(tries'[c], eligible[c]) /\ Visit(tries'[c], Head(rest), 0)
      BY <1>6, <2>1, <2>3, <2>7
    <3>3. \A i \in 1 .. n - 1 : rest[i] \in eligible[c]
      BY <2>6
    <3>4. req'[c].kind = "payment" /\ req'[c].kind # "refund"
      BY <1>5, <2>1
    <3>5. attempt'[c] = 0 /\ eligible'[c] = eligible[c]
      BY <1>5, <2>2
    <3>6. \A i, j \in 1 .. Len(route'[c]) : route'[c][i] = route'[c][j] => i = j
      BY <2>8, <3>1
    <3>7. \A i \in 2 .. Len(route'[c]) : At(tries'[c], route'[c][i]) = {}
      BY <2>10, <3>1
    <3>8. \A i \in 1 .. Len(route'[c]) : route'[c][i] \in eligible'[c]
      BY <3>1, <3>3, <3>5
    <3>9. \A q \in eligible'[c] :
            At(tries'[c], q) # {} \/ \E i \in 1 .. Len(route'[c]) : route'[c][i] = q
      BY <2>9, <3>1, <3>5
    <3>10. /\ InOrder(tries'[c], eligible'[c], req'[c])
           /\ Turns(route'[c], tries'[c], eligible'[c], req'[c])
      BY <1>5, <1>6, <2>1, <2>15, <3>1
    <3> QED BY <3>1, <3>2, <3>4, <3>5, <3>6, <3>7, <3>8, <3>9, <3>10 DEF TryingOK
  <2>12. CallOK(c)'
    BY <2>5, <2>11 DEF CallOK, Trying
  <2>13. CallTypes' /\ OnlyCall(c)
    BY <1>4, <1>5, <1>10, <2>2, <2>4 DEF CallTypes, OnlyCall
  <2> QED BY <1>1, <1>10, <2>12, <2>13
<1>11. CASE ~MayRetry(c, err) /\ Len(route[c]) = 1 /\ Goto(c, at, "done")
            /\ result' = [result EXCEPT ![c] = "failed"] /\ UNCHANGED <<route, attempt>>
  <2>1. /\ result' \in [Calls -> Providers \cup {"none", "no providers", "failed"}]
        /\ result'[c] = "failed" /\ \A d \in Calls \ {c} : result'[d] = result[d]
    BY <1>11 DEF CallTypes
  <2>2. pc'[c] = "done"
    BY <1>1, <1>11, GotoMoves
  <2>3. Len(tries'[c]) = Len(tries[c]) + 1 /\ Len(tries'[c]) > 0
    BY <1>4, <1>7
  <2>4. ASSUME req[c].kind = "payment", NEW q \in eligible[c]
        PROVE  At(tries'[c], q) # {}
    <3>1. CASE q = p
      BY <1>6, <2>4, <3>1
    <3>2. CASE q # p
      <4>1. \A i \in 1 .. Len(route[c]) : route[c][i] # q
        BY <1>2, <1>11, <3>2
      <4>2. At(tries[c], q) # {}
        BY <2>4, <4>1 DEF TryingOK
      <4> QED BY <1>6, <2>4, <3>2, <4>2
    <3> QED BY <3>1, <3>2
  <2>5. req[c].kind = "refund" => Len(tries'[c]) <= 1 /\ eligible[c] = {}
    BY <2>3 DEF TryingOK
  <2>6. req[c].kind = "payment" \/ req[c].kind = "refund"
    <3>1. req[c] \in Requests
      BY DEF CallTypes
    <3> QED BY <3>1, ConstantsAssumption DEF RequestOK
  <2>7. DoneOK(c)'
    BY <1>5, <1>6, <2>1, <2>3, <2>4, <2>5, <2>6 DEF DoneOK
  <2>8. CallOK(c)'
    BY <2>2, <2>7 DEF CallOK, Trying
  <2>9. CallTypes' /\ OnlyCall(c)
    BY <1>4, <1>5, <1>11, <2>1 DEF CallTypes, OnlyCall
  <2> QED BY <2>1, <2>8, <2>9
<1> QED BY <1>9, <1>10, <1>11 DEF Fail

-----------------------------------------------------------------------------
(* The lock of PayPal's access token.                                      *)

Fetchers == Calls \cup Checkers

(* TokenFetchedOnce is inductive once the lock is known to be held by the  *)
(* goroutine at "fetch" and by nobody else; what it needs of the rest of   *)
(* the state is the type of pc.                                            *)
LockInv ==
  /\ pc \in [Goroutines -> PCs]
  /\ token \in BOOLEAN
  /\ tokenLock \in Fetchers \cup {None}
  /\ token => tokenLock = None
  /\ \A g \in Fetchers : pc[g] = "fetch" <=> tokenLock = g

LEMMA LockInvImplies == LockInv => TokenFetchedOnce
<1> SUFFICES ASSUME LockInv PROVE TokenFetchedOnce
  OBVIOUS
<1>1. None \notin Fetchers
  BY ConstantsAssumption DEF Fetchers
<1> QED
  BY <1>1 DEF LockInv, TokenFetchedOnce, Fetchers

(* A goroutine that moves between steps other than "fetch" leaves the lock *)
(* alone.                                                                  *)
LEMMA Elsewhere ==
  ASSUME LockInv, NEW g \in Goroutines, NEW from \in PCs, NEW to \in PCs,
         Goto(g, from, to), from # "fetch", to # "fetch",
         token' \in BOOLEAN, token' => token, UNCHANGED tokenLock
  PROVE  LockInv'
BY DEF LockInv, Goto, Fetchers, Goroutines

(* An attempt that fails leads to another one or to the end.               *)
LEMMA FailGoes ==
  ASSUME NEW c, NEW at, NEW err, Fail(c, at, err)
  PROVE  Goto(c, at, "try") \/ Goto(c, at, "done")
BY DEF Fail

LEMMA InitLockInv == Init => LockInv
<1> SUFFICES ASSUME Init PROVE LockInv
  OBVIOUS
<1>1. None \notin Fetchers
  BY ConstantsAssumption DEF Fetchers
<1> QED
  BY <1>1 DEF Init, LockInv, PCs, Goroutines, Fetchers

LEMMA AcquireLockInv ==
  ASSUME LockInv, NEW g \in Fetchers, LockToken(g)
  PROVE  LockInv'
<1>1. g \in Goroutines /\ None \notin Fetchers
  BY ConstantsAssumption DEF Fetchers, Goroutines
<1>2. CASE token /\ Goto(g, "lock", AfterToken(g)) /\ UNCHANGED tokenLock
  <2>1. AfterToken(g) \in PCs /\ AfterToken(g) # "fetch" /\ "lock" \in PCs
    BY DEF AfterToken, PCs
  <2> QED
    BY <1>1, <1>2, <2>1, Elsewhere DEF LockToken, LockInv
<1>3. CASE ~token /\ Goto(g, "lock", "fetch") /\ tokenLock' = g
  <2>1. pc' \in [Goroutines -> PCs]
    BY <1>3 DEF LockInv, Goto, PCs
  <2>2. tokenLock = None /\ UNCHANGED token
    BY DEF LockToken
  <2>3. ASSUME NEW h \in Fetchers
        PROVE  pc'[h] = "fetch" <=> tokenLock' = h
    <3>1. h \in Goroutines /\ pc[h] # "fetch"
      BY <1>1, <2>2 DEF LockInv, Fetchers, Goroutines
    <3> QED
      BY <1>1, <1>3, <3>1 DEF LockInv, Goto
  <2> QED
    BY <1>3, <2>1, <2>2, <2>3 DEF LockInv
<1> QED
  BY <1>2, <1>3 DEF LockToken

(* Whoever leaves "fetch" gives the lock back, with a token or without.    *)
LEMMA ReleaseLockInv ==
  ASSUME LockInv, NEW g \in Fetchers, NEW to \in PCs \ {"fetch"},
         Goto(g, "fetch", to), tokenLock' = None, token' \in BOOLEAN
  PROVE  LockInv'
<1>1. g \in Goroutines /\ None \notin Fetchers /\ Fetchers \subseteq Goroutines
  BY ConstantsAssumption DEF Fetchers, Goroutines
<1>2. tokenLock = g
  BY DEF LockInv, Goto
<1>3. pc' \in [Goroutines -> PCs]
  BY DEF LockInv, Goto
<1>4. ASSUME NEW h \in Fetchers
      PROVE  pc'[h] # "fetch" /\ tokenLock' # h
  BY <1>1, <1>2 DEF LockInv, Goto
<1> QED
  BY <1>3, <1>4 DEF LockInv

LEMMA NextLockInv == LockInv /\ [Next]_vars => LockInv'
<1> SUFFICES ASSUME LockInv, [Next]_vars PROVE LockInv'
  OBVIOUS
<1> USE DEF tokenVars
<1>1. CASE UNCHANGED vars
  BY <1>1 DEF vars, LockInv
<1>2. ASSUME NEW a \in Admins, AskToConfigure(a) \/ Configure(a) PROVE LockInv'
  <2>1. a \in Goroutines /\ {"idle", "configure"} \subseteq PCs
    BY DEF Goroutines, PCs
  <2> QED
    BY <1>2, <2>1, Elsewhere DEF AskToConfigure, Configure, LockInv
<1>3. ASSUME NEW c \in Calls, ProcessPayment(c) \/ ProcessRefund(c) \/ CopyConfig(c)
      PROVE  LockInv'
  <2>1. c \in Goroutines /\ {"idle", "start", "try", "done"} \subseteq PCs
    BY DEF Goroutines, PCs
  <2>2. Goto(c, "idle", "start") \/ Goto(c, "idle", "try") \/ Goto(c, "start", "try")
        \/ Goto(c, "start", "done")
    BY <1>3 DEF ProcessPayment, ProcessRefund, CopyConfig
  <2>3. token' \in BOOLEAN /\ UNCHANGED token /\ UNCHANGED tokenLock
    BY <1>3 DEF ProcessPayment, ProcessRefund, CopyConfig, LockInv
  <2> QED
    BY <2>1, <2>2, <2>3, Elsewhere
<1>4. ASSUME NEW c \in Calls, Prepare(c) \/ Request(c) PROVE LockInv'
  <2>1. c \in Goroutines /\ {"try", "send", "token", "done"} \subseteq PCs
    BY DEF Goroutines, PCs
  <2>2. token' \in BOOLEAN /\ UNCHANGED token /\ UNCHANGED tokenLock
    BY <1>4 DEF Prepare, Request, LockInv
  <2>3. \/ Goto(c, "try", "try") \/ Goto(c, "try", "done")
        \/ Goto(c, "try", "token") \/ Goto(c, "try", "send")
        \/ Goto(c, "send", "try") \/ Goto(c, "send", "done")
    BY <1>4, FailGoes DEF Prepare, Request, Succeed
  <2> QED
    BY <2>1, <2>2, <2>3, Elsewhere
<1>5. ASSUME NEW h \in Checkers, Healthcheck(h) \/ Release(h) PROVE LockInv'
  <2>1. h \in Goroutines /\ {"idle", "token", "release"} \subseteq PCs
    BY DEF Goroutines, PCs
  <2>2. Goto(h, "idle", "token") \/ Goto(h, "idle", "release") \/ Goto(h, "release", "idle")
    BY <1>5 DEF Healthcheck, Release
  <2> QED
    BY <1>5, <2>1, <2>2, Elsewhere DEF Healthcheck, Release, LockInv
<1>6. ASSUME NEW g \in Fetchers, ReadToken(g) PROVE LockInv'
  <2>1. g \in Goroutines /\ {"token", "send", "release", "lock"} \subseteq PCs
    BY DEF Goroutines, PCs, Fetchers
  <2>2. Goto(g, "token", "send") \/ Goto(g, "token", "release") \/ Goto(g, "token", "lock")
    BY <1>6 DEF ReadToken, AfterToken
  <2> QED
    BY <1>6, <2>1, <2>2, Elsewhere DEF ReadToken, LockInv
<1>7. ASSUME NEW g \in Fetchers, FetchToken(g) \/ NoToken(g) PROVE LockInv'
  <2>1. {"send", "release", "try", "done"} \subseteq PCs \ {"fetch"}
    BY DEF PCs
  <2>2. \/ Goto(g, "fetch", "send") \/ Goto(g, "fetch", "release")
        \/ Goto(g, "fetch", "try") \/ Goto(g, "fetch", "done")
    BY <1>7, FailGoes DEF FetchToken, NoToken, AfterToken
  <2>3. tokenLock' = None /\ token' \in BOOLEAN
    BY <1>7 DEF FetchToken, NoToken, LockInv
  <2> QED
    BY <2>1, <2>2, <2>3, ReleaseLockInv
<1>8. CASE Expire
  BY <1>8 DEF Expire, LockInv
<1> QED
  BY <1>1, <1>2, <1>3, <1>4, <1>5, <1>6, <1>7, <1>8, AcquireLockInv DEF Next, Fetchers

(* At any time at most one goroutine asks PayPal for a token, none does    *)
(* while a valid one is cached, and nobody keeps the lock afterwards.      *)
THEOREM OneFetch == Spec => []TokenFetchedOnce
<1>1. Spec => []LockInv
  BY InitLockInv, NextLockInv, PTL DEF Spec
<1> QED
  BY <1>1, LockInvImplies, PTL
-----------------------------------------------------------------------------
(* The calls, step by step.                                                *)

LEMMA CallSame ==
  ASSUME NEW c, NEW d \in Calls, d # c, CallOK(d), OnlyCall(c), pc'[d] = pc[d]
  PROVE  CallOK(d)'
<1>1. /\ req' = req /\ route'[d] = route[d] /\ attempt'[d] = attempt[d]
      /\ result'[d] = result[d] /\ tries'[d] = tries[d] /\ eligible'[d] = eligible[d]
  BY DEF OnlyCall
<1>2. (TryingOK(d)' <=> TryingOK(d)) /\ (DoneOK(d)' <=> DoneOK(d))
  BY <1>1 DEF TryingOK, DoneOK
<1> QED BY <1>1, <1>2 DEF CallOK

LEMMA CallWalks ==
  ASSUME NEW d \in Calls, CallOK(d), UNCHANGED callVars,
         pc'[d] = pc[d] \/ (pc[d] \in Trying /\ pc'[d] \in Trying)
  PROVE  CallOK(d)'
<1>1. /\ req' = req /\ route' = route /\ attempt' = attempt
      /\ result' = result /\ tries' = tries /\ eligible' = eligible
  BY DEF callVars
<1>2. (TryingOK(d)' <=> TryingOK(d)) /\ (DoneOK(d)' <=> DoneOK(d))
  BY <1>1 DEF TryingOK, DoneOK
<1>3. \A at \in Trying : at \notin {"idle", "start", "done"}
  BY DEF Trying
<1> QED BY <1>1, <1>2, <1>3 DEF CallOK

CallsOK == CallTypes /\ \A c \in Calls : CallOK(c)

(* A goroutine moves between two steps of an attempt, or none moves.       *)
LEMMA CallsWalk ==
  ASSUME CallsOK, pc \in [Goroutines -> PCs], UNCHANGED callVars,
         NEW g \in Goroutines, NEW from, NEW to, Goto(g, from, to),
         g \in Calls => from \in Trying /\ to \in Trying
  PROVE  CallsOK'
<1>1. CallTypes'
  BY DEF CallTypes, callVars, CallsOK
<1>2. ASSUME NEW d \in Calls PROVE CallOK(d)'
  <2>1. d \in Goroutines /\ CallOK(d)
    BY DEF Goroutines, CallsOK
  <2>2. pc'[d] = pc[d] \/ (pc[d] \in Trying /\ pc'[d] \in Trying)
    BY <2>1, GotoMoves
  <2> QED BY <2>1, <2>2, CallWalks
<1> QED BY <1>1, <1>2 DEF CallsOK

(* Call c takes a step of its own.                                         *)
LEMMA CallsStep ==
  ASSUME CallsOK, pc \in [Goroutines -> PCs], NEW c \in Calls, NEW from, NEW to,
         Goto(c, from, to), CallTypes', CallOK(c)', OnlyCall(c)
  PROVE  CallsOK'
<1>1. ASSUME NEW d \in Calls, d # c PROVE CallOK(d)'
  <2>1. d \in Goroutines /\ c \in Goroutines /\ CallOK(d)
    BY DEF Goroutines, CallsOK
  <2>2. pc'[d] = pc[d]
    BY <1>1, <2>1, GotoMoves
  <2> QED BY <1>1, <2>1, <2>2, CallSame
<1> QED BY <1>1 DEF CallsOK

LEMMA CallsFail ==
  ASSUME CallsOK, pc \in [Goroutines -> PCs], NEW c \in Calls, NEW at \in Trying, pc[c] = at,
         (\E err : Fail(c, at, err)) \/ Succeed(c, at)
  PROVE  CallsOK'
<1>1. CallTypes /\ TryingOK(c)
  BY DEF CallsOK, CallOK
<1>2. CallTypes' /\ CallOK(c)' /\ OnlyCall(c)
  BY <1>1, FailStep, SucceedStep
<1>3. Goto(c, at, "try") \/ Goto(c, at, "done")
  BY DEF Fail, Succeed
<1> QED BY <1>2, <1>3, CallsStep

LEMMA StartCalls ==
  ASSUME CallsOK, pc \in [Goroutines -> PCs], NEW c \in Calls, ProcessPayment(c)
  PROVE  CallsOK'
<1>1. c \in Goroutines /\ UNCHANGED callVars
  BY DEF Goroutines, ProcessPayment
<1>2. pc[c] = "idle" /\ pc'[c] = "start"
  BY <1>1, GotoMoves DEF ProcessPayment
<1>3. /\ req' = req /\ route' = route /\ attempt' = attempt
      /\ result' = result /\ tries' = tries /\ eligible' = eligible
  BY <1>1 DEF callVars
<1>4. CallOK(c)
  BY DEF CallsOK
<1>5. CallOK(c)'
  BY <1>2, <1>3, <1>4 DEF CallOK, Trying, ProcessPayment
<1>6. CallTypes' /\ OnlyCall(c)
  BY <1>3 DEF CallTypes, OnlyCall, CallsOK
<1> QED BY <1>5, <1>6, CallsStep DEF ProcessPayment

LEMMA RefundCalls ==
  ASSUME CallsOK, pc \in [Goroutines -> PCs], NEW c \in Calls, ProcessRefund(c)
  PROVE  CallsOK'
<1> PICK p : p = req[c].preferred
  OBVIOUS
<1>1. c \in Goroutines /\ CallTypes /\ CallOK(c)
  BY DEF Goroutines, CallsOK
<1>2. pc[c] = "idle" /\ pc'[c] = "try"
  BY <1>1, GotoMoves DEF ProcessRefund
<1>3. req[c].kind = "refund" /\ req[c] \in Requests
  BY <1>1 DEF ProcessRefund, CallTypes
<1>4. p \in Providers
  BY <1>3, ConstantsAssumption DEF RequestOK
<1>5. /\ req' = req /\ attempt' = attempt /\ result' = result
      /\ tries' = tries /\ eligible' = eligible /\ route' = [route EXCEPT ![c] = <<p>>]
  BY DEF ProcessRefund
<1>6. /\ route' \in [Calls -> Seq(Providers)] /\ route'[c] = <<p>>
      /\ \A d \in Calls \ {c} : route'[d] = route[d]
  <2> PICK l : l = <<p>>
    OBVIOUS
  <2>1. l \in Seq(Providers)
    BY <1>4
  <2>2. route \in [Calls -> Seq(Providers)] /\ route' = [route EXCEPT ![c] = l]
    BY <1>1, <1>5 DEF CallTypes
  <2>3. /\ route' \in [Calls -> Seq(Providers)] /\ route'[c] = l
        /\ \A d \in Calls \ {c} : route'[d] = route[d]
    BY <2>1, <2>2
  <2> QED BY <2>3
<1>7. tries[c] = <<>> /\ result[c] = "none" /\ eligible[c] = {}
  BY <1>1, <1>2 DEF CallOK
<1>8. TryingOK(c)'
  <2>1. <<p>> # <<>> /\ Len(<<p>>) = 1
    OBVIOUS
  <2>2. req'[c].kind # "payment"
    BY <1>3, <1>5
  <2> QED BY <1>5, <1>6, <1>7, <2>1, <2>2 DEF TryingOK
<1>9. CallOK(c)'
  BY <1>2, <1>8 DEF CallOK, Trying
<1>10. CallTypes' /\ OnlyCall(c)
  BY <1>1, <1>5, <1>6 DEF CallTypes, OnlyCall
<1> QED BY <1>9, <1>10, CallsStep DEF ProcessRefund

LEMMA CopyCalls ==
  ASSUME CallsOK, pc \in [Goroutines -> PCs], NEW c \in Calls, CopyConfig(c),
         Lists(order, enabled), enabled \subseteq Providers, ByPriority
  PROVE  CallsOK'
<1> DEFINE E == {p \in enabled : SupportsCurrency(p, req[c].currency)}
<1> PICK l : l = GetProvidersForRequest(req[c])
  OBVIOUS
<1>1. c \in Goroutines /\ CallTypes /\ CallOK(c)
  BY DEF Goroutines, CallsOK
<1>2. Lists(l, E) /\ Ranked(l, E, req[c])
  BY RouteLists
<1>3. E \subseteq Providers
  OBVIOUS
<1>4. eligible' = [eligible EXCEPT ![c] = E] /\ route' = [route EXCEPT ![c] = l]
  BY DEF CopyConfig
<1> HIDE DEF E
<1>5. pc[c] = "start"
  BY DEF CopyConfig, Goto
<1>6. /\ tries[c] = <<>> /\ attempt[c] = 0 /\ result[c] = "none"
      /\ req[c].kind = "payment" /\ req[c].kind # "refund"
  BY <1>1, <1>5 DEF CallOK
<1>7. req' = req /\ attempt' = attempt /\ tries' = tries
  BY DEF CopyConfig
<1>8. /\ route' \in [Calls -> Seq(Providers)] /\ route'[c] = l
      /\ \A d \in Calls \ {c} : route'[d] = route[d]
  BY <1>1, <1>2, <1>4 DEF CallTypes, Lists
<1>9. /\ eligible' \in [Calls -> SUBSET Providers] /\ eligible'[c] = E
      /\ \A d \in Calls \ {c} : eligible'[d] = eligible[d]
  BY <1>1, <1>3, <1>4 DEF CallTypes
<1>10. CASE l = <<>> /\ Goto(c, "start", "done")
            /\ result' = [result EXCEPT ![c] = "no providers"]
  <2>1. pc'[c] = "done"
    BY <1>1, <1>10, GotoMoves
  <2>2. /\ result' \in [Calls -> Providers \cup {"none", "no providers", "failed"}]
        /\ result'[c] = "no providers" /\ \A d \in Calls \ {c} : result'[d] = result[d]
    BY <1>1, <1>10 DEF CallTypes
  <2>3. E = {}
    <3>1. Len(l) = 0
      BY <1>10, EmptySeq
    <3> QED BY <1>2, <3>1 DEF Lists
  <2>4. PolicyOK(<<>>, E) /\ InOrder(<<>>, E, req[c])
    BY PolicyEmpty, EmptySeq DEF InOrder
  <2>5. DoneOK(c)'
    BY <1>6, <1>7, <1>9, <2>2, <2>3, <2>4 DEF DoneOK
  <2>6. CallOK(c)'
    BY <2>1, <2>5 DEF CallOK, Trying
  <2>7. CallTypes' /\ OnlyCall(c)
    BY <1>1, <1>7, <1>8, <1>9, <2>2 DEF CallTypes, OnlyCall
  <2> QED BY <1>10, <2>6, <2>7, CallsStep
<1>11. CASE l # <<>> /\ Goto(c, "start", "try") /\ UNCHANGED result
  <2>1. pc'[c] = "try"
    BY <1>1, <1>11, GotoMoves
  <2>2. /\ l \in Seq(Providers) /\ Len(l) \in Nat /\ Len(l) >= 1 /\ Head(l) = l[1]
        /\ Head(l) \in Providers
    BY <1>2, <1>11 DEF Lists
  <2>3. \A q : At(<<>>, q) = {}
    BY DEF At
  <2>4. Visit(<<>>, Head(l), 0)
    <3>1. <<>> \in Seq(Try) /\ ~(Len(<<>>) > 0)
      BY EmptySeq
    <3> QED BY <2>2, <2>3, <3>1, VisitStarts
  <2>5. PolicyOK(<<>>, E) /\ InOrder(<<>>, E, req[c]) /\ Turns(l, <<>>, E, req[c])
    BY <1>2, PolicyEmpty, EmptySeq DEF InOrder, Ranked, Turns
  <2>6. /\ \A i, j \in 1 .. Len(l) : l[i] = l[j] => i = j
        /\ \A i \in 1 .. Len(l) : l[i] \in E
        /\ \A p \in E : \E i \in 1 .. Len(l) : l[i] = p
    BY <1>2 DEF Lists
  <2>7. req'[c].kind # "refund" /\ result'[c] = "none" /\ tries'[c] = <<>> /\ attempt'[c] = 0
    BY <1>6, <1>7, <1>11
  <2>8. TryingOK(c)'
    <3>1. route'[c] = l /\ eligible'[c] = E /\ tries'[c] = <<>> /\ req' = req
      BY <1>7, <1>8, <1>9, <2>7
    <3>2. /\ InOrder(tries'[c], eligible'[c], req'[c])
          /\ Turns(route'[c], tries'[c], eligible'[c], req'[c])
      BY <2>5, <3>1
    <3>3. /\ PolicyOK(tries'[c], eligible'[c])
          /\ Visit(tries'[c], Head(route'[c]), attempt'[c])
      BY <2>4, <2>5, <2>7, <3>1
    <3>4. \A i \in 2 .. Len(route'[c]) : At(tries'[c], route'[c][i]) = {}
      BY <2>3, <3>1
    <3>5. /\ \A i, j \in 1 .. Len(route'[c]) : route'[c][i] = route'[c][j] => i = j
          /\ \A i \in 1 .. Len(route'[c]) : route'[c][i] \in eligible'[c]
          /\ \A p \in eligible'[c] : \E i \in 1 .. Len(route'[c]) : route'[c][i] = p
      BY <2>6, <3>1
    <3> QED BY <1>11, <2>7, <3>1, <3>2, <3>3, <3>4, <3>5 DEF TryingOK
  <2>9. CallOK(c)'
    BY <2>1, <2>8 DEF CallOK, Trying
  <2>10. CallTypes' /\ OnlyCall(c)
    BY <1>1, <1>7, <1>8, <1>9, <1>11 DEF CallTypes, OnlyCall
  <2> QED BY <1>11, <2>9, <2>10, CallsStep
<1> QED BY <1>10, <1>11 DEF CopyConfig

LEMMA CallsKept ==
  ASSUME CallsOK, LockInv, Lists(order, enabled), enabled \subseteq Providers, ByPriority, [Next]_vars
  PROVE  CallsOK'
<1>1. pc \in [Goroutines -> PCs]
  BY DEF LockInv
<1>2. CASE UNCHANGED vars
  <2>1. UNCHANGED callVars /\ pc' = pc
    BY <1>2 DEF vars
  <2>2. CallTypes'
    BY <2>1 DEF callVars, CallTypes, CallsOK
  <2> QED BY <2>1, <2>2, CallWalks DEF CallsOK
<1>3. ASSUME NEW a \in Admins, AskToConfigure(a) \/ Configure(a) PROVE CallsOK'
  <2>1. a \in Goroutines /\ a \notin Calls
    BY ConstantsAssumption DEF Goroutines
  <2> QED BY <1>1, <1>3, <2>1, CallsWalk DEF AskToConfigure, Configure
<1>4. ASSUME NEW c \in Calls, Prepare(c) PROVE CallsOK'
  <2>1. CASE \E err : Fail(c, "try", err)
    BY <1>1, <1>4, <2>1, CallsFail DEF Prepare, Trying
  <2>2. CASE (\E to \in {"token", "send"} : Goto(c, "try", to)) /\ UNCHANGED callVars
    <3>1. c \in Goroutines /\ "try" \in Trying /\ \A to \in {"token", "send"} : to \in Trying
      BY DEF Goroutines, Trying
    <3>2. PICK to \in {"token", "send"} : Goto(c, "try", to)
      BY <2>2
    <3> QED BY <1>1, <2>2, <3>1, <3>2, CallsWalk
  <2> QED BY <1>4, <2>1, <2>2 DEF Prepare
<1>5. ASSUME NEW c \in Calls, Request(c) PROVE CallsOK'
  <2>1. "send" \in Trying
    BY DEF Trying
  <2> QED BY <1>1, <1>5, <2>1, CallsFail DEF Request
<1>6. ASSUME NEW h \in Checkers, Healthcheck(h) \/ Release(h) PROVE CallsOK'
  <2>1. h \in Goroutines /\ h \notin Calls
    BY ConstantsAssumption DEF Goroutines
  <2> QED BY <1>1, <1>6, <2>1, CallsWalk DEF Healthcheck, Release
<1>7. ASSUME NEW g \in Fetchers, ReadToken(g) \/ LockToken(g) \/ FetchToken(g) PROVE CallsOK'
  <2>1. g \in Goroutines
    BY DEF Goroutines, Fetchers
  <2>2. g \in Calls => AfterToken(g) \in Trying
    BY DEF AfterToken, Trying
  <2>3. {"token", "lock", "fetch"} \subseteq Trying
    BY DEF Trying
  <2>4. PICK from \in {"token", "lock", "fetch"}, to \in {AfterToken(g), "lock", "fetch"} : Goto(g, from, to)
    BY <1>7 DEF ReadToken, LockToken, FetchToken
  <2>5. UNCHANGED callVars
    BY <1>7 DEF ReadToken, LockToken, FetchToken
  <2>6. g \in Calls => from \in Trying /\ to \in Trying
    BY <2>2, <2>3
  <2> QED BY <1>1, <2>1, <2>4, <2>5, <2>6, CallsWalk
<1>8. ASSUME NEW g \in Fetchers, NoToken(g) PROVE CallsOK'
  <2>1. "fetch" \in Trying /\ g \in Goroutines
    BY DEF Trying, Goroutines, Fetchers
  <2>2. CASE g \in Calls
    <3>1. \E err : Fail(g, "fetch", err)
      BY <1>8, <2>2, ConstantsAssumption DEF NoToken
    <3> QED BY <1>1, <1>8, <2>1, <2>2, <3>1, CallsFail DEF NoToken
  <2>3. CASE g \notin Calls
    BY <1>1, <1>8, <2>1, <2>3, CallsWalk DEF NoToken
  <2> QED BY <2>2, <2>3
<1>9. CASE Expire
  <2>1. UNCHANGED callVars /\ pc' = pc
    BY <1>9 DEF Expire
  <2>2. CallTypes'
    BY <2>1 DEF callVars, CallTypes, CallsOK
  <2> QED BY <2>1, <2>2, CallWalks DEF CallsOK
<1> QED
  BY <1>1, <1>2, <1>3, <1>4, <1>5, <1>6, <1>7, <1>8, <1>9, StartCalls, RefundCalls, CopyCalls
  DEF Next, Fetchers
-----------------------------------------------------------------------------
(* The configuration and its readers.                                      *)

ConfigOK ==
  /\ enabled \subseteq registered /\ registered \subseteq Providers
  /\ order \in SetToSeqs(enabled)
  /\ \A i, j \in DOMAIN order : i < j => Priority[order[i]] <= Priority[order[j]]

LEMMA ConfigStep ==
  ASSUME ConfigOK, [Next]_vars
  PROVE  ConfigOK'
<1>1. CASE UNCHANGED routerVars
  BY <1>1 DEF routerVars, ConfigOK
<1>2. ASSUME NEW a \in Admins, Configure(a) PROVE ConfigOK'
  <2>1. PICK p \in Providers : Register(p) \/ EnableProvider(p) \/ DisableProvider(p) \/ ErrUnknownProvider(p)
    BY <1>2 DEF Configure
  <2>2. CASE ErrUnknownProvider(p)
    BY <1>1, <2>2 DEF ErrUnknownProvider
  <2>3. CASE RebuildOrder /\ enabled' \subseteq registered' /\ registered' \subseteq Providers
    BY <2>3 DEF RebuildOrder, ConfigOK
  <2> QED BY <2>1, <2>2, <2>3 DEF Register, EnableProvider, DisableProvider, ConfigOK
<1>3. \/ \E a \in Admins : Configure(a)
      \/ UNCHANGED routerVars
  <2>1. CASE UNCHANGED vars
    BY <2>1 DEF vars
  <2>2. ASSUME NEW c \in Calls, ProcessPayment(c) \/ ProcessRefund(c) \/ CopyConfig(c)
                                \/ Prepare(c) \/ Request(c)
        PROVE  UNCHANGED routerVars
    BY <2>2 DEF ProcessPayment, ProcessRefund, CopyConfig, Prepare, Request
  <2>3. ASSUME NEW h, \/ Healthcheck(h) \/ Release(h) \/ ReadToken(h) \/ LockToken(h)
                      \/ FetchToken(h) \/ NoToken(h) \/ AskToConfigure(h) \/ Expire
        PROVE  UNCHANGED routerVars
    BY <2>3 DEF Healthcheck, Release, ReadToken, LockToken, FetchToken, NoToken, AskToConfigure, Expire
  <2> QED BY <2>1, <2>2, <2>3 DEF Next
<1> QED BY <1>1, <1>2, <1>3

ReadersOK == reading = {h \in Checkers : pc[h] # "idle"}

(* Whoever does not start or end a health check leaves the readers alone.  *)
LEMMA ReadersSame ==
  ASSUME ReadersOK, pc \in [Goroutines -> PCs], NEW g \in Goroutines, NEW from, NEW to,
         Goto(g, from, to), reading' = reading,
         g \notin Checkers \/ (from # "idle" /\ to # "idle")
  PROVE  ReadersOK'
<1>1. \A h \in Checkers : h \in Goroutines /\ (pc'[h] # "idle" <=> pc[h] # "idle")
  BY GotoMoves DEF Goroutines
<1> QED BY <1>1 DEF ReadersOK

LEMMA ReadersStep ==
  ASSUME ReadersOK, LockInv, [Next]_vars
  PROVE  ReadersOK'
<1>1. pc \in [Goroutines -> PCs] /\ \A g \in Calls \cup Admins : g \in Goroutines /\ g \notin Checkers
  BY ConstantsAssumption DEF LockInv, Goroutines
<1>2. CASE UNCHANGED vars \/ Expire
  BY <1>2 DEF vars, Expire, ReadersOK
<1>3. ASSUME NEW c \in Calls, ProcessPayment(c) \/ ProcessRefund(c) \/ CopyConfig(c)
                              \/ Prepare(c) \/ Request(c)
      PROVE  ReadersOK'
  <2>1. reading' = reading
    BY <1>3 DEF ProcessPayment, ProcessRefund, CopyConfig, Prepare, Request
  <2>2. PICK from, to : Goto(c, from, to)
    BY <1>3 DEF ProcessPayment, ProcessRefund, CopyConfig, Prepare, Request, Succeed, Fail
  <2> QED BY <1>1, <2>1, <2>2, ReadersSame
<1>4. ASSUME NEW a \in Admins, AskToConfigure(a) \/ Configure(a) PROVE ReadersOK'
  BY <1>1, <1>4, ReadersSame DEF AskToConfigure, Configure
<1>5. ASSUME NEW g \in Fetchers, ReadToken(g) \/ LockToken(g) \/ FetchToken(g) \/ NoToken(g)
      PROVE  ReadersOK'
  <2>1. reading' = reading /\ g \in Goroutines
    BY <1>5 DEF ReadToken, LockToken, FetchToken, NoToken, Fetchers, Goroutines
  <2>2. AfterToken(g) # "idle"
    BY DEF AfterToken
  <2>3. PICK from \in {"token", "lock", "fetch"},
             to \in {AfterToken(g), "lock", "fetch", "try", "done", "release"} : Goto(g, from, to)
    BY <1>5 DEF ReadToken, LockToken, FetchToken, NoToken, Fail
  <2>4. from # "idle" /\ to # "idle"
    BY <2>2
  <2> QED BY <1>1, <2>1, <2>3, <2>4, ReadersSame
<1>6. ASSUME NEW h \in Checkers, Healthcheck(h) PROVE ReadersOK'
  <2>1. h \in Goroutines /\ pc'[h] # "idle" /\ \A g \in Goroutines \ {h} : pc'[g] = pc[g]
    BY <1>1, <1>6, GotoMoves DEF Healthcheck, Goroutines
  <2>2. \A g \in Checkers : pc'[g] # "idle" <=> pc[g] # "idle" \/ g = h
    BY <2>1 DEF Goroutines
  <2> QED BY <1>6, <2>2 DEF ReadersOK, Healthcheck
<1>7. ASSUME NEW h \in Checkers, Release(h) PROVE ReadersOK'
  <2>1. h \in Goroutines /\ pc'[h] = "idle" /\ \A g \in Goroutines \ {h} : pc'[g] = pc[g]
    BY <1>1, <1>7, GotoMoves DEF Release, Goroutines
  <2>2. \A g \in Checkers : pc'[g] # "idle" <=> pc[g] # "idle" /\ g # h
    BY <2>1 DEF Goroutines
  <2> QED BY <1>7, <2>2 DEF ReadersOK, Release
<1> QED BY <1>2, <1>3, <1>4, <1>5, <1>6, <1>7 DEF Next, Fetchers

-----------------------------------------------------------------------------
(* What the providers have made.                                           *)

ChargesOK == made \in [Providers -> [Calls -> Nat]] /\ ChargeInv

LEMMA KeysArePayments ==
  ASSUME CallTypes, NEW c \in Calls, req[c].key # None
  PROVE  c \in WithKey(req[c].key)
<1>1. req[c] \in Requests
  BY DEF CallTypes
<1> QED BY <1>1, ConstantsAssumption DEF RequestOK, WithKey

(* A request that was carried out, now or for the same key before.         *)
LEMMA PerformStep ==
  ASSUME CallTypes, ChargesOK, NEW c \in Calls, NEW p \in Providers, p = Provider(c), Perform(c),
         req' = req
  PROVE  ChargesOK'
<1> PICK k : k = IF p = "stripe" THEN req[c].key ELSE None
  OBVIOUS
<1>1. /\ p \in Providers /\ made \in [Providers -> [Calls -> Nat]]
      /\ made' = IF k \in seen THEN made ELSE [made EXCEPT ![p][c] = @ + 1]
      /\ seen' = IF k = None THEN seen ELSE seen \cup {k}
  BY DEF Perform, IdempotencyKey, ChargesOK
<1>2. /\ None \notin seen
      /\ \A h \in seen : \E d \in WithKey(h) : made["stripe"][d] > 0
      /\ \A b \in Calls : req[b].key # None /\ req[b].key \notin seen => made["stripe"][b] = 0
      /\ \A b, d \in Calls : req[b].key # None /\ req[b].key = req[d].key =>
           made["stripe"][b] <= 1 /\ (made["stripe"][b] > 0 /\ made["stripe"][d] > 0 => b = d)
  BY DEF ChargesOK, ChargeInv
<1>3. \A h : WithKey(h)' = WithKey(h) /\ WithKey(h) \subseteq Calls
  BY DEF WithKey
<1>4. "stripe" \in Providers
  BY DEF Providers
<1>5. CASE k \in seen
  <2>1. made' = made /\ seen' = seen /\ p = "stripe" /\ k = req[c].key /\ k # None
    BY <1>1, <1>2, <1>5
  <2>2. ChargeInv'
    BY <1>2, <1>3, <2>1 DEF ChargeInv
  <2> QED BY <1>1, <2>1, <2>2 DEF ChargesOK
<1>6. CASE k \notin seen
  <2>1. /\ made' \in [Providers -> [Calls -> Nat]]
        /\ made'[p][c] = made[p][c] + 1
        /\ \A d \in Calls \ {c} : made'[p][d] = made[p][d]
        /\ \A q \in Providers \ {p} : made'[q] = made[q]
    BY <1>1, <1>6
  <2>2. \A q \in Providers, d \in Calls : made[q][d] \in Nat /\ made'[q][d] >= made[q][d]
    BY <1>1, <2>1
  <2>3. made'[p][c] > 0
    BY <1>1, <2>1
  <2>4. \A h \in seen' : \E d \in WithKey(h) : made'["stripe"][d] > 0
    <3> SUFFICES ASSUME NEW h \in seen' PROVE \E d \in WithKey(h) : made'["stripe"][d] > 0
      OBVIOUS
    <3>1. CASE h \in seen
      <4>1. PICK d \in WithKey(h) : made["stripe"][d] > 0
        BY <1>2, <3>1
      <4>2. made'["stripe"][d] >= made["stripe"][d] /\ made["stripe"][d] \in Nat
            /\ made'["stripe"][d] \in Nat
        BY <1>3, <1>4, <2>1, <2>2, <4>1
      <4>3. made'["stripe"][d] > 0
        BY <4>1, <4>2
      <4> QED BY <4>1, <4>3
    <3>2. CASE h \notin seen
      <4>1. h = k /\ k # None /\ p = "stripe" /\ k = req[c].key
        BY <1>1, <3>2
      <4>2. c \in WithKey(h)
        BY <4>1, KeysArePayments
      <4> QED BY <2>3, <4>1, <4>2
    <3> QED BY <3>1, <3>2
  <2>5. ASSUME NEW b \in Calls, req[b].key # None, req[b].key \notin seen'
        PROVE  made'["stripe"][b] = 0
    <3>1. req[b].key \notin seen /\ (p = "stripe" => b # c)
      BY <1>1, <2>5
    <3>2. made["stripe"][b] = 0
      BY <1>2, <2>5, <3>1
    <3> QED BY <1>4, <2>1, <3>1, <3>2
  <2>6. ASSUME NEW b \in Calls, NEW d \in Calls, req[b].key # None, req[b].key = req[d].key
        PROVE  made'["stripe"][b] <= 1 /\ (made'["stripe"][b] > 0 /\ made'["stripe"][d] > 0 => b = d)
    <3>1. CASE p = "stripe" /\ req[b].key = k
      <4>1. made["stripe"][b] = 0 /\ made["stripe"][d] = 0
        BY <1>2, <1>6, <2>6, <3>1
      <4>2. /\ made'["stripe"][b] = IF b = c THEN 1 ELSE 0
            /\ made'["stripe"][d] = IF d = c THEN 1 ELSE 0
        BY <2>1, <3>1, <4>1
      <4> QED BY <4>2
    <3>2. CASE ~(p = "stripe" /\ req[b].key = k)
      <4>1. made'["stripe"][b] = made["stripe"][b] /\ made'["stripe"][d] = made["stripe"][d]
        BY <1>1, <1>4, <2>1, <2>6, <3>2
      <4> QED BY <1>2, <2>6, <4>1
    <3> QED BY <3>1, <3>2
  <2>7. None \notin seen'
    BY <1>1, <1>2
  <2>8. ChargeInv'
    BY <1>3, <2>4, <2>5, <2>6, <2>7 DEF ChargeInv
  <2> QED BY <2>1, <2>8 DEF ChargesOK
<1> QED BY <1>5, <1>6

LEMMA ChargesSame ==
  ASSUME ChargesOK, UNCHANGED providerVars, req' = req
  PROVE  ChargesOK'
BY DEF ChargesOK, ChargeInv, WithKey, providerVars

LEMMA RequestCharges ==
  ASSUME CallsOK, ChargesOK, NEW c \in Calls, Request(c)
  PROVE  ChargesOK'
<1>1. pc[c] = "send" /\ "send" \in Trying
  BY DEF Request, Trying
<1>2. CallTypes /\ TryingOK(c)
  BY <1>1 DEF CallsOK, CallOK
<1>3. Provider(c) \in Providers
  BY <1>2, RouteHead DEF TryingOK
<1>4. req' = req /\ (Perform(c) \/ UNCHANGED providerVars)
  BY DEF Request, Succeed, Fail
<1> QED BY <1>2, <1>3, <1>4, PerformStep, ChargesSame

LEMMA ChargesStep ==
  ASSUME CallsOK, ChargesOK, [Next]_vars
  PROVE  ChargesOK'
<1>1. CASE UNCHANGED vars
  BY <1>1, ChargesSame DEF vars, callVars
<1>2. ASSUME NEW c \in Calls, ProcessPayment(c) \/ ProcessRefund(c) \/ CopyConfig(c) \/ Prepare(c)
      PROVE  UNCHANGED providerVars /\ req' = req
  BY <1>2 DEF ProcessPayment, ProcessRefund, CopyConfig, Prepare, Fail, callVars
<1>3. ASSUME NEW a, \/ AskToConfigure(a) \/ Configure(a) \/ Healthcheck(a) \/ Release(a)
                    \/ ReadToken(a) \/ LockToken(a) \/ FetchToken(a) \/ NoToken(a) \/ Expire
      PROVE  UNCHANGED providerVars /\ req' = req
  BY <1>3 DEF AskToConfigure, Configure, Healthcheck, Release, ReadToken, LockToken, FetchToken,
              NoToken, Expire, Fail, callVars
<1> QED BY <1>1, <1>2, <1>3, RequestCharges, ChargesSame DEF Next

-----------------------------------------------------------------------------
(* The invariant, and what the runs check.                                 *)

LEMMA InvParts ==
  RouterInv /\ LockInv <=> LockInv /\ ConfigOK /\ ReadersOK /\ CallsOK /\ ChargesOK
BY DEF RouterInv, LockInv, Fetchers, TypeOK, ConfigOK, ReadersOK, CallsOK, CallTypes, ChargesOK, Try

LEMMA InvPartsNext ==
  LockInv' /\ ConfigOK' /\ ReadersOK' /\ CallsOK' /\ ChargesOK' => (RouterInv /\ LockInv)'
BY DEF RouterInv, LockInv, Fetchers, TypeOK, ConfigOK, ReadersOK, CallsOK, CallTypes, ChargesOK, Try

LEMMA RouterInit == Init => RouterInv /\ LockInv
<1> SUFFICES ASSUME Init PROVE RouterInv /\ LockInv
  OBVIOUS
<1>1. LockInv
  BY InitLockInv
<1>2. ConfigOK
  <2>1. Cardinality({}) = 0
    BY FS_EmptySet
  <2>2. <<>> \in SetToSeqs({})
    <3>1. <<>> \in [1 .. 0 -> {}]
      OBVIOUS
    <3> QED BY <2>1, <3>1 DEF SetToSeqs
  <2> QED BY <2>2 DEF Init, ConfigOK
<1>3. ReadersOK
  BY DEF Init, ReadersOK, Goroutines
<1>4. CallsOK
  <2>1. \A c \in Calls : pc[c] = "idle"
    BY DEF Init, Goroutines
  <2>2. CallTypes
    BY DEF Init, CallTypes
  <2> QED BY <2>1, <2>2 DEF Init, CallsOK, CallOK, Trying
<1>5. ChargesOK
  BY DEF Init, ChargesOK, ChargeInv, Providers
<1> QED BY <1>1, <1>2, <1>3, <1>4, <1>5, InvParts

LEMMA RouterNext == RouterInv /\ LockInv /\ [Next]_vars => (RouterInv /\ LockInv)'
<1> SUFFICES ASSUME RouterInv, LockInv, [Next]_vars PROVE (RouterInv /\ LockInv)'
  OBVIOUS
<1>1. ConfigOK /\ ReadersOK /\ CallsOK /\ ChargesOK
  BY InvParts
<1>2. Lists(order, enabled) /\ enabled \subseteq Providers /\ ByPriority
  BY <1>1, SeqsList DEF ConfigOK, ByPriority
<1>3. LockInv' /\ ConfigOK' /\ ReadersOK' /\ CallsOK' /\ ChargesOK'
  BY <1>1, <1>2, NextLockInv, ConfigStep, ReadersStep, CallsKept, ChargesStep
<1> QED BY <1>3, InvPartsNext

(* The inductive invariant of the router holds.                            *)
THEOREM Invariance == Spec => []RouterInv
<1>1. Spec => [](RouterInv /\ LockInv)
  BY RouterInit, RouterNext, PTL DEF Spec
<1> QED BY <1>1, PTL

(* Every variable has its type: in particular the order always lists the   *)
(* enabled providers, each once and by priority.                           *)
THEOREM TypeCorrect == Spec => []TypeOK
BY Invariance, PTL DEF RouterInv

LEMMA OneCharge == RouterInv => StripeChargesOnce
BY DEF RouterInv, ChargeInv, StripeChargesOnce, WithKey, Keys

(* At most one charge is created at Stripe for an idempotency key.         *)
THEOREM ChargedOnce == Spec => []StripeChargesOnce
BY Invariance, OneCharge, PTL

LEMMA CallTried ==
  ASSUME RouterInv, NEW c \in Calls
  PROVE  /\ req[c].kind = "refund" => Len(tries[c]) <= 1
         /\ req[c].kind = "payment" => PolicyOK(tries[c], eligible[c])
         /\ req[c].kind = "payment" => InOrder(tries[c], eligible[c], req[c])
         /\ req[c].kind = "refund" => eligible[c] = {}
         /\ result[c] = "failed" =>
              Len(tries[c]) > 0 /\ \A p \in eligible[c] : At(tries[c], p) # {}
         /\ result[c] = "no providers" => eligible[c] = {} /\ tries[c] = <<>>
<1>1. CallOK(c) /\ tries[c] \in Seq(Try)
  BY DEF RouterInv, TypeOK, Try
<1>2. Len(<<>>) = 0 /\ PolicyOK(<<>>, eligible[c]) /\ InOrder(<<>>, eligible[c], req[c])
  BY PolicyEmpty, EmptySeq DEF InOrder
<1>3. CASE pc[c] \in {"idle", "start"}
  <2>1. tries[c] = <<>> /\ result[c] = "none" /\ eligible[c] = {}
    BY <1>1, <1>3 DEF CallOK
  <2>2. /\ PolicyOK(tries[c], eligible[c]) /\ Len(tries[c]) = 0
        /\ InOrder(tries[c], eligible[c], req[c])
    BY <1>2, <2>1
  <2> QED BY <2>1, <2>2
<1>4. CASE pc[c] \in Trying
  <2>1. TryingOK(c)
    BY <1>1, <1>4 DEF CallOK
  <2>2. result[c] = "none"
    BY <2>1 DEF TryingOK
  <2>3. req[c].kind = "refund" => tries[c] = <<>> /\ eligible[c] = {}
    BY <2>1 DEF TryingOK
  <2>4. req[c].kind = "refund" => Len(tries[c]) = 0
    BY <1>2, <2>3
  <2>5. req[c].kind = "payment" =>
          PolicyOK(tries[c], eligible[c]) /\ InOrder(tries[c], eligible[c], req[c])
    BY <2>1 DEF TryingOK
  <2> QED BY <2>2, <2>3, <2>4, <2>5
<1>5. CASE pc[c] = "done"
  BY <1>1, <1>5 DEF CallOK, DoneOK
<1> QED BY <1>1, <1>3, <1>4, <1>5 DEF CallOK

LEMMA PolicyHolds == RouterInv => RetryPolicy
<1> SUFFICES ASSUME RouterInv, NEW d \in Calls
             PROVE  /\ req[d].kind = "refund" => Len(tries[d]) <= 1
                    /\ req[d].kind = "payment" => PolicyOK(tries[d], eligible[d])
  BY DEF RetryPolicy, PolicyOK, TriesAt, At, Used
<1> QED BY CallTried

(* A payment is tried again and goes to another provider exactly as the    *)
(* configuration it started with allows.                                   *)
THEOREM RetriesAsConfigured == Spec => []RetryPolicy
BY Invariance, PolicyHolds, PTL

LEMMA FailoverHolds == RouterInv => FailoverInOrder
<1> SUFFICES ASSUME RouterInv, NEW c \in Calls
    PROVE  LET tried(n) == {tries[c][i].provider : i \in 1 .. n} IN
      /\ \A i \in DOMAIN tries[c], p \in eligible[c] :
           Ranks(req[c], p, tries[c][i].provider) => p \in tried(i - 1)
      /\ result[c] = "failed" => tries[c] # <<>> /\ eligible[c] \subseteq tried(Len(tries[c]))
      /\ result[c] = "no providers" => eligible[c] = {} /\ tries[c] = <<>>
  BY DEF FailoverInOrder
<1> DEFINE tried(n) == {tries[c][i].provider : i \in 1 .. n}
<1>1. tries[c] \in Seq(Try) /\ DOMAIN tries[c] = 1 .. Len(tries[c]) /\ Len(tries[c]) \in Nat
  <2>1. tries[c] \in Seq(Try)
    BY DEF RouterInv, TypeOK, Try
  <2> QED BY <2>1
<1>2. InOrder(tries[c], eligible[c], req[c])
  <2>1. req[c] \in Requests
    BY DEF RouterInv, TypeOK
  <2>2. req[c].kind = "payment" \/ req[c].kind = "refund"
    BY <2>1, ConstantsAssumption DEF RequestOK
  <2>3. req[c].kind = "refund" => InOrder(tries[c], eligible[c], req[c])
    BY CallTried DEF InOrder
  <2> QED BY <2>2, <2>3, CallTried
<1>3. ASSUME NEW i \in DOMAIN tries[c], NEW p \in eligible[c], Ranks(req[c], p, tries[c][i].provider)
      PROVE  p \in tried(i - 1)
  <2>1. PICK j \in 1 .. i - 1 : tries[c][j].provider = p
    BY <1>1, <1>2, <1>3 DEF InOrder
  <2> QED BY <2>1
<1>4. ASSUME result[c] = "failed" PROVE tries[c] # <<>> /\ eligible[c] \subseteq tried(Len(tries[c]))
  <2>1. Len(tries[c]) > 0 /\ \A p \in eligible[c] : At(tries[c], p) # {}
    BY <1>4, CallTried
  <2>2. tries[c] # <<>>
    BY <2>1, EmptySeq
  <2>3. \A p : At(tries[c], p) # {} => p \in tried(Len(tries[c]))
    BY <1>1 DEF At
  <2> QED BY <2>1, <2>2, <2>3
<1>5. result[c] = "no providers" => eligible[c] = {} /\ tries[c] = <<>>
  BY CallTried
<1> QED BY <1>3, <1>4, <1>5

(* A payment turns to its providers in the order of the configuration it   *)
(* started with, and gives up only when it has tried them all.             *)
THEOREM FailsOverInOrder == Spec => []FailoverInOrder
BY Invariance, FailoverHolds, PTL
=============================================================================
