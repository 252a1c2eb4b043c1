----------------------- MODULE ProviderRoutingProofs -----------------------
(***************************************************************************)
(* For any prices, usages, routes, responses and number of turns: the      *)
(* meter keeps within its rounding, the routes are asked in their order,   *)
(* and the vendor a run is asking accepts its request.                     *)
(***************************************************************************)
EXTENDS ProviderRouting, FiniteSetTheorems, WellFoundedInduction, TLAPS

IInv == MeterTypeOK /\ MeteredWithinRounding

LEMMA TimesNat == ASSUME NEW a \in Nat, NEW b \in Nat PROVE a * b \in Nat  OBVIOUS

LEMMA TimesNext == ASSUME NEW a \in Nat PROVE (a + 1) * Unit = a * Unit + Unit
BY UnitAssumption

LEMMA CostIsNat == ASSUME NEW m, NEW u \in Usage PROVE CostFor(m, u) \in Nat
<1>1. CASE m \in DOMAIN Prices
  <2>1. /\ u.input \in Nat /\ u.output \in Nat
        /\ Prices[m].input \in Nat /\ Prices[m].output \in Nat
    BY <1>1, PricesAssumption DEF Usage
  <2>2. u.input * Prices[m].input \in Nat /\ u.output * Prices[m].output \in Nat
    BY <2>1, TimesNat
  <2> QED BY <1>1, <2>2 DEF CostFor
<1> QED BY <1>1 DEF CostFor

\* What rounding to micro-dollars may return.
LEMMA RoundedFacts ==
  ASSUME NEW x \in Nat, NEW n \in Rounded(x)
  PROVE  n \in Nat /\ 2 * (n * Unit - x) <= Unit /\ 2 * (x - n * Unit) <= Unit
<1>1. x \div Unit \in Nat  BY UnitAssumption, SMTT(30)
<1>2. n \in Nat  BY <1>1 DEF Rounded
<1>3. n * Unit \in Nat  BY <1>2, UnitAssumption, TimesNat
<1>4. -Unit <= 2 * (n * Unit - x) /\ 2 * (n * Unit - x) <= Unit  BY DEF Rounded
<1> QED BY <1>2, <1>3, <1>4, UnitAssumption

LEMMA InitIInv == Init => IInv
<1> SUFFICES ASSUME Init PROVE IInv  OBVIOUS
<1>1. NoUsage \in Usage  BY DEF NoUsage, Usage
<1>2. MeterTypeOK  BY <1>1 DEF Init, MeterTypeOK
<1>3. 0 * Unit = 0  BY UnitAssumption
<1>4. \A r \in Runs : totals[r].cost = 0 /\ totals[r].calls = 0 /\ exact[r] = 0  BY DEF Init
<1>5. MeteredWithinRounding  BY <1>3, <1>4 DEF MeteredWithinRounding
<1> QED BY <1>2, <1>5 DEF IInv

\* One turn is folded in: both sides of the bound grow by at most half a Unit.
LEMMA FoldStep == ASSUME IInv, NEW r \in Runs, Fold(r) PROVE IInv'
<1> DEFINE cost == CostFor(result[r].model, result[r].usage)
           before == totals[r]
<1>1. /\ before \in [usage : Usage, cost : Nat, calls : Nat] /\ result[r].usage \in Usage
      /\ exact[r] \in Nat
  BY DEF IInv, MeterTypeOK
<1>2. cost \in Nat  BY <1>1, CostIsNat
<1>3. before.cost \in Nat /\ before.calls \in Nat /\ before.usage \in Usage  BY <1>1
<1>4. before.cost * Unit \in Nat /\ before.calls * Unit \in Nat
  BY <1>3, UnitAssumption, TimesNat
<1>5. PICK c \in Rounded(before.cost * Unit + cost) :
        totals' = [totals EXCEPT ![r] =
            [usage |-> [input |-> @.usage.input + result[r].usage.input,
                        output |-> @.usage.output + result[r].usage.output],
             cost |-> c, calls |-> @.calls + 1]]
  BY DEF Fold, TurnCost
<1>6. exact' = [exact EXCEPT ![r] = @ + cost]  BY DEF Fold
<1> DEFINE x == before.cost * Unit + cost
<1>7. c \in Nat /\ 2 * (c * Unit - x) <= Unit /\ 2 * (x - c * Unit) <= Unit
  <2>1. x \in Nat /\ c \in Rounded(x)  BY <1>2, <1>4, <1>5
  <2> HIDE DEF x
  <2> QED BY <2>1, RoundedFacts
<1>8. totals'[r].cost = c /\ totals'[r].calls = before.calls + 1 /\ exact'[r] = exact[r] + cost
  BY <1>5, <1>6 DEF IInv, MeterTypeOK
<1>9. \A q \in Runs : q # r => totals'[q] = totals[q] /\ exact'[q] = exact[q]
  BY <1>5, <1>6 DEF IInv, MeterTypeOK
<1> HIDE DEF cost, before, x
<1>10. MeterTypeOK'
  <2>1. [usage |-> [input |-> before.usage.input + result[r].usage.input,
                    output |-> before.usage.output + result[r].usage.output],
         cost |-> c, calls |-> before.calls + 1] \in [usage : Usage, cost : Nat, calls : Nat]
    BY <1>1, <1>3, <1>7 DEF Usage
  <2>2. totals' \in [Runs -> [usage : Usage, cost : Nat, calls : Nat]]
    BY <1>5, <2>1 DEF IInv, MeterTypeOK, before
  <2>3. exact' \in [Runs -> Nat]  BY <1>1, <1>2, <1>6 DEF IInv, MeterTypeOK
  <2>4. phase' \in [Runs -> {"routing", "returned", "executing", "over", "raised"}]
    BY DEF Fold, IInv, MeterTypeOK
  <2> QED BY <2>2, <2>3, <2>4 DEF Fold, IInv, MeterTypeOK
<1>11. MeteredWithinRounding'
  <2> SUFFICES ASSUME NEW q \in Runs
               PROVE  /\ 2 * (totals'[q].cost * Unit - exact'[q]) <= totals'[q].calls * Unit
                      /\ 2 * (exact'[q] - totals'[q].cost * Unit) <= totals'[q].calls * Unit
    BY DEF MeteredWithinRounding
  <2>1. CASE q # r  BY <1>9, <2>1 DEF IInv, MeteredWithinRounding
  <2>2. CASE q = r
    <3> DEFINE was == before.cost * Unit
               bound == before.calls * Unit
               now == c * Unit
               last == before.calls + 1
    <3>1. was \in Nat /\ bound \in Nat  BY <1>4
    <3>2. now \in Nat  BY <1>7, UnitAssumption, TimesNat
    <3>3. last * Unit = bound + Unit  BY <1>3, TimesNext DEF last, bound
    <3>4. 2 * (was - exact[r]) <= bound /\ 2 * (exact[r] - was) <= bound
      BY DEF IInv, MeteredWithinRounding, before
    <3>5. x = was + cost  BY DEF x
    <3>6. 2 * (now - x) <= Unit /\ 2 * (x - now) <= Unit  BY <1>7
    <3>7. totals'[q].cost * Unit = now /\ totals'[q].calls * Unit = last * Unit
          /\ exact'[q] = exact[r] + cost
      BY <1>8, <2>2
    <3> HIDE DEF was, bound, now, last
    <3>8. 2 * (now - (exact[r] + cost)) <= bound + Unit
          /\ 2 * (exact[r] + cost - now) <= bound + Unit
      BY <1>1, <1>2, <3>1, <3>2, <3>4, <3>5, <3>6, UnitAssumption
    <3> QED BY <1>1, <1>2, <3>1, <3>2, <3>3, <3>7, <3>8
  <2> QED BY <2>1, <2>2
<1> QED BY <1>10, <1>11 DEF IInv

LEMMA Step == IInv /\ [Next]_vars => IInv'
<1> SUFFICES ASSUME IInv, [Next]_vars PROVE IInv'  OBVIOUS
<1> USE DEF IInv
<1>1. CASE UNCHANGED vars  BY <1>1 DEF vars, MeterTypeOK, MeteredWithinRounding
<1>2. ASSUME NEW r \in Runs, Serve(r) PROVE IInv'
  <2>1. PICK response \in Responses :
          result' = [result EXCEPT ![r] =
            [message |-> Normalized(response, r), model |-> response.model, usage |-> response.usage]]
    BY <1>2 DEF Serve
  <2>2. response.usage \in Usage  BY <2>1, ResponsesAssumption DEF Usage
  <2>3. MeterTypeOK'  BY <1>2, <2>1, <2>2 DEF Serve, MeterTypeOK
  <2> QED BY <1>2, <2>3 DEF Serve, MeteredWithinRounding
<1>3. ASSUME NEW r \in Runs, FailOver(r) PROVE IInv'
  <2>1. MeterTypeOK'  BY <1>3 DEF FailOver, MeterTypeOK
  <2> QED BY <1>3, <2>1 DEF FailOver, MeteredWithinRounding
<1>4. ASSUME NEW r \in Runs, Execute(r) PROVE IInv'
  <2>1. MeterTypeOK'  BY <1>4 DEF Execute, MeterTypeOK
  <2> QED BY <1>4, <2>1 DEF Execute, MeteredWithinRounding
<1> QED BY <1>1, <1>2, <1>3, <1>4, FoldStep DEF Next, Over

THEOREM Inductive == Spec => []IInv
<1> QED BY InitIInv, Step, PTL DEF Spec

-----------------------------------------------------------------------------
(* The theorem. *)

\* Rounding the total at every turn costs at most half a micro-dollar per turn,
\* for any price table, and whichever routes served the runs.
THEOREM AlwaysMetered == Spec => []MeteredWithinRounding
<1>1. IInv => MeteredWithinRounding  BY DEF IInv
<1> QED BY <1>1, Inductive, PTL

-----------------------------------------------------------------------------
(* The order in which routes are asked. *)

N == Len(Routes)

LEMMA RoutesFinite ==
  /\ N \in Nat \ {0} /\ DOMAIN Routes = 1..N
  /\ IsFiniteSet(DOMAIN Routes) /\ Cardinality(DOMAIN Routes) = N
<1>1. N \in Nat \ {0} /\ DOMAIN Routes = 1..N  BY RoutesAssumption DEF N
<1> QED BY <1>1, FS_Interval

LEMMA PriceIsNat == \A m : BlendedPrice(m) \in Nat
<1> SUFFICES ASSUME NEW m PROVE BlendedPrice(m) \in Nat  OBVIOUS
<1>1. CASE m \in DOMAIN Prices
  <2>1. Prices[m].input \in Nat /\ Prices[m].output \in Nat  BY <1>1, PricesAssumption
  <2> QED BY <1>1, <2>1 DEF BlendedPrice
<1>2. CASE m \notin DOMAIN Prices  BY <1>2 DEF BlendedPrice
<1> QED BY <1>1, <1>2

\* AskedBefore is a strict total order on the routes, along the prices under
\* the cost strategy.
LEMMA AskedBeforeOrders ==
  /\ \A i \in DOMAIN Routes : ~AskedBefore(i, i)
  /\ \A i, j \in DOMAIN Routes : i # j => AskedBefore(i, j) \/ AskedBefore(j, i)
  /\ \A i, j, k \in DOMAIN Routes :
         AskedBefore(i, j) /\ AskedBefore(j, k) => AskedBefore(i, k)
  /\ \A i, j \in DOMAIN Routes :
         Strategy = "cost" /\ AskedBefore(i, j) =>
             BlendedPrice(Routes[i].model) <= BlendedPrice(Routes[j].model)
<1> DEFINE price(n) == BlendedPrice(Routes[n].model)
<1>1. \A n : price(n) \in Nat  BY PriceIsNat
<1>2. \A i, j : AskedBefore(i, j) <=>
          IF Strategy = "cost" /\ price(i) # price(j) THEN price(i) < price(j) ELSE i < j
  BY DEF AskedBefore
<1>3. DOMAIN Routes = 1..N /\ N \in Nat  BY RoutesFinite
<1> HIDE DEF price
<1>4. /\ \A i \in DOMAIN Routes : ~AskedBefore(i, i)
      /\ \A i, j \in DOMAIN Routes : i # j => AskedBefore(i, j) \/ AskedBefore(j, i)
      /\ \A i, j, k \in DOMAIN Routes :
             AskedBefore(i, j) /\ AskedBefore(j, k) => AskedBefore(i, k)
      /\ \A i, j \in DOMAIN Routes :
             Strategy = "cost" /\ AskedBefore(i, j) => price(i) <= price(j)
  BY <1>1, <1>2, <1>3
<1> QED BY <1>4 DEF price

\* The routes asked before a route, and how many they are.
Before(i) == {j \in DOMAIN Routes : AskedBefore(j, i)}
Rank == [i \in DOMAIN Routes |-> Cardinality(Before(i))]

LEMMA BeforeFinite ==
  ASSUME NEW i \in DOMAIN Routes
  PROVE  IsFiniteSet(Before(i)) /\ Rank[i] \in 0..(N - 1)
<1>1. Before(i) \subseteq DOMAIN Routes \ {i}  BY AskedBeforeOrders DEF Before
<1>2. /\ IsFiniteSet(DOMAIN Routes \ {i})
      /\ Cardinality(DOMAIN Routes \ {i}) = N - 1
  BY RoutesFinite, FS_RemoveElement
<1>3. IsFiniteSet(Before(i)) /\ Cardinality(Before(i)) <= N - 1
  BY <1>1, <1>2, FS_Subset
<1>4. Cardinality(Before(i)) \in Nat  BY <1>3, FS_CardinalityType
<1> QED BY <1>3, <1>4, RoutesFinite DEF Rank

LEMMA RankFollowsOrder ==
  ASSUME NEW i \in DOMAIN Routes, NEW j \in DOMAIN Routes
  PROVE  AskedBefore(i, j) <=> Rank[i] < Rank[j]
<1>1. ASSUME NEW a \in DOMAIN Routes, NEW b \in DOMAIN Routes, AskedBefore(a, b)
      PROVE  Rank[a] < Rank[b]
  <2>1. Before(a) \subseteq Before(b) /\ a \in Before(b) /\ a \notin Before(a)
    BY <1>1, AskedBeforeOrders DEF Before
  <2>2. IsFiniteSet(Before(b)) /\ IsFiniteSet(Before(a))  BY BeforeFinite
  <2>3. /\ Cardinality(Before(a)) <= Cardinality(Before(b))
        /\ Cardinality(Before(a)) # Cardinality(Before(b))
    BY <2>1, <2>2, FS_Subset
  <2>4. Rank[a] \in Nat /\ Rank[b] \in Nat  BY BeforeFinite
  <2> QED BY <2>3, <2>4 DEF Rank
<1>2. Rank[i] \in Nat /\ Rank[j] \in Nat  BY BeforeFinite
<1> QED BY <1>1, <1>2, AskedBeforeOrders

\* Every position of the order is some route's.
LEMMA EveryRankTaken ==
  ASSUME NEW n \in DOMAIN Routes
  PROVE  \E i \in DOMAIN Routes : Rank[i] = n - 1
<1>1. Rank \in [DOMAIN Routes -> 0..(N - 1)]  BY BeforeFinite DEF Rank
<1>2. ASSUME NEW i \in DOMAIN Routes, NEW j \in DOMAIN Routes, Rank[i] = Rank[j]
      PROVE  i = j
  <2>1. Rank[i] \in Nat  BY BeforeFinite
  <2>2. ~AskedBefore(i, j) /\ ~AskedBefore(j, i)  BY <1>2, <2>1, RankFollowsOrder
  <2> QED BY <2>2, AskedBeforeOrders
<1>3. Rank \in Injection(DOMAIN Routes, 0..(N - 1))
  BY <1>1, <1>2 DEF Injection, IsInjective
<1>4. IsFiniteSet(0..(N - 1)) /\ Cardinality(0..(N - 1)) = N
  BY RoutesFinite, FS_Interval
<1>5. Rank \in Surjection(DOMAIN Routes, 0..(N - 1))
  BY <1>3, <1>4, RoutesFinite, FS_Injection
<1>6. n - 1 \in 0..(N - 1)  BY RoutesFinite
<1> QED BY <1>5, <1>6 DEF Surjection

\* Ordered lists every route once, along AskedBefore.
LEMMA OrderedSorts ==
  /\ Ordered \in [1..N -> DOMAIN Routes]
  /\ \A m, n \in 1..N : m < n => AskedBefore(Ordered[m], Ordered[n])
<1>1. \A n \in 1..N : Ordered[n] \in DOMAIN Routes /\ Rank[Ordered[n]] = n - 1
  <2> SUFFICES ASSUME NEW n \in 1..N
               PROVE  Ordered[n] \in DOMAIN Routes /\ Rank[Ordered[n]] = n - 1
    OBVIOUS
  <2>1. n \in DOMAIN Routes  BY RoutesFinite
  <2>2. Ordered[n] = CHOOSE i \in DOMAIN Routes : Cardinality(Before(i)) = n - 1
    BY <2>1 DEF Ordered, Before
  <2>3. \E i \in DOMAIN Routes : Cardinality(Before(i)) = n - 1
    BY <2>1, EveryRankTaken DEF Rank
  <2>4. Ordered[n] \in DOMAIN Routes /\ Cardinality(Before(Ordered[n])) = n - 1
    BY <2>2, <2>3
  <2> QED BY <2>4 DEF Rank
<1>2. Ordered \in [1..N -> DOMAIN Routes]  BY <1>1, RoutesFinite DEF Ordered
<1>3. ASSUME NEW m \in 1..N, NEW n \in 1..N, m < n
      PROVE  AskedBefore(Ordered[m], Ordered[n])
  <2>1. Rank[Ordered[m]] < Rank[Ordered[n]]  BY <1>1, <1>3, RoutesFinite
  <2> QED BY <1>1, <2>1, RankFollowsOrder
<1> QED BY <1>2, <1>3

-----------------------------------------------------------------------------
(* What a run has asked: a beginning of Ordered, up to the route it is at. *)

AskedInv(r) ==
    /\ tried[r] \in 0..(N - 1)
    /\ asked[r] = [m \in 1..(IF phase[r] = "routing" THEN tried[r] ELSE tried[r] + 1) |-> Ordered[m]]
    /\ phase[r] = "raised" => tried[r] = N - 1
    /\ phase[r] = "returned" =>
           \E a \in Responses : a.label = Current(r).label /\ a.model = result[r].model

RouteInv ==
    /\ tried \in [Runs -> Nat] /\ DOMAIN asked = Runs /\ DOMAIN result = Runs
    /\ DOMAIN phase = Runs
    /\ \A r \in Runs : AskedInv(r)

LEMMA InitRouteInv == Init => RouteInv
<1> SUFFICES ASSUME Init PROVE RouteInv  OBVIOUS
<1>1. \A r \in Runs : tried[r] = 0 /\ phase[r] = "routing" /\ asked[r] = <<>>  BY DEF Init
<1>2. \A r \in Runs : AskedInv(r)  BY <1>1, RoutesFinite DEF AskedInv
<1> QED BY <1>2 DEF Init, RouteInv

\* Appending the next value of a function to a beginning of it.
LEMMA AppendToBeginning ==
  ASSUME NEW S, NEW f, NEW n \in Nat, \A m \in 1..(n + 1) : f[m] \in S
  PROVE  Append([m \in 1..n |-> f[m]], f[n + 1]) = [m \in 1..(n + 1) |-> f[m]]
<1> DEFINE s == [m \in 1..n |-> f[m]]
           t == [m \in 1..(n + 1) |-> f[m]]
<1>1. s \in Seq(S) /\ Len(s) = n /\ \A m \in 1..n : s[m] = f[m]
  <2>1. s \in [1..n -> S]  OBVIOUS
  <2> QED BY <2>1
<1>2. t \in Seq(S) /\ Len(t) = n + 1 /\ \A m \in 1..(n + 1) : t[m] = f[m]
  <2>1. t \in [1..(n + 1) -> S]  OBVIOUS
  <2> QED BY <2>1
<1>3. f[n + 1] \in S  OBVIOUS
<1> HIDE DEF s, t
<1>4. /\ Append(s, f[n + 1]) \in Seq(S) /\ Len(Append(s, f[n + 1])) = n + 1
      /\ \A m \in 1..n : Append(s, f[n + 1])[m] = s[m]
      /\ Append(s, f[n + 1])[n + 1] = f[n + 1]
  BY <1>1, <1>3
<1>5. \A m \in 1..(n + 1) : Append(s, f[n + 1])[m] = t[m]
  BY <1>1, <1>2, <1>4
<1>6. Append(s, f[n + 1]) = t  BY <1>2, <1>4, <1>5
<1> QED BY <1>6 DEF s, t

\* Asking the current route extends the beginning by one.
LEMMA AskingExtends ==
  ASSUME RouteInv, NEW r \in Runs, phase[r] = "routing", Asking(r)
  PROVE  /\ DOMAIN asked' = Runs /\ \A q \in Runs \ {r} : asked'[q] = asked[q]
         /\ asked'[r] = [m \in 1..(tried[r] + 1) |-> Ordered[m]]
<1>1. /\ tried[r] \in 0..(N - 1) /\ asked[r] = [m \in 1..tried[r] |-> Ordered[m]]
      /\ DOMAIN asked = Runs
  BY DEF RouteInv, AskedInv
<1>2. tried[r] \in Nat /\ \A m \in 1..(tried[r] + 1) : Ordered[m] \in DOMAIN Routes
  BY <1>1, OrderedSorts, RoutesFinite
<1>3. asked'[r] = Append(asked[r], Ordered[tried[r] + 1])  BY <1>1 DEF Asking
<1>4. asked'[r] = [m \in 1..(tried[r] + 1) |-> Ordered[m]]
  BY <1>1, <1>2, <1>3, AppendToBeginning
<1> QED BY <1>1, <1>4 DEF Asking

LEMMA OthersAsked ==
  ASSUME RouteInv, NEW q \in Runs, tried'[q] = tried[q], asked'[q] = asked[q],
         phase'[q] = phase[q], result'[q] = result[q]
  PROVE  AskedInv(q)'
  BY DEF RouteInv, AskedInv, Current

LEMMA StepRouteInv == RouteInv /\ [Next]_vars => RouteInv'
<1> SUFFICES ASSUME RouteInv, [Next]_vars PROVE RouteInv'  OBVIOUS
<1>1. CASE UNCHANGED vars  BY <1>1 DEF vars, RouteInv, AskedInv, Current
<1>2. ASSUME NEW r \in Runs, Serve(r) PROVE RouteInv'
  <2>1. /\ phase[r] = "routing" /\ tried' = tried /\ AskedInv(r)
        /\ phase' = [phase EXCEPT ![r] = "returned"] /\ Asking(r)
    BY <1>2 DEF Serve, RouteInv
  <2>2. PICK response \in Responses :
          /\ response.label = Current(r).label
          /\ result' = [result EXCEPT ![r] =
               [message |-> Normalized(response, r), model |-> response.model, usage |-> response.usage]]
    BY <1>2 DEF Serve
  <2>3. /\ phase'[r] = "returned" /\ result'[r].model = response.model
        /\ \A q \in Runs \ {r} : phase'[q] = phase[q] /\ result'[q] = result[q]
    BY <2>1, <2>2 DEF RouteInv
  <2>4. AskedInv(r)'
    BY <2>1, <2>2, <2>3, AskingExtends DEF AskedInv, Current
  <2>5. \A q \in Runs \ {r} : AskedInv(q)'
    BY <2>1, <2>3, AskingExtends, OthersAsked
  <2> QED BY <2>1, <2>2, <2>4, <2>5, AskingExtends DEF RouteInv
<1>3. ASSUME NEW r \in Runs, FailOver(r) PROVE RouteInv'
  <2>1. /\ phase[r] = "routing" /\ Asking(r) /\ AskedInv(r) /\ result' = result
        /\ tried[r] \in Nat
    BY <1>3 DEF FailOver, RouteInv
  <2>2. /\ \A q \in Runs \ {r} : phase'[q] = phase[q] /\ tried'[q] = tried[q]
        /\ tried' \in [Runs -> Nat] /\ DOMAIN phase' = Runs
    BY <1>3, <2>1 DEF FailOver, RouteInv
  <2>3. AskedInv(r)'
    <3>1. CASE tried[r] + 1 < N
      <4>1. tried'[r] = tried[r] + 1 /\ phase'[r] = "routing"
        BY <1>3, <2>1, <3>1 DEF FailOver, RouteInv, N
      <4> QED BY <2>1, <3>1, <4>1, AskingExtends, RoutesFinite DEF AskedInv
    <3>2. CASE ~(tried[r] + 1 < N)
      <4>1. tried'[r] = tried[r] /\ phase'[r] = "raised"
        BY <1>3, <2>1, <3>2 DEF FailOver, RouteInv, N
      <4>2. tried[r] = N - 1  BY <2>1, <3>2, RoutesFinite DEF AskedInv
      <4> QED BY <2>1, <4>1, <4>2, AskingExtends, RoutesFinite DEF AskedInv
    <3> QED BY <3>1, <3>2
  <2>4. \A q \in Runs \ {r} : AskedInv(q)'
    BY <2>1, <2>2, AskingExtends, OthersAsked
  <2> QED BY <2>1, <2>2, <2>3, <2>4, AskingExtends DEF RouteInv
<1>4. ASSUME NEW r \in Runs, Fold(r) PROVE RouteInv'
  <2>1. /\ phase[r] = "returned" /\ UNCHANGED <<tried, result, asked>>
        /\ DOMAIN phase' = Runs /\ phase'[r] \in {"executing", "over"}
        /\ \A q \in Runs \ {r} : phase'[q] = phase[q]
    BY <1>4 DEF Fold, RouteInv
  <2>2. AskedInv(r)'  BY <2>1 DEF RouteInv, AskedInv
  <2>3. \A q \in Runs \ {r} : AskedInv(q)'  BY <2>1, OthersAsked
  <2> QED BY <2>1, <2>2, <2>3 DEF RouteInv
<1>5. ASSUME NEW r \in Runs, Execute(r) PROVE RouteInv'
  <2>1. /\ result' = result /\ tried' = [tried EXCEPT ![r] = 0]
        /\ phase' = [phase EXCEPT ![r] = "routing"] /\ asked' = [asked EXCEPT ![r] = <<>>]
    BY <1>5 DEF Execute
  <2>2. /\ tried'[r] = 0 /\ phase'[r] = "routing" /\ asked'[r] = <<>>
        /\ tried' \in [Runs -> Nat] /\ DOMAIN asked' = Runs /\ DOMAIN phase' = Runs
        /\ \A q \in Runs \ {r} : /\ tried'[q] = tried[q] /\ asked'[q] = asked[q]
                                 /\ phase'[q] = phase[q]
    BY <2>1 DEF RouteInv
  <2>3. AskedInv(r)'  BY <2>2, RoutesFinite DEF AskedInv
  <2>4. \A q \in Runs \ {r} : AskedInv(q)'  BY <2>1, <2>2, OthersAsked
  <2> QED BY <2>1, <2>2, <2>3, <2>4 DEF RouteInv
<1> QED BY <1>1, <1>2, <1>3, <1>4, <1>5 DEF Next, Over

\* Each route is asked at most once per complete, in the order of the strategy;
\* complete raises only when none is left, and returns what the route asked last
\* answered: for any list of routes, also one that names a vendor twice.
THEOREM AlwaysRoutedInOrder == Spec => []RoutedInOrder
<1>1. ASSUME RouteInv, NEW r \in Runs
      PROVE  /\ IsInjective(asked[r])
             /\ Strategy = "cost" =>
                 \A i, j \in DOMAIN asked[r] :
                     i < j => BlendedPrice(Routes[asked[r][i]].model)
                                  <= BlendedPrice(Routes[asked[r][j]].model)
             /\ phase[r] = "raised" => Len(asked[r]) = Len(Routes)
             /\ phase[r] = "returned" =>
                 \E a \in Responses :
                     a.label = Routes[Last(asked[r])].label /\ a.model = result[r].model
  <2> DEFINE n == IF phase[r] = "routing" THEN tried[r] ELSE tried[r] + 1
  <2>1. AskedInv(r)  BY <1>1 DEF RouteInv
  <2>2. n \in 0..N /\ asked[r] = [m \in 1..n |-> Ordered[m]] /\ DOMAIN asked[r] = 1..n
        /\ \A m \in 1..n : m \in 1..N /\ asked[r][m] = Ordered[m]
    BY <2>1, RoutesFinite DEF AskedInv
  <2>3. ASSUME NEW i \in 1..n, NEW j \in 1..n, i < j
        PROVE  AskedBefore(asked[r][i], asked[r][j])
    BY <2>2, <2>3, OrderedSorts
  <2>4. \A m \in 1..n : asked[r][m] \in DOMAIN Routes
    BY <2>2, OrderedSorts
  <2>5. IsInjective(asked[r])
    <3> SUFFICES ASSUME NEW i \in 1..n, NEW j \in 1..n, asked[r][i] = asked[r][j]
                 PROVE  i = j
      BY <2>2 DEF IsInjective
    <3>1. ~(i < j) /\ ~(j < i)  BY <2>3, <2>4, AskedBeforeOrders
    <3> QED BY <3>1, <2>2
  <2>6. Strategy = "cost" =>
            \A i, j \in DOMAIN asked[r] :
                i < j => BlendedPrice(Routes[asked[r][i]].model)
                             <= BlendedPrice(Routes[asked[r][j]].model)
    BY <2>2, <2>3, <2>4, AskedBeforeOrders
  <2>7. Len(asked[r]) = n  BY <2>2, RoutesFinite
  <2>8. phase[r] = "raised" => Len(asked[r]) = Len(Routes)
    BY <2>1, <2>7, RoutesFinite DEF AskedInv, N
  <2>9. ASSUME phase[r] = "returned"
        PROVE  \E a \in Responses :
                   a.label = Routes[Last(asked[r])].label /\ a.model = result[r].model
    <3>1. n = tried[r] + 1 /\ n \in 1..n  BY <2>1, <2>9, RoutesFinite DEF AskedInv
    <3>2. Last(asked[r]) = Ordered[tried[r] + 1]  BY <2>2, <2>7, <3>1 DEF Last
    <3> QED BY <2>1, <2>9, <3>2 DEF AskedInv, Current
  <2> QED BY <2>5, <2>6, <2>8, <2>9
<1>2. RouteInv => RoutedInOrder  BY <1>1 DEF RoutedInOrder
<1> QED BY <1>2, InitRouteInv, StepRouteInv, PTL DEF Spec

-----------------------------------------------------------------------------
(* Picking places of a sequence: the places in their order, and twice.     *)

\* The rank of an index in a set of indices is its own, and every rank is taken.
LEMMA Ranks ==
  ASSUME NEW n \in Nat, NEW S \in SUBSET (1..n)
  PROVE  /\ IsFiniteSet(S) /\ Cardinality(S) \in Nat
         /\ \A i, k \in S :
              i < k <=> Cardinality({j \in S : j <= i}) < Cardinality({j \in S : j <= k})
         /\ \A p \in 1..Cardinality(S) : \E i \in S : Cardinality({j \in S : j <= i}) = p
<1> DEFINE upTo(i) == {j \in S : j <= i}
           rank == [i \in S |-> Cardinality(upTo(i))]
           size == Cardinality(S)
<1>1. IsFiniteSet(S) /\ size \in Nat
  <2>1. IsFiniteSet(1..n)  BY FS_Interval
  <2> QED BY <2>1, FS_Subset, FS_CardinalityType
<1>2. \A i \in S : /\ IsFiniteSet(upTo(i)) /\ Cardinality(upTo(i)) \in 1..size
  <2> SUFFICES ASSUME NEW i \in S
               PROVE  /\ IsFiniteSet(upTo(i)) /\ Cardinality(upTo(i)) \in 1..size
    OBVIOUS
  <2>1. i \in 1..n  OBVIOUS
  <2>2. upTo(i) \in SUBSET S /\ i \in upTo(i)  BY <2>1
  <2>3. IsFiniteSet(upTo(i)) /\ Cardinality(upTo(i)) <= size  BY <1>1, <2>2, FS_Subset
  <2>4. Cardinality(upTo(i)) \in Nat  BY <2>3, FS_CardinalityType
  <2>5. upTo(i) # {}  BY <2>2
  <2> HIDE DEF upTo
  <2>6. Cardinality(upTo(i)) # 0  BY <2>3, <2>5, FS_EmptySet
  <2> QED BY <1>1, <2>3, <2>4, <2>6
<1>3. ASSUME NEW a \in S, NEW b \in S, a < b PROVE rank[a] < rank[b]
  <2>1. \A j \in S : j \in Int  OBVIOUS
  <2>2. \A j \in S : j <= a => j <= b  BY <1>3, <2>1
  <2>3. b <= b /\ ~(b <= a)  BY <1>3, <2>1
  <2>4. upTo(a) \in SUBSET upTo(b) /\ b \in upTo(b) /\ b \notin upTo(a)  BY <2>2, <2>3
  <2>5. rank[a] = Cardinality(upTo(a)) /\ rank[b] = Cardinality(upTo(b))  OBVIOUS
  <2> HIDE DEF upTo, rank
  <2>6. /\ Cardinality(upTo(a)) <= Cardinality(upTo(b))
        /\ Cardinality(upTo(a)) # Cardinality(upTo(b))
    BY <1>2, <2>4, FS_Subset
  <2> QED BY <1>2, <2>5, <2>6
<1>4. rank \in [S -> 1..size]  BY <1>2
<1>5. \A i, k \in S : i < k <=> rank[i] < rank[k]
  <2> HIDE DEF rank
  <2> QED BY <1>3, <1>4, <1>1
<1>6. rank \in Injection(S, 1..size)
  <2>1. \A i, k \in S : rank[i] = rank[k] => i = k
    <3> HIDE DEF rank
    <3> QED BY <1>5, <1>4, <1>1
  <2> QED BY <1>4, <2>1 DEF Injection, IsInjective
<1>7. IsFiniteSet(1..size) /\ Cardinality(1..size) = size  BY <1>1, FS_Interval
<1>8. rank \in Surjection(S, 1..size)  BY <1>6, <1>7, FS_Injection
<1>9. \A p \in 1..size : \E i \in S : rank[i] = p  BY <1>8 DEF Surjection
<1> QED BY <1>1, <1>5, <1>9

\* The places in S, counted from the first.
Place(S) == [k \in 1..Cardinality(S) |-> CHOOSE i \in S : Cardinality({j \in S : j <= i}) = k]

\* e lists S in its order.
Lists(e, m, S) ==
    /\ e \in [1..m -> S]
    /\ \A k, l \in 1..m : k < l => e[k] < e[l]
    /\ \A i \in S : \E k \in 1..m : e[k] = i

LEMMA PickedPlaces ==
  ASSUME NEW s, NEW S
  PROVE  Picked(s, S) = [k \in 1..Cardinality(S) |-> s[Place(S)[k]]]
BY DEF Picked, Place

LEMMA PlaceLists ==
  ASSUME NEW n \in Nat, NEW S \in SUBSET (1..n)
  PROVE  Cardinality(S) \in Nat /\ Lists(Place(S), Cardinality(S), S)
<1> DEFINE rank(i) == Cardinality({j \in S : j <= i})
           m == Cardinality(S)
           e == Place(S)
<1>1. m \in Nat  BY Ranks
<1>2. \A k \in 1..m : e[k] \in S /\ rank(e[k]) = k
  <2> SUFFICES ASSUME NEW k \in 1..m PROVE e[k] \in S /\ rank(e[k]) = k  OBVIOUS
  <2>1. \E i \in S : rank(i) = k  BY Ranks
  <2>2. e[k] = CHOOSE i \in S : rank(i) = k  BY DEF Place
  <2> HIDE DEF rank, e
  <2> QED BY <2>1, <2>2
<1>3. e \in [1..m -> S]  BY <1>2 DEF Place
<1>4. \A i, k \in S : i < k <=> rank(i) < rank(k)  BY Ranks
<1>5. \A i \in S : rank(i) \in 1..m
  <2> SUFFICES ASSUME NEW i \in S PROVE rank(i) \in 1..m  OBVIOUS
  <2>1. {j \in S : j <= i} \in SUBSET S /\ i \in {j \in S : j <= i}  OBVIOUS
  <2> DEFINE T == {j \in S : j <= i}
  <2>2. IsFiniteSet(S)  BY Ranks
  <2>3. IsFiniteSet(T) /\ Cardinality(T) <= m  BY <2>1, <2>2, FS_Subset
  <2>4. T # {}  BY <2>1
  <2> HIDE DEF T
  <2>5. Cardinality(T) \in Nat /\ Cardinality(T) # 0  BY <2>3, <2>4, FS_CardinalityType, FS_EmptySet
  <2>6. Cardinality(T) \in 1..m  BY <1>1, <2>3, <2>5
  <2> QED BY <2>6 DEF T
<1> HIDE DEF rank, m, e
<1>6. \A k, l \in 1..m : k < l => e[k] < e[l]  BY <1>2, <1>4
<1>7. \A i, k \in S : rank(i) = rank(k) => i = k
  <2>1. \A i \in S : i \in Int  OBVIOUS
  <2> QED BY <1>1, <1>4, <1>5, <2>1
<1>8. \A i \in S : \E k \in 1..m : e[k] = i  BY <1>2, <1>5, <1>7
<1>9. Lists(e, m, S)  BY <1>3, <1>6, <1>8 DEF Lists
<1> QED BY <1>1, <1>9 DEF e, m

LEMMA LeastNumber ==
  ASSUME NEW T \in SUBSET Nat, T # {}
  PROVE  \E x \in T : \A y \in T : x <= y
<1>1. PICK x \in T : \A y \in T : ~ (<<y, x>> \in OpToRel(<, Nat))
  BY NatLessThanWellFounded, WFMin
<1>2. \A y \in T : ~ (y < x)  BY <1>1 DEF OpToRel
<1> QED BY <1>2

\* There is one way to list a set of indices in its order.
LEMMA OneListing ==
  ASSUME NEW n \in Nat, NEW S \in SUBSET (1..n), NEW m \in Nat, NEW e, Lists(e, m, S)
  PROVE  m = Cardinality(S) /\ e = Place(S)
<1> DEFINE f == Place(S)
<1>1. m = Cardinality(S)
  <2>1. e \in [1..m -> S] /\ \A k, l \in 1..m : e[k] = e[l] => k = l
    <3>1. \A k \in 1..m : e[k] \in S  BY DEF Lists
    <3>2. \A k \in 1..m : e[k] \in Int
      <4>1. \A i \in S : i \in Int  OBVIOUS
      <4> QED BY <3>1, <4>1
    <3>3. \A k, l \in 1..m : k < l => e[k] < e[l]  BY DEF Lists
    <3>4. \A k, l \in 1..m : e[k] = e[l] => k = l  BY <3>2, <3>3
    <3> QED BY <3>4 DEF Lists
  <2>2. e \in Bijection(1..m, S)
    BY <2>1 DEF Lists, Bijection, Injection, Surjection, IsInjective
  <2>3. IsFiniteSet(1..m) /\ Cardinality(1..m) = m  BY FS_Interval
  <2> QED BY <2>2, <2>3, FS_Bijection DEF ExistsBijection
<1>2. Lists(f, m, S)  BY <1>1, PlaceLists
<1> HIDE DEF f
<1>3. \A k \in 1..m : e[k] \in 1..n /\ f[k] \in 1..n  BY <1>2 DEF Lists
<1> DEFINE D == {k \in 1..m : e[k] # f[k]}
<1>4. ASSUME D # {} PROVE FALSE
  <2>1. D \in SUBSET Nat  OBVIOUS
  <2>2. PICK k \in D : \A l \in D : k <= l
    <3> HIDE DEF D
    <3> QED BY <1>4, <2>1, LeastNumber
  <2>3. k \in 1..m /\ \A l \in 1..m : l < k => e[l] = f[l]  BY <2>2
  <2>4. PICK a \in 1..m : f[a] = e[k]  BY <1>2, <2>3 DEF Lists
  <2>5. PICK b \in 1..m : e[b] = f[k]  BY <1>2, <2>3 DEF Lists
  <2>6. ~(a < k)
    <3>1. a < k => e[a] = e[k] /\ e[a] < e[k]  BY <2>3, <2>4 DEF Lists
    <3> QED BY <3>1, <1>3
  <2>7. ~(b < k)
    <3>1. b < k => f[b] = f[k] /\ f[b] < f[k]  BY <1>2, <2>3, <2>5 DEF Lists
    <3> QED BY <3>1, <1>3
  <2>8. f[k] <= f[a] /\ e[k] <= e[b]
    <3>1. (k < a => f[k] < f[a]) /\ (k < b => e[k] < e[b])  BY <1>2, <2>3 DEF Lists
    <3> QED BY <1>3, <2>3, <2>6, <2>7, <3>1
  <2>9. e[k] = f[k]  BY <1>3, <2>3, <2>4, <2>5, <2>8
  <2> QED BY <2>2, <2>9
<1>5. e = f  BY <1>2, <1>4 DEF Lists
<1> QED BY <1>1, <1>5 DEF f

\* Picking every place changes nothing.
LEMMA PickedAll ==
  ASSUME NEW n \in Nat, NEW s, s = [k \in 1..n |-> s[k]]
  PROVE  Picked(s, 1..n) = s
<1> DEFINE e == [k \in 1..n |-> k]
<1>1. Lists(e, n, 1..n)  BY DEF Lists
<1> HIDE DEF e
<1>2. n = Cardinality(1..n) /\ e = Place(1..n)  BY <1>1, OneListing
<1>3. Picked(s, 1..n) = [k \in 1..n |-> s[e[k]]]  BY <1>2, PickedPlaces
<1> QED BY <1>3 DEF e

Within(J, K) == {k \in 1..Cardinality(J) : Place(J)[k] \in K}

\* Of places picked twice, those of the second picking are places of the first.
LEMMA PlaceOfPlaces ==
  ASSUME NEW n \in Nat, NEW J \in SUBSET (1..n), NEW K \in SUBSET J
  PROVE  /\ Cardinality(Within(J, K)) = Cardinality(K)
         /\ Place(Within(J, K)) \in [1..Cardinality(K) -> 1..Cardinality(J)]
         /\ \A k \in 1..Cardinality(K) : Place(K)[k] = Place(J)[Place(Within(J, K))[k]]
<1> DEFINE m == Cardinality(J)
           d == Place(J)
           L == {k \in 1..m : d[k] \in K}
           l == Cardinality(L)
           f == [k \in 1..l |-> d[Place(L)[k]]]
<1>1. m \in Nat /\ Lists(d, m, J)  BY PlaceLists
<1>2. L \in SUBSET (1..m)  OBVIOUS
<1> HIDE DEF m, d
<1>3. l \in Nat /\ Lists(Place(L), l, L)
  <2> HIDE DEF L
  <2> QED BY <1>1, <1>2, PlaceLists
<1>4. f \in [1..l -> K]
  <2> SUFFICES ASSUME NEW k \in 1..l PROVE d[Place(L)[k]] \in K  OBVIOUS
  <2>1. Place(L)[k] \in L  
    <3> HIDE DEF L
    <3> QED BY <1>3 DEF Lists
  <2> QED BY <2>1
<1>5. \A a, b \in 1..l : a < b => f[a] < f[b]
  <2> SUFFICES ASSUME NEW a \in 1..l, NEW b \in 1..l, a < b PROVE d[Place(L)[a]] < d[Place(L)[b]]
    OBVIOUS
  <2>1. Place(L)[a] \in L /\ Place(L)[b] \in L /\ Place(L)[a] < Place(L)[b]
    <3> HIDE DEF L
    <3> QED BY <1>3 DEF Lists
  <2>2. Place(L)[a] \in 1..m /\ Place(L)[b] \in 1..m  BY <2>1
  <2> QED BY <1>1, <2>1, <2>2 DEF Lists
<1>6. \A i \in K : \E k \in 1..l : f[k] = i
  <2> SUFFICES ASSUME NEW i \in K PROVE \E k \in 1..l : f[k] = i  OBVIOUS
  <2>1. PICK a \in 1..m : d[a] = i  BY <1>1 DEF Lists
  <2>2. a \in L  BY <2>1
  <2>3. PICK k \in 1..l : Place(L)[k] = a  
    <3> HIDE DEF L
    <3> QED BY <1>3, <2>2 DEF Lists
  <2> QED BY <2>1, <2>3
<1>7. Lists(f, l, K)
  <2> HIDE DEF f
  <2> QED BY <1>4, <1>5, <1>6 DEF Lists
<1>8. l = Cardinality(K) /\ f = Place(K)
  <2> HIDE DEF f, l
  <2>1. K \in SUBSET (1..n)  OBVIOUS
  <2> QED BY <1>3, <1>7, <2>1, OneListing
<1>9. Place(L) \in [1..l -> 1..m]
  <2> HIDE DEF L
  <2> QED BY <1>2, <1>3 DEF Lists
<1>10. \A k \in 1..l : Place(K)[k] = d[Place(L)[k]]
  <2>1. \A k \in 1..l : f[k] = d[Place(L)[k]]  OBVIOUS
  <2> HIDE DEF f, l, L
  <2> QED BY <1>8, <2>1
<1> HIDE DEF l
<1>11. Cardinality(L) = Cardinality(K) /\ Place(L) \in [1..Cardinality(K) -> 1..m]
       /\ \A k \in 1..Cardinality(K) : Place(K)[k] = d[Place(L)[k]]
  <2> HIDE DEF L
  <2> QED BY <1>8, <1>9, <1>10 DEF l
<1>12. L = Within(J, K)  BY DEF Within, m, d
<1> QED BY <1>11, <1>12 DEF m, d

\* The elements of t come from the places J of s, those of kind k2 from the ones of
\* kind k1, which all are in J; and with the same field.
DrawnFrom(t, k2, f2, s, k1, f1, n, J) ==
    /\ n \in Nat /\ J \in SUBSET (1..n) /\ DOMAIN s = 1..n /\ DOMAIN t = 1..Cardinality(J)
    /\ \A j \in 1..n : s[j].kind = k1 => j \in J
    /\ \A k \in 1..Cardinality(J) : t[k].kind = k2 <=> s[Place(J)[k]].kind = k1
    /\ \A k \in 1..Cardinality(J) : t[k].kind = k2 => t[k][f2] = s[Place(J)[k]][f1]

LEMMA FieldsPicked ==
  ASSUME NEW t, NEW k2, NEW f2, NEW s, NEW k1, NEW f1, NEW n, NEW J,
         DrawnFrom(t, k2, f2, s, k1, f1, n, J)
  PROVE  Field(t, k2, f2) = Field(s, k1, f1)
<1> USE DEF DrawnFrom
<1> DEFINE K == {j \in 1..n : s[j].kind = k1}
           m == Cardinality(J)
           L == {k \in 1..m : Place(J)[k] \in K}
           c == Cardinality(K)
<1>1. m \in Nat /\ \A k \in 1..m : Place(J)[k] \in 1..n  BY PlaceLists DEF Lists
<1>2. K \in SUBSET J  OBVIOUS
<1>3. L = {k \in DOMAIN t : t[k].kind = k2}  BY <1>1
<1>4. /\ Cardinality(L) = c /\ Place(L) \in [1..c -> 1..m]
      /\ \A k \in 1..c : Place(K)[k] = Place(J)[Place(L)[k]]
  <2>1. L = Within(J, K)  BY DEF Within
  <2> HIDE DEF K, L
  <2> QED BY <1>2, <2>1, PlaceOfPlaces
<1>5. \A k \in 1..c : Place(L)[k] \in L
  <2>1. L \in SUBSET (1..m)  OBVIOUS
  <2> HIDE DEF L, m
  <2> QED BY <1>1, <1>4, <2>1, PlaceLists DEF Lists
<1>6. OfKind(t, k2) = [k \in 1..c |-> t[Place(L)[k]]]
  <2>1. OfKind(t, k2) = Picked(t, L)  BY <1>3 DEF OfKind
  <2> HIDE DEF L, c
  <2> QED BY <2>1, <1>4, PickedPlaces
<1>7. OfKind(s, k1) = [k \in 1..c |-> s[Place(K)[k]]]
  <2>1. OfKind(s, k1) = Picked(s, K)  BY DEF OfKind
  <2> HIDE DEF K
  <2> QED BY <2>1, PickedPlaces
<1>8. \A k \in 1..c : OfKind(t, k2)[k][f2] = OfKind(s, k1)[k][f1]
  <2> SUFFICES ASSUME NEW k \in 1..c PROVE OfKind(t, k2)[k][f2] = OfKind(s, k1)[k][f1]
    OBVIOUS
  <2>1. Place(L)[k] \in 1..m /\ t[Place(L)[k]].kind = k2  BY <1>3, <1>5
  <2>2. t[Place(L)[k]][f2] = s[Place(J)[Place(L)[k]]][f1]  BY <2>1
  <2> HIDE DEF L, K, c, m
  <2> QED BY <1>4, <1>6, <1>7, <2>2
<1>9. DOMAIN OfKind(t, k2) = 1..c /\ DOMAIN OfKind(s, k1) = 1..c  BY <1>6, <1>7
<1> HIDE DEF c
<1> QED BY <1>8, <1>9 DEF Field

\* The blocks of one kind are blocks of the sequence.
LEMMA OfKindFacts ==
  ASSUME NEW n \in Nat, NEW s, DOMAIN s = 1..n, NEW kind
  PROVE  /\ \E m \in Nat : DOMAIN OfKind(s, kind) = 1..m
         /\ \A x \in DOMAIN OfKind(s, kind) :
              \E j \in 1..n : s[j].kind = kind /\ OfKind(s, kind)[x] = s[j]
         /\ OfKind(s, kind) # <<>> => \E j \in 1..n : s[j].kind = kind
         /\ (\E j \in 1..n : s[j].kind = kind) => OfKind(s, kind) # <<>>
<1> DEFINE K == {j \in 1..n : s[j].kind = kind}
           m == Cardinality(K)
<1>1. OfKind(s, kind) = Picked(s, K)  BY DEF OfKind
<1>2. m \in Nat /\ Lists(Place(K), m, K)
  <2>1. K \in SUBSET (1..n)  OBVIOUS
  <2> HIDE DEF K
  <2> QED BY <2>1, PlaceLists
<1>3. OfKind(s, kind) = [k \in 1..m |-> s[Place(K)[k]]]
  <2> HIDE DEF K
  <2> QED BY <1>1, PickedPlaces
<1>4. \A k \in 1..m : Place(K)[k] \in K
  <2> HIDE DEF K, m
  <2> QED BY <1>2 DEF Lists
<1>5. \A x \in 1..m : \E j \in 1..n : s[j].kind = kind /\ OfKind(s, kind)[x] = s[j]
  <2> SUFFICES ASSUME NEW x \in 1..m
               PROVE  \E j \in 1..n : s[j].kind = kind /\ OfKind(s, kind)[x] = s[j]
    OBVIOUS
  <2>1. OfKind(s, kind)[x] = s[Place(K)[x]]  BY <1>3
  <2> QED BY <2>1, <1>4
<1>6. OfKind(s, kind) # <<>> => 1 \in 1..m
  <2>1. ~(1 \in 1..m) => 1..m = {}  BY <1>2
  <2> QED BY <2>1, <1>3
<1>7. DOMAIN OfKind(s, kind) = 1..m  BY <1>3
<1>8. (\E j \in 1..n : s[j].kind = kind) => OfKind(s, kind) # <<>>
  <2>1. ASSUME NEW j \in 1..n, s[j].kind = kind PROVE 1..m # {}
    <3>1. j \in K  BY <2>1
    <3> HIDE DEF K
    <3> QED BY <3>1, <1>2 DEF Lists
  <2>2. OfKind(s, kind) = <<>> => 1..m = {}
    <3> HIDE DEF m
    <3> QED BY <1>7
  <2> HIDE DEF m, K
  <2> QED BY <2>1, <2>2
<1> HIDE DEF m, K
<1> QED BY <1>2, <1>5, <1>6, <1>7, <1>8

\* A set of indices that is not empty has its greatest element in it.
LEMMA MaxIsIn == ASSUME NEW n \in Nat, NEW S \in SUBSET (1..n), S # {} PROVE Max(S) \in S
<1> DEFINE T == {n - i : i \in S}
<1>1. T \in SUBSET Nat /\ T # {}
  <2>1. \A i \in S : n - i \in Nat  OBVIOUS
  <2> QED BY <2>1
<1>2. PICK x \in T : \A y \in T : x <= y
  <2> HIDE DEF T
  <2> QED BY <1>1, LeastNumber
<1>3. PICK i \in S : x = n - i  BY <1>2
<1>4. \A j \in S : n - i <= n - j  BY <1>2, <1>3
<1>5. i \in Int /\ \A j \in S : j \in Int  OBVIOUS
<1>6. \A j \in S : i >= j  BY <1>4, <1>5
<1> QED BY <1>6 DEF Max

-----------------------------------------------------------------------------
(* The turns of a conversation.                                            *)

Kind == {"text", "tool_use", "thinking", "tool_result"}
Id == (STRING \cup {"", "toolu"}) \X Nat \X Nat
BlockSet == [kind : Kind, id : Id, name : STRING \cup {"", "query", "declined"}]
Turn == [role : {"user", "assistant"}, blocks : Seq(BlockSet), raw : Seq(BlockSet), replay : BOOLEAN]

Kept(m) == {j \in DOMAIN m.raw : m.raw[j].kind \in {"text", "tool_use"}}

\* An assistant turn of Claude after k messages.
ClaudeTurn(m, k) ==
    /\ m.role = "assistant" /\ m.replay
    /\ \A j \in DOMAIN m.raw : m.raw[j] # Text("") /\ m.raw[j].kind # "tool_result"
    /\ \A j \in DOMAIN m.raw : m.raw[j].kind = "tool_use" => m.raw[j].id = <<"toolu", k, j>>
    /\ ToolUses(m) # <<>> => m.blocks = Picked(m.raw, Kept(m))

\* An assistant turn of Gemini.
GeminiTurn(m) ==
    /\ m.role = "assistant" /\ ~m.replay
    /\ \A j \in DOMAIN m.blocks : m.blocks[j] # Text("") /\ m.blocks[j].kind \in {"text", "tool_use"}
    /\ \A j \in DOMAIN m.blocks : m.blocks[j].kind = "tool_use" => m.blocks[j].id = NameId(m.blocks[j].name)

AssistantTurn(m, k) == ClaudeTurn(m, k) \/ GeminiTurn(m)

Results(uses) == [j \in DOMAIN uses |-> Block("tool_result", uses[j].id, "")]

UserTurn(ms, i) == Message("user", IF i = 1 THEN <<Text("query")>> ELSE Results(ToolUses(ms[i - 1])))

\* Calls and their results take turns.
Conversation(ms) ==
    \A i \in DOMAIN ms :
        IF i % 2 = 0 THEN AssistantTurn(ms[i], i - 1) /\ ToolUses(ms[i]) # <<>>
        ELSE ms[i] = UserTurn(ms, i)

LEMMA BlockFields ==
  /\ \A id : Block("tool_result", id, "").kind = "tool_result" /\ Block("tool_result", id, "").id = id
  /\ \A id, name : /\ Block("function_call", id, name).kind = "function_call"
                  /\ Block("function_call", id, name).name = name
  /\ \A id, name : /\ Block("function_response", id, name).kind = "function_response"
                  /\ Block("function_response", id, name).name = name
BY DEF Block

LEMMA TextFields == \A text : Text(text).kind = "text" /\ Text(text).name = text
BY DEF Text, Block

\* A sequence of n blocks of one kind.
AllOf(t, n, kind) == n \in Nat /\ t = [k \in 1..n |-> t[k]] /\ \A k \in 1..n : t[k].kind = kind

LEMMA FieldOfAll ==
  ASSUME NEW t, NEW n, NEW kind, NEW key, AllOf(t, n, kind)
  PROVE  Field(t, kind, key) = [k \in 1..n |-> t[k][key]]
<1> USE DEF AllOf
<1>1. {j \in DOMAIN t : t[j].kind = kind} = 1..n  OBVIOUS
<1>2. OfKind(t, kind) = t  BY <1>1, PickedAll DEF OfKind
<1> QED BY <1>2 DEF Field

LEMMA BlocksOfTurn ==
  ASSUME NEW m \in Turn
  PROVE  /\ \E n \in Nat : DOMAIN m.blocks = 1..n
         /\ \E n \in Nat : DOMAIN m.raw = 1..n
         /\ m.blocks = <<>> <=> DOMAIN m.blocks = {}
         /\ m.raw = <<>> <=> DOMAIN m.raw = {}
         /\ \A j \in DOMAIN m.blocks : m.blocks[j] \in BlockSet
         /\ \A j \in DOMAIN m.raw : m.raw[j] \in BlockSet
<1>1. m.blocks \in Seq(BlockSet) /\ m.raw \in Seq(BlockSet)  BY DEF Turn
<1>2. ASSUME NEW s \in Seq(BlockSet)
      PROVE  /\ \E n \in Nat : DOMAIN s = 1..n
             /\ s = <<>> <=> DOMAIN s = {}
             /\ \A j \in DOMAIN s : s[j] \in BlockSet
  <2>1. DOMAIN s = 1..Len(s) /\ Len(s) \in Nat  OBVIOUS
  <2>2. DOMAIN s = {} => s = <<>>  BY <2>1
  <2>3. s = <<>> => DOMAIN s = {}  OBVIOUS
  <2>4. \A j \in DOMAIN s : s[j] \in BlockSet  OBVIOUS
  <2>5. s = <<>> <=> DOMAIN s = {}  BY <2>2, <2>3
  <2> QED BY <2>1, <2>4, <2>5
<1> QED BY <1>1, <1>2

\* A Claude turn that calls tools: each normalized block is one of the raw blocks.
LEMMA ClaudeBlocks ==
  ASSUME NEW m \in Turn, NEW k, ClaudeTurn(m, k), ToolUses(m) # <<>>
  PROVE  /\ DOMAIN m.blocks = 1..Cardinality(Kept(m))
         /\ \A j \in DOMAIN m.blocks :
              Place(Kept(m))[j] \in Kept(m) /\ m.blocks[j] = m.raw[Place(Kept(m))[j]]
<1>1. PICK n \in Nat : DOMAIN m.raw = 1..n  BY BlocksOfTurn
<1>2. Kept(m) \in SUBSET (1..n)  BY <1>1 DEF Kept
<1>3. m.blocks = [j \in 1..Cardinality(Kept(m)) |-> m.raw[Place(Kept(m))[j]]]
  BY PickedPlaces DEF ClaudeTurn
<1>4. \A j \in 1..Cardinality(Kept(m)) : Place(Kept(m))[j] \in Kept(m)
  BY <1>2, PlaceLists DEF Lists
<1> QED BY <1>3, <1>4

\* The content of an assistant turn, as Claude gets it.
LEMMA AssistantContent ==
  ASSUME NEW m \in Turn, NEW k, AssistantTurn(m, k), ToolUses(m) # <<>>
  PROVE  /\ MessageToApi(m).content # <<>>
         /\ \A j \in DOMAIN MessageToApi(m).content : MessageToApi(m).content[j] # Text("")
         /\ Field(MessageToApi(m).content, "tool_use", "id") = Field(m.blocks, "tool_use", "id")
         /\ m.blocks # <<>>
         /\ \A j \in DOMAIN m.blocks : m.blocks[j].kind \in {"text", "tool_use"}
         /\ \E j \in DOMAIN m.blocks : m.blocks[j].kind = "tool_use"
<1>1. PICK n \in Nat : DOMAIN m.blocks = 1..n  BY BlocksOfTurn
<1>2. PICK x \in DOMAIN m.blocks : m.blocks[x].kind = "tool_use"
  BY <1>1, OfKindFacts DEF ToolUses
<1>3. m.blocks # <<>>  BY <1>2, BlocksOfTurn
<1>4. CASE GeminiTurn(m)
  <2>1. MessageToApi(m).content = m.blocks  BY <1>4 DEF GeminiTurn, MessageToApi
  <2> QED BY <1>2, <1>3, <1>4, <2>1 DEF GeminiTurn
<1>5. CASE ClaudeTurn(m, k)
  <2>1. MessageToApi(m).content = m.raw  BY <1>5 DEF ClaudeTurn, MessageToApi
  <2>2. PICK l \in Nat : DOMAIN m.raw = 1..l  BY BlocksOfTurn
  <2>3. /\ DOMAIN m.blocks = 1..Cardinality(Kept(m))
        /\ \A j \in DOMAIN m.blocks :
             Place(Kept(m))[j] \in Kept(m) /\ m.blocks[j] = m.raw[Place(Kept(m))[j]]
    BY <1>5, ClaudeBlocks
  <2>4. Place(Kept(m))[x] \in DOMAIN m.raw  BY <2>3 DEF Kept
  <2>5. m.raw # <<>>  BY <2>4, BlocksOfTurn
  <2>6. Field(m.blocks, "tool_use", "id") = Field(m.raw, "tool_use", "id")
    <3>1. Kept(m) \in SUBSET (1..l)  BY <2>2 DEF Kept
    <3>2. \A j \in 1..l : m.raw[j].kind = "tool_use" => j \in Kept(m)  BY <2>2 DEF Kept
    <3>3. \A j \in 1..Cardinality(Kept(m)) :
            m.blocks[j].kind = "tool_use" <=> m.raw[Place(Kept(m))[j]].kind = "tool_use"
      BY <2>3
    <3>4. \A j \in 1..Cardinality(Kept(m)) :
            m.blocks[j].kind = "tool_use" => m.blocks[j]["id"] = m.raw[Place(Kept(m))[j]]["id"]
      BY <2>3
    <3>5. DrawnFrom(m.blocks, "tool_use", "id", m.raw, "tool_use", "id", l, Kept(m))
      BY <2>2, <2>3, <3>1, <3>2, <3>3, <3>4 DEF DrawnFrom
    <3> QED BY <3>5, FieldsPicked
  <2>7. \A j \in DOMAIN m.blocks : m.blocks[j].kind \in {"text", "tool_use"}  BY <2>3 DEF Kept
  <2> QED BY <1>2, <1>3, <1>5, <2>1, <2>5, <2>6, <2>7 DEF ClaudeTurn
<1> QED BY <1>4, <1>5 DEF AssistantTurn

-----------------------------------------------------------------------------
(* The name behind an id.                                                  *)

\* The name of the tool behind an id, in a conversation.
TrueName(ms, id) == IF id[2] = 0 THEN id[1] ELSE ms[id[2] + 1].raw[id[3]].name

LEMMA TurnTypes ==
  ASSUME NEW ms \in Seq(Turn)
  PROVE  /\ Len(ms) \in Nat /\ DOMAIN ms = 1..Len(ms) /\ ms = [i \in 1..Len(ms) |-> ms[i]]
         /\ \A i \in 1..Len(ms) : ms[i] \in Turn
  OBVIOUS

\* The turns at even places are the assistant's, and call tools.
LEMMA EvenTurn ==
  ASSUME NEW ms \in Seq(Turn), Conversation(ms), NEW i \in 1..Len(ms), i % 2 = 0
  PROVE  /\ ms[i] \in Turn /\ AssistantTurn(ms[i], i - 1) /\ ToolUses(ms[i]) # <<>>
         /\ i - 1 \in Nat \ {0}
<1>1. Len(ms) \in Nat /\ DOMAIN ms = 1..Len(ms) /\ ms[i] \in Turn  BY TurnTypes
<1>2. AssistantTurn(ms[i], i - 1) /\ ToolUses(ms[i]) # <<>>  BY <1>1 DEF Conversation
<1>3. i - 1 \in Nat \ {0}  BY <1>1
<1> QED BY <1>1, <1>2, <1>3

LEMMA OddTurn ==
  ASSUME NEW ms \in Seq(Turn), Conversation(ms), NEW i \in 1..Len(ms), i % 2 # 0
  PROVE  /\ ms[i] = UserTurn(ms, i)
         /\ i # 1 => i - 1 \in 1..Len(ms) /\ (i - 1) % 2 = 0
<1>1. Len(ms) \in Nat /\ DOMAIN ms = 1..Len(ms)  BY TurnTypes
<1>2. ms[i] = UserTurn(ms, i)  BY <1>1 DEF Conversation
<1>3. i # 1 => i - 1 \in 1..Len(ms) /\ (i - 1) % 2 = 0  BY <1>1
<1> QED BY <1>2, <1>3

LEMMA CallNamed ==
  ASSUME NEW ms \in Seq(Turn), Conversation(ms), NEW i \in 1..Len(ms), i % 2 = 0,
         NEW j \in DOMAIN ms[i].blocks, ms[i].blocks[j].kind = "tool_use"
  PROVE  ms[i].blocks[j].name = TrueName(ms, ms[i].blocks[j].id)
<1> DEFINE m == ms[i]
           b == m.blocks[j]
           k == i - 1
<1>1. m \in Turn /\ AssistantTurn(m, k) /\ ToolUses(m) # <<>> /\ k \in Nat \ {0} /\ i = k + 1
  BY EvenTurn, TurnTypes
<1>2. CASE GeminiTurn(m)
  <2>1. b.id = <<b.name, 0, 0>>  BY <1>2 DEF GeminiTurn, NameId
  <2> QED BY <2>1 DEF TrueName
<1>3. CASE ClaudeTurn(m, k)
  <2>1. PICK p \in Kept(m) : b = m.raw[p]  BY <1>1, <1>3, ClaudeBlocks
  <2>2. b.id = <<"toolu", k, p>>  BY <2>1, <1>3 DEF ClaudeTurn, Kept
  <2>3. b.id[2] = k /\ b.id[3] = p  BY <2>2
  <2> HIDE DEF b, k
  <2>4. TrueName(ms, b.id) = ms[k + 1].raw[p].name  BY <1>1, <2>3 DEF TrueName
  <2>5. TrueName(ms, b.id) = m.raw[p].name  BY <1>1, <2>4
  <2> QED BY <2>1, <2>5 DEF b
<1> QED BY <1>1, <1>2, <1>3 DEF AssistantTurn

LEMMA UserCallsNothing ==
  ASSUME NEW ms \in Seq(Turn), Conversation(ms), NEW i \in 1..Len(ms), i % 2 # 0,
         NEW j \in DOMAIN ms[i].blocks
  PROVE  ms[i].blocks[j].kind # "tool_use"
<1>1. ms[i] = UserTurn(ms, i)  BY OddTurn
<1>2. CASE i = 1
  <2>1. ms[i].blocks = <<Text("query")>>  BY <1>1, <1>2 DEF UserTurn, Message
  <2>2. j = 1  BY <2>1
  <2>3. ms[i].blocks[j] = Text("query")  BY <2>1, <2>2
  <2> QED BY <2>3, TextFields
<1>3. CASE i # 1
  <2>1. ms[i].blocks = Results(ToolUses(ms[i - 1]))  BY <1>1, <1>3 DEF UserTurn, Message
  <2>2. ms[i].blocks[j] = Block("tool_result", ToolUses(ms[i - 1])[j].id, "")
    BY <2>1 DEF Results
  <2>3. ms[i].blocks[j].kind = "tool_result"  BY <2>2, BlockFields
  <2> QED BY <2>3
<1> QED BY <1>2, <1>3

\* _id_to_name finds, behind the id of a call, the name the call was made with.
LEMMA NameFound ==
  ASSUME NEW ms \in Seq(Turn), Conversation(ms), NEW i \in 1..Len(ms), i % 2 = 0,
         NEW j \in DOMAIN ms[i].blocks, ms[i].blocks[j].kind = "tool_use"
  PROVE  NameOf(ms, ms[i].blocks[j].id) = ms[i].blocks[j].name
<1> DEFINE id == ms[i].blocks[j].id
           uses(x) == {y \in DOMAIN ms[x].blocks :
                         ms[x].blocks[y].kind = "tool_use" /\ ms[x].blocks[y].id = id}
           turns == {x \in DOMAIN ms : uses(x) # {}}
           a == Max(turns)
           b == Max(uses(a))
<1>1. /\ Len(ms) \in Nat /\ DOMAIN ms = 1..Len(ms)
      /\ \A x \in 1..Len(ms) : ms[x] \in Turn
  BY TurnTypes
<1>2. NameOf(ms, id) = ms[a].blocks[b].name
  <2>1. j \in uses(i)  OBVIOUS
  <2>2. turns # {}  BY <1>1, <2>1
  <2> QED BY <2>2 DEF NameOf
<1>3. a \in turns
  <2>1. turns \in SUBSET (1..Len(ms)) /\ i \in turns  BY <1>1
  <2> HIDE DEF turns
  <2> QED BY <1>1, <2>1, MaxIsIn
<1>4. a \in 1..Len(ms) /\ uses(a) # {}
  <2> HIDE DEF a
  <2> QED BY <1>1, <1>3
<1> HIDE DEF a
<1>5. PICK n \in Nat : DOMAIN ms[a].blocks = 1..n  BY <1>1, <1>4, BlocksOfTurn
<1>6. b \in uses(a)
  <2>1. uses(a) \in SUBSET (1..n)  BY <1>5
  <2> HIDE DEF uses
  <2> QED BY <1>4, <2>1, MaxIsIn
<1> HIDE DEF b
<1>7. /\ b \in DOMAIN ms[a].blocks /\ ms[a].blocks[b].kind = "tool_use"
      /\ ms[a].blocks[b].id = id
  BY <1>6
<1> HIDE DEF uses, turns, id
<1>8. a % 2 = 0  BY <1>4, <1>7, UserCallsNothing
<1>9. ms[a].blocks[b].name = TrueName(ms, id)  BY <1>4, <1>7, <1>8, CallNamed
<1>10. ms[i].blocks[j].name = TrueName(ms, id)  BY CallNamed DEF id
<1> QED BY <1>2, <1>9, <1>10 DEF id

-----------------------------------------------------------------------------
(* The turns, as the two vendors get them.                                 *)

\* What Gemini gets of a turn.
Said(m) == {j \in DOMAIN m.blocks : m.blocks[j].kind # "text" \/ m.blocks[j].name # ""}
PartsOf(m) == Picked(m.blocks, Said(m))
Content(ms, m) == [j \in DOMAIN PartsOf(m) |-> Part(ms, PartsOf(m)[j])]

LEMMA ContentEmpty ==
  ASSUME NEW ms, NEW m, PartsOf(m) # <<>>
  PROVE  Content(ms, m) # <<>>
<1>1. PartsOf(m) = [k \in 1..Cardinality(Said(m)) |-> m.blocks[Place(Said(m))[k]]]
  BY PickedPlaces DEF PartsOf
<1> DEFINE p == PartsOf(m)
           c == Cardinality(Said(m))
<1>2. p = [k \in 1..c |-> p[k]]  BY <1>1
<1>3. DOMAIN Content(ms, m) = 1..c  BY <1>1 DEF Content
<1> HIDE DEF p, c
<1>4. ASSUME Content(ms, m) = <<>> PROVE FALSE
  <2>1. 1..c = {}  BY <1>3, <1>4
  <2>2. p = <<>>  BY <1>2, <2>1
  <2> QED BY <2>2 DEF p
<1> QED BY <1>4

\* The user turn that execute answers n calls with.
Answers(t, uses, n) ==
    n \in Nat \ {0} /\ DOMAIN uses = 1..n /\ t = Message("user", Results(uses))

IdsOf(uses, n) == [j \in 1..n |-> uses[j].id]
NamesFound(ms, uses, n) == [j \in 1..n |-> NameOf(ms, uses[j].id)]

LEMMA ResultTurn ==
  ASSUME NEW t, NEW uses, NEW n, Answers(t, uses, n), NEW ms
  PROVE  /\ t.role = "user" /\ ~t.replay /\ t.blocks # <<>>
         /\ \A j \in DOMAIN t.blocks : t.blocks[j] # Text("")
         /\ Field(t.blocks, "tool_result", "id") = IdsOf(uses, n)
         /\ PartsOf(t) # <<>>
         /\ \A j \in DOMAIN Content(ms, t) : Content(ms, t)[j] # Text("")
         /\ Field(Content(ms, t), "function_response", "name") = NamesFound(ms, uses, n)
<1> USE DEF Answers
<1>1. t.role = "user" /\ ~t.replay /\ t.blocks = Results(uses)  BY DEF Message
<1> DEFINE R == Results(uses)
<1>2. /\ R = [j \in 1..n |-> R[j]] /\ DOMAIN R = 1..n
      /\ \A j \in 1..n : R[j].kind = "tool_result" /\ R[j].id = uses[j].id
  BY BlockFields DEF Results
<1> HIDE DEF R
<1>3. 1..n # {}  OBVIOUS
<1>4. R # <<>>  BY <1>2, <1>3
<1>5. \A j \in 1..n : R[j] # Text("")  BY <1>2, TextFields
<1>6. Field(R, "tool_result", "id") = [j \in 1..n |-> R[j]["id"]]
  <2>1. AllOf(R, n, "tool_result")  BY <1>2 DEF AllOf
  <2> QED BY <2>1, FieldOfAll
<1>7. [j \in 1..n |-> R[j]["id"]] = IdsOf(uses, n)  BY <1>2 DEF IdsOf
<1>8. PartsOf(t) = R
  <2>1. Said(t) = 1..n  BY <1>1, <1>2 DEF Said, R
  <2> QED BY <1>1, <1>2, <2>1, PickedAll DEF PartsOf, R
<1> DEFINE C == Content(ms, t)
<1>9. C = [j \in 1..n |-> Block("function_response", NoId, NameOf(ms, uses[j].id))]
  <2>1. C = [j \in 1..n |-> Part(ms, R[j])]  BY <1>2, <1>8 DEF Content
  <2>2. \A j \in 1..n : Part(ms, R[j]) = Block("function_response", NoId, NameOf(ms, uses[j].id))
    BY <1>2 DEF Part
  <2> QED BY <2>1, <2>2
<1> HIDE DEF C
<1>10. /\ C = [j \in 1..n |-> C[j]] /\ DOMAIN C = 1..n
       /\ \A j \in 1..n : C[j].kind = "function_response" /\ C[j].name = NameOf(ms, uses[j].id)
  <2>1. DOMAIN C = 1..n /\ C = [j \in 1..n |-> C[j]]  BY <1>9
  <2>2. ASSUME NEW j \in 1..n
        PROVE  C[j].kind = "function_response" /\ C[j].name = NameOf(ms, uses[j].id)
    <3>1. C[j] = Block("function_response", NoId, NameOf(ms, uses[j].id))  BY <1>9
    <3> QED BY <3>1 DEF Block
  <2> QED BY <2>1, <2>2
<1>11. \A j \in 1..n : C[j] # Text("")  BY <1>10, TextFields
<1>12. Field(C, "function_response", "name") = [j \in 1..n |-> C[j]["name"]]
  <2>1. AllOf(C, n, "function_response")  BY <1>10 DEF AllOf
  <2> QED BY <2>1, FieldOfAll
<1>13. [j \in 1..n |-> C[j]["name"]] = NamesFound(ms, uses, n)  BY <1>10 DEF NamesFound
<1>14. t.blocks = R /\ R # <<>> /\ DOMAIN R = 1..n /\ DOMAIN C = 1..n
  BY <1>1, <1>2, <1>4, <1>10 DEF R
<1> HIDE DEF R
<1> QED BY <1>1, <1>5, <1>6, <1>7, <1>8, <1>11, <1>12, <1>13, <1>14 DEF C

LEMMA QueryTurn ==
  ASSUME NEW t, t = Message("user", <<Text("query")>>), NEW ms
  PROVE  /\ t.role = "user" /\ ~t.replay /\ t.blocks # <<>>
         /\ \A j \in DOMAIN t.blocks : t.blocks[j] # Text("")
         /\ PartsOf(t) # <<>>
         /\ \A j \in DOMAIN Content(ms, t) : Content(ms, t)[j] # Text("")
<1>1. t.role = "user" /\ ~t.replay /\ t.blocks = <<Text("query")>>  BY DEF Message
<1>2. t.blocks # <<>> /\ DOMAIN t.blocks = {1} /\ t.blocks[1] = Text("query")
      /\ t.blocks = [j \in 1..1 |-> t.blocks[j]]
  BY <1>1
<1>3. Text("query") # Text("") /\ Text("query").kind = "text" /\ Text("query").name = "query"
  BY DEF Text, Block
<1>4. PartsOf(t) = t.blocks
  <2>1. Said(t) = 1..1  BY <1>2, <1>3 DEF Said
  <2>2. Picked(t.blocks, 1..1) = t.blocks  BY <1>2, PickedAll
  <2> QED BY <2>1, <2>2 DEF PartsOf
<1>5. Part(ms, Text("query")) = Text("query")  BY <1>3 DEF Part
<1>6. \A j \in DOMAIN Content(ms, t) : Content(ms, t)[j] = Text("query")
  BY <1>2, <1>4, <1>5 DEF Content
<1> QED BY <1>1, <1>2, <1>3, <1>4, <1>6

\* The content of an assistant turn, as Gemini gets it.
LEMMA AssistantParts ==
  ASSUME NEW m \in Turn, NEW k, AssistantTurn(m, k), ToolUses(m) # <<>>, NEW ms
  PROVE  /\ PartsOf(m) # <<>>
         /\ \A j \in DOMAIN Content(ms, m) : Content(ms, m)[j] # Text("")
         /\ Field(Content(ms, m), "function_call", "name") = Field(m.blocks, "tool_use", "name")
<1>1. PICK n \in Nat : DOMAIN m.blocks = 1..n  BY BlocksOfTurn
<1>2. /\ \A j \in 1..n : m.blocks[j].kind \in {"text", "tool_use"}
      /\ \E j \in 1..n : m.blocks[j].kind = "tool_use"
  BY <1>1, AssistantContent
<1> DEFINE J == Said(m)
           c == Cardinality(J)
           C == Content(ms, m)
<1>3. J \in SUBSET (1..n)  BY <1>1 DEF Said
<1>4. c \in Nat /\ Lists(Place(J), c, J)
  <2> HIDE DEF J
  <2> QED BY <1>3, PlaceLists
<1>5. PartsOf(m) = [j \in 1..c |-> m.blocks[Place(J)[j]]]  BY PickedPlaces DEF PartsOf
<1>6. \A j \in 1..c : Place(J)[j] \in J
  <2> HIDE DEF J, c
  <2> QED BY <1>4 DEF Lists
<1>7. PartsOf(m) # <<>>
  <2>1. PICK j \in J : TRUE  BY <1>1, <1>2 DEF Said
  <2>2. 1..c # {}
    <3> HIDE DEF J, c
    <3> QED BY <1>4, <2>1 DEF Lists
  <2>3. DOMAIN PartsOf(m) = 1..c  BY <1>5
  <2>4. PartsOf(m) = <<>> => DOMAIN PartsOf(m) = {}  OBVIOUS
  <2> HIDE DEF c, J
  <2> QED BY <2>2, <2>3, <2>4
<1>8. C = [j \in 1..c |-> Part(ms, m.blocks[Place(J)[j]])]
  <2> HIDE DEF c, J
  <2> QED BY <1>5 DEF Content
<1>9. ASSUME NEW j \in 1..c
      PROVE  /\ C[j] # Text("")
             /\ C[j].kind = "function_call" <=> m.blocks[Place(J)[j]].kind = "tool_use"
             /\ C[j].kind = "function_call" => C[j]["name"] = m.blocks[Place(J)[j]]["name"]
  <2> DEFINE b == m.blocks[Place(J)[j]]
  <2>1. b.kind \in {"text", "tool_use"} /\ (b.kind # "text" \/ b.name # "")
    BY <1>1, <1>2, <1>6 DEF Said
  <2>2. C[j] = Part(ms, b)
    <3> HIDE DEF c, J
    <3> QED BY <1>8
  <2> HIDE DEF b, C
  <2>3. CASE b.kind = "text"
    <3>1. C[j] = b /\ b.name # ""  BY <2>1, <2>2, <2>3 DEF Part
    <3>2. b # Text("")  BY <3>1, TextFields
    <3> QED BY <2>3, <3>1, <3>2 DEF b
  <2>4. CASE b.kind = "tool_use"
    <3>1. C[j] = Block("function_call", NoId, b.name)  BY <2>2, <2>4 DEF Part
    <3>2. C[j].kind = "function_call" /\ C[j].name = b.name  BY <3>1 DEF Block
    <3>3. C[j] # Text("")  BY <3>2, TextFields
    <3> QED BY <2>4, <3>2, <3>3 DEF b
  <2> QED BY <2>1, <2>3, <2>4
<1>10. DOMAIN C = 1..c  BY <1>8
<1>11. \A j \in 1..n : m.blocks[j].kind = "tool_use" => j \in J  BY <1>1 DEF Said
<1> HIDE DEF C, J
<1>12. Field(C, "function_call", "name") = Field(m.blocks, "tool_use", "name")
  <2>1. \A j \in 1..c : C[j].kind = "function_call" <=> m.blocks[Place(J)[j]].kind = "tool_use"
    BY <1>9
  <2>2. \A j \in 1..c :
          C[j].kind = "function_call" => C[j]["name"] = m.blocks[Place(J)[j]]["name"]
    BY <1>9
  <2>3. DrawnFrom(C, "function_call", "name", m.blocks, "tool_use", "name", n, J)
    BY <1>1, <1>3, <1>10, <1>11, <2>1, <2>2 DEF DrawnFrom
  <2> QED BY <2>3, FieldsPicked
<1> QED BY <1>7, <1>9, <1>10, <1>12 DEF C

\* A user turn, as both vendors get it, and what it answers.
LEMMA UserContent ==
  ASSUME NEW ms \in Seq(Turn), Conversation(ms), NEW i \in 1..Len(ms), i % 2 # 0
  PROVE  /\ ms[i].role = "user" /\ ~ms[i].replay /\ ms[i].blocks # <<>>
         /\ \A j \in DOMAIN ms[i].blocks : ms[i].blocks[j] # Text("")
         /\ PartsOf(ms[i]) # <<>>
         /\ \A j \in DOMAIN Content(ms, ms[i]) : Content(ms, ms[i])[j] # Text("")
         /\ i # 1 => /\ Field(ms[i].blocks, "tool_result", "id")
                          = Field(ms[i - 1].blocks, "tool_use", "id")
                     /\ Field(Content(ms, ms[i]), "function_response", "name")
                          = Field(ms[i - 1].blocks, "tool_use", "name")
<1>1. ms[i] = UserTurn(ms, i)  BY OddTurn
<1>2. CASE i = 1
  <2>1. ms[i] = Message("user", <<Text("query")>>)  BY <1>1, <1>2 DEF UserTurn
  <2> QED BY <1>2, <2>1, QueryTurn
<1>3. CASE i # 1
  <2> DEFINE p == i - 1
             m == ms[p]
             uses == ToolUses(m)
  <2>1. p \in 1..Len(ms) /\ p % 2 = 0  BY <1>3, OddTurn
  <2>2. ms[i] = Message("user", Results(uses))  BY <1>1, <1>3 DEF UserTurn
  <2> HIDE DEF p
  <2>3. m \in Turn /\ uses # <<>>  BY <2>1, EvenTurn
  <2>4. PICK n \in Nat : DOMAIN m.blocks = 1..n  BY <2>3, BlocksOfTurn
  <2>5. PICK c \in Nat : DOMAIN uses = 1..c  BY <2>4, OfKindFacts DEF ToolUses
  <2>6. \A x \in 1..c : \E j \in 1..n : m.blocks[j].kind = "tool_use" /\ uses[x] = m.blocks[j]
    BY <2>4, <2>5, OfKindFacts DEF ToolUses
  <2>7. c # 0
    <3>1. PICK x \in 1..n : m.blocks[x].kind = "tool_use"  BY <2>3, <2>4, OfKindFacts DEF ToolUses
    <3>2. uses = [k \in 1..c |-> uses[k]]  BY <2>5 DEF ToolUses, OfKind, Picked
    <3>3. c = 0 => uses = <<>>
      <4> HIDE DEF uses
      <4> QED BY <3>2
    <3> QED BY <2>3, <3>3
  <2>8. Field(m.blocks, "tool_use", "id") = IdsOf(uses, c)
    BY <2>5 DEF Field, ToolUses, IdsOf
  <2>9. Field(m.blocks, "tool_use", "name") = [x \in 1..c |-> uses[x].name]
    BY <2>5 DEF Field, ToolUses
  <2>10. \A x \in 1..c : NameOf(ms, uses[x].id) = uses[x].name
    <3> SUFFICES ASSUME NEW x \in 1..c PROVE NameOf(ms, uses[x].id) = uses[x].name  OBVIOUS
    <3>1. PICK j \in 1..n : m.blocks[j].kind = "tool_use" /\ uses[x] = m.blocks[j]  BY <2>6
    <3>2. NameOf(ms, m.blocks[j].id) = m.blocks[j].name  BY <2>1, <2>4, <3>1, NameFound
    <3> QED BY <3>1, <3>2
  <2>11. NamesFound(ms, uses, c) = [x \in 1..c |-> uses[x].name]  BY <2>10 DEF NamesFound
  <2> HIDE DEF m, uses
  <2> DEFINE t == ms[i]
  <2>12. Answers(t, uses, c)  BY <2>2, <2>5, <2>7 DEF Answers
  <2> HIDE DEF t
  <2>13. /\ t.role = "user" /\ ~t.replay /\ t.blocks # <<>>
         /\ \A j \in DOMAIN t.blocks : t.blocks[j] # Text("")
         /\ PartsOf(t) # <<>>
         /\ \A j \in DOMAIN Content(ms, t) : Content(ms, t)[j] # Text("")
    BY <2>12, ResultTurn
  <2>14. /\ Field(t.blocks, "tool_result", "id") = IdsOf(uses, c)
         /\ Field(Content(ms, t), "function_response", "name") = NamesFound(ms, uses, c)
    BY <2>12, ResultTurn
  <2> QED BY <2>8, <2>9, <2>11, <2>13, <2>14 DEF m, p, t
<1> QED BY <1>2, <1>3

LEMMA NextOfEven == ASSUME NEW n \in Nat, NEW i \in 1..n - 1, i % 2 = 0
                    PROVE  i \in 1..n /\ i + 1 \in 1..n /\ (i + 1) % 2 # 0 /\ i + 1 # 1 /\ (i + 1) - 1 = i
  OBVIOUS

\* A call in the content of turn i: Claude's ids carry their places, Gemini's their names.
CallOf(content, ms, i) ==
    \A j \in DOMAIN content : content[j].kind = "tool_use" =>
        /\ ms[i].replay => i - 1 \in Nat \ {0} /\ content[j].id = <<"toolu", i - 1, j>>
        /\ ~ms[i].replay => content = ms[i].blocks /\ content[j].id = <<content[j].name, 0, 0>>

LEMMA IdOfCall ==
  ASSUME NEW ms \in Seq(Turn), Conversation(ms), NEW i \in 1..Len(ms), NEW content,
         content = IF i % 2 = 0 THEN MessageToApi(ms[i]).content ELSE ms[i].blocks
  PROVE  CallOf(content, ms, i)
<1> SUFFICES ASSUME NEW j \in DOMAIN content, content[j].kind = "tool_use"
             PROVE  /\ ms[i].replay => i - 1 \in Nat \ {0} /\ content[j].id = <<"toolu", i - 1, j>>
                    /\ ~ms[i].replay => /\ content = ms[i].blocks
                                       /\ content[j].id = <<content[j].name, 0, 0>>
  BY DEF CallOf
<1>1. i % 2 = 0
  <2>1. CASE i % 2 # 0  BY <2>1, UserCallsNothing
  <2> QED BY <2>1
<1>2. /\ ms[i] \in Turn /\ AssistantTurn(ms[i], i - 1) /\ ToolUses(ms[i]) # <<>>
      /\ i - 1 \in Nat \ {0}
  BY <1>1, EvenTurn
<1>3. content = MessageToApi(ms[i]).content  BY <1>1
<1>4. CASE ClaudeTurn(ms[i], i - 1)
  <2>1. content = ms[i].raw /\ ms[i].replay  BY <1>3, <1>4 DEF ClaudeTurn, MessageToApi
  <2> QED BY <1>2, <1>4, <2>1 DEF ClaudeTurn
<1>5. CASE GeminiTurn(ms[i])
  <2>1. content = ms[i].blocks /\ ~ms[i].replay  BY <1>3, <1>5 DEF GeminiTurn, MessageToApi
  <2> QED BY <1>5, <2>1 DEF GeminiTurn, NameId
<1> QED BY <1>2, <1>4, <1>5 DEF AssistantTurn

\* Ids are repeated in a request exactly if Gemini called a function twice.
LEMMA IdsRepeat ==
  ASSUME NEW ms \in Seq(Turn), Conversation(ms), NEW request,
         DOMAIN request = 1..Len(ms),
         \A i \in 1..Len(ms) :
            request[i].content = IF i % 2 = 0 THEN MessageToApi(ms[i]).content ELSE ms[i].blocks
  PROVE  IdsUnique(request) <=> ~FunctionCalledTwice(ms)
<1>1. Len(ms) \in Nat /\ DOMAIN ms = 1..Len(ms)  BY TurnTypes
<1>2. ASSUME NEW i \in 1..Len(ms), NEW j \in DOMAIN request[i].content,
             request[i].content[j].kind = "tool_use"
      PROVE  /\ ms[i].replay => i - 1 \in Nat \ {0} /\ request[i].content[j].id = <<"toolu", i - 1, j>>
             /\ ~ms[i].replay => /\ request[i].content = ms[i].blocks
                                /\ request[i].content[j].id = <<request[i].content[j].name, 0, 0>>
  <2>1. CallOf(request[i].content, ms, i)  BY IdOfCall
  <2> QED BY <1>2, <2>1 DEF CallOf
<1>3. ASSUME FunctionCalledTwice(ms) PROVE ~IdsUnique(request)
  <2>1. PICK i \in 1..Len(ms), k \in 1..Len(ms) :
          \E j \in DOMAIN ms[i].blocks, l \in DOMAIN ms[k].blocks :
             /\ ~ms[i].replay /\ ~ms[k].replay /\ (i # k \/ j # l)
             /\ ms[i].blocks[j].kind = "tool_use" /\ ms[k].blocks[l].kind = "tool_use"
             /\ ms[i].blocks[j].name = ms[k].blocks[l].name
    BY <1>1, <1>3, Zenon DEF FunctionCalledTwice
  <2>2. PICK j \in DOMAIN ms[i].blocks, l \in DOMAIN ms[k].blocks :
             /\ ~ms[i].replay /\ ~ms[k].replay /\ (i # k \/ j # l)
             /\ ms[i].blocks[j].kind = "tool_use" /\ ms[k].blocks[l].kind = "tool_use"
             /\ ms[i].blocks[j].name = ms[k].blocks[l].name
    BY <2>1
  <2>3. request[i].content = ms[i].blocks /\ request[k].content = ms[k].blocks
    <3>1. ASSUME NEW x \in 1..Len(ms), NEW y \in DOMAIN ms[x].blocks,
                 ~ms[x].replay, ms[x].blocks[y].kind = "tool_use"
          PROVE  request[x].content = ms[x].blocks
      <4>1. ~(ms[x].role = "assistant" /\ ms[x].replay)  BY <3>1
      <4>2. MessageToApi(ms[x]).content = ms[x].blocks  BY <4>1 DEF MessageToApi
      <4> QED BY <4>2
    <3> QED BY <2>2, <3>1
  <2>4. ASSUME NEW x \in 1..Len(ms), NEW y \in DOMAIN ms[x].blocks, ~ms[x].replay,
               ms[x].blocks[y].kind = "tool_use", request[x].content = ms[x].blocks
        PROVE  request[x].content[y].id = <<ms[x].blocks[y].name, 0, 0>>
    BY <1>2, <2>4
  <2>5. request[i].content[j].id = request[k].content[l].id  BY <2>2, <2>3, <2>4
  <2> QED BY <2>2, <2>3, <2>5 DEF IdsUnique
<1>4. ASSUME ~FunctionCalledTwice(ms),
             NEW i \in 1..Len(ms), NEW k \in 1..Len(ms),
             NEW j \in DOMAIN request[i].content, NEW l \in DOMAIN request[k].content,
             request[i].content[j].kind = "tool_use", request[k].content[l].kind = "tool_use",
             request[i].content[j].id = request[k].content[l].id
      PROVE  i = k /\ j = l
  <2> DEFINE a == request[i].content[j]
             b == request[k].content[l]
  <2>1. CASE ms[i].replay /\ ms[k].replay
    <3>1. a.id = <<"toolu", i - 1, j>> /\ b.id = <<"toolu", k - 1, l>>  BY <1>2, <1>4, <2>1
    <3>2. a.id[2] = i - 1 /\ b.id[2] = k - 1 /\ a.id[3] = j /\ b.id[3] = l  BY <3>1
    <3>3. i - 1 = k - 1 /\ j = l  BY <1>4, <3>2
    <3> QED BY <1>1, <3>3
  <2>2. CASE ms[i].replay /\ ~ms[k].replay
    <3>1. a.id[2] = i - 1 /\ i - 1 # 0 /\ b.id[2] = 0  BY <1>2, <1>4, <2>2
    <3> QED BY <1>4, <3>1
  <2>3. CASE ~ms[i].replay /\ ms[k].replay
    <3>1. b.id[2] = k - 1 /\ k - 1 # 0 /\ a.id[2] = 0  BY <1>2, <1>4, <2>3
    <3> QED BY <1>4, <3>1
  <2>4. CASE ~ms[i].replay /\ ~ms[k].replay
    <3>1. /\ request[i].content = ms[i].blocks /\ request[k].content = ms[k].blocks
          /\ a.id = <<a.name, 0, 0>> /\ b.id = <<b.name, 0, 0>>
      BY <1>2, <1>4, <2>4
    <3>2. a.name = b.name  BY <1>4, <3>1
    <3> QED BY <1>1, <1>4, <2>4, <3>1, <3>2 DEF FunctionCalledTwice
  <2> QED BY <2>1, <2>2, <2>3, <2>4
<1>5. ~FunctionCalledTwice(ms) => IdsUnique(request)  BY <1>4 DEF IdsUnique
<1> QED BY <1>3, <1>5

LEMMA AnthropicTakes ==
  ASSUME NEW ms \in Seq(Turn), Conversation(ms), Len(ms) % 2 = 1
  PROVE  /\ AnthropicPairs(ToAnthropic(ms))
         /\ IdsUnique(ToAnthropic(ms)) <=> ~FunctionCalledTwice(ms)
         /\ \A i \in DOMAIN ToAnthropic(ms) :
              ms[i].replay => ToAnthropic(ms)[i].content = ms[i].raw
<1> DEFINE n == Len(ms)
           request == ToAnthropic(ms)
<1>1. n \in Nat /\ DOMAIN ms = 1..n  BY TurnTypes
<1>2. request = [i \in 1..n |-> MessageToApi(ms[i])]  BY <1>1 DEF ToAnthropic
<1>3. DOMAIN request = 1..n /\ Len(request) = n  BY <1>1, <1>2
<1>4. ASSUME NEW i \in 1..n, i % 2 # 0
      PROVE  request[i].role = "user" /\ request[i].content = ms[i].blocks
  <2>1. ms[i].role = "user"  BY <1>4, UserContent
  <2>2. request[i] = MessageToApi(ms[i])  BY <1>2
  <2> HIDE DEF request
  <2> QED BY <2>1, <2>2 DEF MessageToApi
<1>5. ASSUME NEW i \in 1..n, i % 2 = 0
      PROVE  request[i].role = "assistant" /\ request[i].content = MessageToApi(ms[i]).content
  <2>1. ms[i].role = "assistant"  BY <1>5, EvenTurn DEF AssistantTurn, ClaudeTurn, GeminiTurn
  <2>2. request[i] = MessageToApi(ms[i])  BY <1>2
  <2> HIDE DEF request
  <2> QED BY <2>1, <2>2 DEF MessageToApi
<1> HIDE DEF request
<1>6. ASSUME NEW i \in 1..n
      PROVE  /\ request[i].role = IF i % 2 = 1 THEN "user" ELSE "assistant"
             /\ request[i].content # <<>>
             /\ \A j \in DOMAIN request[i].content : request[i].content[j] # Text("")
  <2>1. i % 2 \in {0, 1}  BY <1>1
  <2>2. CASE i % 2 = 0
    <3>1. ms[i] \in Turn /\ AssistantTurn(ms[i], i - 1) /\ ToolUses(ms[i]) # <<>>  BY <2>2, EvenTurn
    <3>2. /\ MessageToApi(ms[i]).content # <<>>
          /\ \A j \in DOMAIN MessageToApi(ms[i]).content : MessageToApi(ms[i]).content[j] # Text("")
      BY <3>1, AssistantContent
    <3>3. i % 2 # 1 /\ request[i].role = "assistant"  BY <1>5, <2>2
    <3>4. request[i].role = IF i % 2 = 1 THEN "user" ELSE "assistant"  BY <3>3, Zenon
    <3> QED BY <1>5, <2>2, <3>2, <3>4
  <2>3. CASE i % 2 # 0
    <3>1. i % 2 = 1  BY <2>1, <2>3
    <3>2. /\ ms[i].blocks # <<>>
          /\ \A j \in DOMAIN ms[i].blocks : ms[i].blocks[j] # Text("")
      BY <2>3, UserContent
    <3>3. request[i].role = "user"  BY <1>4, <2>3
    <3>4. request[i].role = IF i % 2 = 1 THEN "user" ELSE "assistant"  BY <3>1, <3>3, Zenon
    <3> QED BY <1>4, <2>3, <3>2, <3>4
  <2> QED BY <2>2, <2>3
<1>7. ASSUME NEW i \in 1..n - 1, i % 2 = 0
      PROVE  Field(request[i].content, "tool_use", "id")
               = Field(request[i + 1].content, "tool_result", "id")
  <2>1. i \in 1..n /\ i + 1 \in 1..n /\ (i + 1) % 2 # 0 /\ i + 1 # 1 /\ (i + 1) - 1 = i
    BY <1>1, <1>7, NextOfEven
  <2>2. Field(ms[i + 1].blocks, "tool_result", "id") = Field(ms[i].blocks, "tool_use", "id")
    BY <2>1, UserContent
  <2>3. ms[i] \in Turn /\ AssistantTurn(ms[i], i - 1) /\ ToolUses(ms[i]) # <<>>
    BY <1>7, <2>1, EvenTurn
  <2>4. Field(MessageToApi(ms[i]).content, "tool_use", "id") = Field(ms[i].blocks, "tool_use", "id")
    BY <2>3, AssistantContent
  <2> QED BY <1>4, <1>5, <1>7, <2>1, <2>2, <2>4
<1>8. AnthropicPairs(request)
  <2>1. TurnsAlternate(request, "assistant")  BY <1>3, <1>6 DEF TurnsAlternate
  <2>2. CallsAnswered(request, "tool_use", "tool_result", "id")  BY <1>3, <1>7 DEF CallsAnswered
  <2> QED BY <2>1, <2>2 DEF AnthropicPairs
<1>9. ASSUME NEW i \in 1..n, ms[i].replay PROVE request[i].content = ms[i].raw
  <2>1. i % 2 = 0  BY <1>9, UserContent
  <2>2. ms[i].role = "assistant"
    BY <2>1, EvenTurn DEF AssistantTurn, ClaudeTurn, GeminiTurn
  <2>3. MessageToApi(ms[i]).content = ms[i].raw  BY <1>9, <2>2 DEF MessageToApi
  <2> QED BY <1>5, <2>1, <2>3
<1>10. \A i \in 1..n : request[i].content = IF i % 2 = 0 THEN MessageToApi(ms[i]).content
                                            ELSE ms[i].blocks
  BY <1>4, <1>5
<1>11. IdsUnique(request) <=> ~FunctionCalledTwice(ms)  BY <1>3, <1>10, IdsRepeat
<1> QED BY <1>3, <1>8, <1>9, <1>11 DEF request

LEMMA GeminiTakes ==
  ASSUME NEW ms \in Seq(Turn), Conversation(ms), Len(ms) % 2 = 1
  PROVE  GeminiAccepts(ToGemini(ms))
<1> DEFINE n == Len(ms)
           request == ToGemini(ms)
           turn(i) == [role |-> IF ms[i].role = "assistant" THEN "model" ELSE "user",
                       content |-> Content(ms, ms[i])]
<1>1. n \in Nat /\ DOMAIN ms = 1..n /\ ms = [i \in 1..n |-> ms[i]]  BY TurnTypes
<1>2. \A i \in 1..n : i % 2 \in {0, 1}  BY <1>1
<1>3. ASSUME NEW i \in 1..n, i % 2 # 0
      PROVE  /\ ms[i].role = "user" /\ PartsOf(ms[i]) # <<>>
             /\ \A j \in DOMAIN Content(ms, ms[i]) : Content(ms, ms[i])[j] # Text("")
  BY <1>3, UserContent
<1>4. ASSUME NEW i \in 1..n, i % 2 = 0
      PROVE  /\ ms[i].role = "assistant" /\ PartsOf(ms[i]) # <<>>
             /\ \A j \in DOMAIN Content(ms, ms[i]) : Content(ms, ms[i])[j] # Text("")
             /\ Field(Content(ms, ms[i]), "function_call", "name")
                  = Field(ms[i].blocks, "tool_use", "name")
  <2>1. ms[i] \in Turn /\ AssistantTurn(ms[i], i - 1) /\ ToolUses(ms[i]) # <<>>  BY <1>4, EvenTurn
  <2>2. ms[i].role = "assistant"  BY <2>1 DEF AssistantTurn, ClaudeTurn, GeminiTurn
  <2> QED BY <2>1, <2>2, AssistantParts
<1>5. \A i \in 1..n : PartsOf(ms[i]) # <<>>  BY <1>3, <1>4
<1>6. request = [i \in 1..n |-> turn(i)]
  <2> DEFINE places == {i \in DOMAIN ms : PartsOf(ms[i]) # <<>>}
             kept == Picked(ms, places)
  <2>1. request = [i \in DOMAIN kept |->
                     [role |-> IF kept[i].role = "assistant" THEN "model" ELSE "user",
                      content |-> Content(ms, kept[i])]]
    BY DEF ToGemini, Content, PartsOf, Said
  <2>2. places = 1..n  BY <1>1, <1>5
  <2>3. kept = ms
    <3> HIDE DEF places
    <3> QED BY <1>1, <2>2, PickedAll
  <2> HIDE DEF kept
  <2> QED BY <1>1, <2>1, <2>3
<1>7. DOMAIN request = 1..n /\ Len(request) = n  BY <1>1, <1>6
<1>8. \A i \in 1..n : request[i] = turn(i)  BY <1>6
<1> HIDE DEF request
<1>9. ASSUME NEW i \in 1..n
      PROVE  /\ request[i].content = Content(ms, ms[i])
             /\ request[i].role = IF ms[i].role = "assistant" THEN "model" ELSE "user"
  <2> DEFINE role == IF ms[i].role = "assistant" THEN "model" ELSE "user"
             content == Content(ms, ms[i])
  <2>1. request[i] = [role |-> role, content |-> content]  BY <1>8
  <2> HIDE DEF role, content
  <2>2. request[i].role = role /\ request[i].content = content  BY <2>1
  <2> QED BY <2>2 DEF role, content
<1>10. \A i \in 1..n : request[i].role = IF ms[i].role = "assistant" THEN "model" ELSE "user"
  BY <1>9
<1>11. ASSUME NEW i \in 1..n
       PROVE  /\ request[i].role = IF i % 2 = 1 THEN "user" ELSE "model"
              /\ request[i].content # <<>>
              /\ \A j \in DOMAIN request[i].content : request[i].content[j] # Text("")
  <2>1. CASE i % 2 = 0  
    <3>1. request[i].role = "model"  BY <1>4, <1>10, <2>1
    <3>2. i % 2 # 1  BY <2>1
    <3>3. request[i].role = IF i % 2 = 1 THEN "user" ELSE "model"  BY <3>1, <3>2, Zenon
    <3> QED BY <1>4, <1>9, <2>1, <3>3, ContentEmpty
  <2>2. CASE i % 2 # 0
    <3>1. i % 2 = 1  BY <1>2, <2>2
    <3>2. ms[i].role = "user"  BY <1>3, <2>2
    <3>3. request[i].role = "user"  BY <1>10, <3>2
    <3>4. request[i].role = IF i % 2 = 1 THEN "user" ELSE "model"  BY <3>1, <3>3, Zenon
    <3> QED BY <1>3, <1>9, <2>2, <3>4, ContentEmpty
  <2> QED BY <2>1, <2>2
<1>12. ASSUME NEW i \in 1..n - 1, i % 2 = 0
       PROVE  Field(request[i].content, "function_call", "name")
                = Field(request[i + 1].content, "function_response", "name")
  <2>1. i \in 1..n /\ i + 1 \in 1..n /\ (i + 1) % 2 # 0 /\ i + 1 # 1 /\ (i + 1) - 1 = i
    BY <1>1, <1>12, NextOfEven
  <2>2. Field(Content(ms, ms[i + 1]), "function_response", "name")
          = Field(ms[i].blocks, "tool_use", "name")
    BY <2>1, UserContent
  <2> QED BY <1>4, <1>9, <1>12, <2>1, <2>2
<1>13. TurnsAlternate(request, "model")  BY <1>7, <1>11 DEF TurnsAlternate
<1>14. CallsAnswered(request, "function_call", "function_response", "name")
  BY <1>7, <1>12 DEF CallsAnswered
<1> QED BY <1>13, <1>14 DEF GeminiAccepts, request

-----------------------------------------------------------------------------
(* The responses, as turns of a conversation.                              *)

GivenBlock == [kind : {"text", "tool_use", "thinking"}, id : {NoId}, name : STRING]
Numbered(content, k) ==
    [j \in DOMAIN content |->
        IF content[j].kind = "tool_use"
        THEN [content[j] EXCEPT !.id = <<"toolu", k, j>>] ELSE content[j]]

LEMMA PickedType ==
  ASSUME NEW S, NEW s \in Seq(S), NEW P \in SUBSET (DOMAIN s)
  PROVE  /\ Picked(s, P) \in Seq(S)
         /\ \A x \in DOMAIN Picked(s, P) : \E j \in P : Picked(s, P)[x] = s[j]
<1>1. Len(s) \in Nat /\ DOMAIN s = 1..Len(s) /\ \A j \in DOMAIN s : s[j] \in S  OBVIOUS
<1>2. P \in SUBSET (1..Len(s))  BY <1>1
<1> DEFINE c == Cardinality(P)
           p == Picked(s, P)
<1>3. c \in Nat /\ Lists(Place(P), c, P)  BY <1>1, <1>2, PlaceLists
<1>4. p = [k \in 1..c |-> s[Place(P)[k]]]  BY PickedPlaces
<1>5. \A k \in 1..c : Place(P)[k] \in P  BY <1>3 DEF Lists
<1>6. p \in [1..c -> S]
  <2> HIDE DEF c, p
  <2> QED BY <1>1, <1>4, <1>5
<1> HIDE DEF c, p
<1>7. p \in Seq(S)  BY <1>3, <1>6
<1>8. \A x \in DOMAIN p : \E j \in P : p[x] = s[j]  BY <1>4, <1>5
<1> QED BY <1>7, <1>8 DEF p

LEMMA Types ==
  /\ NoId \in Id /\ GivenBlock \subseteq BlockSet
  /\ Text("query") \in BlockSet /\ Text("declined") \in BlockSet
  /\ \A name \in STRING : NameId(name) \in Id /\ Block("tool_use", NameId(name), name) \in BlockSet
  /\ \A id \in Id : Block("tool_result", id, "") \in BlockSet
  /\ \A k \in Nat, j \in Nat : <<"toolu", k, j>> \in Id
<1>1. NoId \in Id  BY DEF NoId, Id
<1>2. GivenBlock \subseteq BlockSet  BY <1>1 DEF GivenBlock, BlockSet, Kind
<1>3. Text("query") \in BlockSet /\ Text("declined") \in BlockSet
  BY <1>1 DEF Text, Block, BlockSet, Kind
<1>4. \A name \in STRING : NameId(name) \in Id  BY DEF NameId, Id
<1>5. \A name \in STRING : Block("tool_use", NameId(name), name) \in BlockSet
  BY <1>4 DEF Block, BlockSet, Kind
<1>6. \A id \in Id : Block("tool_result", id, "") \in BlockSet  BY DEF Block, BlockSet, Kind
<1>7. \A k \in Nat, j \in Nat : <<"toolu", k, j>> \in Id  BY DEF Id
<1> QED BY <1>1, <1>2, <1>3, <1>4, <1>5, <1>6, <1>7

LEMMA SeqFacts ==
  ASSUME NEW S, NEW s \in Seq(S)
  PROVE  /\ Len(s) \in Nat /\ DOMAIN s = 1..Len(s)
         /\ \A j \in DOMAIN s : s[j] \in S
  OBVIOUS

LEMMA IsSeq == ASSUME NEW S, NEW n \in Nat, NEW s \in [1..n -> S] PROVE s \in Seq(S)
  OBVIOUS

\* What Claude may return as content.
Given(content) ==
    content \in Seq(GivenBlock) /\ \A j \in DOMAIN content : content[j] # Text("")

LEMMA NumberedFacts ==
  ASSUME NEW content, NEW k \in Nat, Given(content)
  PROVE  LET raw == Numbered(content, k)
         IN  /\ raw \in Seq(BlockSet)
             /\ \A j \in DOMAIN raw : raw[j] # Text("") /\ raw[j].kind # "tool_result"
             /\ \A j \in DOMAIN raw : raw[j].kind = "tool_use" => raw[j].id = <<"toolu", k, j>>
<1> DEFINE raw == Numbered(content, k)
           n == Len(content)
<1>1. n \in Nat /\ DOMAIN content = 1..n /\ \A j \in 1..n : content[j] \in GivenBlock
  <2>1. content \in Seq(GivenBlock)  BY DEF Given
  <2> QED BY <2>1, SeqFacts
<1>2. DOMAIN raw = 1..n  BY <1>1 DEF Numbered
<1>3. ASSUME NEW j \in 1..n
      PROVE  /\ raw[j] \in BlockSet /\ raw[j] # Text("") /\ raw[j].kind # "tool_result"
             /\ raw[j].kind = "tool_use" => raw[j].id = <<"toolu", k, j>>
  <2> DEFINE b == content[j]
             id == <<"toolu", k, j>>
  <2>1. b \in GivenBlock /\ b # Text("")  BY <1>1 DEF Given
  <2>2. id \in Id
    <3>1. j \in Nat  BY <1>1
    <3> QED BY <3>1 DEF Id
  <2>3. CASE b.kind = "tool_use"
    <3>1. raw[j] = [b EXCEPT !.id = id]  BY <1>1, <2>3 DEF Numbered
    <3> HIDE DEF b, raw, id
    <3>2. b \in BlockSet  BY <2>1, Types
    <3>3. raw[j] \in BlockSet  BY <2>2, <3>1, <3>2 DEF BlockSet
    <3>4. raw[j].kind = "tool_use" /\ raw[j].id = id  BY <2>3, <3>1, <3>2 DEF BlockSet
    <3>5. raw[j] # Text("")  BY <3>4, TextFields
    <3> QED BY <3>3, <3>4, <3>5 DEF id
  <2>4. CASE b.kind # "tool_use"
    <3>1. raw[j] = b  BY <1>1, <2>4 DEF Numbered
    <3>2. b \in BlockSet  BY <2>1, Types
    <3>3. b.kind \in {"text", "tool_use", "thinking"}  BY <2>1 DEF GivenBlock
    <3> HIDE DEF b, raw, id
    <3> QED BY <2>1, <2>4, <3>1, <3>2, <3>3
  <2> QED BY <2>3, <2>4
<1>4. raw \in [1..n -> BlockSet]
  <2>1. raw = [j \in 1..n |-> raw[j]]  BY <1>1 DEF Numbered
  <2> HIDE DEF raw, n
  <2> QED BY <1>3, <2>1
<1> HIDE DEF raw, n
<1>5. raw \in Seq(BlockSet)
  <2>1. n \in Nat  BY <1>1
  <2> QED BY <1>4, <2>1, IsSeq
<1> QED BY <1>2, <1>3, <1>5 DEF raw

LEMMA ClaudeTurns ==
  ASSUME NEW a \in Responses, a.label = "anthropic", NEW k \in Nat
  PROVE  LET m == FromAnthropic([a EXCEPT !.content = Numbered(@, k)])
         IN  m \in Turn /\ ClaudeTurn(m, k)
<1> DEFINE raw == Numbered(a.content, k)
           b == [a EXCEPT !.content = Numbered(@, k)]
           m == FromAnthropic(b)
           read == {j \in DOMAIN raw : raw[j].kind \in {"text", "tool_use"}}
<1>1. Given(a.content)  BY ResponsesAssumption DEF GivenBlock, Given
<1>2. b.content = raw /\ b.refused = a.refused
  BY ResponsesAssumption
<1>3. /\ raw \in Seq(BlockSet)
      /\ \A j \in DOMAIN raw : raw[j] # Text("") /\ raw[j].kind # "tool_result"
      /\ \A j \in DOMAIN raw : raw[j].kind = "tool_use" => raw[j].id = <<"toolu", k, j>>
  <2> HIDE DEF raw
  <2> QED BY <1>1, NumberedFacts DEF raw
<1> HIDE DEF raw, b
<1>4. CASE a.refused
  <2> DEFINE blocks == <<Text("declined")>>
  <2>1. m = NativeMessage(blocks, raw)  BY <1>2, <1>4 DEF FromAnthropic
  <2>2. /\ m.role = "assistant" /\ m.blocks = blocks /\ m.raw = raw /\ m.replay = TRUE
        /\ m = [role |-> "assistant", blocks |-> blocks, raw |-> raw, replay |-> TRUE]
    BY <2>1 DEF NativeMessage
  <2>3. blocks \in Seq(BlockSet)
    <3> DEFINE d == Text("declined")
    <3>1. d \in BlockSet  BY Types
    <3> HIDE DEF d
    <3>2. <<d>> \in Seq(BlockSet)  BY <3>1
    <3> QED BY <3>2 DEF d
  <2>4. ToolUses(m) = <<>>
    <3>1. DOMAIN m.blocks = 1..1 /\ \A j \in 1..1 : m.blocks[j] = Text("declined")  BY <2>2
    <3>2. \A j \in 1..1 : m.blocks[j].kind # "tool_use"  BY <3>1, TextFields
    <3> HIDE DEF m
    <3> QED BY <3>1, <3>2, OfKindFacts DEF ToolUses
  <2> HIDE DEF m, blocks
  <2>5. m \in Turn  BY <1>3, <2>2, <2>3 DEF Turn
  <2>6. ClaudeTurn(m, k)  BY <1>3, <2>2, <2>4 DEF ClaudeTurn
  <2> QED BY <2>5, <2>6 DEF m, b
<1>5. CASE ~a.refused
  <2> DEFINE blocks == Picked(raw, read)
  <2>1. m = NativeMessage(blocks, raw)  BY <1>2, <1>5 DEF FromAnthropic
  <2>2. /\ m.role = "assistant" /\ m.blocks = blocks /\ m.raw = raw /\ m.replay = TRUE
        /\ m = [role |-> "assistant", blocks |-> blocks, raw |-> raw, replay |-> TRUE]
    BY <2>1 DEF NativeMessage
  <2>3. blocks \in Seq(BlockSet)  BY <1>3, PickedType
  <2>4. blocks = Picked(m.raw, Kept(m))  BY <2>2 DEF Kept
  <2> HIDE DEF m, blocks
  <2>5. m \in Turn  BY <1>3, <2>2, <2>3 DEF Turn
  <2>6. ClaudeTurn(m, k)  BY <1>3, <2>2, <2>4 DEF ClaudeTurn
  <2> QED BY <2>5, <2>6 DEF m, b
<1> QED BY <1>4, <1>5

LEMMA GeminiTurns ==
  ASSUME NEW a \in Responses, a.label # "anthropic"
  PROVE  FromGemini(a) \in Turn /\ GeminiTurn(FromGemini(a))
<1> DEFINE content == a.content
           places == {j \in DOMAIN content : content[j].kind = "tool_use" \/ content[j].name # ""}
           read == Picked(content, places)
           blocks == [j \in DOMAIN read |->
                        IF read[j].kind = "tool_use"
                        THEN Block("tool_use", NameId(read[j].name), read[j].name) ELSE read[j]]
           m == FromGemini(a)
<1>1. content \in Seq(GivenBlock) /\ \A j \in DOMAIN content : content[j].kind # "thinking"
  BY ResponsesAssumption DEF GivenBlock
<1>2. /\ m.role = "assistant" /\ m.blocks = blocks /\ m.raw = <<>> /\ m.replay = FALSE
      /\ m = [role |-> "assistant", blocks |-> blocks, raw |-> <<>>, replay |-> FALSE]
  BY DEF FromGemini, Message
<1>3. /\ read \in Seq(GivenBlock)
      /\ \A x \in DOMAIN read : \E j \in places : read[x] = content[j]
  <2>1. places \in SUBSET (DOMAIN content)  OBVIOUS
  <2>2. content \in Seq(GivenBlock)  BY <1>1
  <2> HIDE DEF content, places
  <2> QED BY <2>1, <2>2, PickedType
<1>4. \A j \in places : /\ content[j] \in GivenBlock /\ content[j].kind \in {"text", "tool_use"}
                        /\ content[j].kind = "tool_use" \/ content[j].name # ""
  <2> HIDE DEF content
  <2>1. \A j \in DOMAIN content : content[j] \in GivenBlock  BY <1>1
  <2> QED BY <1>1, <2>1 DEF GivenBlock
<1> HIDE DEF places, read, content
<1>5. \A x \in DOMAIN read : /\ read[x] \in GivenBlock /\ read[x].kind \in {"text", "tool_use"}
                             /\ read[x].kind = "tool_use" \/ read[x].name # ""
  BY <1>3, <1>4
<1>6. ASSUME NEW x \in DOMAIN read
      PROVE  /\ blocks[x] \in BlockSet /\ blocks[x] # Text("")
             /\ blocks[x].kind \in {"text", "tool_use"}
             /\ blocks[x].kind = "tool_use" => blocks[x].id = NameId(blocks[x].name)
  <2>1. CASE read[x].kind = "tool_use"
    <3> DEFINE name == read[x].name
               b == blocks[x]
    <3>1. b = Block("tool_use", NameId(name), name)  BY <2>1
    <3>2. name \in STRING  BY <1>5 DEF GivenBlock
    <3> HIDE DEF name, b
    <3>3. b \in BlockSet  BY <3>1, <3>2, Types
    <3>4. b.kind = "tool_use" /\ b.id = NameId(name) /\ b.name = name  BY <3>1 DEF Block
    <3>5. b # Text("")  BY <3>4, TextFields
    <3>6. b.id = NameId(b.name)  BY <3>4
    <3> QED BY <3>3, <3>4, <3>5, <3>6 DEF b
  <2>2. CASE read[x].kind # "tool_use"
    <3>1. blocks[x] = read[x]  BY <2>2
    <3> HIDE DEF blocks
    <3>2. read[x].kind = "text" /\ read[x].name # ""  BY <1>5, <2>2
    <3>3. read[x] # Text("")  BY <3>2, TextFields
    <3>4. read[x] \in BlockSet  BY <1>5, Types
    <3> QED BY <3>1, <3>2, <3>3, <3>4
  <2> QED BY <2>1, <2>2
<1>7. DOMAIN blocks = DOMAIN read /\ blocks = [j \in DOMAIN read |-> blocks[j]]  OBVIOUS
<1> HIDE DEF blocks, m
<1>8. blocks \in Seq(BlockSet)
  <2>1. Len(read) \in Nat /\ DOMAIN read = 1..Len(read)  BY <1>3
  <2>2. blocks \in [1..Len(read) -> BlockSet]  BY <1>6, <1>7, <2>1
  <2> QED BY <2>1, <2>2
<1>9. m \in Turn
  <2>1. <<>> \in Seq(BlockSet)  OBVIOUS
  <2> QED BY <1>2, <1>8, <2>1 DEF Turn
<1>10. GeminiTurn(m)  BY <1>2, <1>6, <1>7 DEF GeminiTurn
<1> QED BY <1>9, <1>10 DEF m

-----------------------------------------------------------------------------
(* The conversations of the runs.                                          *)

\* A conversation that waits for a model, for tools, or holds an answer.
WellFormed(r) ==
    /\ phase[r] \in {"routing", "returned"} =>
         Conversation(messages[r]) /\ Len(messages[r]) % 2 = 1
    /\ phase[r] = "executing" =>
         Conversation(messages[r]) /\ Len(messages[r]) % 2 = 0 /\ messages[r] # <<>>
    /\ phase[r] = "returned" => AssistantTurn(result[r].message, Len(messages[r]))

ConversationInv ==
    /\ messages \in [Runs -> Seq(Turn)] /\ DOMAIN result = Runs /\ DOMAIN phase = Runs
    /\ \A r \in Runs : result[r].message \in Turn /\ WellFormed(r)

LEMMA ConversationStarts ==
  LET ms == <<Message("user", <<Text("query")>>)>>
  IN  ms \in Seq(Turn) /\ Conversation(ms) /\ Len(ms) = 1
<1> DEFINE t == Message("user", <<Text("query")>>)
           ms == <<t>>
           q == Text("query")
<1>1. t \in Turn
  <2>1. q \in BlockSet  BY Types
  <2> HIDE DEF q
  <2>2. <<q>> \in Seq(BlockSet) /\ <<>> \in Seq(BlockSet)  BY <2>1
  <2>3. t = [role |-> "user", blocks |-> <<q>>, raw |-> <<>>, replay |-> FALSE]  BY DEF Message, q
  <2> HIDE DEF t
  <2> QED BY <2>2, <2>3 DEF Turn
<1>2. UserTurn(ms, 1) = t  BY DEF UserTurn
<1> HIDE DEF t
<1>3. ms \in Seq(Turn) /\ Len(ms) = 1 /\ DOMAIN ms = {1} /\ ms[1] = t  BY <1>1
<1>4. 1 % 2 # 0  OBVIOUS
<1>5. Conversation(ms)
  <2> HIDE DEF ms
  <2> QED BY <1>2, <1>3, <1>4 DEF Conversation, ms
<1> QED BY <1>3, <1>5 DEF t

\* A conversation goes on with a turn that calls tools.
LEMMA AssistantSpeaks ==
  ASSUME NEW ms \in Seq(Turn), Conversation(ms), Len(ms) % 2 = 1, NEW m \in Turn,
         AssistantTurn(m, Len(ms)), ToolUses(m) # <<>>
  PROVE  LET next == Append(ms, m)
         IN  Conversation(next) /\ Len(next) % 2 = 0 /\ next # <<>>
<1> DEFINE n == Len(ms)
           next == Append(ms, m)
<1>1. n \in Nat /\ DOMAIN ms = 1..n  BY TurnTypes
<1>2. /\ Len(next) = n + 1 /\ DOMAIN next = 1..(n + 1) /\ next[n + 1] = m
      /\ \A i \in 1..n : next[i] = ms[i]
  OBVIOUS
<1> HIDE DEF next
<1>3. (n + 1) % 2 = 0 /\ n + 1 # 1 /\ (n + 1) - 1 = n  BY <1>1
<1>4. ASSUME NEW i \in 1..n
      PROVE  IF i % 2 = 0 THEN AssistantTurn(next[i], i - 1) /\ ToolUses(next[i]) # <<>>
             ELSE next[i] = UserTurn(next, i)
  <2>1. CASE i % 2 = 0  BY <1>1, <1>2, <2>1 DEF Conversation
  <2>2. CASE i % 2 # 0
    <3>1. ms[i] = UserTurn(ms, i) /\ (i # 1 => i - 1 \in 1..n)  BY <2>2, OddTurn
    <3>2. UserTurn(next, i) = UserTurn(ms, i)  BY <1>2, <3>1 DEF UserTurn
    <3> QED BY <1>2, <2>2, <3>1, <3>2
  <2> QED BY <2>1, <2>2
<1>5. \A i \in 1..(n + 1) : i \in 1..n \/ i = n + 1  BY <1>1
<1>6. AssistantTurn(next[n + 1], (n + 1) - 1) /\ ToolUses(next[n + 1]) # <<>>  BY <1>2, <1>3
<1>7. Conversation(next)  BY <1>2, <1>3, <1>4, <1>5, <1>6 DEF Conversation
<1>8. next # <<>>  BY <1>1, <1>2
<1> QED BY <1>2, <1>3, <1>7, <1>8 DEF next

\* And with the answers to it.
LEMMA UserAnswers ==
  ASSUME NEW ms \in Seq(Turn), Conversation(ms), Len(ms) % 2 = 0, ms # <<>>
  PROVE  LET t == Message("user", Results(ToolUses(Last(ms))))
             next == Append(ms, t)
         IN  next \in Seq(Turn) /\ Conversation(next) /\ Len(next) % 2 = 1
<1> DEFINE n == Len(ms)
           m == ms[n]
           uses == ToolUses(m)
           t == Message("user", Results(uses))
           next == Append(ms, t)
<1>1. n \in Nat \ {0} /\ DOMAIN ms = 1..n /\ Last(ms) = m  BY TurnTypes DEF Last
<1>2. m \in Turn /\ n % 2 = 0 /\ n \in 1..n  BY <1>1, TurnTypes
<1>3. t \in Turn
  <2>1. PICK l \in Nat : DOMAIN m.blocks = 1..l  BY <1>2, BlocksOfTurn
  <2>2. PICK c \in Nat : DOMAIN uses = 1..c  BY <2>1, OfKindFacts DEF ToolUses
  <2>3. \A x \in 1..c : \E j \in 1..l : uses[x] = m.blocks[j]
    BY <2>1, <2>2, OfKindFacts DEF ToolUses
  <2>4. \A x \in 1..c : uses[x] \in BlockSet  BY <1>2, <2>1, <2>3, BlocksOfTurn
  <2> HIDE DEF uses
  <2>5. \A x \in 1..c : uses[x].id \in Id  BY <2>4 DEF BlockSet
  <2>6. \A x \in 1..c : Block("tool_result", uses[x].id, "") \in BlockSet  BY <2>5, Types
  <2>7. Results(uses) \in [1..c -> BlockSet]  BY <2>2, <2>6 DEF Results
  <2>8. Results(uses) \in Seq(BlockSet) /\ <<>> \in Seq(BlockSet)  BY <2>7, IsSeq
  <2>9. t = [role |-> "user", blocks |-> Results(uses), raw |-> <<>>, replay |-> FALSE]
    BY DEF Message
  <2> HIDE DEF t
  <2> QED BY <2>8, <2>9 DEF Turn
<1> HIDE DEF m, uses, t
<1>4. /\ next \in Seq(Turn)
      /\ Len(next) = n + 1 /\ DOMAIN next = 1..(n + 1) /\ next[n + 1] = t
      /\ \A i \in 1..n : next[i] = ms[i]
  BY <1>3
<1> HIDE DEF next
<1>5. (n + 1) % 2 = 1 /\ n + 1 # 1 /\ (n + 1) - 1 = n  BY <1>1, <1>2
<1>6. ASSUME NEW i \in 1..n
      PROVE  IF i % 2 = 0 THEN AssistantTurn(next[i], i - 1) /\ ToolUses(next[i]) # <<>>
             ELSE next[i] = UserTurn(next, i)
  <2>1. CASE i % 2 = 0  BY <1>1, <1>4, <2>1 DEF Conversation
  <2>2. CASE i % 2 # 0
    <3>1. ms[i] = UserTurn(ms, i) /\ (i # 1 => i - 1 \in 1..n)  BY <2>2, OddTurn
    <3>2. UserTurn(next, i) = UserTurn(ms, i)  BY <1>4, <3>1 DEF UserTurn
    <3> QED BY <1>4, <2>2, <3>1, <3>2
  <2> QED BY <2>1, <2>2
<1>7. next[n + 1] = UserTurn(next, n + 1)
  <2>1. next[(n + 1) - 1] = m  BY <1>2, <1>4, <1>5 DEF m
  <2>2. UserTurn(next, n + 1) = t  BY <1>5, <2>1 DEF UserTurn, t, uses
  <2> QED BY <1>4, <2>2
<1>8. \A i \in 1..(n + 1) : i \in 1..n \/ i = n + 1  BY <1>1
<1>9. Conversation(next)  BY <1>4, <1>5, <1>6, <1>7, <1>8 DEF Conversation
<1> QED BY <1>1, <1>4, <1>5, <1>9 DEF next, t, uses

LEMMA InitConversation == Init => ConversationInv
<1> SUFFICES ASSUME Init PROVE ConversationInv  OBVIOUS
<1> DEFINE ms == <<Message("user", <<Text("query")>>)>>
           empty == Message("assistant", <<>>)
<1>1. ms \in Seq(Turn) /\ Conversation(ms) /\ Len(ms) = 1  BY ConversationStarts
<1>2. empty \in Turn
  <2>1. empty = [role |-> "assistant", blocks |-> <<>>, raw |-> <<>>, replay |-> FALSE]
    BY DEF Message
  <2>2. <<>> \in Seq(BlockSet)  OBVIOUS
  <2> HIDE DEF empty
  <2> QED BY <2>1, <2>2 DEF Turn
<1>3. /\ messages = [r \in Runs |-> ms] /\ phase = [r \in Runs |-> "routing"]
      /\ DOMAIN result = Runs /\ \A r \in Runs : result[r].message = empty
  BY DEF Init
<1> HIDE DEF ms, empty
<1>4. Len(ms) % 2 = 1  BY <1>1
<1>5. \A r \in Runs : phase[r] = "routing" /\ messages[r] = ms  BY <1>3
<1>6. \A r \in Runs : WellFormed(r)  BY <1>1, <1>4, <1>5 DEF WellFormed
<1> QED BY <1>1, <1>2, <1>3, <1>6 DEF ConversationInv

\* The runs a step does not serve.
LEMMA OthersWellFormed ==
  ASSUME NEW q \in Runs, WellFormed(q), messages'[q] = messages[q],
         phase'[q] = phase[q], result'[q] = result[q]
  PROVE  WellFormed(q)'
  BY DEF WellFormed

LEMMA StepConversation == ConversationInv /\ [Next]_vars => ConversationInv'
<1> SUFFICES ASSUME ConversationInv, [Next]_vars PROVE ConversationInv'  OBVIOUS
<1> USE DEF ConversationInv
<1>1. CASE UNCHANGED vars  BY <1>1 DEF vars, WellFormed
<1>2. ASSUME NEW r \in Runs, Serve(r) PROVE ConversationInv'
  <2>1. /\ phase[r] = "routing" /\ messages' = messages
        /\ phase' = [phase EXCEPT ![r] = "returned"]
    BY <1>2 DEF Serve
  <2>2. PICK a \in Responses :
          result' = [result EXCEPT ![r] =
            [message |-> Normalized(a, r), model |-> a.model, usage |-> a.usage]]
    BY <1>2 DEF Serve
  <2> DEFINE m == Normalized(a, r)
             k == Len(messages[r])
  <2>3. k \in Nat  BY SeqFacts
  <2>4. m \in Turn /\ AssistantTurn(m, k)
    <3>1. CASE a.label = "anthropic"
      <4>1. WithIds(a.content, r) = Numbered(a.content, k)  BY DEF WithIds, Numbered
      <4>2. m = FromAnthropic([a EXCEPT !.content = Numbered(@, k)])
        BY <3>1, <4>1 DEF Normalized
      <4> HIDE DEF k, m
      <4> QED BY <2>3, <3>1, <4>2, ClaudeTurns DEF AssistantTurn
    <3>2. CASE a.label # "anthropic"
      <4>1. m = FromGemini(a)  BY <3>2 DEF Normalized
      <4> HIDE DEF m
      <4> QED BY <3>2, <4>1, GeminiTurns DEF AssistantTurn
    <3> QED BY <3>1, <3>2
  <2> HIDE DEF m
  <2>5. /\ result'[r].message = m /\ phase'[r] = "returned" /\ DOMAIN result' = Runs
        /\ DOMAIN phase' = Runs
        /\ \A q \in Runs \ {r} : phase'[q] = phase[q] /\ result'[q] = result[q]
    BY <2>1, <2>2 DEF m
  <2>6. WellFormed(r)'  BY <2>1, <2>4, <2>5 DEF WellFormed
  <2>7. \A q \in Runs \ {r} : WellFormed(q)'  BY <2>1, <2>5, OthersWellFormed
  <2> QED BY <2>1, <2>4, <2>5, <2>6, <2>7
<1>3. ASSUME NEW r \in Runs, FailOver(r) PROVE ConversationInv'
  <2>1. /\ phase[r] = "routing" /\ UNCHANGED <<messages, result>> /\ DOMAIN phase' = Runs
        /\ phase'[r] \in {"routing", "raised"}
        /\ \A q \in Runs \ {r} : phase'[q] = phase[q]
    BY <1>3 DEF FailOver
  <2>2. WellFormed(r)'  BY <2>1 DEF WellFormed
  <2>3. \A q \in Runs \ {r} : WellFormed(q)'  BY <2>1, OthersWellFormed
  <2> QED BY <2>1, <2>2, <2>3
<1>4. ASSUME NEW r \in Runs, Fold(r) PROVE ConversationInv'
  <2> DEFINE m == result[r].message
             ms == messages[r]
             next == Append(ms, m)
  <2>1. /\ phase[r] = "returned" /\ result' = result
        /\ messages' = [messages EXCEPT ![r] = next]
        /\ DOMAIN phase' = Runs /\ phase'[r] \in {"executing", "over"}
        /\ \A q \in Runs \ {r} : phase'[q] = phase[q]
    BY <1>4 DEF Fold
  <2>2. phase'[r] = "executing" => ToolUses(m) # <<>>  BY <1>4 DEF Fold
  <2>3. ms \in Seq(Turn) /\ m \in Turn  OBVIOUS
  <2>4. Conversation(ms) /\ Len(ms) % 2 = 1 /\ AssistantTurn(m, Len(ms))
    BY <2>1 DEF WellFormed
  <2> HIDE DEF m, ms
  <2>5. next \in Seq(Turn)  BY <2>3
  <2>6. phase'[r] = "executing" => Conversation(next) /\ Len(next) % 2 = 0 /\ next # <<>>
    BY <2>2, <2>3, <2>4, AssistantSpeaks
  <2> HIDE DEF next
  <2>7. /\ messages' \in [Runs -> Seq(Turn)] /\ messages'[r] = next
        /\ \A q \in Runs \ {r} : messages'[q] = messages[q]
    BY <2>1, <2>5
  <2>8. WellFormed(r)'  BY <2>1, <2>6, <2>7 DEF WellFormed
  <2>9. \A q \in Runs \ {r} : WellFormed(q)'  BY <2>1, <2>7, OthersWellFormed
  <2> QED BY <2>1, <2>7, <2>8, <2>9
<1>5. ASSUME NEW r \in Runs, Execute(r) PROVE ConversationInv'
  <2> DEFINE ms == messages[r]
             t == Message("user", Results(ToolUses(Last(ms))))
             next == Append(ms, t)
  <2>1. /\ phase[r] = "executing" /\ result' = result
        /\ messages' = [messages EXCEPT ![r] = next]
        /\ phase' = [phase EXCEPT ![r] = "routing"]
    BY <1>5 DEF Execute, Results
  <2>2. ms \in Seq(Turn) /\ Conversation(ms) /\ Len(ms) % 2 = 0 /\ ms # <<>>
    BY <2>1 DEF WellFormed
  <2>3. next \in Seq(Turn) /\ Conversation(next) /\ Len(next) % 2 = 1
    <3> HIDE DEF ms
    <3> QED BY <2>2, UserAnswers
  <2> HIDE DEF next
  <2>4. /\ messages' \in [Runs -> Seq(Turn)] /\ messages'[r] = next
        /\ DOMAIN phase' = Runs /\ phase'[r] = "routing"
        /\ \A q \in Runs \ {r} : messages'[q] = messages[q] /\ phase'[q] = phase[q]
    BY <2>1, <2>3
  <2>5. WellFormed(r)'  BY <2>3, <2>4 DEF WellFormed
  <2>6. \A q \in Runs \ {r} : WellFormed(q)'  BY <2>1, <2>4, OthersWellFormed
  <2> QED BY <2>1, <2>4, <2>5, <2>6
<1> QED BY <1>1, <1>2, <1>3, <1>4, <1>5 DEF Next, Over

\* After any mixture of vendors the request pairs every call with its answer, Gemini
\* accepts it, and Claude does so exactly if Gemini did not call a function twice.
THEOREM RequestsAlwaysValid == Spec => []RequestsValid
<1>1. ASSUME ConversationInv, NEW r \in Runs, phase[r] = "routing"
      PROVE  /\ GeminiAccepts(ToGemini(messages[r]))
             /\ AnthropicPairs(ToAnthropic(messages[r]))
             /\ AnthropicAccepts(ToAnthropic(messages[r])) <=> ~FunctionCalledTwice(messages[r])
             /\ \A i \in DOMAIN ToAnthropic(messages[r]) :
                  messages[r][i].replay => ToAnthropic(messages[r])[i].content = messages[r][i].raw
  <2> DEFINE ms == messages[r]
  <2>1. ms \in Seq(Turn) /\ Conversation(ms) /\ Len(ms) % 2 = 1
    BY <1>1 DEF ConversationInv, WellFormed
  <2> HIDE DEF ms
  <2>2. /\ GeminiAccepts(ToGemini(ms)) /\ AnthropicPairs(ToAnthropic(ms))
        /\ IdsUnique(ToAnthropic(ms)) <=> ~FunctionCalledTwice(ms)
        /\ \A i \in DOMAIN ToAnthropic(ms) :
             ms[i].replay => ToAnthropic(ms)[i].content = ms[i].raw
    BY <2>1, GeminiTakes, AnthropicTakes
  <2> QED BY <2>2 DEF ms, AnthropicAccepts
<1>2. ConversationInv => RequestsValid  BY <1>1 DEF RequestsValid
<1> QED BY <1>2, InitConversation, StepConversation, PTL DEF Spec
=============================================================================
