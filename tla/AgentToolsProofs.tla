-------------------------- MODULE AgentToolsProofs --------------------------
(***************************************************************************)
(* Skills are whole and keep their history, upstreams are registered as a  *)
(* dict would, and a call is answered by the tool's owner: for any number  *)
(* of skills and callers and any names of upstreams and tools.             *)
(***************************************************************************)
EXTENDS AgentTools, FiniteSetTheorems, SequenceTheorems, TLAPS

IInv == StoreTypeOK /\ SkillsAreWhole

LEMMA InitIInv == Init => IInv
<1> SUFFICES ASSUME Init PROVE IInv  OBVIOUS
<1>1. NoRow \in Row /\ NoRow.description = NoRow.code  BY DEF NoRow, Row
<1>2. <<0, 0>> \in Nat \X Nat  OBVIOUS
<1>3. StoreTypeOK  BY <1>1, <1>2 DEF Init, StoreInit, StoreTypeOK
<1>4. SkillsAreWhole  BY <1>1 DEF Init, StoreInit, SkillsAreWhole
<1> QED BY <1>3, <1>4 DEF IInv

\* The row a save writes: whole, and of the past of the row it finds.
LEMMA UpsertedFacts ==
  ASSUME IInv, NEW c \in Clients
  PROVE  /\ target[c] \in Names /\ Upserted(c) \in Row
         /\ Upserted(c).description = Upserted(c).code
         /\ Stored(target[c]) => /\ Upserted(c).created = row[target[c]].created
                                 /\ Upserted(c).uses = row[target[c]].uses
<1>1. target[c] \in Names /\ at[c] \in Nat /\ created[c] \in Nat  BY DEF IInv, StoreTypeOK
<1>2. row[target[c]] \in Row  BY <1>1 DEF IInv, StoreTypeOK
<1> QED BY <1>1, <1>2 DEF Upserted, NewRow, Row

\* A step of the store; what it does to every row.
LEMMA StoreStep ==
  ASSUME IInv, NEW c \in Clients, NEW n \in Names,
         BeginSave(c, n) \/ Get(c, n) \/ Continue(c)
  PROVE  IInv' /\ UpsertKeepsHistory
<1> USE DEF IInv
<1>1. CASE BeginSave(c, n)
  BY <1>1 DEF BeginSave, StoreTypeOK, SkillsAreWhole, UpsertKeepsHistory, Stored, Row
<1>2. CASE Get(c, n)
  <2>1. <<row[n].description, row[n].code>> \in Nat \X Nat /\ row[n].description = row[n].code
    BY DEF StoreTypeOK, Row, SkillsAreWhole
  <2>2. StoreTypeOK'  BY <1>2, <2>1 DEF Get, StoreTypeOK
  <2>3. SkillsAreWhole'  BY <1>2, <2>1 DEF Get, StoreTypeOK, SkillsAreWhole
  <2>4. UpsertKeepsHistory  BY <1>2 DEF Get, StoreTypeOK, UpsertKeepsHistory, Row
  <2> QED BY <2>2, <2>3, <2>4
<1>3. CASE SelectCreated(c)
  <2>1. row[target[c]].created \in Nat /\ at[c] \in Nat  BY DEF StoreTypeOK, Row
  <2>2. StoreTypeOK'  BY <1>3, <2>1 DEF SelectCreated, StoreTypeOK
  <2> QED BY <1>3, <2>2 DEF SelectCreated, StoreTypeOK, SkillsAreWhole, UpsertKeepsHistory, Row
<1>4. CASE Upsert(c)
  <2>1. row' = [row EXCEPT ![target[c]] = Upserted(c)] /\ row \in [Names -> Row]
    BY <1>4 DEF Upsert, StoreTypeOK
  <2>2. StoreTypeOK'  BY <1>4, <2>1, UpsertedFacts DEF Upsert, StoreTypeOK
  <2>3. SkillsAreWhole'  BY <1>4, <2>1, UpsertedFacts DEF Upsert, SkillsAreWhole
  <2>4. ASSUME NEW m \in Names, Stored(m)
        PROVE  row'[m].created = row[m].created /\ row'[m].uses >= row[m].uses
    <3>1. CASE m = target[c]  BY <2>1, <2>4, <3>1, UpsertedFacts DEF Row
    <3>2. CASE m # target[c]  BY <2>1, <3>2 DEF Row
    <3> QED BY <3>1, <3>2
  <2> QED BY <2>2, <2>3, <2>4 DEF UpsertKeepsHistory
<1>5. CASE RecordUse(c)
  <2>1. row \in [Names -> Row] /\ target[c] \in Names  BY DEF StoreTypeOK
  <2>2. CASE Stored(target[c])
    <3> DEFINE new == [row[target[c]] EXCEPT !.uses = @ + 1]
    <3>1. row' = [row EXCEPT ![target[c]] = new]  BY <1>5, <2>2 DEF RecordUse
    <3>2. /\ new \in Row /\ new.description = row[target[c]].description
          /\ new.code = row[target[c]].code /\ new.created = row[target[c]].created
          /\ new.uses >= row[target[c]].uses
      BY <2>1 DEF Row
    <3> HIDE DEF new
    <3>3. StoreTypeOK'
      <4>1. row' \in [Names -> Row]  BY <2>1, <3>1, <3>2
      <4>2. stage' \in [Clients -> {"idle", "saving", "upserting", "recording"}]
        BY <1>5 DEF RecordUse, StoreTypeOK
      <4> QED BY <1>5, <4>1, <4>2 DEF RecordUse, StoreTypeOK
    <3>4. SkillsAreWhole'  BY <1>5, <2>1, <3>1, <3>2 DEF RecordUse, SkillsAreWhole
    <3>5. UpsertKeepsHistory
      BY <2>1, <3>1, <3>2 DEF UpsertKeepsHistory, Row
    <3> QED BY <3>3, <3>4, <3>5
  <2>3. CASE ~Stored(target[c])
    BY <1>5, <2>3 DEF RecordUse, StoreTypeOK, SkillsAreWhole, UpsertKeepsHistory, Row
  <2> QED BY <2>2, <2>3
<1>6. CASE OperationFails(c)
  BY <1>6 DEF OperationFails, StoreTypeOK, SkillsAreWhole, UpsertKeepsHistory, Row
<1> QED BY <1>1, <1>2, <1>3, <1>4, <1>5, <1>6 DEF Continue

LEMMA DeleteStep == ASSUME IInv, NEW n \in Names, Delete(n) PROVE IInv' /\ UpsertKeepsHistory
<1> USE DEF IInv
<1>1. NoRow \in Row /\ NoRow.description = NoRow.code /\ NoRow.created = 0  BY DEF NoRow, Row
<1>2. StoreTypeOK'  BY <1>1 DEF Delete, StoreTypeOK, calls
<1>3. SkillsAreWhole'  BY <1>1 DEF Delete, StoreTypeOK, SkillsAreWhole
<1>4. UpsertKeepsHistory  BY <1>1 DEF Delete, StoreTypeOK, UpsertKeepsHistory, Row
<1> QED BY <1>2, <1>3, <1>4

LEMMA Step == IInv /\ [Next]_vars => IInv' /\ [UpsertKeepsHistory]_vars
<1> SUFFICES ASSUME IInv, [Next]_vars PROVE IInv' /\ [UpsertKeepsHistory]_vars  OBVIOUS
<1>1. CASE UNCHANGED store
  BY <1>1 DEF IInv, StoreTypeOK, SkillsAreWhole, UpsertKeepsHistory, store, calls, Row
<1>2. CASE UNCHANGED vars  BY <1>1, <1>2 DEF vars
<1>3. CASE Discover  BY <1>1, <1>3 DEF Discover
<1>4. CASE UseStore
  <2>1. \A c \in Clients : target[c] \in Names  BY DEF IInv, StoreTypeOK
  <2>2. CASE \E c \in Clients : Continue(c)  BY <2>1, <2>2, StoreStep
  <2>3. CASE \E c \in Clients, n \in Names : BeginSave(c, n)  BY <2>3, StoreStep
  <2>4. CASE \E n \in Names : Delete(n)  BY <2>4, DeleteStep
  <2> QED BY <1>4, <2>2, <2>3, <2>4 DEF UseStore
<1>5. ASSUME NEW c \in Clients, NEW tool, CallTool(c, tool) PROVE IInv' /\ [UpsertKeepsHistory]_vars
  BY <1>1, <1>5, StoreStep DEF CallTool
<1> QED BY <1>2, <1>3, <1>4, <1>5 DEF Next

THEOREM Inductive == Spec => []IInv
<1> QED BY InitIInv, Step, PTL DEF Spec

-----------------------------------------------------------------------------
(* The theorems. *)

\* Rows and the callers' local values keep their types.
THEOREM StoreTypeCorrect == Spec => []StoreTypeOK
<1>1. IInv => StoreTypeOK  BY DEF IInv
<1> QED BY <1>1, Inductive, PTL

\* No stored or loaded skill mixes the description of one save with the code of
\* another, however many save it at once.
THEOREM AlwaysWhole == Spec => []SkillsAreWhole
<1>1. IInv => SkillsAreWhole  BY DEF IInv
<1> QED BY <1>1, Inductive, PTL

\* No step changes the created_at of a living skill or lowers its use count.
THEOREM HistoryAlwaysKept == Spec => HistoryKept
<1> QED BY Step, Inductive, PTL DEF Spec, HistoryKept

-----------------------------------------------------------------------------
(* Registration.  Upstreams registered under one name are one upstream: the  *)
(* position is that of the first registration, the tools are of the last.    *)

\* The rank of an index in a set of indices is its own.
LEMMA RanksDiffer ==
  ASSUME NEW n \in Nat, NEW S \in SUBSET (1..n), NEW i \in S, NEW k \in S,
         Cardinality({j \in S : j <= i}) = Cardinality({j \in S : j <= k})
  PROVE  i = k
<1> DEFINE upTo(m) == {j \in S : j <= m}
<1>1. \A m \in S : m \in 1..n /\ IsFiniteSet(upTo(m))
  <2>1. IsFiniteSet(1..n)  BY FS_Interval
  <2>2. IsFiniteSet(S)  BY <2>1, FS_Subset
  <2> QED BY <2>2, FS_Subset
<1>2. ASSUME NEW a \in S, NEW b \in S, a < b, Cardinality(upTo(a)) = Cardinality(upTo(b))
      PROVE  FALSE
  <2>1. a \in 1..n /\ b \in 1..n /\ \A j \in S : j \in Int  BY <1>1
  <2>2. \A j \in S : j <= a => j <= b  BY <1>2, <2>1
  <2>3. b <= b /\ ~(b <= a)  BY <1>2, <2>1
  <2>4. upTo(a) \in SUBSET upTo(b) /\ b \in upTo(b) /\ b \notin upTo(a)  BY <2>2, <2>3
  <2> HIDE DEF upTo
  <2>5. upTo(a) = upTo(b)  BY <1>1, <1>2, <2>4, FS_Subset
  <2> QED BY <2>4, <2>5
<1>3. ~(i < k) /\ ~(k < i)  BY <1>2
<1> QED BY <1>1, <1>3

LEMMA RanksGrow ==
  ASSUME NEW n \in Nat, NEW S \in SUBSET (1..n), NEW i \in S, NEW k \in S, i <= k
  PROVE  Cardinality({j \in S : j <= i}) <= Cardinality({j \in S : j <= k})
<1>1. IsFiniteSet(1..n)  BY FS_Interval
<1>2. IsFiniteSet({j \in S : j <= k})  BY <1>1, FS_Subset
<1>3. i \in Int /\ k \in Int /\ \A j \in S : j \in Int  OBVIOUS
<1>4. \A j \in S : j <= i => j <= k  BY <1>3
<1>5. {j \in S : j <= i} \in SUBSET {j \in S : j <= k}  BY <1>4
<1> QED BY <1>2, <1>5, FS_Subset

\* The elements of a set of indices have the ranks 1 to its size.
LEMMA RanksTaken ==
  ASSUME NEW n \in Nat, NEW S \in SUBSET (1..n)
  PROVE  /\ IsFiniteSet(S) /\ Cardinality(S) \in Nat
         /\ \A p \in 1..Cardinality(S) : \E i \in S : Cardinality({j \in S : j <= i}) = p
<1> DEFINE upTo(i) == {j \in S : j <= i}
           rank == [i \in S |-> Cardinality(upTo(i))]
           size == Cardinality(S)
<1>1. IsFiniteSet(S) /\ size \in Nat
  <2>1. IsFiniteSet(1..n)  BY FS_Interval
  <2> QED BY <2>1, FS_Subset, FS_CardinalityType
<1>2. \A i \in S : /\ IsFiniteSet(upTo(i)) /\ upTo(i) # {}
                   /\ Cardinality(upTo(i)) \in 1..size
  <2> SUFFICES ASSUME NEW i \in S
               PROVE  /\ IsFiniteSet(upTo(i)) /\ upTo(i) # {}
                      /\ Cardinality(upTo(i)) \in 1..size
    OBVIOUS
  <2>1. i \in 1..n  OBVIOUS
  <2>2. upTo(i) \in SUBSET S /\ i \in upTo(i)  BY <2>1
  <2>3. IsFiniteSet(upTo(i)) /\ Cardinality(upTo(i)) <= size  BY <1>1, <2>2, FS_Subset
  <2>4. Cardinality(upTo(i)) \in Nat  BY <2>3, FS_CardinalityType
  <2>5. upTo(i) # {}  BY <2>2
  <2> HIDE DEF upTo
  <2>6. Cardinality(upTo(i)) # 0  BY <2>3, <2>5, FS_EmptySet
  <2> QED BY <1>1, <2>3, <2>4, <2>5, <2>6
<1>3. \A i, k \in S : rank[i] = rank[k] => i = k  BY RanksDiffer
<1>4. rank \in Injection(S, 1..size)
  <2>1. rank \in [S -> 1..size]  BY <1>2
  <2> QED BY <2>1, <1>3 DEF Injection, IsInjective
<1>5. IsFiniteSet(1..size) /\ Cardinality(1..size) = size  BY <1>1, FS_Interval
<1>6. rank \in Surjection(S, 1..size)  BY <1>4, <1>5, FS_Injection
<1>7. \A p \in 1..size : \E i \in S : rank[i] = p  BY <1>6 DEF Surjection
<1> QED BY <1>1, <1>7

\* A set of indices that is not empty has a greatest element.
LEMMA GreatestIndex ==
  ASSUME NEW n \in Nat, NEW S \in SUBSET (1..n), S # {}
  PROVE  \E i \in S : \A j \in S : j <= i
<1>1. IsFiniteSet(S) /\ Cardinality(S) \in Nat  BY RanksTaken
<1>2. Cardinality(S) # 0  BY <1>1, FS_EmptySet
<1>3. Cardinality(S) \in 1..Cardinality(S)  BY <1>1, <1>2
<1>4. PICK i \in S : Cardinality({j \in S : j <= i}) = Cardinality(S)  BY <1>3, RanksTaken
<1>5. {j \in S : j <= i} \in SUBSET S  OBVIOUS
<1>6. {j \in S : j <= i} = S  BY <1>1, <1>4, <1>5, FS_Subset
<1> QED BY <1>6

LEMMA LeastIndex ==
  ASSUME NEW n \in Nat, NEW S \in SUBSET (1..n), S # {}
  PROVE  \E i \in S : \A j \in S : i <= j
<1>1. IsFiniteSet(S) /\ Cardinality(S) \in Nat  BY RanksTaken
<1>2. Cardinality(S) # 0  BY <1>1, FS_EmptySet
<1>3. 1 \in 1..Cardinality(S)  BY <1>1, <1>2
<1>4. PICK i \in S : Cardinality({j \in S : j <= i}) = 1  BY <1>3, RanksTaken
<1> DEFINE upTo == {j \in S : j <= i}
<1>5. i \in 1..n /\ \A j \in S : j \in 1..n  OBVIOUS
<1>6. i \in upTo /\ upTo \in SUBSET S  BY <1>5
<1>7. IsFiniteSet(upTo)  BY <1>1, <1>6, FS_Subset
<1>8. \E x : upTo = {x}  BY <1>4, <1>7, FS_Singleton
<1>9. upTo = {i}  BY <1>6, <1>8
<1>10. \A j \in S : j <= i => j = i  BY <1>9
<1> QED BY <1>5, <1>10

\* Every name of the setting is registered once, answers with the tools of its last
\* registration, and stands where it was registered first: of two upstreams, the first
\* entry of the former comes before every entry of the latter (McpAggregator.add, a
\* dict keyed by the upstream's name).
THEOREM LastRegistrationStands ==
  ASSUME NEW setting \in Seq(Upstream)
  PROVE  /\ Registered(setting) \in Seq(Upstream)
         /\ \A p, q \in DOMAIN Registered(setting) :
                Registered(setting)[p].name = Registered(setting)[q].name => p = q
         /\ \A p \in DOMAIN Registered(setting) : \E i \in DOMAIN setting :
                /\ Registered(setting)[p] = setting[i]
                /\ \A j \in DOMAIN setting : setting[j].name = setting[i].name => j <= i
         /\ \A i \in DOMAIN setting : \E p \in DOMAIN Registered(setting) :
                Registered(setting)[p].name = setting[i].name
         /\ \A p, q \in DOMAIN Registered(setting) : p < q =>
                \E i \in DOMAIN setting :
                   /\ setting[i].name = Registered(setting)[p].name
                   /\ \A j \in DOMAIN setting :
                        setting[j].name = Registered(setting)[q].name => i < j
<1> DEFINE first == {i \in DOMAIN setting :
                        \A j \in 1 .. i - 1 : setting[j].name # setting[i].name}
           size == Cardinality(first)
           At(p) == CHOOSE i \in first : Cardinality({j \in first : j <= i}) = p
           Latest(name) == CHOOSE i \in DOMAIN setting :
               setting[i].name = name /\ \A j \in DOMAIN setting : setting[j].name = name => j <= i
<1>1. Registered(setting) = [p \in 1 .. size |-> setting[Latest(setting[At(p)].name)]]
  BY DEF Registered
<1>2. Len(setting) \in Nat /\ DOMAIN setting = 1..Len(setting)  OBVIOUS
<1>3. first \in SUBSET (1..Len(setting))  BY <1>2
<1>4. size \in Nat  BY <1>2, <1>3, RanksTaken
<1>5. \A p \in 1..size : At(p) \in first /\ Cardinality({j \in first : j <= At(p)}) = p
  <2> SUFFICES ASSUME NEW p \in 1..size
               PROVE  At(p) \in first /\ Cardinality({j \in first : j <= At(p)}) = p
    OBVIOUS
  <2> HIDE DEF first
  <2>1. \E i \in first : Cardinality({j \in first : j <= i}) = p
    BY <1>2, <1>3, RanksTaken
  <2> QED BY <2>1
<1>6. \A k \in DOMAIN setting :
          /\ Latest(setting[k].name) \in DOMAIN setting
          /\ setting[Latest(setting[k].name)].name = setting[k].name
          /\ \A j \in DOMAIN setting : setting[j].name = setting[k].name
                 => j <= Latest(setting[k].name)
  <2> SUFFICES ASSUME NEW k \in DOMAIN setting
               PROVE  \E i \in DOMAIN setting :
                        /\ setting[i].name = setting[k].name
                        /\ \A j \in DOMAIN setting : setting[j].name = setting[k].name => j <= i
    OBVIOUS
  <2> DEFINE S == {i \in DOMAIN setting : setting[i].name = setting[k].name}
  <2>1. S \in SUBSET (1..Len(setting)) /\ k \in S  BY <1>2
  <2>2. \E i \in S : \A j \in S : j <= i  BY <1>2, <2>1, GreatestIndex
  <2> QED BY <2>2
<1>7. \A p \in 1..size : At(p) \in DOMAIN setting  BY <1>5
<1>8. \A i \in first : \E p \in 1..size : At(p) = i
  <2> SUFFICES ASSUME NEW i \in first PROVE \E p \in 1..size : At(p) = i
    OBVIOUS
  <2> DEFINE upTo(k) == {j \in first : j <= k}
             p == Cardinality(upTo(i))
  <2>1. i \in 1..Len(setting)  BY <1>3
  <2>2. i \in upTo(i) /\ upTo(i) \in SUBSET first  BY <2>1
  <2>3. IsFiniteSet(first)  BY <1>2, <1>3, RanksTaken
  <2>4. IsFiniteSet(upTo(i)) /\ p <= size /\ p \in Nat  BY <2>2, <2>3, FS_Subset, FS_CardinalityType
  <2>5. p # 0  BY <2>2, <2>4, FS_EmptySet
  <2>6. p \in 1..size  BY <1>4, <2>4, <2>5
  <2>7. At(p) \in first /\ Cardinality(upTo(At(p))) = p  BY <1>5, <2>6
  <2> HIDE DEF At, first
  <2>8. \A k \in first : Cardinality(upTo(k)) = Cardinality(upTo(i)) => k = i
    <3>1. Len(setting) \in Nat /\ first \in SUBSET (1..Len(setting))  BY <1>2, <1>3
    <3> SUFFICES ASSUME NEW k \in first,
                        Cardinality({j \in first : j <= k}) = Cardinality({j \in first : j <= i})
                 PROVE  k = i
      OBVIOUS
    <3> QED BY <3>1, RanksDiffer, Zenon
  <2>9. At(p) = i  BY <2>7, <2>8
  <2> QED BY <2>6, <2>9
<1>9. \A k \in DOMAIN setting : \E i \in first : setting[i].name = setting[k].name
  <2> SUFFICES ASSUME NEW k \in DOMAIN setting
               PROVE  \E i \in first : setting[i].name = setting[k].name
    OBVIOUS
  <2> DEFINE S == {i \in DOMAIN setting : setting[i].name = setting[k].name}
  <2>1. S \in SUBSET (1..Len(setting)) /\ k \in S  BY <1>2
  <2>2. PICK i \in S : \A j \in S : i <= j  BY <1>2, <2>1, LeastIndex
  <2>3. ASSUME NEW j \in 1 .. i - 1 PROVE setting[j].name # setting[i].name
    <3>1. i \in 1..Len(setting) /\ setting[i].name = setting[k].name  BY <2>1
    <3>2. j \in DOMAIN setting /\ ~(i <= j)  BY <1>2, <3>1
    <3> QED BY <2>2, <3>1, <3>2
  <2> QED BY <2>1, <2>3
<1> HIDE DEF first, At, Latest
<1>10. Registered(setting) \in Seq(Upstream) /\ DOMAIN Registered(setting) = 1..size
  <2>1. \A p \in 1..size : setting[Latest(setting[At(p)].name)] \in Upstream
    BY <1>2, <1>6, <1>7
  <2>2. Registered(setting) \in [1..size -> Upstream]  BY <1>1, <2>1
  <2> QED BY <1>4, <2>2
<1>11. \A p \in 1..size :
          Registered(setting)[p].name = setting[At(p)].name
  BY <1>1, <1>6, <1>7
<1>12. ASSUME NEW p \in 1..size, NEW q \in 1..size,
              setting[At(p)].name = setting[At(q)].name
       PROVE  p = q
  <2>1. At(p) \in first /\ At(q) \in first  BY <1>5
  <2>2. ~(At(p) < At(q)) /\ ~(At(q) < At(p))
    <3>1. At(p) \in 1..Len(setting) /\ At(q) \in 1..Len(setting)  BY <1>2, <1>7
    <3> QED BY <1>12, <2>1, <3>1 DEF first
  <2>3. At(p) = At(q)  BY <2>2, <1>2, <1>7
  <2> QED BY <1>5, <2>3
<1>13. ASSUME NEW p \in 1..size
       PROVE  \E i \in DOMAIN setting :
                /\ Registered(setting)[p] = setting[i]
                /\ \A j \in DOMAIN setting : setting[j].name = setting[i].name => j <= i
  <2> DEFINE i == Latest(setting[At(p)].name)
  <2>1. i \in DOMAIN setting /\ setting[i].name = setting[At(p)].name
        /\ \A j \in DOMAIN setting : setting[j].name = setting[At(p)].name => j <= i
    BY <1>6, <1>7
  <2>2. Registered(setting)[p] = setting[i]  BY <1>1
  <2> QED BY <2>1, <2>2
<1>14. ASSUME NEW i \in DOMAIN setting
       PROVE  \E p \in 1..size : Registered(setting)[p].name = setting[i].name
  <2>1. PICK k \in first : setting[k].name = setting[i].name  BY <1>9
  <2>2. PICK p \in 1..size : At(p) = k  BY <1>8
  <2> QED BY <1>11, <2>1, <2>2
<1>15. \A p, q \in 1..size :
           Registered(setting)[p].name = Registered(setting)[q].name => p = q
  BY <1>11, <1>12
<1>16. ASSUME NEW p \in 1..size, NEW q \in 1..size, p < q
       PROVE  \E i \in DOMAIN setting :
                /\ setting[i].name = Registered(setting)[p].name
                /\ \A j \in DOMAIN setting :
                     setting[j].name = Registered(setting)[q].name => i < j
  <2>1. /\ At(p) \in first /\ At(q) \in first
        /\ At(p) \in 1..Len(setting) /\ At(q) \in 1..Len(setting)
    BY <1>2, <1>5, <1>7
  <2>2. At(p) < At(q)
    <3>1. CASE At(q) <= At(p)
      <4>1. Cardinality({j \in first : j <= At(q)}) <= Cardinality({j \in first : j <= At(p)})
        BY <1>2, <1>3, <2>1, <3>1, RanksGrow
      <4>2. q <= p  BY <1>5, <4>1
      <4> QED BY <1>4, <1>16, <4>2
    <3> QED BY <2>1, <3>1
  <2>3. ASSUME NEW j \in DOMAIN setting, setting[j].name = setting[At(q)].name
        PROVE  At(q) <= j
    <3>1. \A i \in 1 .. At(q) - 1 : setting[i].name # setting[At(q)].name
      BY <2>1 DEF first
    <3>2. j \in 1..Len(setting)  BY <1>2
    <3> QED BY <2>1, <2>3, <3>1, <3>2
  <2>4. ASSUME NEW j \in DOMAIN setting, setting[j].name = Registered(setting)[q].name
        PROVE  At(p) < j
    <3>1. setting[j].name = setting[At(q)].name  BY <1>11, <2>4
    <3>2. At(q) <= j  BY <2>3, <3>1
    <3>3. j \in 1..Len(setting)  BY <1>2
    <3> QED BY <2>1, <2>2, <3>2, <3>3
  <2> QED BY <1>7, <1>11, <2>4
<1> HIDE DEF size
<1>17. \A p, q \in DOMAIN Registered(setting) : p < q =>
          \E i \in DOMAIN setting :
             /\ setting[i].name = Registered(setting)[p].name
             /\ \A j \in DOMAIN setting :
                  setting[j].name = Registered(setting)[q].name => i < j
  <2> SUFFICES ASSUME NEW p \in 1..size, NEW q \in 1..size, p < q
               PROVE  \E i \in DOMAIN setting :
                        /\ setting[i].name = Registered(setting)[p].name
                        /\ \A j \in DOMAIN setting :
                             setting[j].name = Registered(setting)[q].name => i < j
    BY <1>10
  <2> QED BY <1>16
<1>18. /\ \A p \in DOMAIN Registered(setting) : \E i \in DOMAIN setting :
             /\ Registered(setting)[p] = setting[i]
             /\ \A j \in DOMAIN setting : setting[j].name = setting[i].name => j <= i
       /\ \A i \in DOMAIN setting : \E p \in DOMAIN Registered(setting) :
             Registered(setting)[p].name = setting[i].name
  BY <1>10, <1>13, <1>14, Zenon
<1>19. \A p, q \in DOMAIN Registered(setting) :
           Registered(setting)[p].name = Registered(setting)[q].name => p = q
  BY <1>10, <1>15, Zenon
<1> QED BY <1>10, <1>17, <1>18, <1>19, Zenon

-----------------------------------------------------------------------------
(* Names. *)

Spelled == Seq(STRING \cup {"_"})

LEMMA Pair ==
  ASSUME NEW S, NEW x \in S
  PROVE  <<x, x>> \in Seq(S) /\ Len(<<x, x>>) = 2 /\ <<x, x>>[1] = x /\ <<x, x>>[2] = x
  OBVIOUS

\* A namespaced name holds two underscores in a row.
LEMMA NamespacedFacts ==
  ASSUME NEW u \in Name, NEW t \in Name
  PROVE  /\ Namespaced(u, t) \in Spelled /\ Namespaced(u, t) # <<>>
         /\ \E i \in 1..(Len(Namespaced(u, t)) - 1) :
                Namespaced(u, t)[i] = "_" /\ Namespaced(u, t)[i + 1] = "_"
<1> DEFINE S == STRING \cup {"_"}
           sep == <<"_", "_">>
<1>1. u \in Seq(S) /\ t \in Seq(S)  BY SeqMonotonic, Zenon DEF Name
<1>2. "_" \in S  OBVIOUS
<1> HIDE DEF S
<1>3. sep \in Seq(S) /\ Len(sep) = 2 /\ sep[1] = "_" /\ sep[2] = "_"  BY <1>2, Pair
<1>4. Namespaced(u, t) = u \o sep \o t  BY DEF Namespaced
<1> HIDE DEF sep
<1> DEFINE w == Namespaced(u, t)
           v == u \o sep
           n == Len(u)
<1>5. n \in Nat /\ Len(t) \in Nat  BY <1>1
<1>6. v \in Seq(S) /\ Len(v) = n + 2 /\ v[n + 1] = "_" /\ v[n + 2] = "_"
  <2>1. /\ v \in Seq(S) /\ Len(v) = n + Len(sep)
        /\ \A i \in 1 .. n + Len(sep) : v[i] = IF i <= n THEN u[i] ELSE sep[i - n]
    BY <1>1, <1>3, ConcatProperties, Zenon
  <2> HIDE DEF n, v
  <2>2. /\ n + 1 \in 1 .. n + 2 /\ n + 2 \in 1 .. n + 2 /\ ~(n + 1 <= n) /\ ~(n + 2 <= n)
        /\ (n + 1) - n = 1 /\ (n + 2) - n = 2
    BY <1>5
  <2> QED BY <1>3, <2>1, <2>2
<1> HIDE DEF v
<1>7. w \in Seq(S) /\ Len(w) = n + 2 + Len(t) /\ w[n + 1] = "_" /\ w[n + 2] = "_"
  <2>1. /\ v \o t \in Seq(S) /\ Len(v \o t) = Len(v) + Len(t)
        /\ \A i \in 1 .. Len(v) + Len(t) :
               (v \o t)[i] = IF i <= Len(v) THEN v[i] ELSE t[i - Len(v)]
    BY <1>1, <1>6, ConcatProperties, Zenon
  <2>2. w = v \o t  BY <1>4 DEF v
  <2> HIDE DEF n, w
  <2>3. /\ n + 1 \in 1 .. n + 2 + Len(t) /\ n + 2 \in 1 .. n + 2 + Len(t)
        /\ n + 1 <= n + 2 /\ n + 2 <= n + 2
    BY <1>5
  <2> QED BY <1>6, <2>1, <2>2, <2>3
<1> HIDE DEF w, n
<1>8. Len(w) = n + 2 + Len(t)  BY <1>7, Zenon
<1>9. w # <<>>  BY <1>5, <1>8
<1>10. n + 1 \in 1..(Len(w) - 1) /\ (n + 1) + 1 = n + 2  BY <1>5, <1>8
<1>11. \E i \in 1..(Len(w) - 1) : w[i] = "_" /\ w[i + 1] = "_"  BY <1>7, <1>10, Zenon
<1> QED BY <1>7, <1>9, <1>11, Zenon DEF Spelled, S, w

\* No two neighbours of a built-in name are underscores.
LEMMA Inner ==
  ASSUME NEW b, NEW x, NEW k \in {3, 5}, b[1] # x, b[3] # x, k = 5 => b[5] # x,
         NEW i \in 1..(k - 1)
  PROVE  ~(b[i] = x /\ b[i + 1] = x)
<1>1. i = 1 \/ i = 2 \/ (k = 5 /\ (i = 3 \/ i = 4))  OBVIOUS
<1>2. CASE i = 1  BY <1>2
<1>3. CASE i = 2  
  <2>1. i + 1 = 3 BY <1>3
  <2> QED BY <2>1
<1>4. CASE i = 3  BY <1>4
<1>5. CASE k = 5 /\ i = 4 
  <2>1. i + 1 = 5 BY <1>5
  <2> QED BY <2>1, <1>5
<1> QED BY <1>1, <1>2, <1>3, <1>4, <1>5

LEMMA BuiltInsPlain ==
  ASSUME NEW b \in BuiltIns
  PROVE  ~\E i \in 1..(Len(b) - 1) : b[i] = "_" /\ b[i + 1] = "_"
<1> SUFFICES ASSUME NEW i \in 1..(Len(b) - 1) PROVE ~(b[i] = "_" /\ b[i + 1] = "_")
  OBVIOUS
<1>1. ASSUME Len(b) = 3, b[1] # "_", b[3] # "_" PROVE ~(b[i] = "_" /\ b[i + 1] = "_")
  BY <1>1, Inner
<1>2. CASE b = SaveSkill  BY <1>1, <1>2 DEF SaveSkill
<1>3. CASE b = LoadSkill  BY <1>1, <1>3 DEF LoadSkill
<1>4. CASE b = RequestEgress  BY <1>1, <1>4 DEF RequestEgress
<1>5. CASE b = ExecutePython
  <2>1. Len(b) = 5 /\ b[1] # "_" /\ b[3] # "_" /\ b[5] # "_"  BY <1>5 DEF ExecutePython
  <2> QED BY <2>1, Inner
<1> QED BY <1>2, <1>3, <1>4, <1>5 DEF BuiltIns, SkillTools

\* The built-in names are different from each other.
LEMMA BuiltInsDiffer ==
  /\ ExecutePython \notin SkillTools /\ ExecutePython # RequestEgress
  /\ RequestEgress \notin SkillTools
  BY DEF ExecutePython, SkillTools, SaveSkill, LoadSkill, RequestEgress
-----------------------------------------------------------------------------
(* Routes.  Every declared name has a route, to an upstream that answered    *)
(* and listed the tool the name is made of.                                  *)

\* name is made of a tool of an upstream in from, and owner is that tool.
Owned(name, owner, ups, from) ==
    \E p \in from : \E i \in DOMAIN ups[p].tools :
        /\ name = Namespaced(ups[p].name, ups[p].tools[i])
        /\ owner = <<ups[p].name, ups[p].tools[i]>>

AggregatorInv ==
    /\ upstreams \in Seq(Upstream)
    /\ position \in Nat \ {0} /\ listed \subseteq DOMAIN upstreams
    /\ specs \in Seq(Spelled) /\ DOMAIN routes = Declared
    /\ \A name \in DOMAIN routes : Owned(name, routes[name], upstreams, listed)

RoutedInv ==
    /\ AggregatorInv
    /\ ~Discovered => answered[1] = <<>>
    /\ OwnerAnswers

\* An owned name is namespaced, so it is neither empty nor a built-in's.
LEMMA OwnedAreNamespaced ==
  ASSUME NEW ups \in Seq(Upstream), NEW from \in SUBSET DOMAIN ups, NEW name, NEW owner,
         Owned(name, owner, ups, from)
  PROVE  name # <<>> /\ name \notin BuiltIns
<1>1. PICK p \in from : \E i \in DOMAIN ups[p].tools : name = Namespaced(ups[p].name, ups[p].tools[i])
  BY DEF Owned
<1>2. PICK i \in DOMAIN ups[p].tools : name = Namespaced(ups[p].name, ups[p].tools[i])  BY <1>1
<1>3. ups[p].name \in Name /\ ups[p].tools[i] \in Name
  <2>1. ups[p] \in Upstream  OBVIOUS
  <2>2. ups[p].name \in Name /\ ups[p].tools \in Seq(Name)  BY <2>1 DEF Upstream
  <2> QED BY <1>2, <2>2
<1> QED BY <1>2, <1>3, NamespacedFacts, BuiltInsPlain

LEMMA EmptyIsNoBuiltIn == <<>> \notin BuiltIns
<1>1. Len(SaveSkill) # 0 /\ Len(LoadSkill) # 0 /\ Len(RequestEgress) # 0 /\ Len(ExecutePython) # 0
  BY DEF SaveSkill, LoadSkill, RequestEgress, ExecutePython
<1>2. Len(<<>>) = 0  OBVIOUS
<1> QED BY <1>1, <1>2, Zenon DEF BuiltIns, SkillTools

LEMMA InitRoutedInv == Init => RoutedInv
<1> SUFFICES ASSUME Init PROVE RoutedInv  OBVIOUS
<1>1. PICK setting \in Settings : upstreams = Registered(setting)
  BY DEF Init, AggregatorInit
<1>2. upstreams \in Seq(Upstream)  BY <1>1, SettingsAssumption, LastRegistrationStands
<1>3. /\ position = 1 /\ listed = {} /\ routes = <<>> /\ specs = <<>>
      /\ answered[1] = <<>>
  BY DEF Init, AggregatorInit
<1>4. Declared = {} /\ DOMAIN routes = {} /\ specs \in Seq(Spelled)  BY <1>3 DEF Declared
<1>5. AggregatorInv  BY <1>2, <1>3, <1>4 DEF AggregatorInv
<1>6. answered[1] \notin SkillTools \cup {RequestEgress, ExecutePython}
  BY <1>3, EmptyIsNoBuiltIn DEF BuiltIns
<1>7. OwnerAnswers  BY <1>4, <1>6 DEF OwnerAnswers
<1> QED BY <1>3, <1>5, <1>7 DEF RoutedInv

\* An upstream answers: its names are added, and routed to it.
LEMMA ListsStep == ASSUME AggregatorInv, Lists PROVE AggregatorInv'
<1> DEFINE up == upstreams[position]
           new == [i \in DOMAIN up.tools |-> Namespaced(up.name, up.tools[i])]
           names == {new[i] : i \in DOMAIN new}
<1>1. /\ position \in DOMAIN upstreams /\ up \in Upstream
      /\ up.name \in Name /\ up.tools \in Seq(Name)
  <2>1. position \in 1..Len(upstreams)  BY DEF AggregatorInv, Lists
  <2>2. up \in Upstream  BY <2>1 DEF AggregatorInv
  <2> QED BY <2>1, <2>2 DEF Upstream, AggregatorInv
<1>2. /\ specs' = specs \o new
      /\ routes' = [n \in DOMAIN routes \cup names |->
                      IF n \in names
                      THEN Route(up.name, up.tools[CHOOSE i \in DOMAIN new : new[i] = n])
                      ELSE routes[n]]
      /\ listed' = listed \cup {position} /\ position' = position + 1
      /\ upstreams' = upstreams
  BY DEF Lists
<1>3. new \in Seq(Spelled) /\ DOMAIN new = DOMAIN up.tools
  <2>1. \A i \in 1..Len(up.tools) : up.tools[i] \in Name  BY <1>1
  <2> HIDE DEF up, new
  <2>2. \A i \in 1..Len(up.tools) : Namespaced(up.name, up.tools[i]) \in Spelled
    BY <1>1, <2>1, NamespacedFacts, Zenon
  <2> USE DEF new
  <2>3. new \in [1..Len(up.tools) -> Spelled]  BY <1>1, <2>2
  <2>4. Len(up.tools) \in Nat  BY <1>1
  <2> QED BY <1>1, <2>3, <2>4
<1>4. \A n \in names : \E i \in DOMAIN up.tools :
          /\ n = Namespaced(up.name, up.tools[i])
          /\ routes'[n] = <<up.name, up.tools[i]>>
  <2> SUFFICES ASSUME NEW n \in names
               PROVE  \E i \in DOMAIN up.tools :
                        /\ n = Namespaced(up.name, up.tools[i])
                        /\ routes'[n] = <<up.name, up.tools[i]>>
    OBVIOUS
  <2> DEFINE i == CHOOSE i \in DOMAIN new : new[i] = n
  <2>1. i \in DOMAIN new /\ new[i] = n  OBVIOUS
  <2>2. routes'[n] = <<up.name, up.tools[i]>>  BY <1>2 DEF Route
  <2>3. i \in DOMAIN up.tools /\ n = Namespaced(up.name, up.tools[i])  BY <2>1
  <2> HIDE DEF i
  <2> QED BY <2>2, <2>3
<1> HIDE DEF new, up
<1>5. specs' \in Seq(Spelled) /\ Declared' = Declared \cup names
  <2>1. /\ specs \in Seq(Spelled) /\ specs' \in Seq(Spelled)
        /\ Len(specs) \in Nat /\ Len(new) \in Nat /\ DOMAIN new = 1..Len(new)
        /\ DOMAIN specs = 1..Len(specs) /\ DOMAIN specs' = 1..(Len(specs) + Len(new))
        /\ \A i \in 1..(Len(specs) + Len(new)) :
               specs'[i] = IF i <= Len(specs) THEN specs[i] ELSE new[i - Len(specs)]
    BY <1>2, <1>3, ConcatProperties DEF AggregatorInv
  <2>2. Declared' \subseteq Declared \cup names
    <3> SUFFICES ASSUME NEW i \in 1..(Len(specs) + Len(new))
                 PROVE  specs'[i] \in Declared \cup names
      BY <2>1 DEF Declared
    <3>1. CASE i <= Len(specs)  BY <2>1, <3>1 DEF Declared
    <3>2. CASE ~(i <= Len(specs))
      <4>1. i - Len(specs) \in DOMAIN new  BY <2>1, <3>2
      <4> QED BY <2>1, <3>2, <4>1
    <3> QED BY <3>1, <3>2
  <2>3. Declared \subseteq Declared'  BY <2>1 DEF Declared
  <2>4. names \subseteq Declared'
    <3> SUFFICES ASSUME NEW i \in 1..Len(new) PROVE new[i] \in Declared'
      BY <2>1
    <3>1. /\ Len(specs) + i \in 1..(Len(specs) + Len(new))
          /\ ~(Len(specs) + i <= Len(specs)) /\ (Len(specs) + i) - Len(specs) = i
      BY <2>1
    <3>2. specs'[Len(specs) + i] = new[i]  BY <2>1, <3>1
    <3> QED BY <2>1, <3>1, <3>2 DEF Declared
  <2> QED BY <2>1, <2>2, <2>3, <2>4
<1>6. DOMAIN routes' = Declared'  BY <1>2, <1>5 DEF AggregatorInv
<1>7. ASSUME NEW name \in DOMAIN routes'
      PROVE  Owned(name, routes'[name], upstreams', listed')
  <2>1. CASE name \in names
    <3>1. PICK i \in DOMAIN up.tools :
            name = Namespaced(up.name, up.tools[i]) /\ routes'[name] = <<up.name, up.tools[i]>>
      BY <1>4, <2>1
    <3> QED BY <1>2, <3>1 DEF Owned, up
  <2>2. CASE name \notin names
    <3>1. name \in DOMAIN routes /\ routes'[name] = routes[name]  BY <1>2, <1>7, <2>2
    <3>2. Owned(name, routes[name], upstreams, listed)  BY <3>1 DEF AggregatorInv
    <3> QED BY <1>2, <3>1, <3>2 DEF Owned
  <2> QED BY <2>1, <2>2
<1>8. position' \in Nat \ {0} /\ listed' \subseteq DOMAIN upstreams'
  BY <1>1, <1>2 DEF AggregatorInv
<1> QED BY <1>2, <1>5, <1>6, <1>7, <1>8 DEF AggregatorInv

\* A step that leaves the upstreams and the routes.
LEMMA SameRoutes ==
  ASSUME AggregatorInv, UNCHANGED <<upstreams, listed, routes, specs>>, position' \in Nat \ {0}
  PROVE  AggregatorInv' /\ Declared' = Declared
<1>1. Declared' = Declared  BY DEF Declared
<1>2. \A name \in DOMAIN routes' : Owned(name, routes'[name], upstreams', listed')
  BY DEF AggregatorInv
<1> QED BY <1>1, <1>2 DEF AggregatorInv

LEMMA DiscoverStep == ASSUME RoutedInv, Discover PROVE RoutedInv'
<1>1. AggregatorInv'
  <2>1. CASE Lists  BY <2>1, ListsStep DEF RoutedInv
  <2>2. CASE ListingFails
    <3>1. position' \in Nat \ {0}  BY <2>2 DEF ListingFails, RoutedInv, AggregatorInv
    <3> QED BY <2>2, <3>1, SameRoutes DEF ListingFails, RoutedInv
  <2> QED BY <2>1, <2>2 DEF Discover
<1>2. answered'[1] = <<>>
  <2>1. position <= Len(upstreams) /\ answered' = answered
    BY DEF Discover, Lists, ListingFails
  <2>2. position \in Nat /\ Len(upstreams) \in Nat  BY DEF RoutedInv, AggregatorInv
  <2> QED BY <2>1, <2>2 DEF RoutedInv, Discovered
<1>3. answered'[1] \notin Declared'
  <2>1. \A name \in Declared' : Owned(name, routes'[name], upstreams', listed')
    BY <1>1 DEF AggregatorInv
  <2>2. \A name \in Declared' : name # <<>>
    BY <1>1, <2>1, OwnedAreNamespaced DEF AggregatorInv
  <2> QED BY <1>2, <2>2
<1>4. answered'[1] \notin SkillTools \cup {RequestEgress, ExecutePython}
  BY <1>2, EmptyIsNoBuiltIn DEF BuiltIns
<1> QED BY <1>1, <1>2, <1>3, <1>4 DEF RoutedInv, OwnerAnswers

LEMMA CallToolStep ==
  ASSUME RoutedInv, NEW c \in Clients, NEW tool \in BuiltIns \cup Declared, CallTool(c, tool)
  PROVE  RoutedInv'
<1>1. /\ Discovered /\ UNCHANGED <<upstreams, position, listed, routes, specs>>
      /\ answered'[1] = tool /\ answered'[2] = Handler(tool)
  BY DEF CallTool, aggregator
<1>2. AggregatorInv' /\ Declared' = Declared
  BY <1>1, SameRoutes DEF RoutedInv, AggregatorInv
<1>3. \A name \in Declared :
          name \notin BuiltIns /\ Owned(name, routes[name], upstreams, listed)
  BY OwnedAreNamespaced DEF RoutedInv, AggregatorInv
<1>4. DOMAIN routes = Declared  BY DEF RoutedInv, AggregatorInv
<1>5. tool \in SkillTools => Handler(tool) = <<"skills">>  BY DEF Handler
<1>6. tool = ExecutePython => Handler(tool) = <<"sandbox">>
  BY <1>3, <1>4, BuiltInsDiffer DEF Handler, BuiltIns, IsAggregated
<1>7. tool = RequestEgress => Handler(tool) = <<"egress">>
  BY BuiltInsDiffer DEF Handler
<1>8. tool \in Declared => Handler(tool) = routes[tool]
  BY <1>3, <1>4 DEF Handler, BuiltIns, SkillTools, IsAggregated
<1>9. tool \in Declared => Owned(answered'[1], answered'[2], upstreams', listed')
  BY <1>1, <1>3, <1>8
<1>10. OwnerAnswers'
  BY <1>1, <1>2, <1>5, <1>6, <1>7, <1>9, Zenon DEF OwnerAnswers, Owned
<1> QED BY <1>1, <1>2, <1>10 DEF RoutedInv, Discovered

LEMMA StepRoutedInv == RoutedInv /\ [Next]_vars => RoutedInv'
<1> SUFFICES ASSUME RoutedInv, [Next]_vars PROVE RoutedInv'  OBVIOUS
<1>1. CASE UNCHANGED <<aggregator, answered>>
  <2>1. UNCHANGED <<upstreams, position, listed, routes, specs, answered>>
    BY <1>1 DEF aggregator
  <2>2. AggregatorInv' /\ Declared' = Declared
    BY <2>1, SameRoutes DEF RoutedInv, AggregatorInv
  <2>3. OwnerAnswers'  BY <2>1, <2>2 DEF RoutedInv, OwnerAnswers
  <2> QED BY <2>1, <2>2, <2>3 DEF RoutedInv, Discovered
<1>2. CASE UNCHANGED vars  BY <1>1, <1>2 DEF vars
<1>3. CASE UseStore  BY <1>1, <1>3 DEF UseStore
<1> QED BY <1>2, <1>3, DiscoverStep, CallToolStep DEF Next

\* A built-in tool is answered by its own handler whatever upstreams declare, and
\* a declared name by an upstream that answered and lists that very tool: for any
\* upstreams, also when two of them declare the same namespaced name.
THEOREM OwnersAlwaysAnswer == Spec => []OwnerAnswers
<1>1. RoutedInv => OwnerAnswers  BY DEF RoutedInv
<1> QED BY <1>1, InitRoutedInv, StepRoutedInv, PTL DEF Spec
=============================================================================
