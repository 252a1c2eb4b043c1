-------------------------- MODULE KeyGatewayProofs --------------------------
(***************************************************************************)
(* Theorems about KeyGateway and its RateLimiter, for any keys, limit,     *)
(* window, caps and costs. The deque of a key is the tail of the instants  *)
(* it was allowed at, and what was dropped is older than the window        *)
(* (Tracks): so the window bound follows from the length of the deque.     *)
(***************************************************************************)
EXTENDS KeyGateway, SequenceTheorems, TLAPS

\* h is the tail of the nondecreasing g, the rest of g lies before the window.
Tracks(g, h, t) ==
    /\ Len(h) <= Len(g)
    /\ \A i \in 1 .. Len(g) : g[i] <= t
    /\ \A i, j \in 1 .. Len(g) : i <= j => g[i] <= g[j]
    /\ \A i \in 1 .. Len(h) : h[i] = g[Len(g) - Len(h) + i]
    /\ \A i \in 1 .. Len(g) - Len(h) : g[i] < t - Window

\* WindowBound and RefusedOnlyWhenFull for one key.
Bounded(g) == \A i \in 1 .. Len(g) - PerMinute : g[i + PerMinute] > g[i] + Window
Explained(g, r) ==
    r # -1 =>
        \E i \in 1 .. Len(g) - PerMinute + 1 :
            g[i] >= r - Window /\ g[i + PerMinute - 1] <= r

\* The deque after its old hits have been popped.
Popped(h, rest, t) ==
    \E n \in 0 .. Len(h) :
        /\ \A i \in 1 .. n : h[i] < t - Window
        /\ n < Len(h) => ~(h[n + 1] < t - Window)
        /\ rest = SubSeq(h, n + 1, Len(h))

-----------------------------------------------------------------------------
(* The limiter's operators, as facts about sequences. *)

LEMMA Limits == PerMinute \in Nat /\ PerMinute > 0 /\ Window \in Nat
<1> QED BY LimiterAssumption

LEMMA SuffixFacts ==
  ASSUME NEW h \in Seq(Nat), NEW n \in 0 .. Len(h), NEW rest,
         rest = SubSeq(h, n + 1, Len(h))
  PROVE  /\ rest \in Seq(Nat) /\ Len(rest) = Len(h) - n
         /\ \A i \in 1 .. Len(rest) : rest[i] = h[n + i]
<1>0. Len(h) \in Nat /\ n \in Nat /\ n <= Len(h)  BY LenProperties
<1>1. n + 1 \in Int /\ Len(h) \in Int  BY <1>0
<1>2. \A i \in n + 1 .. Len(h) : h[i] \in Nat  BY <1>0, ElementOfSeq
<1>3. /\ SubSeq(h, n + 1, Len(h)) \in Seq(Nat)
      /\ Len(SubSeq(h, n + 1, Len(h))) =
           IF n + 1 <= Len(h) THEN Len(h) - (n + 1) + 1 ELSE 0
      /\ \A i \in 1 .. Len(h) - (n + 1) + 1 : SubSeq(h, n + 1, Len(h))[i] = h[n + 1 + i - 1]
  BY <1>1, <1>2, SubSeqProperties
<1>4. Len(rest) = Len(h) - n  BY <1>0, <1>3
<1>5. ASSUME NEW i \in 1 .. Len(rest) PROVE rest[i] = h[n + i]
  <2>1. i \in 1 .. Len(h) - (n + 1) + 1 /\ n + 1 + i - 1 = n + i  BY <1>0, <1>4, <1>5
  <2> QED BY <1>3, <2>1
<1> QED BY <1>3, <1>4, <1>5

LEMMA PopTracks ==
  ASSUME NEW g \in Seq(Nat), NEW h \in Seq(Nat), NEW t \in Nat, NEW rest,
         Tracks(g, h, t), Popped(h, rest, t)
  PROVE  /\ rest \in Seq(Nat) /\ Tracks(g, rest, t)
         /\ Len(rest) > 0 => rest[1] >= t - Window
<1> USE Limits
<1>1. PICK n \in 0 .. Len(h) :
        /\ \A i \in 1 .. n : h[i] < t - Window
        /\ n < Len(h) => ~(h[n + 1] < t - Window)
        /\ rest = SubSeq(h, n + 1, Len(h))
  BY DEF Popped
<1>2. /\ rest \in Seq(Nat) /\ Len(rest) = Len(h) - n
      /\ \A i \in 1 .. Len(rest) : rest[i] = h[n + i]
  BY <1>1, SuffixFacts
<1>3. Len(h) \in Nat /\ Len(g) \in Nat /\ n \in Nat /\ n <= Len(h) /\ Len(h) <= Len(g)
  BY LenProperties DEF Tracks
<1>4. ASSUME NEW i \in 1 .. Len(rest) PROVE rest[i] = g[Len(g) - Len(rest) + i]
  <2>1. n + i \in 1 .. Len(h) /\ Len(g) - Len(h) + (n + i) = Len(g) - Len(rest) + i
    <3>1. Len(rest) = Len(h) - n /\ i \in Nat /\ 1 <= i /\ i <= Len(rest)  BY <1>2, <1>3, <1>4
    <3> QED BY <1>3, <3>1
  <2>2. h[n + i] = g[Len(g) - Len(h) + (n + i)]  BY <2>1 DEF Tracks
  <2>3. rest[i] = h[n + i]  BY <1>2, <1>4
  <2> QED BY <2>1, <2>2, <2>3
<1>5. ASSUME NEW i \in 1 .. Len(g) - Len(rest) PROVE g[i] < t - Window
  <2>1. CASE i <= Len(g) - Len(h)  BY <1>3, <1>5, <2>1 DEF Tracks
  <2>2. CASE i > Len(g) - Len(h)
    <3> DEFINE j == i - (Len(g) - Len(h))
    <3>1. j \in 1 .. n /\ j \in 1 .. Len(h) /\ Len(g) - Len(h) + j = i
      BY <1>2, <1>3, <1>5, <2>2
    <3>2. h[j] = g[Len(g) - Len(h) + j]  BY <3>1 DEF Tracks
    <3>3. h[j] < t - Window  BY <1>1, <3>1
    <3> QED BY <3>1, <3>2, <3>3
  <2> QED BY <1>2, <1>3, <1>5, <2>1, <2>2
<1>6. Len(rest) > 0 => rest[1] >= t - Window
  <2> SUFFICES ASSUME Len(rest) > 0 PROVE rest[1] >= t - Window  OBVIOUS
  <2>1. n < Len(h) /\ 1 \in 1 .. Len(rest) /\ n + 1 \in 1 .. Len(h)  BY <1>2, <1>3
  <2>2. rest[1] = h[n + 1] /\ h[n + 1] \in Nat  BY <1>2, <2>1, ElementOfSeq
  <2> QED BY <1>1, <2>1, <2>2
<1>7. Tracks(g, rest, t)  BY <1>2, <1>3, <1>4, <1>5 DEF Tracks
<1> QED BY <1>2, <1>6, <1>7

LEMMA AppendTracks ==
  ASSUME NEW g \in Seq(Nat), NEW h \in Seq(Nat), NEW t \in Nat,
         Tracks(g, h, t), Len(h) < PerMinute, Bounded(g)
  PROVE  Tracks(Append(g, t), Append(h, t), t) /\ Bounded(Append(g, t))
<1> USE Limits
<1> DEFINE gg == Append(g, t)
           hh == Append(h, t)
<1>1. /\ gg \in Seq(Nat) /\ Len(gg) = Len(g) + 1 /\ gg[Len(g) + 1] = t
      /\ \A i \in 1 .. Len(g) : gg[i] = g[i]
  BY AppendProperties
<1>2. /\ hh \in Seq(Nat) /\ Len(hh) = Len(h) + 1 /\ hh[Len(h) + 1] = t
      /\ \A i \in 1 .. Len(h) : hh[i] = h[i]
  BY AppendProperties
<1>3. Len(h) \in Nat /\ Len(g) \in Nat /\ Len(h) <= Len(g)  BY LenProperties DEF Tracks
<1>4. \A i \in 1 .. Len(g) : g[i] \in Nat  BY ElementOfSeq
<1> HIDE DEF gg, hh
<1>5. ASSUME NEW i \in 1 .. Len(gg) PROVE gg[i] \in Nat /\ gg[i] <= t
  <2>1. CASE i = Len(g) + 1  BY <1>1, <2>1
  <2>2. CASE i # Len(g) + 1
    <3>1. i \in 1 .. Len(g)  BY <1>1, <1>3, <1>5, <2>2
    <3>2. gg[i] = g[i] /\ g[i] \in Nat /\ g[i] <= t  BY <1>1, <1>4, <3>1 DEF Tracks
    <3> QED BY <3>2
  <2> QED BY <2>1, <2>2
<1>6. ASSUME NEW i \in 1 .. Len(gg), NEW j \in 1 .. Len(gg), i <= j PROVE gg[i] <= gg[j]
  <2>1. CASE j = Len(g) + 1  BY <1>1, <1>5, <2>1
  <2>2. CASE j # Len(g) + 1
    <3>1. i \in 1 .. Len(g) /\ j \in 1 .. Len(g)  BY <1>1, <1>3, <1>6, <2>2
    <3>2. gg[i] = g[i] /\ gg[j] = g[j] /\ g[i] <= g[j]  BY <1>1, <1>6, <3>1 DEF Tracks
    <3> QED BY <3>2
  <2> QED BY <2>1, <2>2
<1>7. ASSUME NEW i \in 1 .. Len(hh) PROVE hh[i] = gg[Len(gg) - Len(hh) + i]
  <2>1. CASE i = Len(h) + 1  BY <1>1, <1>2, <1>3, <2>1
  <2>2. CASE i # Len(h) + 1
    <3>1. i \in 1 .. Len(h) /\ Len(g) - Len(h) + i \in 1 .. Len(g)
      BY <1>2, <1>3, <1>7, <2>2
    <3>2. Len(gg) - Len(hh) + i = Len(g) - Len(h) + i  BY <1>1, <1>2, <1>3
    <3>3. hh[i] = h[i] /\ gg[Len(g) - Len(h) + i] = g[Len(g) - Len(h) + i]
      BY <1>1, <1>2, <3>1
    <3>4. h[i] = g[Len(g) - Len(h) + i]  BY <3>1 DEF Tracks
    <3> QED BY <3>2, <3>3, <3>4
  <2> QED BY <2>1, <2>2
<1>8. ASSUME NEW i \in 1 .. Len(gg) - Len(hh) PROVE gg[i] < t - Window
  <2>1. i \in 1 .. Len(g) - Len(h) /\ i \in 1 .. Len(g)  BY <1>1, <1>2, <1>3, <1>8
  <2>2. gg[i] = g[i] /\ g[i] < t - Window  BY <1>1, <2>1 DEF Tracks
  <2> QED BY <2>2
<1>9. Tracks(gg, hh, t)  BY <1>1, <1>2, <1>3, <1>5, <1>6, <1>7, <1>8 DEF Tracks
<1>10. ASSUME NEW i \in 1 .. Len(gg) - PerMinute PROVE gg[i + PerMinute] > gg[i] + Window
  <2>1. i \in Nat /\ 1 <= i /\ i + PerMinute <= Len(g) + 1 /\ i \in 1 .. Len(g)
    BY <1>1, <1>3, <1>10
  <2>2. CASE i + PerMinute = Len(g) + 1
    <3>1. i \in 1 .. Len(g) - Len(h)  BY <1>3, <2>1, <2>2
    <3>2. g[i] < t - Window  BY <3>1 DEF Tracks
    <3>3. gg[i + PerMinute] = t /\ gg[i] = g[i] /\ g[i] \in Nat  BY <1>1, <1>4, <2>1, <2>2
    <3> QED BY <3>2, <3>3
  <2>3. CASE i + PerMinute <= Len(g)
    <3>1. i \in 1 .. Len(g) - PerMinute /\ i + PerMinute \in 1 .. Len(g)  BY <1>3, <2>1, <2>3
    <3>2. gg[i] = g[i] /\ gg[i + PerMinute] = g[i + PerMinute]  BY <1>1, <2>1, <3>1
    <3>3. g[i + PerMinute] > g[i] + Window  BY <3>1 DEF Bounded
    <3> QED BY <3>2, <3>3
  <2>4. i + PerMinute = Len(g) + 1 \/ i + PerMinute <= Len(g)
    <3> DEFINE a == i + PerMinute
    <3>1. a \in Int /\ Len(g) \in Int /\ a <= Len(g) + 1  BY <1>3, <2>1
    <3> HIDE DEF a
    <3>2. a = Len(g) + 1 \/ a <= Len(g)  BY <3>1
    <3> QED BY <3>2 DEF a
  <2> QED BY <2>2, <2>3, <2>4
<1>11. Bounded(gg)  BY <1>10 DEF Bounded
<1> QED BY <1>9, <1>11 DEF gg, hh

LEMMA LaterTracks ==
  ASSUME NEW g \in Seq(Nat), NEW h \in Seq(Nat), NEW t \in Nat, Tracks(g, h, t)
  PROVE  Tracks(g, h, t + 1)
<1> USE Limits
<1>1. Len(g) \in Nat /\ Len(h) \in Nat /\ Len(h) <= Len(g)  BY LenProperties DEF Tracks
<1>2. ASSUME NEW i \in 1 .. Len(g) PROVE g[i] \in Nat /\ g[i] <= t + 1
  BY <1>1, ElementOfSeq DEF Tracks
<1>3. ASSUME NEW i \in 1 .. Len(g) - Len(h) PROVE g[i] < t + 1 - Window
  <2>1. i \in 1 .. Len(g)  BY <1>1
  <2>2. g[i] \in Nat /\ g[i] < t - Window  BY <1>2, <2>1 DEF Tracks
  <2> QED BY <2>2
<1>4. /\ \A i, j \in 1 .. Len(g) : i <= j => g[i] <= g[j]
      /\ \A i \in 1 .. Len(h) : h[i] = g[Len(g) - Len(h) + i]
  BY DEF Tracks
<1> QED BY <1>1, <1>2, <1>3, <1>4 DEF Tracks

\* A longer history still explains an earlier refusal.
LEMMA AppendExplains ==
  ASSUME NEW g \in Seq(Nat), NEW t \in Nat, NEW r, Explained(g, r)
  PROVE  Explained(Append(g, t), r)
<1> USE Limits
<1> SUFFICES ASSUME r # -1
             PROVE \E i \in 1 .. Len(Append(g, t)) - PerMinute + 1 :
                     /\ Append(g, t)[i] >= r - Window
                     /\ Append(g, t)[i + PerMinute - 1] <= r
  BY DEF Explained
<1>1. PICK i \in 1 .. Len(g) - PerMinute + 1 : g[i] >= r - Window /\ g[i + PerMinute - 1] <= r
  BY DEF Explained
<1>2. /\ Len(Append(g, t)) = Len(g) + 1
      /\ \A j \in 1 .. Len(g) : Append(g, t)[j] = g[j]
  BY AppendProperties
<1>3. Len(g) \in Nat  BY LenProperties
<1>4. /\ i \in 1 .. Len(g) /\ i + PerMinute - 1 \in 1 .. Len(g)
      /\ i \in 1 .. Len(Append(g, t)) - PerMinute + 1
  BY <1>1, <1>2, <1>3
<1> QED BY <1>1, <1>2, <1>4

\* A refusal is explained by the deque that is full.
LEMMA FullExplains ==
  ASSUME NEW g \in Seq(Nat), NEW h \in Seq(Nat), NEW t \in Nat,
         Tracks(g, h, t), Len(h) >= PerMinute, h[1] >= t - Window
  PROVE  Explained(g, t)
<1> USE Limits
<1>1. Len(h) \in Nat /\ Len(g) \in Nat /\ Len(h) <= Len(g)  BY LenProperties DEF Tracks
<1> DEFINE i == Len(g) - Len(h) + 1
<1>2. /\ 1 \in 1 .. Len(h) /\ i \in 1 .. Len(g) - PerMinute + 1
      /\ i + PerMinute - 1 \in 1 .. Len(g)
  BY <1>1
<1>3. h[1] = g[i]  BY <1>1, <1>2 DEF Tracks
<1>4. g[i + PerMinute - 1] <= t  BY <1>2 DEF Tracks
<1> HIDE DEF i
<1> QED BY <1>2, <1>3, <1>4 DEF Explained
-----------------------------------------------------------------------------
(* The steps of the limiter. *)

LimiterInv ==
    /\ LimiterTypeOK
    /\ \A k \in Keys :
         /\ Tracks(grants[k], hits[k], now)
         /\ Bounded(grants[k])
         /\ Explained(grants[k], refused[k])

LEMMA LimiterInitInv == LimiterInit => LimiterInv
<1> SUFFICES ASSUME LimiterInit PROVE LimiterInv  OBVIOUS
<1>1. <<>> \in Seq(Nat) /\ Len(<<>>) = 0  OBVIOUS
<1>2. LimiterTypeOK  BY <1>1 DEF LimiterInit, LimiterTypeOK
<1>3. ASSUME NEW k \in Keys
      PROVE  /\ Tracks(grants[k], hits[k], now) /\ Bounded(grants[k])
             /\ Explained(grants[k], refused[k])
  <2>1. grants[k] = <<>> /\ hits[k] = <<>> /\ refused[k] = -1  BY DEF LimiterInit
  <2> QED BY <1>1, <2>1, Limits DEF Tracks, Bounded, Explained
<1> QED BY <1>2, <1>3 DEF LimiterInv

LEMMA RestsPopped ==
  ASSUME LimiterInv, NEW k \in Keys, NEW rest \in Rests(k)
  PROVE  /\ rest \in Seq(Nat) /\ Tracks(grants[k], rest, now)
         /\ Len(rest) > 0 => rest[1] >= now - Window
<1>1. Popped(hits[k], rest, now)  BY DEF Rests, TooOld, Popped
<1>2. /\ hits[k] \in Seq(Nat) /\ grants[k] \in Seq(Nat) /\ now \in Nat
      /\ Tracks(grants[k], hits[k], now)
  BY DEF LimiterInv, LimiterTypeOK
<1> QED BY <1>1, <1>2, PopTracks

LEMMA AllowStep == ASSUME LimiterInv, NEW q \in Keys, Allow(q) PROVE LimiterInv'
<1>1. PICK rest \in Rests(q) :
        /\ Len(rest) < PerMinute
        /\ hits' = [hits EXCEPT ![q] = Append(rest, now)]
        /\ grants' = [grants EXCEPT ![q] = Append(@, now)]
        /\ UNCHANGED <<now, refused>>
  BY DEF Allow
<1>2. rest \in Seq(Nat) /\ Tracks(grants[q], rest, now)  BY RestsPopped
<1>3. /\ now \in Nat /\ grants[q] \in Seq(Nat) /\ Bounded(grants[q])
      /\ Explained(grants[q], refused[q])
  BY DEF LimiterInv, LimiterTypeOK
<1>4. /\ Tracks(Append(grants[q], now), Append(rest, now), now)
      /\ Bounded(Append(grants[q], now))
  BY <1>1, <1>2, <1>3, AppendTracks
<1>5. Explained(Append(grants[q], now), refused[q])  BY <1>3, AppendExplains
<1>6. Append(rest, now) \in Seq(Nat) /\ Append(grants[q], now) \in Seq(Nat)
  BY <1>2, <1>3, AppendProperties
<1>7. LimiterTypeOK'  BY <1>1, <1>6 DEF LimiterInv, LimiterTypeOK
<1>8. ASSUME NEW k \in Keys
      PROVE  /\ Tracks(grants'[k], hits'[k], now') /\ Bounded(grants'[k])
             /\ Explained(grants'[k], refused'[k])
  <2>1. CASE k = q
    <3>1. /\ grants'[k] = Append(grants[q], now) /\ hits'[k] = Append(rest, now)
          /\ now' = now /\ refused'[k] = refused[q]
      BY <1>1, <2>1 DEF LimiterInv, LimiterTypeOK
    <3> QED BY <1>4, <1>5, <3>1
  <2>2. CASE k # q
    <3>1. /\ grants'[k] = grants[k] /\ hits'[k] = hits[k]
          /\ now' = now /\ refused'[k] = refused[k]
      BY <1>1, <2>2 DEF LimiterInv, LimiterTypeOK
    <3> QED BY <3>1 DEF LimiterInv
  <2> QED BY <2>1, <2>2
<1> QED BY <1>7, <1>8 DEF LimiterInv

LEMMA RefuseStep == ASSUME LimiterInv, NEW q \in Keys, Refuse(q) PROVE LimiterInv'
<1>1. PICK rest \in Rests(q) :
        /\ Len(rest) >= PerMinute
        /\ hits' = [hits EXCEPT ![q] = rest]
        /\ refused' = [refused EXCEPT ![q] = now]
        /\ UNCHANGED <<now, grants>>
  BY DEF Refuse
<1>2. /\ rest \in Seq(Nat) /\ Tracks(grants[q], rest, now)
      /\ Len(rest) > 0 => rest[1] >= now - Window
  BY RestsPopped
<1>3. now \in Nat /\ grants[q] \in Seq(Nat)  BY DEF LimiterInv, LimiterTypeOK
<1>4. Len(rest) \in Nat /\ Len(rest) > 0  BY <1>1, <1>2, Limits, LenProperties
<1>5. Explained(grants[q], now)  BY <1>1, <1>2, <1>3, <1>4, FullExplains
<1>6. LimiterTypeOK'  BY <1>1, <1>2 DEF LimiterInv, LimiterTypeOK
<1>7. ASSUME NEW k \in Keys
      PROVE  /\ Tracks(grants'[k], hits'[k], now') /\ Bounded(grants'[k])
             /\ Explained(grants'[k], refused'[k])
  <2>1. CASE k = q
    <3>1. /\ grants'[k] = grants[q] /\ hits'[k] = rest
          /\ now' = now /\ refused'[k] = now
      BY <1>1, <2>1 DEF LimiterInv, LimiterTypeOK
    <3>2. Bounded(grants[q])  BY DEF LimiterInv
    <3> QED BY <1>2, <1>5, <3>1, <3>2
  <2>2. CASE k # q
    <3>1. /\ grants'[k] = grants[k] /\ hits'[k] = hits[k]
          /\ now' = now /\ refused'[k] = refused[k]
      BY <1>1, <2>2 DEF LimiterInv, LimiterTypeOK
    <3> QED BY <3>1 DEF LimiterInv
  <2> QED BY <2>1, <2>2
<1> QED BY <1>6, <1>7 DEF LimiterInv

LEMMA TickStep == ASSUME LimiterInv, Tick PROVE LimiterInv'
<1>1. LimiterTypeOK'  BY DEF LimiterInv, LimiterTypeOK, Tick
<1>2. ASSUME NEW k \in Keys PROVE Tracks(grants[k], hits[k], now + 1)
  <2>1. /\ Tracks(grants[k], hits[k], now) /\ now \in Nat
        /\ grants[k] \in Seq(Nat) /\ hits[k] \in Seq(Nat)
    BY DEF LimiterInv, LimiterTypeOK
  <2> QED BY <2>1, LaterTracks
<1> QED BY <1>1, <1>2 DEF LimiterInv, Tick

LEMMA ForgetStep == ASSUME LimiterInv, Forget PROVE LimiterInv'
<1>1. <<>> \in Seq(Nat) /\ Len(<<>>) = 0  OBVIOUS
<1>2. LimiterTypeOK'  BY <1>1 DEF LimiterInv, LimiterTypeOK, Forget
<1>3. ASSUME NEW k \in Keys
      PROVE  /\ Tracks(grants'[k], hits'[k], now') /\ Bounded(grants'[k])
             /\ Explained(grants'[k], refused'[k])
  <2>1. grants'[k] = <<>> /\ hits'[k] = <<>> /\ refused'[k] = -1 /\ now' = now
    BY DEF Forget
  <2> QED BY <1>1, <2>1, Limits DEF Tracks, Bounded, Explained
<1> QED BY <1>2, <1>3 DEF LimiterInv

LEMMA LimiterStutter == ASSUME LimiterInv, UNCHANGED limiter PROVE LimiterInv'
<1> QED BY DEF LimiterInv, LimiterTypeOK, limiter
-----------------------------------------------------------------------------
(* The gateway. *)

IInv == TypeOK /\ LimiterInv /\ OvershootBounded

LEMMA InitIInv == Init => IInv
<1> SUFFICES ASSUME Init PROVE IInv  OBVIOUS
<1>1. LimiterInv  BY LimiterInitInv DEF Init
<1>2. TypeOK  BY <1>1, CostAssumption DEF Init, TypeOK, LimiterInv, table, flight
<1>3. OvershootBounded  BY DEF Init, OvershootBounded
<1> QED BY <1>1, <1>2, <1>3 DEF IInv

\* What the counters of one key are.
LEMMA Numbers ==
  ASSUME IInv, NEW k \in Keys
  PROVE  /\ cost[k] \in Nat /\ running[k] \in Nat /\ peak[k] \in Nat /\ MaxRunCost \in Nat
         /\ promise[k] # None => promise[k] \in Nat
         /\ cap[k] # None => cap[k] \in Nat
<1> QED BY CostAssumption DEF IInv, TypeOK

\* The requests, which all pass the limiter (or do not touch it).
LEMMA RequestLimiter ==
  ASSUME IInv, NEW q \in Keys, Request(q) PROVE LimiterInv'
<1> USE DEF IInv
<1>1. CASE TooMany(q)  BY <1>1, RefuseStep DEF TooMany
<1>2. CASE Lookup(q)  BY <1>2, AllowStep DEF Lookup
<1>3. CASE StartRun(q)  BY <1>3, AllowStep DEF StartRun
<1>4. CASE McpAdmit(q)  BY <1>4, LimiterStutter DEF McpAdmit
<1>5. CASE \E run \in BOOLEAN : IssueToken(q, run)  BY <1>5, LimiterStutter DEF IssueToken
<1> QED BY <1>1, <1>2, <1>3, <1>4, <1>5 DEF Request

LEMMA TimesMonotone ==
  ASSUME NEW c \in Nat, NEW a \in Nat, NEW b \in Nat, a <= b
  PROVE  c * a \in Nat /\ c * b \in Nat /\ c * a <= c * b
<1>1. PICK d \in Nat : b = a + d
  <2>1. b - a \in Nat /\ b = a + (b - a)  OBVIOUS
  <2> QED BY <2>1
<1>2. c * d \in Nat /\ c * a \in Nat  OBVIOUS
<1>3. c * b = c * a + c * d  BY <1>1
<1> QED BY <1>2, <1>3

\* One more run is let in while the recorded cost is below the cap.
LEMMA StartRunBounded ==
  ASSUME IInv, NEW q \in Keys, StartRun(q), NEW k \in Keys,
         promise'[k] # None, peak'[k] > 0
  PROVE  cost'[k] + MaxRunCost * running'[k] < promise'[k] + MaxRunCost * peak'[k]
<1> USE Numbers
<1>1. CASE k # q
  <2>1. /\ cost'[k] = cost[k] /\ running'[k] = running[k]
        /\ promise'[k] = promise[k] /\ peak'[k] = peak[k]
    BY <1>1 DEF StartRun, table, IInv, TypeOK
  <2> QED BY <2>1 DEF IInv, OvershootBounded
<1>2. CASE k = q
  <2> DEFINE C == MaxRunCost
             r == running[q]
             p == IF peak[q] > r THEN peak[q] ELSE r + 1
  <2>1. /\ cost'[q] = cost[q] /\ running'[q] = r + 1 /\ peak'[q] = p
        /\ promise'[q] = IF cap[q] = None \/ promise[q] = None THEN None
                         ELSE IF cap[q] > promise[q] THEN cap[q] ELSE promise[q]
    BY DEF StartRun, table, IInv, TypeOK
  <2>2. cap[q] # None /\ promise[q] # None  BY <1>2, <2>1
  <2>3. cost[q] < cap[q]  BY <2>2 DEF StartRun, OverCap
  <2>4. cost[q] < promise'[q] /\ promise'[q] \in Nat  BY <2>1, <2>2, <2>3
  <2>5. r + 1 \in Nat /\ p \in Nat /\ r + 1 <= p  OBVIOUS
  <2>6. C * (r + 1) \in Nat /\ C * p \in Nat /\ C * (r + 1) <= C * p
    <3> HIDE DEF p, r
    <3> QED BY <2>5, TimesMonotone
  <2> HIDE DEF p, r, C
  <2>7. cost[q] + C * (r + 1) < promise'[q] + C * p  BY <2>4, <2>6
  <2> QED BY <1>2, <2>1, <2>7 DEF C
<1> QED BY <1>1, <1>2

\* A run ends and charges at most MaxRunCost.
LEMMA EndBounded ==
  ASSUME IInv, NEW q \in Keys, End(q), NEW k \in Keys,
         promise'[k] # None, peak'[k] > 0
  PROVE  cost'[k] + MaxRunCost * running'[k] < promise'[k] + MaxRunCost * peak'[k]
<1> USE Numbers
<1>1. promise'[k] = promise[k] /\ peak'[k] = peak[k]
  BY DEF End, FinishRun, FailRun, McpEnd
<1>2. cost[k] + MaxRunCost * running[k] < promise[k] + MaxRunCost * peak[k]
  BY <1>1 DEF IInv, OvershootBounded
<1>3. \/ cost'[k] = cost[k] /\ running'[k] = running[k]
      \/ /\ running[k] > 0 /\ running'[k] = running[k] - 1
         /\ \E c \in 0 .. MaxRunCost : cost'[k] = cost[k] + c
  <2>1. CASE McpEnd(q)  BY <2>1 DEF McpEnd, table
  <2>2. CASE FailRun(q)  BY <2>2 DEF FailRun, table, IInv, TypeOK
  <2>3. CASE \E c \in 0 .. MaxRunCost : FinishRun(q, c)
    BY <2>3 DEF FinishRun, IInv, TypeOK
  <2> QED BY <2>1, <2>2, <2>3 DEF End
<1>4. CASE cost'[k] = cost[k] /\ running'[k] = running[k]  BY <1>1, <1>2, <1>4
<1>5. CASE /\ running[k] > 0 /\ running'[k] = running[k] - 1
           /\ \E c \in 0 .. MaxRunCost : cost'[k] = cost[k] + c
  <2>1. PICK c \in 0 .. MaxRunCost : cost'[k] = cost[k] + c  BY <1>5
  <2>2. MaxRunCost * running[k] = MaxRunCost * running'[k] + MaxRunCost
    BY <1>5
  <2>3. /\ MaxRunCost * running'[k] \in Int /\ MaxRunCost * peak[k] \in Int
        /\ MaxRunCost * running[k] \in Int
    BY <1>5
  <2>4. cost'[k] + MaxRunCost * running'[k] <= cost[k] + MaxRunCost * running[k]
    BY <2>1, <2>2, <2>3
  <2>5. promise[k] \in Nat  BY <1>1
  <2> QED BY <1>1, <1>2, <2>1, <2>3, <2>4, <2>5
<1> QED BY <1>3, <1>4, <1>5

LEMMA StepType == ASSUME IInv, Next, LimiterInv' PROVE TypeOK'
<1> USE DEF IInv, table, flight
<1>0. LimiterTypeOK'  BY DEF LimiterInv
<1>1. CASE Pass  BY <1>0, <1>1 DEF Pass, TypeOK
<1>2. CASE Restart
  <2>1. boot' \in Nat /\ secret' \in Nat  BY <1>2 DEF Restart, TypeOK
  <2> QED BY <1>0, <1>2, <2>1 DEF Restart, TypeOK
<1>3. ASSUME NEW k \in Keys, Admin(k) PROVE TypeOK'
  <2>1. CASE Create(k)  BY <1>0, <2>1 DEF Create, TypeOK
  <2>2. CASE Revoke(k)  BY <1>0, <2>2 DEF Revoke, TypeOK
  <2>3. CASE \E c \in Caps \cup {None} : SetSpendCap(k, c)
    BY <1>0, <2>3 DEF SetSpendCap, TypeOK
  <2> QED BY <1>3, <2>1, <2>2, <2>3 DEF Admin
<1>4. ASSUME NEW k \in Keys, Request(k) PROVE TypeOK'
  <2>1. CASE TooMany(k)  BY <1>0, <2>1 DEF TooMany, TypeOK
  <2>2. CASE Lookup(k)  BY <1>0, <2>2 DEF Lookup, TypeOK
  <2>3. CASE StartRun(k)
    <3>1. cap[k] \in Nat \cup {None}  BY CostAssumption DEF TypeOK
    <3> QED BY <1>0, <2>3, <3>1 DEF StartRun, TypeOK
  <2>4. CASE McpAdmit(k)  BY <1>0, <2>4 DEF McpAdmit, TypeOK
  <2>5. ASSUME NEW run \in BOOLEAN, IssueToken(k, run) PROVE TypeOK'
    <3>1. now + Ttl \in Nat  BY TokenAssumption DEF TypeOK, LimiterTypeOK
    <3>2. tokens' \subseteq Token  BY <2>5, <3>1 DEF IssueToken, TypeOK, Token
    <3> QED BY <1>0, <2>5, <3>2 DEF IssueToken, TypeOK
  <2> QED BY <1>4, <2>1, <2>2, <2>3, <2>4, <2>5 DEF Request
<1>5. ASSUME NEW k \in Keys, End(k) PROVE TypeOK'
  <2>1. CASE FailRun(k)  BY <1>0, <2>1 DEF FailRun, TypeOK
  <2>2. CASE McpEnd(k)  BY <1>0, <2>2 DEF McpEnd, TypeOK
  <2>3. CASE \E c \in 0 .. MaxRunCost : FinishRun(k, c)
    BY <1>0, <2>3, CostAssumption DEF FinishRun, TypeOK
  <2> QED BY <1>5, <2>1, <2>2, <2>3 DEF End
<1>6. ASSUME NEW k \in Keys, McpDispatch(k) PROVE TypeOK'
  <2>1. CASE McpStart(k)  BY <1>0, <2>1 DEF McpStart, TypeOK
  <2>2. CASE McpPasses(k)  BY <1>0, <2>2 DEF McpPasses, TypeOK
  <2> QED BY <1>6, <2>1, <2>2 DEF McpDispatch
<1> QED BY <1>1, <1>2, <1>3, <1>4, <1>5, <1>6 DEF Next

LEMMA RestartBounded ==
  ASSUME IInv, Restart, NEW k \in Keys, promise'[k] # None, peak'[k] > 0
  PROVE  cost'[k] + MaxRunCost * running'[k] < promise'[k] + MaxRunCost * peak'[k]
<1> USE Numbers
<1>1. /\ cost'[k] = cost[k] /\ running'[k] = 0 /\ promise'[k] = promise[k] /\ peak'[k] = peak[k]
  BY DEF Restart, table
<1>2. cost[k] + MaxRunCost * running[k] < promise[k] + MaxRunCost * peak[k]
  BY <1>1 DEF IInv, OvershootBounded
<1>3. MaxRunCost * 0 <= MaxRunCost * running[k]  BY TimesMonotone
<1>4. MaxRunCost * 0 \in Nat /\ MaxRunCost * running[k] \in Nat /\ MaxRunCost * peak[k] \in Nat
  BY TimesMonotone
<1>5. cost[k] + MaxRunCost * 0 < promise[k] + MaxRunCost * peak[k]
  BY <1>1, <1>2, <1>3, <1>4
<1> QED BY <1>1, <1>5

LEMMA StepIInv == IInv /\ [Next]_vars => IInv'
<1> SUFFICES ASSUME IInv, [Next]_vars PROVE IInv'  OBVIOUS
<1>1. CASE UNCHANGED vars
  BY <1>1, LimiterStutter
     DEF IInv, TypeOK, LimiterTypeOK, limiter, OvershootBounded, vars, table, flight
<1>2. CASE Next
  <2>1. LimiterInv'
    <3>1. CASE Pass  BY <3>1, TickStep DEF Pass, IInv
    <3>2. CASE Restart  BY <3>2, ForgetStep DEF Restart, IInv
    <3>3. ASSUME NEW k \in Keys, Admin(k) PROVE LimiterInv'
      BY <3>3, LimiterStutter DEF Admin, Create, Revoke, SetSpendCap, IInv
    <3>4. ASSUME NEW k \in Keys, End(k) PROVE LimiterInv'
      BY <3>4, LimiterStutter DEF End, FinishRun, FailRun, McpEnd, IInv
    <3>5. ASSUME NEW k \in Keys, McpDispatch(k) PROVE LimiterInv'
      BY <3>5, LimiterStutter DEF McpDispatch, McpStart, McpPasses, IInv
    <3> QED BY <1>2, <3>1, <3>2, <3>3, <3>4, <3>5, RequestLimiter DEF Next
  <2>2. TypeOK'  BY <1>2, <2>1, StepType
  <2>3. OvershootBounded'
    <3>1. CASE Restart  BY <3>1, RestartBounded DEF OvershootBounded
    <3>2. ASSUME NEW k \in Keys, StartRun(k) PROVE OvershootBounded'
      BY <3>2, StartRunBounded DEF OvershootBounded
    <3>3. ASSUME NEW k \in Keys, End(k) PROVE OvershootBounded'
      BY <3>3, EndBounded DEF OvershootBounded
    <3>4. CASE UNCHANGED <<cost, flight>>  BY <3>4 DEF IInv, OvershootBounded, flight
    <3>5. CASE UNCHANGED <<cost, running, peak, promise>>  BY <3>5 DEF IInv, OvershootBounded
    <3>6. CASE Pass  BY <3>4, <3>6 DEF Pass, table
    <3>7. ASSUME NEW k \in Keys, Admin(k) PROVE OvershootBounded'
      BY <3>4, <3>7 DEF Admin, Create, Revoke, SetSpendCap
    <3>8. ASSUME NEW k \in Keys, Request(k), ~StartRun(k) PROVE OvershootBounded'
      <4>1. UNCHANGED <<cost, running, peak, promise>>
        BY <3>8 DEF Request, TooMany, Lookup, McpAdmit, IssueToken, table, flight
      <4> QED BY <3>5, <4>1
    <3>9. ASSUME NEW k \in Keys, McpDispatch(k) PROVE OvershootBounded'
      BY <3>5, <3>9 DEF McpDispatch, McpStart, McpPasses, table
    <3> QED BY <1>2, <3>1, <3>2, <3>3, <3>6, <3>7, <3>8, <3>9 DEF Next
  <2> QED BY <2>1, <2>2, <2>3 DEF IInv
<1> QED BY <1>1, <1>2

THEOREM Inductive == Spec => []IInv
<1> QED BY InitIInv, StepIInv, PTL DEF Spec

-----------------------------------------------------------------------------
(* The theorems. *)

\* The table, the deques and the tokens keep their types.
THEOREM TypeCorrect == Spec => []TypeOK
<1>1. IInv => TypeOK  BY DEF IInv
<1> QED BY <1>1, Inductive, PTL

\* No closed window of Window instants holds more than PerMinute allowed
\* requests of a key, for any PerMinute and Window.
THEOREM WindowAlwaysBound == Spec => []WindowBound
<1>1. IInv => WindowBound  BY DEF IInv, LimiterInv, Bounded, WindowBound
<1> QED BY <1>1, Inductive, PTL

\* A refusal is always explained by PerMinute allowed requests of that key in
\* the window before it.
THEOREM RefusalsExplained == Spec => []RefusedOnlyWhenFull
<1>1. IInv => RefusedOnlyWhenFull
  BY DEF IInv, LimiterInv, Explained, RefusedOnlyWhenFull
<1> QED BY <1>1, Inductive, PTL

\* A key's cost stays below the highest cap it was let in under plus what as
\* many runs cost as it ever had in flight, whatever the administrator does.
THEOREM OvershootAlwaysBounded == Spec => []OvershootBounded
<1>1. IInv => OvershootBounded  BY DEF IInv
<1> QED BY <1>1, Inductive, PTL

\* Under a key that is not active no step lets a request in, starts a run that was not
\* admitted before, or issues a token: over the check, the dispatch and the restart.
THEOREM RevocationHolds == Spec => RevokedOpensNothing
<1> DEFINE Barred(k) ==
             /\ Len(grants'[k]) <= Len(grants[k])
             /\ running'[k] <= running[k]
             /\ admitted'[k] <= admitted[k]
             /\ admitted'[k] + mcp'[k] <= admitted[k] + mcp[k]
             /\ {t \in tokens' : t.sub = k} \subseteq tokens
           Shut == \A k \in Keys : status[k] # "active" => Barred(k)
<1>1. IInv /\ [Next]_vars => [Shut]_vars
  <2> SUFFICES ASSUME IInv, [Next]_vars, NEW k \in Keys, status[k] # "active"
               PROVE  Barred(k)
    OBVIOUS
  <2>a. /\ grants \in [Keys -> Seq(Nat)] /\ running \in [Keys -> Nat]
        /\ mcp \in [Keys -> Nat] /\ admitted \in [Keys -> Nat]
    BY DEF IInv, TypeOK, LimiterTypeOK
  <2>b. Len(grants[k]) \in Nat  BY <2>a, LenProperties
  <2>0. running[k] \in Nat /\ mcp[k] \in Nat /\ admitted[k] \in Nat /\ Len(grants[k]) \in Nat
    BY <2>a, <2>b
  <2>1. CASE UNCHANGED <<grants, running, admitted, mcp, tokens>>  BY <2>0, <2>1
  <2>2. CASE Restart
    <3>1. /\ grants'[k] = <<>> /\ running'[k] = 0 /\ mcp'[k] = 0 /\ admitted'[k] = 0
          /\ Len(<<>>) = 0 /\ tokens' = tokens
      BY <2>2 DEF Restart, Forget
    <3> QED BY <2>0, <3>1
  <2>3. ASSUME NEW q \in Keys, End(q) PROVE Barred(k)
    <3>1. grants' = grants /\ admitted' = admitted /\ tokens' = tokens
      BY <2>3 DEF End, McpEnd, FailRun, FinishRun, limiter
    <3>2. running'[k] <= running[k] /\ mcp'[k] <= mcp[k] /\ mcp'[k] \in Int
      <4>1. CASE McpEnd(q)  BY <2>a, <2>0, <4>1 DEF McpEnd
      <4>2. CASE FailRun(q)  BY <2>a, <2>0, <4>2 DEF FailRun
      <4>3. ASSUME NEW c \in 0 .. MaxRunCost, FinishRun(q, c)
            PROVE  running'[k] <= running[k] /\ mcp'[k] = mcp[k]
        BY <2>a, <2>0, <4>3 DEF FinishRun
      <4> QED BY <2>3, <2>0, <4>1, <4>2, <4>3 DEF End
    <3> QED BY <2>0, <3>1, <3>2
  <2>4. ASSUME NEW q \in Keys, Request(q) PROVE Barred(k)
    <3>1. status[q] = "active"
      BY <2>4 DEF Request, TooMany, Lookup, StartRun, McpAdmit, IssueToken, Resolve
    <3>2. q # k  BY <3>1
    <3>3. /\ grants'[k] = grants[k] /\ running'[k] = running[k]
          /\ admitted'[k] = admitted[k] /\ mcp'[k] = mcp[k]
      BY <2>a, <2>4, <3>2
         DEF Request, TooMany, Lookup, StartRun, McpAdmit, IssueToken, Allow, Refuse, flight, limiter
    <3>4. \A t \in tokens' : t \in tokens \/ t.sub = q
      <4>1. CASE tokens' = tokens  BY <4>1
      <4>2. ASSUME NEW run \in BOOLEAN, IssueToken(q, run)
            PROVE  \A t \in tokens' : t \in tokens \/ t.sub = q
        BY <4>2 DEF IssueToken
      <4>3. \/ tokens' = tokens
            \/ \E run \in BOOLEAN : IssueToken(q, run)
        BY <2>4 DEF Request, TooMany, Lookup, StartRun, McpAdmit
      <4> QED BY <4>1, <4>2, <4>3
    <3> QED BY <2>0, <3>2, <3>3, <3>4
  <2>5. ASSUME NEW q \in Keys, McpDispatch(q) PROVE Barred(k)
    <3>1. grants' = grants /\ running' = running /\ tokens' = tokens
      BY <2>5 DEF McpDispatch, McpStart, McpPasses, limiter
    <3>2. \/ admitted'[k] = admitted[k] /\ mcp'[k] = mcp[k]
          \/ admitted'[k] = admitted[k] - 1 /\ mcp'[k] = mcp[k] + 1
          \/ admitted'[k] = admitted[k] - 1 /\ mcp'[k] = mcp[k]
      <4>1. CASE McpStart(q)  BY <2>a, <4>1 DEF McpStart
      <4>2. CASE McpPasses(q)  BY <2>a, <4>2 DEF McpPasses
      <4> QED BY <2>5, <4>1, <4>2 DEF McpDispatch
    <3> QED BY <2>0, <3>1, <3>2
  <2>6. ASSUME NEW q \in Keys, Admin(q) PROVE UNCHANGED <<grants, running, admitted, mcp, tokens>>
    BY <2>6 DEF Admin, Create, Revoke, SetSpendCap, limiter, flight
  <2>7. CASE Pass  BY <2>1, <2>7 DEF Pass, Tick, flight
  <2>8. CASE UNCHANGED vars  BY <2>1, <2>8 DEF vars, limiter, flight
  <2>9. CASE \E q \in Keys : Admin(q) \/ Request(q) \/ McpDispatch(q) \/ End(q)
    BY <2>1, <2>3, <2>4, <2>5, <2>6, <2>9
  <2> QED BY <2>2, <2>7, <2>8, <2>9 DEF Next
<1> QED BY <1>1, Inductive, PTL DEF Spec, RevokedOpensNothing
=============================================================================
