--------------------------- MODULE InputProofs -----------------------------
(***************************************************************************)
(* What the miner makes of what it is told from outside: the server's      *)
(* answers (Classifier), its devices' digests (SelfTest), the platform's   *)
(* commands (CommandEnvelope), the clock (Calendar), its command line and  *)
(* config.txt (LaunchConfig), the breaker's state over time (MarginPolicy),*)
(* the network's difficulty (DifficultySync) and the broker (MqttLink);    *)
(* the walk of a GPU job over its lane (Argon2Lane) and the shares of the  *)
(* fee (HashBatch).                                                        *)
(***************************************************************************)
EXTENDS Answers, DifficultySync, MqttLink, HashBatch, SequenceTheorems,
        FiniteSetTheorems, NaturalsInduction, WellFoundedInduction, TLAPS

CacheEntries == [nonce : Nat, expires_at : Nat]
Obeyed == [envelope : Envelopes, at : Nat]
Verifiers == [now : Nat, cache : Seq(CacheEntries), obeyed : Seq(Obeyed)]

Entry(o) == [nonce |-> o.envelope.nonce, expires_at |-> o.envelope.expires_at]

\* The cache holds the last commands obeyed, at most `capacity' of them, in their order.
HoldsLast(nonces, obeyed) ==
  /\ Len(nonces) <= Len(obeyed)
  /\ \A k \in 1..Len(nonces) : nonces[k] = Entry(obeyed[Len(obeyed) - Len(nonces) + k])

\* A command the cache no longer holds has expired, or `capacity' commands followed it.
Forgotten(nonces, obeyed, now) ==
  \A i \in 1..(Len(obeyed) - Len(nonces)) :
    obeyed[i].envelope.expires_at <= now \/ Len(obeyed) - i >= capacity

Once(obeyed) ==
  \A i, j \in 1..Len(obeyed) :
    i < j /\ obeyed[i].envelope = obeyed[j].envelope
      => obeyed[j].at = obeyed[j].envelope.expires_at \/ j - i > capacity

Remembers(v) ==
  /\ v \in Verifiers
  /\ Len(v.cache) <= capacity
  /\ HoldsLast(v.cache, v.obeyed)
  /\ Forgotten(v.cache, v.obeyed, v.now)
  /\ Once(v.obeyed)

-----------------------------------------------------------------------------
(* The cache of nonces. *)

LEMMA LeastElement ==
  ASSUME NEW T, T \subseteq Nat, T # {}
  PROVE  \E x \in T : \A y \in T : x <= y
<1>1. \E x \in T : \A y \in T : ~(<<y, x>> \in OpToRel(<, Nat))
  BY NatLessThanWellFounded, WFMin
<1>2. PICK x \in T : \A y \in T : ~(<<y, x>> \in OpToRel(<, Nat))
  BY <1>1
<1>3. \A y \in T : ~(y < x)
  BY <1>2 DEF OpToRel
<1> QED  BY <1>3

\* What is left of a sequence after its first n members.
LEMMA DropFirst ==
  ASSUME NEW c \in Seq(CacheEntries), NEW n \in 0..Len(c)
  PROVE  /\ SubSeq(c, n + 1, Len(c)) \in Seq(CacheEntries)
         /\ Len(SubSeq(c, n + 1, Len(c))) = Len(c) - n
         /\ \A k \in 1..(Len(c) - n) : SubSeq(c, n + 1, Len(c))[k] = c[n + k]
<1>1. Len(c) \in Nat
  BY LenProperties
<1>2. \A i \in (n + 1)..Len(c) : c[i] \in CacheEntries
  BY <1>1, ElementOfSeq
<1> QED  BY <1>1, <1>2, SubSeqProperties

\* purge_expired drops expired entries only, from the front.
LEMMA PurgeDrops ==
  ASSUME NEW c \in Seq(CacheEntries), NEW now \in Nat
  PROVE  \E n \in 0..Len(c) :
           /\ PurgeExpired(c, now) \in Seq(CacheEntries)
           /\ Len(PurgeExpired(c, now)) = Len(c) - n
           /\ \A k \in 1..(Len(c) - n) : PurgeExpired(c, now)[k] = c[n + k]
           /\ \A k \in 1..n : c[k].expires_at <= now
<1> DEFINE unexpired == {i \in 1..Len(c) : c[i].expires_at > now}
<1>1. Len(c) \in Nat /\ \A i \in 1..Len(c) : c[i].expires_at \in Nat
  <2>1. \A i \in 1..Len(c) : c[i] \in CacheEntries
    BY ElementOfSeq
  <2> QED  BY <2>1, LenProperties DEF CacheEntries
<1>2. CASE unexpired = {}
  <2>1. PurgeExpired(c, now) = <<>>
    BY <1>2 DEF PurgeExpired
  <2>2. \A k \in 1..Len(c) : c[k].expires_at <= now
    BY <1>1, <1>2
  <2>3. <<>> \in Seq(CacheEntries) /\ Len(<<>>) = 0
    OBVIOUS
  <2>4. Len(c) \in 0..Len(c) /\ Len(c) - Len(c) = 0
    BY <1>1
  <2> QED  BY <2>1, <2>2, <2>3, <2>4
<1>3. CASE unexpired # {}
  <2> DEFINE m == CHOOSE i \in unexpired : \A j \in unexpired : i <= j
  <2>1. m \in unexpired /\ \A j \in unexpired : m <= j
    <3>1. unexpired \subseteq Nat
      BY <1>1
    <3>2. \E i \in unexpired : \A j \in unexpired : i <= j
      <4> HIDE DEF unexpired
      <4> QED  BY <1>3, <3>1, LeastElement
    <3> HIDE DEF unexpired
    <3> QED  BY <3>2
  <2>2. PurgeExpired(c, now) = SubSeq(c, m, Len(c))
    BY <1>3 DEF PurgeExpired
  <2> HIDE DEF m
  <2>3. m - 1 \in 0..Len(c) /\ (m - 1) + 1 = m
    BY <1>1, <2>1
  <2>4. \A k \in 1..(m - 1) : c[k].expires_at <= now
    BY <1>1, <2>1
  <2>5. /\ SubSeq(c, m, Len(c)) \in Seq(CacheEntries)
        /\ Len(SubSeq(c, m, Len(c))) = Len(c) - (m - 1)
        /\ \A k \in 1..(Len(c) - (m - 1)) : SubSeq(c, m, Len(c))[k] = c[(m - 1) + k]
    BY <2>3, DropFirst
  <2> QED  BY <2>2, <2>3, <2>4, <2>5
<1> QED  BY <1>2, <1>3

\* The eviction makes room for one entry, and drops one only if the cache is full.
LEMMA EvictDrops ==
  ASSUME NEW c \in Seq(CacheEntries), Len(c) <= capacity
  PROVE  \E n \in 0..Len(c) :
           /\ Evict(c) \in Seq(CacheEntries)
           /\ Len(Evict(c)) = Len(c) - n /\ Len(c) - n < capacity
           /\ \A k \in 1..(Len(c) - n) : Evict(c)[k] = c[n + k]
           /\ n > 0 => Len(c) - n = capacity - 1
<1>1. Len(c) \in Nat /\ capacity \in Nat \ {0}
  BY LenProperties, EnvelopeAssumption
<1>2. CASE Len(c) >= capacity
  <2>1. Len(c) = capacity /\ 1 \in 0..Len(c)
    BY <1>1, <1>2
  <2>2. Evict(c) = SubSeq(c, 1 + 1, Len(c))
    BY <1>1, <2>1 DEF Evict
  <2>3. /\ SubSeq(c, 1 + 1, Len(c)) \in Seq(CacheEntries)
        /\ Len(SubSeq(c, 1 + 1, Len(c))) = Len(c) - 1
        /\ \A k \in 1..(Len(c) - 1) : SubSeq(c, 1 + 1, Len(c))[k] = c[1 + k]
    BY <2>1, DropFirst
  <2>4. Len(c) - 1 < capacity /\ Len(c) - 1 = capacity - 1
    BY <1>1, <2>1
  <2> QED  BY <2>1, <2>2, <2>3, <2>4
<1>3. CASE Len(c) < capacity
  <2>1. Evict(c) = c
    BY <1>1, <1>3 DEF Evict
  <2>2. 0 \in 0..Len(c) /\ Len(c) - 0 = Len(c) /\ \A k \in 1..Len(c) : c[0 + k] = c[k]
    BY <1>1
  <2>3. /\ Len(Evict(c)) = Len(c) - 0 /\ Len(c) - 0 < capacity
        /\ \A k \in 1..(Len(c) - 0) : Evict(c)[k] = c[0 + k]
        /\ ~(0 > 0) /\ Evict(c) \in Seq(CacheEntries)
    BY <1>3, <2>1, <2>2
  <2> QED  BY <2>2, <2>3
<1> QED  BY <1>1, <1>2, <1>3

\* A shorter suffix forgets what it drops.
LEMMA ShorterSuffix ==
  ASSUME NEW c \in Seq(CacheEntries), NEW o \in Seq(Obeyed), NEW d \in Seq(CacheEntries),
         HoldsLast(c, o), NEW n \in 0..Len(c), Len(d) = Len(c) - n,
         \A k \in 1..(Len(c) - n) : d[k] = c[n + k]
  PROVE  /\ HoldsLast(d, o)
         /\ \A i \in 1..(Len(o) - Len(d)) :
              \/ i \in 1..(Len(o) - Len(c))
              \/ \E k \in 1..n : c[k] = Entry(o[i]) /\ Len(o) - i = Len(c) - k
<1>1. Len(c) \in Nat /\ Len(o) \in Nat /\ Len(c) <= Len(o)
  BY LenProperties DEF HoldsLast
<1>2. ASSUME NEW k \in 1..Len(d) PROVE d[k] = Entry(o[Len(o) - Len(d) + k])
  <2>1. n + k \in 1..Len(c) /\ Len(o) - Len(c) + (n + k) = Len(o) - Len(d) + k
    BY <1>1
  <2>2. d[k] = c[n + k]
    OBVIOUS
  <2>3. c[n + k] = Entry(o[Len(o) - Len(c) + (n + k)])
    BY <2>1 DEF HoldsLast
  <2> QED  BY <2>1, <2>2, <2>3
<1>3. ASSUME NEW i \in 1..(Len(o) - Len(d)), i \notin 1..(Len(o) - Len(c))
      PROVE  \E k \in 1..n : c[k] = Entry(o[i]) /\ Len(o) - i = Len(c) - k
  <2> DEFINE k == i - (Len(o) - Len(c))
  <2>1. /\ k \in 1..n /\ k \in 1..Len(c) /\ Len(o) - Len(c) + k = i /\ Len(o) - i = Len(c) - k
    BY <1>1, <1>3
  <2>2. c[k] = Entry(o[Len(o) - Len(c) + k])
    BY <2>1 DEF HoldsLast
  <2> QED  BY <2>1, <2>2
<1>4. Len(d) <= Len(o)
  BY <1>1
<1> QED  BY <1>2, <1>3, <1>4 DEF HoldsLast

\* Purging keeps what is remembered, at any time.
LEMMA PurgedRemembers ==
  ASSUME NEW v, Remembers(v)
  PROVE  Remembers([v EXCEPT !.cache = PurgeExpired(v.cache, v.now)])
<1> DEFINE d == PurgeExpired(v.cache, v.now)
           w == [v EXCEPT !.cache = d]
           c == v.cache
           o == v.obeyed
<1>1. c \in Seq(CacheEntries) /\ o \in Seq(Obeyed) /\ v.now \in Nat
  BY DEF Remembers, Verifiers
<1>2. PICK n \in 0..Len(c) :
        /\ d \in Seq(CacheEntries) /\ Len(d) = Len(c) - n
        /\ \A k \in 1..(Len(c) - n) : d[k] = c[n + k]
        /\ \A k \in 1..n : c[k].expires_at <= v.now
  BY <1>1, PurgeDrops
<1> HIDE DEF d
<1>3. w \in Verifiers /\ w.cache = d /\ w.obeyed = o /\ w.now = v.now
  BY <1>1, <1>2 DEF Remembers, Verifiers
<1>4. HoldsLast(c, o) /\ Forgotten(c, o, v.now) /\ Len(c) <= capacity /\ Once(o)
  BY DEF Remembers
<1> HIDE DEF w, c, o
<1>5. /\ HoldsLast(d, o)
      /\ \A i \in 1..(Len(o) - Len(d)) :
           \/ i \in 1..(Len(o) - Len(c))
           \/ \E k \in 1..n : c[k] = Entry(o[i]) /\ Len(o) - i = Len(c) - k
  BY <1>1, <1>2, <1>4, ShorterSuffix
<1>6. Forgotten(d, o, v.now)
  <2> SUFFICES ASSUME NEW i \in 1..(Len(o) - Len(d))
               PROVE  o[i].envelope.expires_at <= v.now \/ Len(o) - i >= capacity
    BY DEF Forgotten
  <2>1. CASE i \in 1..(Len(o) - Len(c))
    BY <1>4, <2>1 DEF Forgotten
  <2>2. CASE \E k \in 1..n : c[k] = Entry(o[i])
    <3>1. PICK k \in 1..n : c[k] = Entry(o[i])
      BY <2>2
    <3>2. c[k].expires_at = o[i].envelope.expires_at
      BY <3>1 DEF Entry
    <3> QED  BY <1>2, <3>1, <3>2
  <2> QED  BY <1>5, <2>1, <2>2
<1>7. Len(d) <= capacity
  <2>1. Len(c) \in Nat /\ capacity \in Nat
    BY <1>1, LenProperties, EnvelopeAssumption
  <2> QED  BY <1>2, <1>4, <2>1
<1>8. Remembers(w)
  BY <1>3, <1>4, <1>5, <1>6, <1>7 DEF Remembers
<1> QED  BY <1>8 DEF w, d

\* A fresh nonce: its envelope was not obeyed before, or it is forgotten.
LEMMA ObeyRemembers ==
  ASSUME NEW v, Remembers(v), NEW e \in Envelopes, VerifyStatus(e, v.now) = "Ok",
         ~Holds(v.cache, e.nonce)
  PROVE  Remembers([v EXCEPT
           !.cache = Append(Evict(v.cache), [nonce |-> e.nonce, expires_at |-> e.expires_at]),
           !.obeyed = Append(v.obeyed, [envelope |-> e, at |-> v.now])])
<1> DEFINE x == [nonce |-> e.nonce, expires_at |-> e.expires_at]
           y == [envelope |-> e, at |-> v.now]
           c == v.cache
           o == v.obeyed
           d == Evict(c)
           b == Append(d, x)
           p == Append(o, y)
           w == [v EXCEPT !.cache = b, !.obeyed = p]
           now == v.now
<1>1. c \in Seq(CacheEntries) /\ o \in Seq(Obeyed) /\ now \in Nat
  BY DEF Remembers, Verifiers
<1>2. Len(c) <= capacity /\ HoldsLast(c, o) /\ Forgotten(c, o, now) /\ Once(o)
  BY DEF Remembers
<1>3. PICK n \in 0..Len(c) :
        /\ d \in Seq(CacheEntries) /\ Len(d) = Len(c) - n /\ Len(c) - n < capacity
        /\ \A k \in 1..(Len(c) - n) : d[k] = c[n + k]
        /\ n > 0 => Len(c) - n = capacity - 1
  BY <1>1, <1>2, EvictDrops
<1>4. /\ e.nonce \in Nat /\ e.expires_at \in Nat /\ now <= e.expires_at
      /\ x \in CacheEntries /\ y \in Obeyed
  <2>1. e \in EnvelopeSet
    BY EnvelopeAssumption
  <2>2. e.nonce \in Nat /\ e.expires_at \in Nat
    BY <2>1 DEF EnvelopeSet
  <2>3. ~(now > e.expires_at)
    BY DEF VerifyStatus
  <2> QED  BY <1>1, <2>2, <2>3 DEF CacheEntries, Obeyed
<1>5. y.envelope = e /\ y.at = now /\ Entry(y) = x
  BY DEF Entry
<1>6. ~Holds(c, e.nonce)
  OBVIOUS
<1>7. w \in Verifiers /\ w.cache = b /\ w.obeyed = p /\ w.now = now
  <2>1. v \in Verifiers
    BY DEF Remembers
  <2>2. b \in Seq(CacheEntries) /\ p \in Seq(Obeyed)
    <3> HIDE DEF x, y, d, o
    <3> QED  BY <1>1, <1>3, <1>4, AppendProperties
  <2> HIDE DEF b, p
  <2> QED  BY <2>1, <2>2 DEF Verifiers
<1> SUFFICES Remembers(w)
  OBVIOUS
<1> HIDE DEF x, y, c, o, d, now, w
<1>8. /\ Len(c) \in Nat /\ Len(o) \in Nat /\ Len(d) \in Nat /\ capacity \in Nat \ {0}
      /\ Len(c) <= Len(o)
  BY <1>1, <1>2, <1>3, LenProperties, EnvelopeAssumption DEF HoldsLast
<1>9. /\ Len(b) = Len(d) + 1 /\ b[Len(d) + 1] = x /\ \A k \in 1..Len(d) : b[k] = d[k]
      /\ Len(p) = Len(o) + 1 /\ p[Len(o) + 1] = y /\ \A k \in 1..Len(o) : p[k] = o[k]
  BY <1>1, <1>3, <1>4, AppendProperties
<1> HIDE DEF b, p
<1>10. /\ HoldsLast(d, o)
       /\ \A i \in 1..(Len(o) - Len(d)) :
            \/ i \in 1..(Len(o) - Len(c))
            \/ \E k \in 1..n : c[k] = Entry(o[i]) /\ Len(o) - i = Len(c) - k
  BY <1>1, <1>2, <1>3, ShorterSuffix
<1>11. HoldsLast(b, p)
  <2>1. ASSUME NEW k \in 1..Len(b) PROVE b[k] = Entry(p[Len(p) - Len(b) + k])
    <3>1. CASE k = Len(d) + 1
      BY <1>5, <1>8, <1>9, <3>1
    <3>2. CASE k \in 1..Len(d)
      <4>1. d[k] = Entry(o[Len(o) - Len(d) + k])
        BY <1>10, <3>2 DEF HoldsLast
      <4>2. Len(p) - Len(b) + k = Len(o) - Len(d) + k /\ Len(o) - Len(d) + k \in 1..Len(o)
        BY <1>3, <1>8, <1>9, <3>2
      <4> QED  BY <1>9, <3>2, <4>1, <4>2
    <3> QED  BY <1>8, <1>9, <3>1, <3>2
  <2>2. Len(b) <= Len(p)
    BY <1>3, <1>8, <1>9
  <2> QED  BY <2>1, <2>2 DEF HoldsLast
<1>12. Forgotten(b, p, now)
  <2> SUFFICES ASSUME NEW i \in 1..(Len(p) - Len(b))
               PROVE  p[i].envelope.expires_at <= now \/ Len(p) - i >= capacity
    BY DEF Forgotten
  <2>0. i \in 1..(Len(o) - Len(d)) /\ i \in 1..Len(o) /\ Len(p) - i = Len(o) - i + 1
    <3>1. Len(p) - Len(b) = Len(o) - Len(d) /\ Len(p) = Len(o) + 1
      BY <1>8, <1>9
    <3>2. i \in 1..(Len(o) - Len(d))
      BY <3>1
    <3> QED  BY <1>8, <3>1, <3>2
  <2>1. i \in 1..(Len(o) - Len(d)) /\ i \in 1..Len(o) /\ p[i] = o[i] /\ Len(p) - i = Len(o) - i + 1
    BY <1>9, <2>0
  <2>2. CASE i \in 1..(Len(o) - Len(c))
    <3>1. o[i].envelope.expires_at <= now \/ Len(o) - i >= capacity
      BY <1>2, <2>2 DEF Forgotten
    <3> QED  BY <1>8, <2>1, <3>1
  <2>3. CASE \E k \in 1..n : c[k] = Entry(o[i]) /\ Len(o) - i = Len(c) - k
    <3>1. PICK k \in 1..n : Len(o) - i = Len(c) - k
      BY <2>3
    <3>2. Len(c) - n = capacity - 1 /\ k <= n
      BY <1>3, <3>1
    <3> QED  BY <1>3, <1>8, <2>1, <3>1, <3>2
  <2> QED  BY <1>10, <2>1, <2>2, <2>3
<1>13. Once(p)
  <2> SUFFICES ASSUME NEW i \in 1..Len(p), NEW j \in 1..Len(p), i < j,
                      p[i].envelope = p[j].envelope
               PROVE  p[j].at = p[j].envelope.expires_at \/ j - i > capacity
    BY DEF Once
  <2>1. i \in 1..Len(o) /\ p[i] = o[i]
    BY <1>8, <1>9
  <2>2. CASE j \in 1..Len(o)
    <3>1. p[j] = o[j]
      BY <1>9, <2>2
    <3> QED  BY <1>2, <2>1, <2>2, <3>1 DEF Once
  <2>3. CASE j = Len(o) + 1
    <3>1. p[j] = y /\ o[i].envelope = e
      BY <1>5, <1>9, <2>1, <2>3
    <3>2. i \in 1..(Len(o) - Len(c))
      <4> SUFFICES ASSUME i > Len(o) - Len(c) PROVE FALSE
        BY <1>8, <2>1
      <4> DEFINE k == i - (Len(o) - Len(c))
      <4>1. k \in 1..Len(c) /\ Len(o) - Len(c) + k = i
        BY <1>8, <2>1
      <4>2. c[k] = Entry(o[i])
        BY <1>2, <4>1 DEF HoldsLast
      <4>3. c[k].nonce = e.nonce
        BY <3>1, <4>2 DEF Entry
      <4> QED  BY <1>6, <4>1, <4>3 DEF Holds
    <3>3. o[i].envelope.expires_at <= now \/ Len(o) - i >= capacity
      BY <1>2, <3>2 DEF Forgotten
    <3>4. CASE e.expires_at <= now
      BY <1>1, <1>4, <1>5, <3>1, <3>4
    <3>5. CASE Len(o) - i >= capacity
      BY <1>8, <2>1, <2>3, <3>5
    <3> QED  BY <3>1, <3>3, <3>4, <3>5
  <2> QED  BY <1>8, <1>9, <2>2, <2>3
<1>14. Len(b) <= capacity
  BY <1>3, <1>8, <1>9
<1> QED  BY <1>7, <1>11, <1>12, <1>13, <1>14 DEF Remembers

LEMMA DeliverRemembers ==
  ASSUME NEW v, Remembers(v), NEW e \in Envelopes
  PROVE  Remembers(Deliver(v, e))
<1> DEFINE d == PurgeExpired(v.cache, v.now)
           w == [v EXCEPT !.cache = d]
<1>1. Remembers(w)
  BY PurgedRemembers
<1>2. v \in Verifiers
  BY DEF Remembers
<1>3. w.cache = d /\ w.obeyed = v.obeyed /\ w.now = v.now
  <2> HIDE DEF d
  <2> QED  BY <1>2 DEF Verifiers
<1>4. CASE VerifyStatus(e, v.now) # "Ok"
  BY <1>4 DEF Deliver
<1>5. CASE VerifyStatus(e, v.now) = "Ok" /\ Holds(d, e.nonce)
  <2>1. Deliver(v, e) = w
    BY <1>5 DEF Deliver
  <2> QED  BY <1>1, <2>1
<1>6. CASE VerifyStatus(e, v.now) = "Ok" /\ ~Holds(d, e.nonce)
  <2> DEFINE b == Append(Evict(d), [nonce |-> e.nonce, expires_at |-> e.expires_at])
             p == Append(v.obeyed, [envelope |-> e, at |-> v.now])
  <2>1. Deliver(v, e) = [v EXCEPT !.cache = b, !.obeyed = p]
    BY <1>6 DEF Deliver
  <2>2. Remembers([w EXCEPT
           !.cache = Append(Evict(w.cache), [nonce |-> e.nonce, expires_at |-> e.expires_at]),
           !.obeyed = Append(w.obeyed, [envelope |-> e, at |-> w.now])])
    <3> HIDE DEF w
    <3> QED  BY <1>1, <1>3, <1>6, ObeyRemembers
  <2>3. [w EXCEPT !.cache = b, !.obeyed = p] = [v EXCEPT !.cache = b, !.obeyed = p]
    <3> HIDE DEF b, p, d
    <3> QED  BY <1>2 DEF Verifiers
  <2>4. Remembers([w EXCEPT !.cache = b, !.obeyed = p])
    <3> HIDE DEF w
    <3> QED  BY <1>3, <2>2
  <2> HIDE DEF w, b, p
  <2> QED  BY <2>1, <2>3, <2>4
<1> QED  BY <1>4, <1>5, <1>6

LEMMA SecondRemembers ==
  ASSUME NEW v, Remembers(v)
  PROVE  Remembers(SecondPasses(v))
<1> DEFINE w == SecondPasses(v)
<1>1. v \in Verifiers /\ v.now \in Nat /\ v.obeyed \in Seq(Obeyed)
  BY DEF Remembers, Verifiers
<1>2. w \in Verifiers /\ w.cache = v.cache /\ w.obeyed = v.obeyed /\ w.now = v.now + 1
  BY <1>1 DEF SecondPasses, Verifiers
<1> HIDE DEF w
<1>3. Forgotten(w.cache, w.obeyed, w.now)
  <2> SUFFICES ASSUME NEW i \in 1..(Len(v.obeyed) - Len(v.cache))
               PROVE  v.obeyed[i].envelope.expires_at <= v.now + 1 \/ Len(v.obeyed) - i >= capacity
    BY <1>2 DEF Forgotten
  <2>1. v.obeyed[i].envelope.expires_at <= v.now \/ Len(v.obeyed) - i >= capacity
    BY DEF Remembers, Forgotten
  <2>2. v.obeyed[i].envelope.expires_at \in Nat
    <3>1. v.cache \in Seq(CacheEntries)
      BY <1>1 DEF Verifiers
    <3>2. i \in 1..Len(v.obeyed)
      BY <1>1, <3>1, LenProperties
    <3>3. v.obeyed[i] \in Obeyed
      BY <1>1, <3>2, ElementOfSeq
    <3>4. v.obeyed[i].envelope \in EnvelopeSet
      BY <3>3, EnvelopeAssumption DEF Obeyed
    <3> QED  BY <3>4 DEF EnvelopeSet
  <2> QED  BY <1>1, <2>1, <2>2
<1>4. Remembers(w)
  BY <1>2, <1>3 DEF Remembers
<1> QED  BY <1>4 DEF w

LEMMA NewRemembers == Remembers(NewVerifier)
<1> DEFINE v == NewVerifier
<1>1. v.now = 0 /\ v.cache = <<>> /\ v.obeyed = <<>> /\ v \in Verifiers
  BY DEF NewVerifier, Verifiers
<1>2. Len(<<>>) = 0 /\ capacity \in Nat
  BY EnvelopeAssumption
<1> HIDE DEF v
<1>3. Remembers(v)
  BY <1>1, <1>2 DEF Remembers, HoldsLast, Forgotten, Once
<1> QED  BY <1>3 DEF v

-----------------------------------------------------------------------------
(* Division. *)

LEMMA TimesMonotone ==
  ASSUME NEW b \in Nat, NEW p \in Int, NEW q \in Int, p <= q
  PROVE  b * p <= b * q
OBVIOUS

LEMMA DivMod ==
  ASSUME NEW a \in Int, NEW b \in Nat \ {0}
  PROVE  /\ a \div b \in Int /\ a % b \in 0..(b - 1)
         /\ a = b * (a \div b) + (a % b)
OBVIOUS

LEMMA DivUnique ==
  ASSUME NEW a \in Int, NEW b \in Nat \ {0}, NEW q \in Int, NEW r \in 0..(b - 1), a = b * q + r
  PROVE  a \div b = q /\ a % b = r
<1>1. /\ a \div b \in Int /\ a % b \in 0..(b - 1)
      /\ a = b * (a \div b) + (a % b)
  BY DivMod
<1>2. CASE q < a \div b
  <2>1. b * (q + 1) <= b * (a \div b)
    BY <1>1, <1>2, TimesMonotone
  <2>2. b * (q + 1) = b * q + b
    OBVIOUS
  <2> QED  BY <1>1, <2>1, <2>2
<1>3. CASE a \div b < q
  <2>1. b * (a \div b + 1) <= b * q
    BY <1>1, <1>3, TimesMonotone
  <2>2. b * (a \div b + 1) = b * (a \div b) + b
    BY <1>1
  <2> QED  BY <1>1, <2>1, <2>2
<1>4. CASE a \div b = q
  BY <1>1, <1>4
<1> QED  BY <1>1, <1>2, <1>3, <1>4

\* k whole periods more are k more in the quotient.
LEMMA DivShift ==
  ASSUME NEW a \in Int, NEW b \in Nat \ {0}, NEW k \in Int
  PROVE  (a + b * k) \div b = a \div b + k /\ (a + b * k) % b = a % b
<1> DEFINE q == a \div b
           r == a % b
<1>1. q \in Int /\ r \in 0..(b - 1) /\ a = b * q + r
  BY DivMod
<1> HIDE DEF q, r
<1>2. a + b * k \in Int /\ q + k \in Int /\ a + b * k = b * (q + k) + r
  BY <1>1
<1>3. (a + b * k) \div b = q + k /\ (a + b * k) % b = r
  BY <1>1, <1>2, DivUnique
<1> QED  BY <1>3 DEF q, r

LEMMA DivBetween ==
  ASSUME NEW a \in Int, NEW b \in Nat \ {0}, NEW q \in Int, NEW r \in Int, a = b * q + r, 0 <= r, r < b
  PROVE  a \div b = q
<1>1. r \in 0..(b - 1)
  OBVIOUS
<1> QED  BY <1>1, DivUnique

\* Division by a number: what the solver needs of it, without the operator.
LEMMA Divide ==
  ASSUME NEW a \in Int, NEW b \in Nat \ {0}
  PROVE  \E q \in Int : q = a \div b /\ b * q <= a /\ a < b * q + b
BY DivMod

LEMMA Divides ==
  ASSUME NEW a \in Int, NEW b \in Nat \ {0}
  PROVE  \E q \in Int : b * q <= a /\ a < b * q + b /\ (a % b = 0 <=> a = b * q)
<1>1. /\ a \div b \in Int /\ a % b \in 0..(b - 1) /\ a = b * (a \div b) + (a % b)
  BY DivMod
<1>2. PICK q \in Int, r \in 0..(b - 1) : a = b * q + r /\ r = a % b
  BY <1>1
<1>3. (a % b = 0 <=> r = 0) /\ (r = 0 <=> a = b * q) /\ b * q <= a /\ a < b * q + b
  BY <1>2
<1> QED  BY <1>3

-----------------------------------------------------------------------------
(* The calendar and the XUNI window. *)

\* The length of a year that begins in March is decided by the February it ends with.
Length(yoe) == IF IsLeap(yoe + 1) THEN 366 ELSE 365

LEMMA YearsFollow ==
  ASSUME NEW p \in Nat, p <= 398
  PROVE  /\ YearStart(p) \in Int /\ YearStart(p + 1) = YearStart(p) + Length(p)
<1>1. PICK f \in Int : f = p \div 4 /\ 4 * f <= p /\ p < 4 * f + 4
  BY Divide
<1>2. PICK g \in Int : g = p \div 100 /\ 100 * g <= p /\ p < 100 * g + 100
  BY Divide
<1>3. PICK n \in Int : n = p + 1
  OBVIOUS
<1>4. PICK f2 \in Int : f2 = n \div 4 /\ 4 * f2 <= n /\ n < 4 * f2 + 4
  BY Divide
<1>5. PICK g2 \in Int : g2 = n \div 100 /\ 100 * g2 <= n /\ n < 100 * g2 + 100
  BY Divide
<1>6. PICK c4 \in Int : 4 * c4 <= n /\ n < 4 * c4 + 4 /\ (n % 4 = 0 <=> n = 4 * c4)
  BY Divides
<1>7. PICK c100 \in Int : 100 * c100 <= n /\ n < 100 * c100 + 100 /\ (n % 100 = 0 <=> n = 100 * c100)
  BY Divides
<1>8. PICK c400 \in Int : 400 * c400 <= n /\ n < 400 * c400 + 400 /\ (n % 400 = 0 <=> n = 400 * c400)
  BY Divides
<1>9. IsLeap(n) <=> n = 4 * c4 /\ (n # 100 * c100 \/ n = 400 * c400)
  BY <1>6, <1>7, <1>8 DEF IsLeap
<1>10. YearStart(p) = p * 365 + f - g /\ YearStart(n) = n * 365 + f2 - g2
  BY <1>1, <1>2, <1>4, <1>5 DEF YearStart
<1>11. Length(p) = IF IsLeap(n) THEN 366 ELSE 365
  BY <1>3 DEF Length
<1>12. /\ 4 * f <= p /\ p < 4 * f + 4 /\ 100 * g <= p /\ p < 100 * g + 100
       /\ 4 * f2 <= n /\ n < 4 * f2 + 4 /\ 100 * g2 <= n /\ n < 100 * g2 + 100
       /\ 4 * c4 <= n /\ n < 4 * c4 + 4 /\ 100 * c100 <= n /\ n < 100 * c100 + 100
       /\ 400 * c400 <= n /\ n < 400 * c400 + 400
  BY <1>1, <1>2, <1>4, <1>5, <1>6, <1>7, <1>8
<1>13. (n = 4 * c4 /\ (n # 100 * c100 \/ n = 400 * c400)) => f2 - g2 = f - g + 1
  BY <1>3, <1>12
<1>14. ~(n = 4 * c4 /\ (n # 100 * c100 \/ n = 400 * c400)) => f2 - g2 = f - g
  BY <1>3, <1>12
<1>15. YearStart(n) = YearStart(p) + Length(p)
  BY <1>3, <1>9, <1>10, <1>11, <1>13, <1>14
<1> QED  BY <1>3, <1>10, <1>15

\* civil_from_days finds the year that a day of the era falls in.
LEMMA YearFound ==
  ASSUME NEW doe \in Nat, doe <= 146096
  PROVE  /\ YearOf(doe) \in Nat /\ YearOf(doe) <= 399
         /\ YearStart(YearOf(doe)) \in Int
         /\ YearStart(YearOf(doe)) <= doe
         /\ doe < YearStart(YearOf(doe)) + Length(YearOf(doe))
<1>1. PICK a \in Int : a = doe \div 1460 /\ 1460 * a <= doe /\ doe < 1460 * a + 1460
  BY Divide
<1>2. PICK b \in Int : b = doe \div 36524 /\ 36524 * b <= doe /\ doe < 36524 * b + 36524
  BY Divide
<1>3. PICK c \in Int : c = doe \div 146096 /\ 146096 * c <= doe /\ doe < 146096 * c + 146096
  BY Divide
<1>4. PICK e \in Int : e = doe - a + b - c
  OBVIOUS
<1>5. PICK y \in Int : y = e \div 365 /\ 365 * y <= e /\ e < 365 * y + 365
  BY Divide
<1>6. PICK f \in Int : f = y \div 4 /\ 4 * f <= y /\ y < 4 * f + 4
  BY Divide
<1>7. PICK g \in Int : g = y \div 100 /\ 100 * g <= y /\ y < 100 * g + 100
  BY Divide
<1>8. PICK n \in Int : n = y + 1
  OBVIOUS
<1>9. PICK c4 \in Int : 4 * c4 <= n /\ n < 4 * c4 + 4 /\ (n % 4 = 0 <=> n = 4 * c4)
  BY Divides
<1>10. PICK c100 \in Int : 100 * c100 <= n /\ n < 100 * c100 + 100 /\ (n % 100 = 0 <=> n = 100 * c100)
  BY Divides
<1>11. PICK c400 \in Int : 400 * c400 <= n /\ n < 400 * c400 + 400 /\ (n % 400 = 0 <=> n = 400 * c400)
  BY Divides
<1>12. /\ 1460 * a <= doe /\ doe < 1460 * a + 1460 /\ 36524 * b <= doe /\ doe < 36524 * b + 36524
       /\ 146096 * c <= doe /\ doe < 146096 * c + 146096 /\ 365 * y <= e /\ e < 365 * y + 365
       /\ 4 * f <= y /\ y < 4 * f + 4 /\ 100 * g <= y /\ y < 100 * g + 100
  BY <1>1, <1>2, <1>3, <1>5, <1>6, <1>7
<1>13. /\ 4 * c4 <= n /\ n < 4 * c4 + 4 /\ 100 * c100 <= n /\ n < 100 * c100 + 100
       /\ 400 * c400 <= n /\ n < 400 * c400 + 400
  BY <1>9, <1>10, <1>11
<1>14. YearOf(doe) = y
  BY <1>1, <1>2, <1>3, <1>4, <1>5 DEF YearOf
<1>15. YearStart(y) = y * 365 + f - g
  BY <1>6, <1>7 DEF YearStart
<1>16. IsLeap(n) <=> n = 4 * c4 /\ (n # 100 * c100 \/ n = 400 * c400)
  BY <1>9, <1>10, <1>11 DEF IsLeap
<1>17. y \in Nat /\ y <= 399 /\ y * 365 + f - g <= doe
  BY <1>4, <1>12
<1>18. doe < y * 365 + f - g + 366
  BY <1>4, <1>12, <1>17
<1>19. ~(n = 4 * c4 /\ (n # 100 * c100 \/ n = 400 * c400)) => doe < y * 365 + f - g + 365
  BY <1>4, <1>8, <1>12, <1>13, <1>17
<1>20. Length(y) = IF IsLeap(n) THEN 366 ELSE 365
  BY <1>8 DEF Length
<1>21. doe < YearStart(y) + Length(y)
  BY <1>15, <1>16, <1>17, <1>18, <1>19, <1>20
<1> QED  BY <1>14, <1>15, <1>17, <1>21

\* Years follow one another.
LEMMA YearsOrdered ==
  ASSUME NEW p \in Nat, NEW q \in Nat, p < q, q <= 399
  PROVE  YearStart(q) \in Int /\ YearStart(p) \in Int /\ YearStart(p) + Length(p) <= YearStart(q)
<1>1. PICK n \in Nat : n = p + 1
  OBVIOUS
<1>2. YearStart(p) \in Int /\ YearStart(n) = YearStart(p) + Length(p)
  BY <1>1, YearsFollow
<1>3. PICK f \in Int : f = n \div 4 /\ 4 * f <= n /\ n < 4 * f + 4
  BY Divide
<1>4. PICK g \in Int : g = n \div 100 /\ 100 * g <= n /\ n < 100 * g + 100
  BY Divide
<1>5. PICK f2 \in Int : f2 = q \div 4 /\ 4 * f2 <= q /\ q < 4 * f2 + 4
  BY Divide
<1>6. PICK g2 \in Int : g2 = q \div 100 /\ 100 * g2 <= q /\ q < 100 * g2 + 100
  BY Divide
<1>7. YearStart(n) = n * 365 + f - g /\ YearStart(q) = q * 365 + f2 - g2
  BY <1>3, <1>4, <1>5, <1>6 DEF YearStart
<1>8. /\ 4 * f <= n /\ n < 4 * f + 4 /\ 100 * g <= n /\ n < 100 * g + 100
      /\ 4 * f2 <= q /\ q < 4 * f2 + 4 /\ 100 * g2 <= q /\ q < 100 * g2 + 100 /\ n <= q
  BY <1>1, <1>3, <1>4, <1>5, <1>6
<1>9. n * 365 + f - g <= q * 365 + f2 - g2
  BY <1>8
<1> QED  BY <1>2, <1>7, <1>9

\* A day falls in one year.
LEMMA YearUnique ==
  ASSUME NEW doe \in Nat, doe <= 146096, NEW yoe \in Nat, yoe <= 399, YearStart(yoe) \in Int,
         YearStart(yoe) <= doe, doe < YearStart(yoe) + Length(yoe)
  PROVE  YearOf(doe) = yoe
<1> DEFINE y == YearOf(doe)
<1>1. /\ y \in Nat /\ y <= 399 /\ YearStart(y) \in Int
      /\ YearStart(y) <= doe /\ doe < YearStart(y) + Length(y)
  BY YearFound
<1>2. Length(y) \in Int /\ Length(yoe) \in Int
  BY DEF Length
<1> HIDE DEF y
<1>3. ~(y < yoe)
  <2> SUFFICES ASSUME y < yoe PROVE FALSE
    OBVIOUS
  <2>1. YearStart(y) + Length(y) <= YearStart(yoe)
    BY <1>1, YearsOrdered
  <2> QED  BY <1>1, <1>2, <2>1
<1>4. ~(yoe < y)
  <2> SUFFICES ASSUME yoe < y PROVE FALSE
    OBVIOUS
  <2>1. YearStart(yoe) + Length(yoe) <= YearStart(y)
    BY <1>1, YearsOrdered
  <2> QED  BY <1>1, <1>2, <2>1
<1>5. y = yoe
  BY <1>1, <1>3, <1>4
<1> QED  BY <1>5 DEF y

\* The last year of an era ends with it, on a 29 February.
LEMMA EraEnds == YearStart(399) = 145731 /\ Length(399) = 366 /\ YearStart(0) = 0 /\ YearOf(0) = 0
<1>1. 399 \div 4 = 99 /\ 399 \div 100 = 3 /\ 0 \div 4 = 0 /\ 0 \div 100 = 0
  OBVIOUS
<1>2. 400 % 4 = 0 /\ 400 % 400 = 0 /\ 399 + 1 = 400
  OBVIOUS
<1>3. 0 \div 1460 = 0 /\ 0 \div 36524 = 0 /\ 0 \div 146096 = 0 /\ 0 \div 365 = 0
  OBVIOUS
<1>4. YearStart(399) = 145731 /\ YearStart(0) = 0
  BY <1>1 DEF YearStart
<1>5. Length(399) = 366
  BY <1>2 DEF Length, IsLeap
<1>6. YearOf(0) = 0
  BY <1>3 DEF YearOf
<1> QED  BY <1>4, <1>5, <1>6

\* The months from March: the one that day doy falls in.
LEMMA MonthFound ==
  ASSUME NEW doy \in Nat, doy <= 365
  PROVE  /\ MonthOf(doy) \in Nat /\ MonthOf(doy) <= 11 /\ MonthStart(MonthOf(doy)) \in Int
         /\ MonthStart(MonthOf(doy)) <= doy /\ doy <= MonthStart(MonthOf(doy)) + 30
         /\ MonthOf(doy) = 11 <=> doy >= 337
         /\ MonthOf(doy) >= 10 <=> doy >= 306
         /\ MonthOf(doy) = 11 => MonthStart(MonthOf(doy)) = 337
<1>1. PICK k \in Int : k = 5 * doy + 2
  OBVIOUS
<1>2. PICK mp \in Int : mp = k \div 153 /\ 153 * mp <= k /\ k < 153 * mp + 153
  BY Divide
<1>3. PICK j \in Int : j = 153 * mp + 2
  OBVIOUS
<1>4. PICK s \in Int : s = j \div 5 /\ 5 * s <= j /\ j < 5 * s + 5
  BY Divide
<1>5. MonthOf(doy) = mp /\ MonthStart(mp) = s
  BY <1>1, <1>2, <1>3, <1>4 DEF MonthOf, MonthStart
<1>6. /\ 153 * mp <= k /\ k < 153 * mp + 153 /\ 5 * s <= j /\ j < 5 * s + 5
  BY <1>2, <1>4
<1>7. mp \in Nat /\ mp <= 11 /\ s <= doy /\ doy <= s + 30
  BY <1>1, <1>3, <1>6
<1>8. (mp = 11 <=> doy >= 337) /\ (mp >= 10 <=> doy >= 306) /\ (mp = 11 => s = 337)
  BY <1>1, <1>3, <1>6, <1>7
<1> QED  BY <1>5, <1>7, <1>8

Short(mp) == mp = 1 \/ mp = 3 \/ mp = 6 \/ mp = 8

\* And the one of the day after, unless the year ends.
LEMMA MonthStep ==
  ASSUME NEW doy \in Nat, doy <= 364
  PROVE  LET mp == MonthOf(doy)
             d == doy - MonthStart(mp) + 1
         IN  \/ /\ MonthOf(doy + 1) = mp
                /\ mp # 11 => d < (IF Short(mp) THEN 30 ELSE 31)
             \/ /\ MonthOf(doy + 1) = mp + 1 /\ MonthStart(mp + 1) = doy + 1
                /\ mp < 11 /\ d = (IF Short(mp) THEN 30 ELSE 31)
<1>1. PICK k \in Int : k = 5 * doy + 2
  OBVIOUS
<1>2. PICK mp \in Int : mp = k \div 153 /\ 153 * mp <= k /\ k < 153 * mp + 153
  BY Divide
<1>3. PICK j \in Int : j = 153 * mp + 2
  OBVIOUS
<1>4. PICK s \in Int : s = j \div 5 /\ 5 * s <= j /\ j < 5 * s + 5
  BY Divide
<1>5. PICK k2 \in Int : k2 = 5 * (doy + 1) + 2
  OBVIOUS
<1>6. PICK mp2 \in Int : mp2 = k2 \div 153 /\ 153 * mp2 <= k2 /\ k2 < 153 * mp2 + 153
  BY Divide
<1>7. PICK j2 \in Int : j2 = 153 * (mp + 1) + 2
  OBVIOUS
<1>8. PICK t \in Int : t = j2 \div 5 /\ 5 * t <= j2 /\ j2 < 5 * t + 5
  BY Divide
<1>9. MonthOf(doy) = mp /\ MonthStart(mp) = s /\ MonthOf(doy + 1) = mp2 /\ MonthStart(mp + 1) = t
  BY <1>1, <1>2, <1>3, <1>4, <1>5, <1>6, <1>7, <1>8 DEF MonthOf, MonthStart
<1>10. /\ 153 * mp <= k /\ k < 153 * mp + 153 /\ 5 * s <= j /\ j < 5 * s + 5
       /\ 153 * mp2 <= k2 /\ k2 < 153 * mp2 + 153 /\ 5 * t <= j2 /\ j2 < 5 * t + 5
  BY <1>2, <1>4, <1>6, <1>8
<1>11. mp >= 0 /\ mp <= 11
  BY <1>1, <1>10
<1>12. CASE mp2 = mp
  <2>1. mp # 11 /\ Short(mp) => doy - s + 1 < 30
    BY <1>1, <1>3, <1>5, <1>7, <1>10, <1>11, <1>12 DEF Short
  <2>2. mp # 11 => doy - s + 1 < 31
    BY <1>1, <1>3, <1>5, <1>7, <1>10, <1>11, <1>12
  <2> QED  BY <1>9, <1>12, <2>1, <2>2
<1>13. CASE mp2 # mp
  <2>1. mp2 = mp + 1 /\ mp < 11 /\ t = doy + 1
    BY <1>1, <1>3, <1>5, <1>7, <1>10, <1>11, <1>13
  <2>2. Short(mp) => doy - s + 1 = 30
    BY <1>1, <1>3, <1>5, <1>7, <1>10, <1>11, <1>13, <2>1 DEF Short
  <2>3. ~Short(mp) => doy - s + 1 = 31
    BY <1>1, <1>3, <1>5, <1>7, <1>10, <1>11, <1>13, <2>1 DEF Short
  <2> QED  BY <1>9, <2>1, <2>2, <2>3
<1> QED  BY <1>12, <1>13

\* floor_div and the eras are division with a remainder that is not negative.
LEMMA FloorDivIsDiv ==
  ASSUME NEW a \in Int, NEW b \in Nat \ {0}
  PROVE  FloorDiv(a, b) = a \div b
<1>1. CASE a >= 0
  BY <1>1 DEF FloorDiv, Quotient
<1>2. CASE a < 0
  <2>1. -a \in Int /\ -a >= 0
    BY <1>2
  <2>2. PICK q \in Int, r \in 0..(b - 1) : q = (-a) \div b /\ -a = b * q + r
    <3>1. /\ (-a) \div b \in Int /\ (-a) % b \in 0..(b - 1)
          /\ -a = b * ((-a) \div b) + ((-a) % b)
      BY <2>1, DivMod
    <3> QED  BY <3>1
  <2>3. Quotient(a, b) = -q
    BY <1>2, <2>2 DEF Quotient
  <2>4. b * (-q) = -(b * q) /\ b * (-q - 1) = -(b * q) - b /\ b * q \in Int
    BY <2>2
  <2>5. Remainder(a, b) = 0 - r
    BY <2>2, <2>3, <2>4 DEF Remainder
  <2>6. CASE r = 0
    <3>1. a = b * (-q) + 0 /\ -q \in Int /\ 0 \in 0..(b - 1)
      BY <2>2, <2>4, <2>6
    <3>2. a \div b = -q
      BY <3>1, DivUnique
    <3>3. 0 - r = 0
      BY <2>6
    <3>4. Remainder(a, b) = 0
      BY <2>5, <3>3
    <3> QED  BY <2>3, <3>2, <3>4 DEF FloorDiv
  <2>7. CASE r # 0
    <3>1. a = b * (-q - 1) + (b - r) /\ -q - 1 \in Int /\ b - r \in 0..(b - 1)
      BY <2>2, <2>4, <2>7
    <3>2. a \div b = -q - 1
      BY <3>1, DivUnique
    <3>3. 0 - r # 0
      BY <2>2, <2>7
    <3>4. FloorDiv(a, b) = -q - 1
      BY <1>2, <2>3, <2>5, <3>3 DEF FloorDiv
    <3> QED  BY <3>2, <3>4
  <2> QED  BY <2>6, <2>7
<1> QED  BY <1>1, <1>2

LEMMA EraIsDiv ==
  ASSUME NEW n \in Int, NEW b \in Nat \ {0}
  PROVE  EraOf(n, b) = n \div b
<1>1. CASE n >= 0
  BY <1>1 DEF EraOf, Quotient
<1>2. CASE n < 0
  <2>1. PICK q \in Int, r \in 0..(b - 1) : q = n \div b /\ n = b * q + r
    <3>1. /\ n \div b \in Int /\ n % b \in 0..(b - 1) /\ n = b * (n \div b) + (n % b)
      BY DivMod
    <3> QED  BY <3>1
  <2>2. PICK m \in Int : m = -(n - (b - 1))
    OBVIOUS
  <2>3. b * (-q) = -(b * q) /\ b * q \in Int
    BY <2>1
  <2>4. m = b * (-q) + (b - 1 - r) /\ -q \in Int /\ b - 1 - r \in 0..(b - 1)
    BY <2>1, <2>2, <2>3
  <2>5. m \div b = -q
    BY <2>2, <2>4, DivUnique
  <2>6. n - (b - 1) < 0
    BY <1>2
  <2>7. EraOf(n, b) = -(m \div b)
    BY <1>2, <2>2, <2>6 DEF EraOf, Quotient
  <2> QED  BY <2>1, <2>5, <2>7
<1> QED  BY <1>1, <1>2

\* The leap years repeat with the eras.
LEMMA LeapsRepeat ==
  ASSUME NEW n \in Int, NEW era \in Int
  PROVE  IsLeap(n + era * 400) <=> IsLeap(n)
<1>1. PICK m \in Int : m = n + era * 400
  OBVIOUS
<1>2. m = n + 4 * (100 * era) /\ m = n + 100 * (4 * era) /\ m = n + 400 * era
  BY <1>1
<1>3. 100 * era \in Int /\ 4 * era \in Int
  OBVIOUS
<1>4. m % 4 = n % 4
  BY <1>2, <1>3, DivShift
<1>5. m % 100 = n % 100
  BY <1>2, <1>3, DivShift
<1>6. m % 400 = n % 400
  BY <1>2, <1>3, DivShift
<1>7. IsLeap(m) <=> IsLeap(n)
  BY <1>4, <1>5, <1>6 DEF IsLeap
<1> QED  BY <1>1, <1>7

\* Day d of the month with number mp from March, in the year that began with March of year y.
DateOn(y, mp, d) ==
  IF mp < 10 THEN [y |-> y, m |-> mp + 3, d |-> d] ELSE [y |-> y + 1, m |-> mp - 9, d |-> d]

LEMMA DateFields ==
  ASSUME NEW era \in Int, NEW yoe \in Nat, NEW doy \in Nat, doy <= 365
  PROVE  DateOf(era, yoe, doy) =
           DateOn(yoe + era * 400, MonthOf(doy), doy - MonthStart(MonthOf(doy)) + 1)
<1>1. PICK mp \in Nat : mp = MonthOf(doy) /\ mp <= 11
  BY MonthFound
<1>2. CASE mp < 10
  <2>1. yoe + era * 400 + 0 = yoe + era * 400 /\ ~(mp + 3 <= 2)
    OBVIOUS
  <2> QED  BY <1>1, <1>2, <2>1 DEF DateOf, DateOn
<1>3. CASE ~(mp < 10)
  <2>1. mp - 9 <= 2
    BY <1>1
  <2> QED  BY <1>1, <1>3, <2>1 DEF DateOf, DateOn
<1> QED  BY <1>2, <1>3

\* How long the month with number mp from March is.
LEMMA LengthOfMonth ==
  ASSUME NEW y, NEW mp \in Nat, mp <= 10
  PROVE  MonthLength(y, IF mp < 10 THEN mp + 3 ELSE mp - 9) = IF Short(mp) THEN 30 ELSE 31
<1>1. PICK m \in Int : m = IF mp < 10 THEN mp + 3 ELSE mp - 9
  OBVIOUS
<1>2. Short(mp) <=> m \in {4, 6, 9, 11}
  BY <1>1 DEF Short
<1>3. m # 2
  BY <1>1
<1>4. MonthLength(y, m) = IF m \in {4, 6, 9, 11} THEN 30 ELSE 31
  BY <1>3 DEF MonthLength
<1> QED  BY <1>1, <1>2, <1>4

LEMMA LengthOfFebruary ==
  ASSUME NEW era \in Int, NEW yoe \in Nat
  PROVE  MonthLength(yoe + era * 400 + 1, 2) = Length(yoe) - 337
<1>1. IsLeap((yoe + 1) + era * 400) <=> IsLeap(yoe + 1)
  <2>1. yoe + 1 \in Int
    OBVIOUS
  <2> QED  BY <2>1, LeapsRepeat
<1>2. (yoe + 1) + era * 400 = yoe + era * 400 + 1
  OBVIOUS
<1>3. MonthLength(yoe + era * 400 + 1, 2) = IF IsLeap(yoe + era * 400 + 1) THEN 29 ELSE 28
  BY DEF MonthLength
<1>4. 366 - 337 = 29 /\ 365 - 337 = 28
  OBVIOUS
<1> QED  BY <1>1, <1>2, <1>3, <1>4 DEF Length

LEMMA DayAfterFields ==
  ASSUME NEW y \in Int, NEW m \in Int, NEW d \in Int
  PROVE  DayAfter([y |-> y, m |-> m, d |-> d]) =
           IF d < MonthLength(y, m) THEN [y |-> y, m |-> m, d |-> d + 1]
           ELSE IF m < 12 THEN [y |-> y, m |-> m + 1, d |-> 1]
           ELSE [y |-> y + 1, m |-> 1, d |-> 1]
<1> DEFINE date == [y |-> y, m |-> m, d |-> d]
<1>1. date.y = y /\ date.m = m /\ date.d = d
  OBVIOUS
<1>2. /\ [date EXCEPT !.d = @ + 1] = [y |-> y, m |-> m, d |-> d + 1]
  OBVIOUS
<1>3. [date EXCEPT !.m = @ + 1, !.d = 1] = [y |-> y, m |-> m + 1, d |-> 1]
  <2> DEFINE later == [date EXCEPT !.m = @ + 1]
  <2>1. later = [y |-> y, m |-> m + 1, d |-> d]
    OBVIOUS
  <2>2. [date EXCEPT !.m = @ + 1, !.d = 1] = [later EXCEPT !.d = 1]
    OBVIOUS
  <2> HIDE DEF date, later
  <2>3. [later EXCEPT !.d = 1] = [y |-> y, m |-> m + 1, d |-> 1]
    BY <2>1
  <2> QED  BY <2>2, <2>3
<1> HIDE DEF date
<1>4. DayAfter(date) =
        IF d < MonthLength(y, m) THEN [y |-> y, m |-> m, d |-> d + 1]
        ELSE IF m < 12 THEN [y |-> y, m |-> m + 1, d |-> 1]
        ELSE [y |-> y + 1, m |-> 1, d |-> 1]
  BY <1>1, <1>2, <1>3 DEF DayAfter
<1> QED  BY <1>4 DEF date

\* The day after, within a year.
LEMMA NextInYear ==
  ASSUME NEW era \in Int, NEW yoe \in Nat, NEW doy \in Nat, doy + 1 < Length(yoe)
  PROVE  DateOf(era, yoe, doy + 1) = DayAfter(DateOf(era, yoe, doy))
<1>1. Length(yoe) \in Int /\ Length(yoe) <= 366
  BY DEF Length
<1>2. doy <= 364
  BY <1>1
<1>3. PICK mp \in Nat : mp = MonthOf(doy) /\ mp <= 11
  BY <1>2, MonthFound
<1>4. PICK s \in Int : s = MonthStart(mp)
  BY <1>2, <1>3, MonthFound
<1>5. mp = 11 => s = 337
  BY <1>2, <1>3, <1>4, MonthFound
<1>6. PICK d \in Int : d = doy - s + 1
  OBVIOUS
<1>7. PICK y \in Int, m \in Int :
        /\ y = yoe + era * 400 + (IF mp < 10 THEN 0 ELSE 1)
        /\ m = IF mp < 10 THEN mp + 3 ELSE mp - 9
  OBVIOUS
<1>8. DateOf(era, yoe, doy) = [y |-> y, m |-> m, d |-> d]
  <2>1. DateOf(era, yoe, doy) = DateOn(yoe + era * 400, mp, d)
    <3>1. DateOf(era, yoe, doy) =
            DateOn(yoe + era * 400, MonthOf(doy), doy - MonthStart(MonthOf(doy)) + 1)
      BY <1>2, DateFields
    <3> QED  BY <1>3, <1>4, <1>6, <3>1
  <2> QED  BY <1>7, <2>1 DEF DateOn
<1>9. CASE MonthOf(doy + 1) = mp /\ (mp # 11 => d < (IF Short(mp) THEN 30 ELSE 31))
  <2>1. DateOf(era, yoe, doy + 1) = [y |-> y, m |-> m, d |-> (doy + 1) - s + 1]
    <3>1. doy + 1 \in Nat /\ doy + 1 <= 365
      BY <1>2
    <3>2. DateOf(era, yoe, doy + 1) =
            DateOn(yoe + era * 400, MonthOf(doy + 1), (doy + 1) - MonthStart(MonthOf(doy + 1)) + 1)
      BY <3>1, DateFields
    <3>3. DateOf(era, yoe, doy + 1) = DateOn(yoe + era * 400, mp, (doy + 1) - s + 1)
      BY <1>4, <1>9, <3>2
    <3> QED  BY <1>7, <3>3 DEF DateOn
  <2>2. (doy + 1) - s + 1 = d + 1
    BY <1>6
  <2>3. d < MonthLength(y, m)
    <3>1. CASE mp = 11
      <4>1. MonthLength(y, m) = Length(yoe) - 337
        <5>1. y = yoe + era * 400 + 1 /\ m = 2
          BY <1>7, <3>1
        <5> QED  BY <5>1, LengthOfFebruary
      <4> QED  BY <1>1, <1>5, <1>6, <3>1, <4>1
    <3>2. CASE mp # 11
      <4>1. MonthLength(y, m) = IF Short(mp) THEN 30 ELSE 31
        <5>1. mp <= 10
          BY <1>3, <3>2
        <5> QED  BY <1>7, <5>1, LengthOfMonth
      <4> QED  BY <1>9, <3>2, <4>1
    <3> QED  BY <3>1, <3>2
  <2>4. DayAfter([y |-> y, m |-> m, d |-> d]) = [y |-> y, m |-> m, d |-> d + 1]
    BY <2>3, DayAfterFields
  <2> QED  BY <1>8, <2>1, <2>2, <2>4
<1>10. CASE /\ MonthOf(doy + 1) = mp + 1 /\ MonthStart(mp + 1) = doy + 1
            /\ mp < 11 /\ d = (IF Short(mp) THEN 30 ELSE 31)
  <2>1. MonthLength(y, m) = d
    <3>1. mp <= 10
      BY <1>3, <1>10
    <3>2. MonthLength(y, m) = IF Short(mp) THEN 30 ELSE 31
      BY <1>7, <3>1, LengthOfMonth
    <3> QED  BY <1>10, <3>2
  <2>2. ~(d < MonthLength(y, m))
    BY <2>1
  <2>3. DayAfter([y |-> y, m |-> m, d |-> d]) =
          IF m < 12 THEN [y |-> y, m |-> m + 1, d |-> 1] ELSE [y |-> y + 1, m |-> 1, d |-> 1]
    BY <2>2, DayAfterFields
  <2>4. (doy + 1) - MonthStart(mp + 1) + 1 = 1
    BY <1>10
  <2>5. DateOf(era, yoe, doy + 1) =
          IF mp + 1 < 10 THEN [y |-> yoe + era * 400, m |-> (mp + 1) + 3, d |-> 1]
          ELSE [y |-> yoe + era * 400 + 1, m |-> (mp + 1) - 9, d |-> 1]
    <3>1. doy + 1 \in Nat /\ doy + 1 <= 365
      BY <1>2
    <3>2. DateOf(era, yoe, doy + 1) =
            DateOn(yoe + era * 400, MonthOf(doy + 1), (doy + 1) - MonthStart(MonthOf(doy + 1)) + 1)
      BY <3>1, DateFields
    <3>3. DateOf(era, yoe, doy + 1) = DateOn(yoe + era * 400, mp + 1, 1)
      BY <1>10, <2>4, <3>2
    <3> QED  BY <3>3 DEF DateOn
  <2>6. CASE mp < 9
    <3>1. y = yoe + era * 400 /\ m < 12 /\ m + 1 = (mp + 1) + 3 /\ mp + 1 < 10
      BY <1>7, <2>6
    <3> QED  BY <1>8, <2>3, <2>5, <3>1
  <2>7. CASE mp = 9
    <3>1. y = yoe + era * 400 /\ ~(m < 12) /\ 1 = (mp + 1) - 9 /\ ~(mp + 1 < 10)
      BY <1>7, <2>7
    <3> QED  BY <1>8, <2>3, <2>5, <3>1
  <2>8. CASE mp > 9
    <3>1. y = yoe + era * 400 + 1 /\ m < 12 /\ m + 1 = (mp + 1) - 9 /\ ~(mp + 1 < 10)
      BY <1>7, <1>10, <2>8
    <3> QED  BY <1>8, <2>3, <2>5, <3>1
  <2> QED  BY <2>6, <2>7, <2>8
<1> QED  BY <1>2, <1>3, <1>4, <1>6, <1>9, <1>10, MonthStep

\* The day after the last of a year that began in March is the 1 March of the next.
LEMMA NextYear ==
  ASSUME NEW era \in Int, NEW yoe \in Nat, NEW doy \in Nat, doy + 1 = Length(yoe),
         NEW e \in Int, NEW n \in Nat, n + e * 400 = yoe + era * 400 + 1
  PROVE  DateOf(e, n, 0) = DayAfter(DateOf(era, yoe, doy))
<1>1. Length(yoe) \in Int /\ (Length(yoe) = 365 \/ Length(yoe) = 366)
  BY DEF Length
<1>2. doy <= 365 /\ doy >= 337
  BY <1>1
<1>3. MonthOf(doy) = 11 /\ MonthStart(11) = 337
  BY <1>2, MonthFound
<1>4. PICK y \in Int : y = yoe + era * 400 + 1
  OBVIOUS
<1>5. DateOf(era, yoe, doy) = [y |-> y, m |-> 2, d |-> doy - 337 + 1]
  <2>1. 11 \in Nat /\ 11 <= 11 /\ ~(11 < 10) /\ 11 - 9 = 2
    OBVIOUS
  <2>2. DateOf(era, yoe, doy) =
          DateOn(yoe + era * 400, MonthOf(doy), doy - MonthStart(MonthOf(doy)) + 1)
    BY <1>2, DateFields
  <2>3. DateOf(era, yoe, doy) = DateOn(yoe + era * 400, 11, doy - 337 + 1)
    BY <1>3, <2>2
  <2> QED  BY <1>4, <2>1, <2>3 DEF DateOn
<1>6. PICK d \in Int : d = doy - 337 + 1
  OBVIOUS
<1>7. MonthLength(y, 2) = d
  <2>1. MonthLength(y, 2) = Length(yoe) - 337
    BY <1>4, LengthOfFebruary
  <2> QED  BY <1>1, <1>6, <2>1
<1>8. DayAfter([y |-> y, m |-> 2, d |-> d]) = [y |-> y, m |-> 3, d |-> 1]
  <2>1. PICK m \in Int : m = 2
    OBVIOUS
  <2>2. DayAfter([y |-> y, m |-> m, d |-> d]) =
           IF d < MonthLength(y, m) THEN [y |-> y, m |-> m, d |-> d + 1]
           ELSE IF m < 12 THEN [y |-> y, m |-> m + 1, d |-> 1]
           ELSE [y |-> y + 1, m |-> 1, d |-> 1]
    BY DayAfterFields
  <2>3. ~(d < MonthLength(y, m)) /\ m < 12 /\ m + 1 = 3
    BY <1>7, <2>1
  <2> QED  BY <2>1, <2>2, <2>3
<1>9. MonthOf(0) = 0 /\ MonthStart(0) = 0
  <2>1. (5 * 0 + 2) \div 153 = 0 /\ (153 * 0 + 2) \div 5 = 0
    OBVIOUS
  <2> QED  BY <2>1 DEF MonthOf, MonthStart
<1>10. DateOf(e, n, 0) = [y |-> y, m |-> 3, d |-> 1]
  <2>1. 0 \in Nat /\ 0 <= 11 /\ 0 < 10 /\ 0 + 3 = 3 /\ 0 - 0 + 1 = 1
    OBVIOUS
  <2>2. DateOf(e, n, 0) = DateOn(n + e * 400, MonthOf(0), 0 - MonthStart(MonthOf(0)) + 1)
    BY DateFields
  <2>3. DateOf(e, n, 0) = DateOn(n + e * 400, 0, 1)
    BY <1>9, <2>1, <2>2
  <2> QED  BY <1>4, <2>1, <2>3 DEF DateOn
<1> QED  BY <1>5, <1>6, <1>8, <1>10

\* The number of day `doy' of year `yoe' of an era.
DayNumber(era, yoe, doy) == era * 146097 + YearStart(yoe) + doy - 719468

\* Where a day number falls: day `doy' of year `yoe' of an era.
Falls(days, era, yoe, doy) ==
  /\ era \in Int /\ yoe \in Nat /\ yoe <= 399 /\ doy \in Nat
  /\ YearStart(yoe) \in Int /\ doy < Length(yoe)
  /\ days = DayNumber(era, yoe, doy)
  /\ YearStart(yoe) + doy <= 146096
  /\ CivilFromDays(days) = DateOf(era, yoe, doy)

LEMMA DayFalls ==
  ASSUME NEW days \in Int
  PROVE  \E era \in Int, yoe \in Nat, doy \in Nat : Falls(days, era, yoe, doy)
<1>1. PICK z \in Int : z = days + 719468
  OBVIOUS
<1>2. PICK era \in Int : era = z \div 146097 /\ 146097 * era <= z /\ z < 146097 * era + 146097
  BY Divide
<1>3. EraOf(z, 146097) = era
  BY <1>2, EraIsDiv
<1>4. PICK doe \in Nat : doe = z - era * 146097 /\ doe <= 146096
  BY <1>2
<1>5. PICK yoe \in Nat :
        /\ yoe = YearOf(doe) /\ yoe <= 399 /\ YearStart(yoe) \in Int /\ YearStart(yoe) <= doe
        /\ doe < YearStart(yoe) + Length(yoe)
  BY <1>4, YearFound
<1>6. PICK doy \in Nat : doy = doe - YearStart(yoe)
  BY <1>5
<1>7. CivilFromDays(days) = DateOf(era, yoe, doy)
  BY <1>1, <1>3, <1>4, <1>5, <1>6 DEF CivilFromDays
<1>8. Length(yoe) \in Int
  BY DEF Length
<1>9. doy < Length(yoe) /\ YearStart(yoe) + doy = doe
  BY <1>5, <1>6, <1>8
<1>10. days = DayNumber(era, yoe, doy)
  BY <1>1, <1>4, <1>5, <1>9 DEF DayNumber
<1>11. Falls(days, era, yoe, doy)
  BY <1>4, <1>5, <1>7, <1>9, <1>10 DEF Falls
<1> QED  BY <1>11

Era(z) == EraOf(z, 146097)
InEra(z, era, doe) == doe \in Nat /\ doe <= 146096 /\ z = era * 146097 + doe

LEMMA EraFound ==
  ASSUME NEW z \in Int
  PROVE  \E e \in Int : Era(z) = e /\ 146097 * e <= z /\ z < 146097 * e + 146097
<1>1. PICK e \in Int : e = z \div 146097 /\ 146097 * e <= z /\ z < 146097 * e + 146097
  BY Divide
<1>2. EraOf(z, 146097) = e
  BY <1>1, EraIsDiv
<1> QED  BY <1>1, <1>2 DEF Era

LEMMA EraAt ==
  ASSUME NEW z \in Int, NEW era \in Int, NEW doe, InEra(z, era, doe)
  PROVE  Era(z) = era
<1>1. PICK e \in Int : Era(z) = e /\ 146097 * e <= z /\ z < 146097 * e + 146097
  BY EraFound
<1>2. doe \in Nat /\ doe <= 146096 /\ z = era * 146097 + doe
  BY DEF InEra
<1>3. e = era
  BY <1>1, <1>2
<1> QED  BY <1>1, <1>3

LEMMA StartNotNegative ==
  ASSUME NEW yoe \in Nat, yoe <= 399
  PROVE  YearStart(yoe) \in Int /\ YearStart(yoe) >= 0
<1>1. PICK f \in Int : f = yoe \div 4 /\ 4 * f <= yoe /\ yoe < 4 * f + 4
  BY Divide
<1>2. PICK g \in Int : g = yoe \div 100 /\ 100 * g <= yoe /\ yoe < 100 * g + 100
  BY Divide
<1>3. YearStart(yoe) = yoe * 365 + f - g
  BY <1>1, <1>2 DEF YearStart
<1>4. 4 * f <= yoe /\ yoe < 4 * f + 4 /\ 100 * g <= yoe /\ yoe < 100 * g + 100
  BY <1>1, <1>2
<1>5. yoe * 365 + f - g >= 0
  BY <1>4
<1> QED  BY <1>3, <1>5

LEMMA CivilOf ==
  ASSUME NEW days \in Int, NEW era \in Int, NEW yoe \in Nat, yoe <= 399, NEW doy \in Nat,
         YearStart(yoe) + doy <= 146096, doy < Length(yoe), days = DayNumber(era, yoe, doy)
  PROVE  CivilFromDays(days) = DateOf(era, yoe, doy)
<1>1. YearStart(yoe) \in Int /\ YearStart(yoe) >= 0
  BY StartNotNegative
<1>2. PICK doe \in Nat : doe = YearStart(yoe) + doy
  BY <1>1
<1>3. PICK z \in Int : z = days + 719468 /\ z = era * 146097 + doe
  BY <1>1, <1>2 DEF DayNumber
<1>4. doe <= 146096
  BY <1>2
<1>5. Era(z) = era /\ z - era * 146097 = doe
  <2>1. InEra(z, era, doe)
    BY <1>3, <1>4 DEF InEra
  <2>2. Era(z) = era
    BY <2>1, EraAt
  <2> QED  BY <1>3, <2>2
<1>6. Length(yoe) \in Int
  BY DEF Length
<1>7. YearOf(doe) = yoe
  <2>1. YearStart(yoe) <= doe /\ doe < YearStart(yoe) + Length(yoe)
    BY <1>1, <1>2, <1>6
  <2> QED  BY <1>1, <1>4, <2>1, YearUnique
<1>8. doe - YearStart(yoe) = doy
  BY <1>1, <1>2
<1> QED  BY <1>3, <1>5, <1>7, <1>8 DEF CivilFromDays, Era

\* Consecutive day numbers are consecutive dates.
LEMMA DaysConsecutive ==
  ASSUME NEW days \in Int
  PROVE  CivilFromDays(days + 1) = DayAfter(CivilFromDays(days))
<1>1. PICK era \in Int, yoe \in Nat, doy \in Nat : Falls(days, era, yoe, doy)
  BY DayFalls
<1>2. /\ yoe <= 399 /\ YearStart(yoe) \in Int /\ doy < Length(yoe)
      /\ days = DayNumber(era, yoe, doy) /\ YearStart(yoe) + doy <= 146096
      /\ CivilFromDays(days) = DateOf(era, yoe, doy)
  BY <1>1 DEF Falls
<1>3. Length(yoe) \in Int /\ YearStart(yoe) >= 0 /\ days + 1 \in Int
  BY <1>2, StartNotNegative DEF Length
<1>4. CASE doy + 1 < Length(yoe)
  <2>1. YearStart(yoe) + (doy + 1) <= 146096
    <3>1. CASE yoe = 399
      BY <1>2, <1>4, <3>1, EraEnds
    <3>2. CASE yoe # 399
      <4>1. yoe + 1 <= 399 /\ yoe + 1 \in Nat /\ yoe <= 398
        BY <1>2, <3>2
      <4>2. YearStart(yoe + 1) = YearStart(yoe) + Length(yoe)
        BY <4>1, YearsFollow
      <4>3. YearStart(yoe + 1) <= YearStart(399) /\ YearStart(399) = 145731
        <5>1. CASE yoe + 1 = 399
          BY <5>1, EraEnds
        <5>2. CASE yoe + 1 < 399
          <6>1. /\ YearStart(yoe + 1) \in Int /\ YearStart(399) \in Int
                /\ YearStart(yoe + 1) + Length(yoe + 1) <= YearStart(399)
            BY <4>1, <5>2, YearsOrdered
          <6>2. Length(yoe + 1) \in Nat
            BY DEF Length
          <6> QED  BY <6>1, <6>2, EraEnds
        <5> QED  BY <4>1, <5>1, <5>2
      <4> QED  BY <1>2, <1>3, <1>4, <4>2, <4>3
    <3> QED  BY <3>1, <3>2
  <2>2. days + 1 = DayNumber(era, yoe, doy + 1) /\ doy + 1 \in Nat
    BY <1>2 DEF DayNumber
  <2>3. CivilFromDays(days + 1) = DateOf(era, yoe, doy + 1)
    BY <1>2, <1>3, <1>4, <2>1, <2>2, CivilOf
  <2> QED  BY <1>2, <1>4, <2>3, NextInYear
<1>5. CASE ~(doy + 1 < Length(yoe)) /\ yoe < 399
  <2>1. doy + 1 = Length(yoe)
    BY <1>2, <1>3, <1>5
  <2>2. yoe + 1 \in Nat /\ yoe + 1 <= 399 /\ yoe <= 398 /\ 0 \in Nat
    BY <1>5
  <2>3. YearStart(yoe + 1) = YearStart(yoe) + Length(yoe)
    BY <2>2, YearsFollow
  <2>4. YearStart(yoe + 1) \in Int /\ YearStart(yoe + 1) >= 0
    BY <2>2, StartNotNegative
  <2>5. days + 1 = DayNumber(era, yoe + 1, 0)
    BY <1>2, <1>3, <2>1, <2>3 DEF DayNumber
  <2>6. YearStart(yoe + 1) + 0 <= 146096
    <3>1. CASE yoe + 1 = 399
      BY <3>1, EraEnds
    <3>2. CASE yoe + 1 < 399
      <4>1. /\ YearStart(399) \in Int /\ YearStart(yoe + 1) + Length(yoe + 1) <= YearStart(399)
        BY <2>2, <3>2, YearsOrdered
      <4>2. Length(yoe + 1) \in Nat
        BY DEF Length
      <4> QED  BY <2>4, <4>1, <4>2, EraEnds
    <3> QED  BY <2>2, <3>1, <3>2
  <2>7. 0 < Length(yoe + 1)
    BY DEF Length
  <2>8. CivilFromDays(days + 1) = DateOf(era, yoe + 1, 0)
    BY <1>3, <2>2, <2>4, <2>5, <2>6, <2>7, CivilOf
  <2>9. (yoe + 1) + era * 400 = yoe + era * 400 + 1
    OBVIOUS
  <2>10. DateOf(era, yoe + 1, 0) = DayAfter(DateOf(era, yoe, doy))
    BY <2>1, <2>2, <2>9, NextYear
  <2> QED  BY <1>2, <2>8, <2>10
<1>6. CASE ~(doy + 1 < Length(yoe)) /\ yoe = 399
  <2>1. doy + 1 = Length(yoe) /\ YearStart(yoe) = 145731 /\ Length(yoe) = 366
    BY <1>2, <1>3, <1>6, EraEnds
  <2>2. era + 1 \in Int /\ 0 \in Nat /\ 0 <= 399
    OBVIOUS
  <2>3. /\ YearStart(0) = 0 /\ YearStart(0) \in Int /\ YearStart(0) >= 0
        /\ YearStart(0) + 0 <= 146096
    BY EraEnds
  <2>4. days + 1 = DayNumber(era + 1, 0, 0)
    BY <1>2, <2>1, <2>3 DEF DayNumber
  <2>5. 0 < Length(0)
    BY DEF Length
  <2>6. CivilFromDays(days + 1) = DateOf(era + 1, 0, 0)
    BY <1>3, <2>2, <2>3, <2>4, <2>5, CivilOf
  <2>7. 0 + (era + 1) * 400 = yoe + era * 400 + 1
    BY <1>6
  <2>8. DateOf(era + 1, 0, 0) = DayAfter(DateOf(era, yoe, doy))
    BY <2>1, <2>2, <2>7, NextYear
  <2> QED  BY <1>2, <2>6, <2>8
<1> QED  BY <1>2, <1>4, <1>5, <1>6

\* A date of the year that began with March of year b.
DateFits(date, b, doy) ==
  /\ date.m \in Int /\ date.m >= 1 /\ date.d \in Int /\ date.d >= 1 /\ date.d <= 31
  /\ date.y \in Int /\ date.y >= b
  /\ doy >= 306 => date.y = b + 1

LEMMA DateComesBack ==
  ASSUME NEW era \in Int, NEW yoe \in Nat, yoe <= 399, NEW doy \in Nat, doy < Length(yoe)
  PROVE  /\ DateFits(DateOf(era, yoe, doy), yoe + era * 400, doy)
         /\ DaysFromCivil(DateOf(era, yoe, doy)) = DayNumber(era, yoe, doy)
<1>1. doy <= 365
  BY DEF Length
<1>2. PICK mp \in Nat : mp = MonthOf(doy) /\ mp <= 11
  BY <1>1, MonthFound
<1>3. PICK s \in Int : s = MonthStart(mp) /\ s <= doy /\ doy <= s + 30
  BY <1>1, <1>2, MonthFound
<1>4. mp >= 10 <=> doy >= 306
  BY <1>1, <1>2, MonthFound
<1>5. PICK d \in Int : d = doy - s + 1 /\ d >= 1 /\ d <= 31
  BY <1>3
<1>6. PICK b \in Int : b = yoe + era * 400
  OBVIOUS
<1>7. DateOf(era, yoe, doy) = DateOn(b, mp, d)
  <2>1. DateOf(era, yoe, doy) =
          DateOn(yoe + era * 400, MonthOf(doy), doy - MonthStart(MonthOf(doy)) + 1)
    BY <1>1, DateFields
  <2> QED  BY <1>2, <1>3, <1>5, <1>6, <2>1
<1>8. PICK y \in Int, m \in Int : /\ y = IF mp < 10 THEN b ELSE b + 1
                                  /\ m = IF mp < 10 THEN mp + 3 ELSE mp - 9
  OBVIOUS
<1>9. DateOf(era, yoe, doy) = [y |-> y, m |-> m, d |-> d]
  BY <1>7, <1>8 DEF DateOn
<1>10. (IF m <= 2 THEN y - 1 ELSE y) = b /\ m + (IF m > 2 THEN -3 ELSE 9) = mp /\ m >= 1
  BY <1>2, <1>8
<1>11. EraOf(b, 400) = era
  <2>1. b = 400 * era + yoe
    BY <1>6
  <2>2. 0 <= yoe /\ yoe < 400
    OBVIOUS
  <2>3. b \div 400 = era
    BY <2>1, <2>2, DivBetween
  <2> QED  BY <2>3, EraIsDiv
<1>12. b - era * 400 = yoe
  BY <1>6
<1>13. DaysFromCivil([y |-> y, m |-> m, d |-> d]) =
         era * 146097 + YearStart(yoe) + (s + d - 1) - 719468
  <2> DEFINE date == [y |-> y, m |-> m, d |-> d]
  <2>1. date.y = y /\ date.m = m /\ date.d = d
    OBVIOUS
  <2> HIDE DEF date
  <2>2. DaysFromCivil(date) = era * 146097 + YearStart(yoe) + (s + d - 1) - 719468
    BY <1>3, <1>10, <1>11, <1>12, <2>1 DEF DaysFromCivil
  <2> QED  BY <2>2 DEF date
<1>14. s + d - 1 = doy
  BY <1>5
<1>15. y >= b /\ (doy >= 306 => y = b + 1)
  BY <1>4, <1>8
<1>16. DateFits(DateOf(era, yoe, doy), b, doy)
  BY <1>5, <1>9, <1>10, <1>15 DEF DateFits
<1>17. DaysFromCivil(DateOf(era, yoe, doy)) = DayNumber(era, yoe, doy)
  BY <1>9, <1>13, <1>14 DEF DayNumber
<1> QED  BY <1>6, <1>16, <1>17

LEMMA DaysComeBack ==
  ASSUME NEW days \in Int
  PROVE  DaysFromCivil(CivilFromDays(days)) = days
<1>1. PICK era \in Int, yoe \in Nat, doy \in Nat : Falls(days, era, yoe, doy)
  BY DayFalls
<1>2. /\ yoe <= 399 /\ YearStart(yoe) \in Int /\ doy < Length(yoe)
      /\ days = DayNumber(era, yoe, doy)
      /\ CivilFromDays(days) = DateOf(era, yoe, doy)
  BY <1>1 DEF Falls
<1>3. yoe <= 399 /\ doy < Length(yoe)
  BY <1>2
<1>4. DaysFromCivil(DateOf(era, yoe, doy)) = DayNumber(era, yoe, doy)
  BY <1>3, DateComesBack
<1> QED  BY <1>2, <1>4

\* From 1970 on, a date has a year that parse_http_date_ms accepts.
LEMMA SinceTheEpoch ==
  ASSUME NEW days \in Nat
  PROVE  LET date == CivilFromDays(days)
         IN  /\ date.m \in Int /\ date.m >= 1 /\ date.d \in Int /\ date.d >= 1 /\ date.d <= 31
             /\ date.y \in Int /\ date.y >= 1970
<1>1. PICK era \in Int, yoe \in Nat, doy \in Nat : Falls(days, era, yoe, doy)
  BY DayFalls
<1>2. /\ yoe <= 399 /\ YearStart(yoe) \in Int /\ doy < Length(yoe)
      /\ days = DayNumber(era, yoe, doy) /\ YearStart(yoe) + doy <= 146096
      /\ CivilFromDays(days) = DateOf(era, yoe, doy)
  BY <1>1 DEF Falls
<1>3. DateFits(DateOf(era, yoe, doy), yoe + era * 400, doy)
  <2>1. yoe <= 399 /\ doy < Length(yoe)
    BY <1>2
  <2> QED  BY <2>1, DateComesBack
<1>4. era >= 4
  BY <1>2 DEF DayNumber
<1>5. CASE era >= 5
  BY <1>2, <1>3, <1>5 DEF DateFits
<1>6. CASE era = 4
  <2>1. YearStart(yoe) + doy >= 135080
    BY <1>2, <1>6 DEF DayNumber
  <2>2. YearStart(369) = 134774
    <3>1. 369 \div 4 = 92 /\ 369 \div 100 = 3
      OBVIOUS
    <3> QED  BY <3>1 DEF YearStart
  <2>3. Length(yoe) \in Int
    BY DEF Length
  <2>4. yoe >= 369
    <3> SUFFICES ASSUME yoe < 369 PROVE FALSE
      OBVIOUS
    <3>1. 369 \in Nat /\ 369 <= 399
      OBVIOUS
    <3>2. YearStart(yoe) + Length(yoe) <= YearStart(369)
      BY <3>1, YearsOrdered
    <3> QED  BY <1>2, <2>1, <2>2, <2>3, <3>2
  <2>5. CASE yoe = 369
    <3>1. doy >= 306
      BY <2>1, <2>2, <2>5
    <3> QED  BY <1>2, <1>3, <1>6, <2>5, <3>1 DEF DateFits
  <2>6. CASE yoe > 369
    BY <1>2, <1>3, <1>6, <2>6 DEF DateFits
  <2> QED  BY <2>4, <2>5, <2>6
<1> QED  BY <1>4, <1>5, <1>6

\* What iso_utc writes comes back.
LEMMA SecondsComeBack ==
  ASSUME NEW seconds \in Nat
  PROVE  ParseHttpDate(IsoUtc(seconds)) = seconds
<1>1. PICK days \in Int : days = seconds \div 86400 /\ 86400 * days <= seconds /\ seconds < 86400 * days + 86400
  BY Divide
<1>2. FloorDiv(seconds, 86400) = days
  BY <1>1, FloorDivIsDiv
<1>3. PICK rem \in Int : rem = seconds - days * 86400 /\ 0 <= rem /\ rem < 86400
  BY <1>1
<1>4. PICK h \in Int : h = rem \div 3600 /\ 3600 * h <= rem /\ rem < 3600 * h + 3600
  BY Divide
<1>5. PICK r \in Int : r = rem % 3600 /\ r = rem - 3600 * h
  <2>1. rem % 3600 \in Int /\ rem = 3600 * (rem \div 3600) + (rem % 3600)
    BY DivMod
  <2> QED  BY <1>4, <2>1
<1>6. PICK mi \in Int : mi = r \div 60 /\ 60 * mi <= r /\ r < 60 * mi + 60
  BY Divide
<1>7. PICK q \in Int : q = rem \div 60 /\ 60 * q <= rem /\ rem < 60 * q + 60
  BY Divide
<1>8. PICK s \in Int : s = rem % 60 /\ s = rem - 60 * q
  <2>1. rem % 60 \in Int /\ rem = 60 * (rem \div 60) + (rem % 60)
    BY DivMod
  <2> QED  BY <1>7, <2>1
<1>9. /\ 3600 * h <= rem /\ rem < 3600 * h + 3600 /\ r = rem - 3600 * h
      /\ 60 * mi <= r /\ r < 60 * mi + 60 /\ 60 * q <= rem /\ rem < 60 * q + 60 /\ s = rem - 60 * q
  BY <1>4, <1>5, <1>6, <1>7, <1>8
<1>10. /\ h <= 23 /\ mi <= 59 /\ s <= 60 /\ rem = h * 3600 + mi * 60 + s
  BY <1>3, <1>9
<1> DEFINE date == CivilFromDays(days)
           t == IsoUtc(seconds)
<1>11. t = [date |-> date, h |-> h, mi |-> mi, s |-> s]
  <2>1. rem = seconds - FloorDiv(seconds, 86400) * 86400
    BY <1>2, <1>3
  <2>2. h = rem \div 3600 /\ s = rem % 60
    BY <1>4, <1>8
  <2>3. mi = (rem % 3600) \div 60
    BY <1>5, <1>6
  <2> QED  BY <1>2, <2>1, <2>2, <2>3, SMT DEF IsoUtc
<1>12. days \in Nat
  BY <1>1
<1>13. /\ date.m \in Int /\ date.m >= 1 /\ date.d \in Int /\ date.d >= 1 /\ date.d <= 31
       /\ date.y \in Int /\ date.y >= 1970
  BY <1>12, SinceTheEpoch
<1>14. DaysFromCivil(date) = days
  BY DaysComeBack
<1> HIDE DEF date, t
<1>15. t.date = date /\ t.h = h /\ t.mi = mi /\ t.s = s
  BY <1>11
<1>16. ~(date.m = 0 \/ date.d \notin 1..31 \/ date.y < 1970 \/ h > 23 \/ mi > 59 \/ s > 60)
  BY <1>10, <1>13
<1>17. ParseHttpDate(t) = days * 86400 + h * 3600 + mi * 60 + s
  BY <1>14, <1>15, <1>16 DEF ParseHttpDate
<1>18. ParseHttpDate(t) = seconds
  BY <1>3, <1>10, <1>17
<1> QED  BY <1>18 DEF t

\* Whether the window is open at an instant, by its definition.
InWindow(t) == (t + OpenBefore) % PerHour < OpenBefore + OpenAfter

\* The place of an instant in the window's cycle decides it.
LEMMA WindowPlace ==
  ASSUME NEW t \in Int, NEW q \in Int, NEW p \in Nat, t + OpenBefore = PerHour * q + p, p < PerHour
  PROVE  InWindow(t) <=> p < OpenBefore + OpenAfter
<1>1. PerHour \in Nat \ {0} /\ OpenBefore \in Nat /\ OpenAfter \in Nat
  BY CalendarAssumption
<1>2. t + OpenBefore \in Int /\ p \in 0..(PerHour - 1)
  BY <1>1
<1>3. (t + OpenBefore) % PerHour = p
  BY <1>1, <1>2, DivUnique
<1> QED  BY <1>3 DEF InWindow

LEMMA WindowIsExact ==
  ASSUME NEW now \in Int
  PROVE  LET w == XuniWindowAt(now)
         IN  /\ w.open <=> InWindow(now)
             /\ w.open => /\ \A t \in 0..(w.untilClose - 1) : InWindow(now + t)
                          /\ ~InWindow(now + w.untilClose)
<1>1. /\ PerHour \in Nat \ {0} /\ OpenBefore \in Nat \ {0} /\ OpenAfter \in Nat \ {0}
      /\ OpenBefore + OpenAfter < PerHour
  BY CalendarAssumption
<1>2. PICK q \in Int : q = now \div PerHour /\ PerHour * q <= now /\ now < PerHour * q + PerHour
  BY <1>1, Divide
<1>3. FloorDiv(now, PerHour) = q
  BY <1>1, <1>2, FloorDivIsDiv
<1>4. PICK into \in Nat : into = now - PerHour * q /\ into < PerHour
  <2>1. PICK c \in Int : c = PerHour * q /\ c <= now /\ now < c + PerHour
    <3>1. PerHour * q <= now /\ now < PerHour * q + PerHour /\ PerHour * q \in Int
      BY <1>1, <1>2
    <3> QED  BY <3>1
  <2>2. PICK i \in Nat : i = now - c /\ i < PerHour
    BY <1>1, <2>1
  <2> QED  BY <2>1, <2>2
<1>5. now - q * PerHour = into
  BY <1>1, <1>4
<1>6. XuniWindowAt(now) =
        CASE into >= PerHour - OpenBefore ->
               [open |-> TRUE, untilClose |-> (PerHour - into) + OpenAfter]
          [] into < OpenAfter -> [open |-> TRUE, untilClose |-> OpenAfter - into]
          [] OTHER -> [open |-> FALSE, untilClose |-> 0]
  BY <1>3, <1>5 DEF XuniWindowAt
<1>7. PICK c \in Int : c = PerHour * q /\ now = c + into /\ PerHour * (q + 1) = c + PerHour
  BY <1>1, <1>4
<1>8. ASSUME NEW t \in Nat, into + t + OpenBefore < PerHour
      PROVE  InWindow(now + t) <=> into + t < OpenAfter
  <2>1. PICK p \in Nat : p = into + t + OpenBefore
    BY <1>1
  <2>2. (now + t) + OpenBefore = PerHour * q + p /\ p < PerHour /\ now + t \in Int
    BY <1>1, <1>7, <1>8, <2>1
  <2>3. InWindow(now + t) <=> p < OpenBefore + OpenAfter
    BY <2>2, WindowPlace
  <2> QED  BY <1>1, <2>1, <2>3
<1>9. ASSUME NEW t \in Nat, into + t + OpenBefore >= PerHour,
             into + t + OpenBefore < PerHour + PerHour
      PROVE  InWindow(now + t) <=> into + t < PerHour + OpenAfter
  <2>1. PICK p \in Nat : p = into + t + OpenBefore - PerHour
    BY <1>1, <1>9
  <2>2. /\ (now + t) + OpenBefore = PerHour * (q + 1) + p /\ p < PerHour
        /\ now + t \in Int /\ q + 1 \in Int
    BY <1>1, <1>7, <1>9, <2>1
  <2>3. InWindow(now + t) <=> p < OpenBefore + OpenAfter
    BY <2>2, WindowPlace
  <2> QED  BY <1>1, <2>1, <2>3
<1>10. InWindow(now + 0) <=> InWindow(now)
  <2>1. now + 0 = now
    OBVIOUS
  <2> QED  BY <2>1
<1>11. CASE into >= PerHour - OpenBefore
  <2>1. PICK u \in Nat : u = (PerHour - into) + OpenAfter
    BY <1>1, <1>4
  <2>2. XuniWindowAt(now) = [open |-> TRUE, untilClose |-> u]
    <3>1. ~(into < OpenAfter)
      BY <1>1, <1>4, <1>11
    <3> QED  BY <1>6, <1>11, <2>1, <3>1
  <2>3. ASSUME NEW t \in 0..(u - 1) PROVE InWindow(now + t)
    <3>1. /\ t \in Nat /\ into + t + OpenBefore >= PerHour
          /\ into + t + OpenBefore < PerHour + PerHour /\ into + t < PerHour + OpenAfter
      BY <1>1, <1>4, <1>11, <2>1
    <3> QED  BY <1>9, <3>1
  <2>4. ~InWindow(now + u)
    <3>1. /\ into + u + OpenBefore >= PerHour
          /\ into + u + OpenBefore < PerHour + PerHour /\ ~(into + u < PerHour + OpenAfter)
      BY <1>1, <1>4, <1>11, <2>1
    <3> QED  BY <1>9, <3>1
  <2>5. InWindow(now)
    <3>1. 0 \in 0..(u - 1)
      BY <1>1, <1>4, <2>1
    <3>2. InWindow(now + 0)
      BY <2>3, <3>1
    <3> QED  BY <1>10, <3>2
  <2> QED  BY <2>2, <2>3, <2>4, <2>5
<1>12. CASE ~(into >= PerHour - OpenBefore) /\ into < OpenAfter
  <2>1. PICK u \in Nat : u = OpenAfter - into
    BY <1>1, <1>4, <1>12
  <2>2. XuniWindowAt(now) = [open |-> TRUE, untilClose |-> u]
    BY <1>6, <1>12, <2>1
  <2>3. ASSUME NEW t \in 0..(u - 1) PROVE InWindow(now + t)
    <3>1. t \in Nat /\ into + t + OpenBefore < PerHour /\ into + t < OpenAfter
      BY <1>1, <1>4, <1>12, <2>1
    <3> QED  BY <1>8, <3>1
  <2>4. ~InWindow(now + u)
    <3>1. into + u + OpenBefore < PerHour /\ ~(into + u < OpenAfter)
      BY <1>1, <1>4, <1>12, <2>1
    <3> QED  BY <1>8, <3>1
  <2>5. InWindow(now)
    <3>1. 0 \in 0..(u - 1)
      BY <1>1, <1>4, <1>12, <2>1
    <3>2. InWindow(now + 0)
      BY <2>3, <3>1
    <3> QED  BY <1>10, <3>2
  <2> QED  BY <2>2, <2>3, <2>4, <2>5
<1>13. CASE ~(into >= PerHour - OpenBefore) /\ ~(into < OpenAfter)
  <2>1. XuniWindowAt(now) = [open |-> FALSE, untilClose |-> 0]
    BY <1>6, <1>13
  <2>2. 0 \in Nat /\ into + 0 + OpenBefore < PerHour /\ ~(into + 0 < OpenAfter)
    BY <1>1, <1>4, <1>13
  <2>3. ~InWindow(now + 0)
    BY <1>8, <2>2
  <2> QED  BY <1>10, <2>1, <2>3
<1> QED  BY <1>11, <1>12, <1>13

-----------------------------------------------------------------------------
(* The safety margin. *)

Steps == [started : Nat, span : Int, evaluated : BOOLEAN, at : Nat, margin : Nat]
Outlook == [now : Nat, open : BOOLEAN, counted : BOOLEAN, backlog : Nat]

\* The outage clock runs from the step that first saw the breaker Open, and a margin that was
\* just evaluated is compute_margin of what was seen.
Watching(w) ==
  /\ w.step \in Steps /\ w.seen \in Outlook /\ w.began \in Nat /\ w.fresh \in BOOLEAN
  /\ w.seen.open => w.step.started = w.began /\ 0 < w.began /\ w.began <= w.seen.now
  /\ ~w.seen.open => w.step.started = 0
  /\ w.fresh => w.step.margin = ComputeMargin("auto", w.seen.open,
                                  IF w.seen.open THEN w.seen.now - w.step.started ELSE 0,
                                  w.seen.backlog)

LEMMA MarginIsNat ==
  ASSUME NEW open \in BOOLEAN, NEW outage \in Nat, NEW backlog \in Nat
  PROVE  ComputeMargin("auto", open, outage, backlog) \in Nat
<1>1. outage \div Period \in Nat /\ StepKib \in Nat /\ MaxMarginKib \in Nat
  BY MarginAssumption
<1>2. PICK k \in Nat : k = outage \div Period
  BY <1>1
<1>3. StepKib * (1 + k) \in Nat /\ StepKib * (1 + 0) \in Nat
  BY <1>1
<1> QED  BY <1>1, <1>2, <1>3 DEF ComputeMargin, NoMoreThan

LEMMA StepWatching ==
  ASSUME NEW w, Watching(w), NEW obs \in Outlook,
         w.seen.now <= obs.now, obs.open => obs.now > 0
  PROVE  Watching(Watched(w, obs))
<1> DEFINE ticked == OutageClock(w.step, obs.now, obs.open)
           outage == IF obs.open THEN obs.now - ticked.started ELSE 0
           began == IF obs.open /\ ~w.seen.open THEN obs.now ELSE w.began
           due == Due(w.step, obs.now)
           step == UpdateMargin("auto", w.step, obs)
<1>1. /\ w.step \in Steps /\ w.seen \in Outlook /\ w.began \in Nat
      /\ w.seen.open => w.step.started = w.began /\ 0 < w.began /\ w.began <= w.seen.now
      /\ ~w.seen.open => w.step.started = 0
  BY DEF Watching
<1>2. /\ obs.now \in Nat /\ obs.open \in BOOLEAN /\ obs.counted \in BOOLEAN /\ obs.backlog \in Nat
      /\ w.seen.now \in Nat /\ w.seen.open \in BOOLEAN
      /\ w.step.started \in Nat /\ w.step.at \in Nat /\ w.step.evaluated \in BOOLEAN
  BY <1>1 DEF Outlook, Steps
<1>3. ticked \in Steps
  <2>1. CASE obs.open
    <3>1. PICK from \in Nat : from = IF w.step.started = 0 THEN obs.now ELSE w.step.started
      BY <1>2
    <3>2. ticked = [w.step EXCEPT !.started = from]
      BY <2>1, <3>1 DEF OutageClock
    <3> QED  BY <1>1, <3>2 DEF Steps
  <2>2. CASE ~obs.open
    <3>1. w.step.span \in Int
      BY <1>1 DEF Steps
    <3>2. PICK span \in Int :
            span = IF w.step.started = 0 THEN w.step.span ELSE obs.now - w.step.started
      BY <1>2, <3>1
    <3>3. ticked = [w.step EXCEPT !.span = span, !.started = 0]
      BY <2>2, <3>2 DEF OutageClock
    <3> DEFINE t == [w.step EXCEPT !.span = span]
    <3>4. t \in Steps /\ ticked = [t EXCEPT !.started = 0]
      BY <1>1, <3>3 DEF Steps
    <3> HIDE DEF t, ticked
    <3> QED  BY <3>4 DEF Steps
  <2> QED  BY <1>2, <2>1, <2>2
<1>4. /\ obs.open => ticked.started = began /\ 0 < began /\ began <= obs.now
      /\ ~obs.open => ticked.started = 0
  BY <1>1, <1>2 DEF OutageClock, Steps
<1>5. began \in Nat /\ outage \in Nat
  BY <1>1, <1>2, <1>3, <1>4
<1>6. due \in BOOLEAN
  BY <1>2 DEF Due
<1>7. ComputeMargin("auto", obs.open, outage, obs.backlog) \in Nat
  <2> HIDE DEF outage
  <2> QED  BY <1>2, <1>5, MarginIsNat
<1>8. step = CASE ~due -> ticked
               [] due /\ ~obs.counted -> [ticked EXCEPT !.evaluated = TRUE, !.at = obs.now]
               [] OTHER -> [ticked EXCEPT !.evaluated = TRUE, !.at = obs.now,
                              !.margin = ComputeMargin("auto", obs.open, outage, obs.backlog)]
  <2> HIDE DEF ticked, due
  <2> QED  BY DEF UpdateMargin, ticked, due
<1> HIDE DEF ticked, outage, due, step
<1>9. /\ step \in Steps /\ step.started = ticked.started
      /\ due /\ obs.counted => step.margin = ComputeMargin("auto", obs.open, outage, obs.backlog)
  <2>1. CASE ~due
    BY <1>3, <1>8, <2>1
  <2>2. CASE due /\ ~obs.counted
    <3>1. step = [ticked EXCEPT !.evaluated = TRUE, !.at = obs.now]
      BY <1>8, <2>2
    <3> QED  BY <1>2, <1>3, <2>2, <3>1 DEF Steps
  <2>3. CASE due /\ obs.counted
    <3> DEFINE m == ComputeMargin("auto", obs.open, outage, obs.backlog)
    <3> HIDE DEF m
    <3>1. step = [ticked EXCEPT !.evaluated = TRUE, !.at = obs.now, !.margin = m]
      BY <1>8, <2>3 DEF m
    <3>2. m \in Nat
      BY <1>7 DEF m
    <3>3. step \in Steps /\ step.started = ticked.started /\ step.margin = m
      BY <1>2, <1>3, <3>1, <3>2 DEF Steps
    <3> QED  BY <3>3 DEF m
  <2> QED  BY <1>2, <1>6, <2>1, <2>2, <2>3
<1> HIDE DEF began
<1>10. Watched(w, obs) = [step |-> step, began |-> began, fresh |-> due /\ obs.counted, seen |-> obs]
  BY DEF Watched, step, began, due
<1> DEFINE v == Watched(w, obs)
<1>11. /\ v.step = step /\ v.began = began /\ v.fresh = (due /\ obs.counted) /\ v.seen = obs
  BY <1>10
<1> HIDE DEF v
<1>12. obs.open => obs.now - ticked.started = outage
  BY DEF outage
<1>13. ~obs.open => 0 = outage
  BY DEF outage
<1>14. Watching(v)
  <2>1. v.fresh => v.step.margin = ComputeMargin("auto", v.seen.open,
                                  IF v.seen.open THEN v.seen.now - v.step.started ELSE 0,
                                  v.seen.backlog)
    BY <1>2, <1>9, <1>11, <1>12, <1>13
  <2>2. v.fresh \in BOOLEAN
    BY <1>2, <1>6, <1>11
  <2>3. /\ v.step \in Steps /\ v.seen \in Outlook /\ v.began \in Nat
        /\ v.seen.open => v.step.started = v.began /\ 0 < v.began /\ v.began <= v.seen.now
        /\ ~v.seen.open => v.step.started = 0
    BY <1>4, <1>5, <1>9, <1>11
  <2> QED  BY <2>1, <2>2, <2>3 DEF Watching
<1> QED  BY <1>14 DEF v

LEMMA NotWatchedWatching == Watching(NotWatched)
BY DEF Watching, NotWatched, FirstStep, Observation, Steps, Outlook

\* From the first sight of an outage to the end of the present period, the server's ticks are
\* the periods begun, whatever their phase.
LEMMA RisesArePeriods ==
  ASSUME NEW began \in Nat, NEW n \in Nat, NEW phase \in 0..(Period - 1)
  PROVE  RisesBetween(began, began + Period * n, phase) = n
<1> DEFINE a == began + Period - phase
<1>1. Period \in Nat \ {0}
  BY MarginAssumption
<1>2. a \in Int /\ n \in Int
  BY <1>1
<1>3. PICK c \in Int : c = Period * n
  BY <1>1
<1>4. (began + Period * n) + Period - phase = a + Period * n
  BY <1>1, <1>3
<1> HIDE DEF a
<1>5. (a + Period * n) \div Period = (a \div Period) + n
  BY <1>1, <1>2, DivShift
<1>6. a \div Period \in Int
  BY <1>1, <1>2, DivMod
<1>7. RisesBetween(began, began + Period * n, phase)
        = ((began + Period * n) + Period - phase) \div Period - ((began + Period - phase) \div Period)
  BY DEF RisesBetween
<1>8. began + Period - phase = a
  BY DEF a
<1>9. RisesBetween(began, began + Period * n, phase) = ((a \div Period) + n) - (a \div Period)
  BY <1>4, <1>5, <1>7, <1>8
<1> QED  BY <1>2, <1>6, <1>9

LEMMA WatchingCovers ==
  ASSUME NEW w, Watching(w), w.fresh
  PROVE  LET ends == w.began + Period * (1 + (w.seen.now - w.began) \div Period)
         IN  /\ w.seen.open => \A phase \in 0..(Period - 1) :
                  w.step.margin >= NoMoreThan(StepKib * RisesBetween(w.began, ends, phase),
                                              MaxMarginKib)
             /\ ~w.seen.open /\ w.seen.backlog = 0 => w.step.margin = 0
<1>1. /\ w.step \in Steps /\ w.seen \in Outlook /\ w.began \in Nat
      /\ w.seen.now \in Nat /\ w.seen.open \in BOOLEAN
      /\ w.seen.open => w.step.started = w.began /\ 0 < w.began /\ w.began <= w.seen.now
  BY DEF Watching, Outlook
<1>2. CASE ~w.seen.open
  BY <1>1, <1>2 DEF Watching, ComputeMargin
<1>3. CASE w.seen.open
  <2>1. PICK outage \in Nat : outage = w.seen.now - w.began
    BY <1>1, <1>3
  <2>2. PICK k \in Nat : k = outage \div Period
    BY <2>1, MarginAssumption
  <2>3. outage = 0 => k = 0
    BY <2>2, MarginAssumption
  <2>4. w.step.margin = NoMoreThan(StepKib * (1 + k), MaxMarginKib)
    <3>1. w.step.margin = ComputeMargin("auto", TRUE, outage, w.seen.backlog)
      BY <1>1, <1>3, <2>1 DEF Watching
    <3>2. (IF outage > 0 THEN outage \div Period ELSE 0) = k
      BY <2>1, <2>2, <2>3
    <3> QED  BY <3>1, <3>2 DEF ComputeMargin
  <2>5. ASSUME NEW phase \in 0..(Period - 1)
        PROVE  RisesBetween(w.began, w.began + Period * (1 + k), phase) = 1 + k
    BY <1>1, <2>2, RisesArePeriods
  <2>6. NoMoreThan(StepKib * (1 + k), MaxMarginKib) \in Int
    BY <2>2, MarginAssumption DEF NoMoreThan
  <2>7. w.began + Period * (1 + (w.seen.now - w.began) \div Period) = w.began + Period * (1 + k)
    BY <2>1, <2>2
  <2> QED  BY <1>3, <2>4, <2>5, <2>6, <2>7
<1> QED  BY <1>1, <1>2, <1>3

-----------------------------------------------------------------------------
(* The walk over a lane. *)

Inputs == [slice : Int, counter : Int]
Lanes == [segment : Nat \ {0, 1}, slice : 0..4, offset : Nat, curr : Nat,
          input : Inputs, addr : Inputs, from : [slice : Int, counter : Int, word : Int]]

\* The address block a slice is in after `offset' of its blocks, the one before its first being 0.
CounterAt(offset) == ((offset - 1) \div QwordsInBlock) + 1

\* A lane that may stand at the end of its slice: its input words count the address blocks of
\* the slice, and the block just written took its reference from the right place.
Walking(lane) ==
  /\ lane \in Lanes
  /\ lane.curr = lane.slice * lane.segment + lane.offset
  /\ lane.offset <= lane.segment /\ lane.curr >= 2
  /\ lane.slice < 2 => /\ lane.input = [slice |-> lane.slice, counter |-> CounterAt(lane.offset)]
                       /\ lane.offset > 0 => lane.addr = lane.input
  /\ lane.curr > 2 => lane.from = Argon2id(lane.segment, lane.curr - 1)

OnLane(lane) ==
  /\ Walking(lane)
  /\ IF lane.slice = 4 THEN lane.offset = 0 ELSE lane.offset < lane.segment

LEMMA CounterSteps ==
  ASSUME NEW offset \in Nat
  PROVE  /\ CounterAt(offset) \in Int
         /\ CounterAt(offset + 1) = (offset \div QwordsInBlock) + 1
         /\ CounterAt(offset + 1) = IF offset % QwordsInBlock = 0 THEN CounterAt(offset) + 1
                                    ELSE CounterAt(offset)
         /\ offset % QwordsInBlock \in Int
<1> DEFINE Q == QwordsInBlock
           q == offset \div Q
           r == offset % Q
<1>1. Q \in Nat \ {0} /\ Q >= 2
  BY LaneAssumption
<1>2. q \in Int /\ r \in 0..(Q - 1) /\ offset = Q * q + r
  BY <1>1, DivMod
<1>3. (offset + 1) - 1 = offset /\ offset - 1 \in Int
  OBVIOUS
<1>4. CounterAt(offset + 1) = q + 1
  BY <1>3 DEF CounterAt
<1> HIDE DEF q, r
<1>5. CASE r = 0
  <2>1. offset - 1 = Q * (q - 1) + (Q - 1) /\ Q - 1 \in 0..(Q - 1) /\ q - 1 \in Int
    BY <1>1, <1>2, <1>5
  <2>2. (offset - 1) \div Q = q - 1
    BY <1>1, <1>3, <2>1, DivUnique
  <2> QED  BY <1>2, <1>4, <1>5, <2>2 DEF CounterAt, q, r
<1>6. CASE r # 0
  <2>1. offset - 1 = Q * q + (r - 1) /\ r - 1 \in 0..(Q - 1)
    BY <1>1, <1>2, <1>6
  <2>2. (offset - 1) \div Q = q
    BY <1>1, <1>2, <1>3, <2>1, DivUnique
  <2> QED  BY <1>2, <1>4, <1>6, <2>2 DEF CounterAt, q, r
<1> QED  BY <1>5, <1>6

\* No block of slice 0 or 1 is written before its input words have started.
LEMMA CounterStarts == CounterAt(0) = 0 /\ CounterAt(2) = 1
<1> DEFINE Q == QwordsInBlock
<1>1. Q \in Nat \ {0} /\ Q >= 2
  BY LaneAssumption
<1>2. 0 - 1 = Q * (-1) + (Q - 1) /\ Q - 1 \in 0..(Q - 1) /\ 0 - 1 \in Int
  BY <1>1
<1>3. 2 - 1 = Q * 0 + 1 /\ 1 \in 0..(Q - 1) /\ 2 - 1 \in Int
  BY <1>1
<1>4. (0 - 1) \div Q = -1 /\ (2 - 1) \div Q = 0
  BY <1>1, <1>2, <1>3, DivUnique
<1> QED  BY <1>4 DEF CounterAt

LEMMA TurnedWalks ==
  ASSUME NEW lane, Walking(lane), lane.slice < 4
  PROVE  OnLane(Turned(lane))
<1>1. /\ lane \in Lanes /\ lane.segment \in Nat \ {0, 1} /\ lane.slice \in 0..3 /\ lane.offset \in Nat
      /\ lane.curr \in Nat /\ lane.curr = lane.slice * lane.segment + lane.offset
      /\ lane.offset <= lane.segment /\ lane.curr >= 2
      /\ lane.curr > 2 => lane.from = Argon2id(lane.segment, lane.curr - 1)
  BY DEF Walking, Lanes
<1>2. CASE lane.offset < lane.segment
  BY <1>1, <1>2 DEF Turned, OnLane
<1>3. CASE ~(lane.offset < lane.segment)
  <2> DEFINE next == [lane EXCEPT !.slice = @ + 1, !.offset = 0]
             last == [next EXCEPT !.input = [slice |-> 1, counter |-> 0]]
             turned == Turned(lane)
  <2>1. /\ next \in Lanes /\ next.segment = lane.segment /\ next.slice = lane.slice + 1
        /\ next.offset = 0 /\ next.curr = lane.curr /\ next.from = lane.from
    <3> DEFINE half == [lane EXCEPT !.slice = @ + 1]
    <3>1. lane.slice + 1 \in 0..4
      BY <1>1
    <3>2. /\ half \in Lanes /\ half.segment = lane.segment /\ half.slice = lane.slice + 1
          /\ half.curr = lane.curr /\ half.from = lane.from
      BY <1>1, <3>1 DEF Lanes
    <3>3. next = [half EXCEPT !.offset = 0]
      OBVIOUS
    <3> HIDE DEF half, next
    <3> QED  BY <3>2, <3>3 DEF Lanes
  <2>2. lane.offset = lane.segment
    BY <1>1, <1>3
  <2>3. lane.curr = (lane.slice + 1) * lane.segment + 0
    BY <1>1, <2>2
  <2>4. turned = IF next.slice = 1 THEN last ELSE next
    BY <1>3 DEF Turned, EntersSliceOne
  <2> HIDE DEF next, turned
  <2>5. CASE next.slice = 1
    <3>1. [slice |-> 1, counter |-> 0] \in Inputs
      BY DEF Inputs
    <3>2. /\ last \in Lanes /\ last.segment = next.segment /\ last.slice = 1
          /\ last.offset = 0 /\ last.curr = next.curr /\ last.from = next.from
          /\ last.input = [slice |-> 1, counter |-> 0]
      BY <2>1, <2>5, <3>1 DEF Lanes
    <3> HIDE DEF last
    <3>3. Walking(last)
      BY <1>1, <2>1, <2>3, <2>5, <3>2, CounterStarts DEF Walking
    <3>4. OnLane(last)
      BY <1>1, <2>1, <3>2, <3>3 DEF OnLane
    <3> QED  BY <2>4, <2>5, <3>4 DEF turned
  <2>6. CASE next.slice # 1
    <3>1. next.slice >= 2
      BY <1>1, <2>1, <2>6
    <3>2. Walking(next)
      BY <1>1, <2>1, <2>3, <3>1 DEF Walking
    <3>3. OnLane(next)
      BY <1>1, <2>1, <3>2 DEF OnLane
    <3> QED  BY <2>4, <2>6, <3>3 DEF turned
  <2> QED  BY <2>5, <2>6
<1> QED  BY <1>2, <1>3

LEMMA StartOnLane ==
  ASSUME NEW segment \in Nat \ {0, 1}
  PROVE  OnLane(LaneStart(segment))
<1> DEFINE input == [slice |-> 0, counter |-> 1]
           lane == [segment |-> segment, slice |-> 0, offset |-> 2, curr |-> 2,
                    input |-> input, addr |-> input, from |-> NoSource]
<1>1. input \in Inputs /\ NoSource \in [slice : Int, counter : Int, word : Int]
  BY DEF Inputs, NoSource
<1>2. LaneStart(segment) = Turned(lane)
  BY DEF LaneStart
<1>3. input = [slice |-> 0, counter |-> CounterAt(2)]
  BY CounterStarts
<1> HIDE DEF input
<1>4. /\ lane \in Lanes /\ lane.segment = segment /\ lane.slice = 0 /\ lane.offset = 2
      /\ lane.curr = 2 /\ lane.input = input /\ lane.addr = input
  BY <1>1 DEF Lanes
<1> HIDE DEF lane
<1>5. Walking(lane)
  BY <1>3, <1>4 DEF Walking
<1> QED  BY <1>2, <1>4, <1>5, TurnedWalks

\* A block's slice and its place in the slice.
LEMMA BlockPlace ==
  ASSUME NEW segment \in Nat \ {0, 1}, NEW slice \in 0..3, NEW offset \in 0..(segment - 1)
  PROVE  /\ slice * segment + offset \in Nat
         /\ (slice * segment + offset) \div segment = slice
         /\ (slice * segment + offset) % segment = offset
<1>1. slice * segment + offset \in Nat
  OBVIOUS
<1>2. slice * segment + offset = segment * slice + offset
  OBVIOUS
<1> QED  BY <1>1, <1>2, DivUnique

LEMMA StepOnLane ==
  ASSUME NEW lane, OnLane(lane), lane.slice < 4
  PROVE  OnLane(LaneStep(lane))
<1> DEFINE Q == QwordsInBlock
           indexed == lane.slice < 2
           refresh == indexed /\ lane.offset % Q = 0
           input == IF refresh THEN [lane.input EXCEPT !.counter = @ + 1] ELSE lane.input
           addr == IF refresh THEN input ELSE lane.addr
           from == IF indexed THEN [slice |-> addr.slice, counter |-> addr.counter,
                                    word |-> lane.offset % Q]
                   ELSE [slice |-> 0, counter |-> 0, word |-> lane.curr - 1]
           next == [segment |-> lane.segment, slice |-> lane.slice,
                    offset |-> lane.offset + 1, curr |-> lane.curr + 1,
                    input |-> input, addr |-> addr, from |-> from]
<1>1. /\ lane.segment \in Nat \ {0, 1} /\ lane.slice \in 0..3 /\ lane.offset \in 0..(lane.segment - 1)
      /\ lane.curr \in Nat /\ lane.curr = lane.slice * lane.segment + lane.offset /\ lane.curr >= 2
      /\ lane.input \in Inputs /\ lane.addr \in Inputs
      /\ indexed => lane.input = [slice |-> lane.slice, counter |-> CounterAt(lane.offset)]
      /\ indexed /\ lane.offset > 0 => lane.addr = lane.input
  BY DEF OnLane, Walking, Lanes
<1>2. LaneStep(lane) = Turned(next)
  BY DEF LaneStep
<1>3. /\ CounterAt(lane.offset) \in Int /\ lane.offset % Q \in Int
      /\ CounterAt(lane.offset + 1) = (lane.offset \div Q) + 1
      /\ CounterAt(lane.offset + 1) = IF lane.offset % Q = 0 THEN CounterAt(lane.offset) + 1
                                      ELSE CounterAt(lane.offset)
  BY <1>1, CounterSteps
<1>4. lane.offset = 0 => lane.offset % Q = 0
  BY LaneAssumption
<1>5. indexed => /\ input = [slice |-> lane.slice, counter |-> CounterAt(lane.offset + 1)]
                 /\ addr = input
  <2>1. CASE refresh
    BY <1>1, <1>3, <2>1 DEF Inputs
  <2>2. CASE ~refresh
    BY <1>1, <1>3, <1>4, <2>2
  <2> QED  BY <2>1, <2>2
<1>6. input \in Inputs /\ addr \in Inputs
  BY <1>1 DEF Inputs
<1>7. from \in [slice : Int, counter : Int, word : Int]
  <2> HIDE DEF addr, input
  <2> QED  BY <1>1, <1>3, <1>6 DEF Inputs
<1>8. from = Argon2id(lane.segment, lane.curr)
  <2>1. lane.curr \div lane.segment = lane.slice /\ lane.curr % lane.segment = lane.offset
    BY <1>1, BlockPlace
  <2>2. Argon2id(lane.segment, lane.curr) =
          IF lane.slice < 2 THEN [slice |-> lane.slice, counter |-> (lane.offset \div Q) + 1,
                                  word |-> lane.offset % Q]
          ELSE [slice |-> 0, counter |-> 0, word |-> lane.curr - 1]
    BY <2>1 DEF Argon2id
  <2>3. CASE indexed
    <3>1. addr.slice = lane.slice /\ addr.counter = (lane.offset \div Q) + 1
      <4> HIDE DEF addr, input
      <4> QED  BY <1>3, <1>5, <2>3
    <3> HIDE DEF addr, input
    <3> QED  BY <2>2, <2>3, <3>1
  <2>4. CASE ~indexed
    BY <2>2, <2>4
  <2> QED  BY <2>3, <2>4
<1> HIDE DEF input, addr, from
<1>9. /\ next \in Lanes /\ next.segment = lane.segment /\ next.slice = lane.slice
      /\ next.offset = lane.offset + 1 /\ next.curr = lane.curr + 1
      /\ next.input = input /\ next.addr = addr /\ next.from = from
  BY <1>1, <1>6, <1>7 DEF Lanes
<1>10. (lane.curr + 1) - 1 = lane.curr /\ next.offset <= lane.segment /\ next.curr >= 2
  BY <1>1, <1>9
<1>11. next.curr = next.slice * next.segment + next.offset
  BY <1>1, <1>9
<1> HIDE DEF next
<1>12. Walking(next)
  BY <1>5, <1>8, <1>9, <1>10, <1>11 DEF Walking
<1>13. next.slice < 4
  BY <1>9
<1>14. OnLane(Turned(next))
  BY <1>12, <1>13, TurnedWalks
<1> QED  BY <1>2, <1>14

\* The high word of a product is below its factors.
LEMMA UMulHiBelow ==
  ASSUME NEW x \in Nat \ {0}, NEW y \in 0..(WordRange - 1)
  PROVE  UMulHi(x, y) \in 0..(x - 1)
<1> DEFINE W == WordRange
<1>1. W \in Nat \ {0}
  BY LaneAssumption
<1> HIDE DEF W
<1>2. y \in Nat /\ y + 1 <= W
  BY <1>1 DEF W
<1>3. PICK q \in Int, r \in 0..(W - 1) : q = (x * y) \div W /\ x * y = W * q + r
  <2>1. x * y \in Int
    BY <1>2
  <2>2. /\ (x * y) \div W \in Int /\ (x * y) % W \in 0..(W - 1)
        /\ x * y = W * ((x * y) \div W) + ((x * y) % W)
    BY <1>1, <2>1, DivMod
  <2> QED  BY <2>2
<1>4. x * (y + 1) <= x * W /\ x * (y + 1) = x * y + x
  BY <1>1, <1>2, TimesMonotone
<1>5. q >= 0
  <2> SUFFICES ASSUME q <= -1 PROVE FALSE
    BY <1>3
  <2>1. W * q <= W * (-1)
    BY <1>1, <1>3, TimesMonotone
  <2>2. x * y >= 0
    BY <1>2
  <2> QED  BY <1>1, <1>3, <2>1, <2>2
<1>6. q < x
  <2> SUFFICES ASSUME x <= q PROVE FALSE
    BY <1>3
  <2>1. W * x <= W * q
    BY <1>1, <1>3, TimesMonotone
  <2>2. x * W = W * x
    BY <1>1
  <2> QED  BY <1>1, <1>2, <1>3, <1>4, <2>1, <2>2
<1>7. UMulHi(x, y) = q
  BY <1>3 DEF UMulHi, W
<1> QED  BY <1>3, <1>5, <1>6, <1>7

LEMMA RefPosInLane ==
  ASSUME NEW lane, OnLane(lane), lane.slice < 4, NEW r \in 0..(WordRange - 1)
  PROVE  ComputeRefPos(lane.segment, lane.slice, lane.offset, r) \in 0..(lane.curr - 2)
<1>1. /\ lane.curr \in Nat /\ lane.curr >= 2 /\ lane.curr = lane.slice * lane.segment + lane.offset
      /\ lane.segment \in Nat /\ lane.slice \in 0..4 /\ lane.offset \in Nat
  BY DEF OnLane, Walking, Lanes
<1>2. UMulHi(r, r) \in 0..(WordRange - 1)
  <2>1. CASE r = 0
    BY <2>1, LaneAssumption DEF UMulHi
  <2>2. CASE r # 0
    <3>1. r \in Nat \ {0} /\ r <= WordRange - 1
      BY <2>2, LaneAssumption
    <3>2. UMulHi(r, r) \in 0..(r - 1)
      BY <3>1, UMulHiBelow
    <3> QED  BY <3>1, <3>2, LaneAssumption
  <2> QED  BY <2>1, <2>2
<1>3. PICK area \in Nat \ {0} : area = lane.curr - 1
  BY <1>1
<1>4. UMulHi(area, UMulHi(r, r)) \in 0..(area - 1)
  BY <1>2, <1>3, UMulHiBelow
<1>5. ComputeRefPos(lane.segment, lane.slice, lane.offset, r) = area - 1 - UMulHi(area, UMulHi(r, r))
  <2>1. lane.slice * lane.segment + lane.offset - 1 = area
    BY <1>1, <1>3
  <2> QED  BY <2>1 DEF ComputeRefPos
<1> QED  BY <1>1, <1>3, <1>4, <1>5

\* The workgroups cover the batch.
LEMMA GroupsCover ==
  ASSUME NEW threads \in Nat \ {0}, NEW batch \in Nat, NEW j \in 0..(batch - 1)
  PROVE  \E group \in 0..((batch + threads - 1) \div threads - 1), item \in 0..(threads - 1) :
           group * threads + item = j
<1>1. PICK g \in Int, i \in 0..(threads - 1) : j = threads * g + i
  <2>1. /\ j \div threads \in Int /\ j % threads \in 0..(threads - 1)
        /\ j = threads * (j \div threads) + (j % threads)
    BY DivMod
  <2> QED  BY <2>1
<1>2. PICK n \in Int, r \in 0..(threads - 1) :
        n = (batch + threads - 1) \div threads /\ batch + threads - 1 = threads * n + r
  <2>1. batch + threads - 1 \in Int
    OBVIOUS
  <2> QED  BY <2>1, DivMod
<1>3. g >= 0
  <2> SUFFICES ASSUME g <= -1 PROVE FALSE
    BY <1>1
  <2>1. threads * g <= threads * (-1)
    BY <1>1, TimesMonotone
  <2> QED  BY <1>1, <2>1
<1>4. g <= n - 1
  <2> SUFFICES ASSUME n <= g PROVE FALSE
    BY <1>1, <1>2
  <2>1. threads * n <= threads * g
    BY <1>1, <1>2, TimesMonotone
  <2> QED  BY <1>1, <1>2, <2>1
<1>5. g * threads + i = j
  BY <1>1
<1>6. g \in 0..((batch + threads - 1) \div threads - 1)
  BY <1>1, <1>2, <1>3, <1>4
<1> QED  BY <1>1, <1>5, <1>6

LEMMA FirstBlocksOnce ==
  ASSUME NEW threads \in Nat \ {0}, NEW batch \in Nat, NEW segment
  PROVE  LaunchFirstBlocks(threads, batch, segment) = FirstTwo(batch, segment)
<1> DEFINE Block(j, i) == [at |-> j * 4 * segment + i, key |-> j, index |-> i]
           Groups == 0..((batch + threads - 1) \div threads - 1)
           Items == 0..(threads - 1)
           Jobs == 0..(batch - 1)
           Written == {Block(j, i) : j \in Jobs, i \in {0, 1}}
<1>1. \A group, item : FirstBlocksKernel(group, item, threads, batch, segment) =
        IF group * threads + item >= batch THEN {}
        ELSE {Block(group * threads + item, i) : i \in {0, 1}}
  BY DEF FirstBlocksKernel
<1>2. ASSUME NEW group \in Groups, NEW item \in Items, ~(group * threads + item >= batch)
      PROVE  group * threads + item \in Jobs
  <2>1. group \in Nat /\ item \in Nat
    <3>1. (batch + threads - 1) \div threads \in Int
      BY DivMod
    <3> QED  BY <3>1
  <2>2. group * threads \in Nat
    BY <2>1
  <2> QED  BY <1>2, <2>1, <2>2
<1>3. ASSUME NEW j \in Jobs
      PROVE  \E group \in Groups, item \in Items :
               group * threads + item = j /\ ~(group * threads + item >= batch)
  <2>1. PICK group \in Groups, item \in Items : group * threads + item = j
    BY GroupsCover
  <2>2. ~(j >= batch)
    OBVIOUS
  <2> QED  BY <2>1, <2>2
<1>4. LaunchFirstBlocks(threads, batch, segment) =
        UNION {FirstBlocksKernel(group, item, threads, batch, segment) :
                 group \in Groups, item \in Items}
  BY DEF LaunchFirstBlocks
<1> HIDE DEF Groups, Items, Jobs, Block
<1>5. ASSUME NEW b \in LaunchFirstBlocks(threads, batch, segment) PROVE b \in Written
  <2>1. PICK group \in Groups, item \in Items :
          b \in FirstBlocksKernel(group, item, threads, batch, segment)
    BY <1>4
  <2>2. PICK i \in {0, 1} :
          ~(group * threads + item >= batch) /\ b = Block(group * threads + item, i)
    BY <1>1, <2>1
  <2> QED  BY <1>2, <2>2
<1>6. ASSUME NEW b \in Written PROVE b \in LaunchFirstBlocks(threads, batch, segment)
  <2>1. PICK j \in Jobs, i \in {0, 1} : b = Block(j, i)
    OBVIOUS
  <2>2. PICK group \in Groups, item \in Items :
          group * threads + item = j /\ ~(group * threads + item >= batch)
    BY <1>3
  <2>3. b \in FirstBlocksKernel(group, item, threads, batch, segment)
    BY <1>1, <2>1, <2>2
  <2> QED  BY <1>4, <2>3
<1>7. LaunchFirstBlocks(threads, batch, segment) = Written
  BY <1>5, <1>6
<1> QED  BY <1>7 DEF FirstTwo, Block, Jobs

-----------------------------------------------------------------------------
(* The configuration of a launch. *)

LEMMA GivenProperties ==
  ASSUME NEW flag, NEW otherwise
  PROVE  /\ flag = {} => Given(flag, otherwise) = otherwise
         /\ flag # {} => Given(flag, otherwise) \in flag
         /\ \A v : Given({v}, otherwise) = v
BY DEF Given

\* read_positive_int: what it reads is in range, and a flag leaves the file out of account.
LEMMA ReadInRange ==
  ASSUME NEW text, NEW flag, NEW default \in 0..MaxKib
  PROVE  /\ ReadPositiveInt(text, flag, default) # {}
              => Given(ReadPositiveInt(text, flag, default), 0) \in 0..MaxKib
         /\ ReadPositiveInt(text, flag, default) # {}
              => ReadPositiveInt(NoText, flag, default) # {}
<1> DEFINE read == Given({Numeral(v) : v \in flag}, text)
           other == Given({Numeral(v) : v \in flag}, NoText)
<1>1. ReadPositiveInt(text, flag, default) \subseteq 0..MaxKib
  <2> HIDE DEF read
  <2>1. ReadPositiveInt(text, flag, default) =
          CASE read.is = "none" -> {default}
            [] read.is = "junk" -> {}
            [] OTHER -> {v \in {read.value} : v \in 0..MaxKib}
    BY DEF ReadPositiveInt, read
  <2>2. CASE read.is = "none"
    BY <2>1, <2>2
  <2>3. CASE read.is # "none" /\ read.is = "junk"
    BY <2>1, <2>3
  <2>4. CASE read.is # "none" /\ read.is # "junk"
    BY <2>1, <2>4
  <2> QED  BY <2>2, <2>3, <2>4
<1>2. CASE flag = {}
  <2>1. {Numeral(v) : v \in flag} = {}
    BY <1>2
  <2>2. other = NoText
    BY <2>1, GivenProperties
  <2>3. other.is = "none"
    BY <2>2 DEF NoText
  <2>4. ReadPositiveInt(NoText, flag, default) = {default}
    <3> HIDE DEF other
    <3> QED  BY <2>3 DEF ReadPositiveInt, other
  <2> QED  BY <1>1, <2>4, GivenProperties
<1>3. CASE flag # {}
  <2>1. {Numeral(v) : v \in flag} # {}
    BY <1>3
  <2>2. read = other
    BY <2>1 DEF Given
  <2>3. ReadPositiveInt(NoText, flag, default) = ReadPositiveInt(text, flag, default)
    <3> HIDE DEF read, other
    <3> QED  BY <2>2 DEF ReadPositiveInt, read, other
  <2> QED  BY <1>1, <2>3, GivenProperties
<1> QED  BY <1>2, <1>3

LEMMA PortInRange ==
  ASSUME NEW cli, NEW file
  PROVE  /\ DashboardPort(cli, file) # {} => Given(DashboardPort(cli, file), 0) \in 1..MaxPort
         /\ DashboardPort(cli, file) # {} =>
              \A c, f : c.dashboard_port = cli.dashboard_port => DashboardPort(c, f) # {}
<1> DEFINE stored == {p \in Stoi(file.port) : p \in 1..MaxPort}
<1>1. CASE cli.dashboard_port = {}
  <2>1. DashboardPort(cli, file) = {Given(stored, DefaultPort)}
    BY <1>1 DEF DashboardPort
  <2>2. Given(stored, DefaultPort) \in 1..MaxPort
    <3>1. stored \subseteq 1..MaxPort /\ DefaultPort \in 1..MaxPort
      BY ConfigAssumption
    <3> HIDE DEF stored
    <3> QED  BY <3>1, GivenProperties
  <2>3. \A c, f : c.dashboard_port = cli.dashboard_port => DashboardPort(c, f) # {}
    BY <1>1 DEF DashboardPort
  <2> QED  BY <2>1, <2>2, <2>3, GivenProperties
<1>2. CASE cli.dashboard_port # {}
  <2>1. DashboardPort(cli, file) = {p \in cli.dashboard_port : p \in 1..MaxPort}
    BY <1>2 DEF DashboardPort
  <2>2. \A c, f : c.dashboard_port = cli.dashboard_port
          => DashboardPort(c, f) = {p \in cli.dashboard_port : p \in 1..MaxPort}
    BY <1>2 DEF DashboardPort
  <2>3. DashboardPort(cli, file) # {} => Given(DashboardPort(cli, file), 0) \in DashboardPort(cli, file)
    BY GivenProperties
  <2> QED  BY <2>1, <2>2, <2>3
<1> QED  BY <1>1, <1>2

SettingsFit(s) ==
  /\ s.mode \in MarginModes
  /\ {s.step, s.max, s.cpu_max} \subseteq 0..MaxKib
  /\ s.bind \in Binds /\ s.port \in 1..MaxPort
  /\ s.journal # Empty
  /\ s.streams \in 1..2 /\ WorkersValid(s.workers)
  /\ s.display \in {"logs", "terminal"}

LEMMA SettingsAreFit ==
  ASSUME NEW cli, NEW file, NEW operator, Settings(cli, file, operator) # {}
  PROVE  SettingsFit(CHOOSE s \in Settings(cli, file, operator) : TRUE)
<1> DEFINE mode == TextOr(cli.margin_mode, file.mode, "off")
           step == ReadPositiveInt(file.step, cli.margin, DefaultStep)
           max == ReadPositiveInt(file.max, cli.margin_max, DefaultMax)
           port == DashboardPort(cli, file)
           bind == DashboardBind(cli, file)
           display == Given(cli.display, "logs")
           s == [mode |-> mode,
                 step |-> Given(step, 0),
                 max |-> Given(max, 0),
                 initial_margin |-> IF mode = "fixed" THEN Given(step, 0) ELSE 0,
                 journal |-> TextOr(cli.journal_path, file.journal, DefaultJournal),
                 bind |-> bind,
                 port |-> Given(port, 0),
                 streams |-> Given(cli.gpu_streams, 1),
                 workers |-> Given(cli.cpu_workers, 0),
                 cpu_max |-> Given(cli.cpu_max_difficulty, DefaultCpuMax),
                 quiesce |-> Given(cli.difficulty_quiesce_ms, DefaultQuiesce),
                 display |-> ResolveDisplay(display, operator.interactive, operator.display)]
<1> HIDE DEF mode, step, max, port, bind, display
<1>1. Settings(cli, file, operator) =
        IF \/ display \notin {"logs", "terminal", "prompt"} \/ mode \notin MarginModes
           \/ step = {} \/ max = {} \/ port = {} \/ bind \notin Binds \/ ~NumericFlagsValid(cli)
        THEN {} ELSE {s}
  BY DEF Settings, mode, step, max, port, bind, display
<1>2. /\ mode \in MarginModes /\ step # {} /\ max # {} /\ port # {} /\ bind \in Binds
      /\ NumericFlagsValid(cli)
  BY <1>1
<1>3. Settings(cli, file, operator) = {s}
  BY <1>1
<1>4. (CHOOSE t \in {s} : TRUE) = s
  <2> HIDE DEF s
  <2> QED  OBVIOUS
<1>5. Given(step, 0) \in 0..MaxKib /\ Given(max, 0) \in 0..MaxKib
  BY <1>2, ReadInRange, ConfigAssumption DEF step, max
<1>6. Given(port, 0) \in 1..MaxPort
  BY <1>2, PortInRange DEF port
<1>7. Given(cli.cpu_max_difficulty, DefaultCpuMax) \in 0..MaxKib
  BY <1>2, GivenProperties, ConfigAssumption DEF NumericFlagsValid
<1>8. Given(cli.gpu_streams, 1) \in 1..2
  BY <1>2, GivenProperties DEF NumericFlagsValid
<1>9. WorkersValid(Given(cli.cpu_workers, 0))
  <2>1. WorkersValid(0)
    <3>1. LogicalThreads \in Nat
      BY ConfigAssumption
    <3> QED  BY <3>1 DEF WorkersValid
  <2> QED  BY <1>2, <2>1, GivenProperties DEF NumericFlagsValid
<1>10. TextOr(cli.journal_path, file.journal, DefaultJournal) # Empty
  BY ConfigAssumption DEF TextOr, Empty
<1>11. ResolveDisplay(display, operator.interactive, operator.display) \in {"logs", "terminal"}
  BY DEF ResolveDisplay
<1>12. SettingsFit(s)
  BY <1>2, <1>5, <1>6, <1>7, <1>8, <1>9, <1>10, <1>11 DEF SettingsFit
<1> HIDE DEF s
<1> QED  BY <1>3, <1>4, <1>12

\* The settings are read from the keys that Load leaves alone, and without asking.
LEMMA SettingsKept ==
  ASSUME NEW cli, NEW file, NEW operator, NEW f, NEW o,
         f.mode = file.mode, f.step = file.step, f.max = file.max,
         f.journal = file.journal, f.bind = file.bind, f.port = file.port,
         o.interactive = operator.interactive, o.display = operator.display
  PROVE  Settings(cli, f, o) = Settings(cli, file, operator)
BY DEF Settings, DashboardPort, DashboardBind

\* What the command line leaves to the file has a default.
LEMMA SettingsDefault ==
  ASSUME NEW cli, NEW file, NEW operator, Settings(cli, file, operator) # {},
         NEW c, NEW f, NEW o,
         c.margin_mode = cli.margin_mode, c.margin = cli.margin, c.margin_max = cli.margin_max,
         c.dashboard_port = cli.dashboard_port, c.dashboard_bind = cli.dashboard_bind,
         c.gpu_streams = cli.gpu_streams, c.cpu_workers = cli.cpu_workers,
         c.cpu_max_difficulty = cli.cpu_max_difficulty,
         c.difficulty_quiesce_ms = cli.difficulty_quiesce_ms, c.display = cli.display,
         f.mode = Empty, f.step = NoText, f.max = NoText, f.bind = Empty
  PROVE  Settings(c, f, o) # {}
<1>1. /\ Given(cli.display, "logs") \in {"logs", "terminal", "prompt"}
      /\ TextOr(cli.margin_mode, file.mode, "off") \in MarginModes
      /\ ReadPositiveInt(file.step, cli.margin, DefaultStep) # {}
      /\ ReadPositiveInt(file.max, cli.margin_max, DefaultMax) # {}
      /\ DashboardPort(cli, file) # {}
      /\ DashboardBind(cli, file) \in Binds
      /\ NumericFlagsValid(cli)
  BY DEF Settings
<1>2. TextOr(c.margin_mode, f.mode, "off") \in MarginModes
  <2>1. CASE cli.margin_mode = {}
    BY <2>1 DEF TextOr, Given, MarginModes
  <2>2. CASE cli.margin_mode # {}
    BY <1>1, <2>2 DEF TextOr, Given
  <2> QED  BY <2>1, <2>2
<1>3. /\ ReadPositiveInt(f.step, c.margin, DefaultStep) # {}
      /\ ReadPositiveInt(f.max, c.margin_max, DefaultMax) # {}
  BY <1>1, ReadInRange, ConfigAssumption
<1>4. DashboardPort(c, f) # {}
  BY <1>1, PortInRange
<1>5. DashboardBind(c, f) \in Binds
  <2>1. CASE cli.dashboard_bind = {}
    BY <2>1, ConfigAssumption DEF DashboardBind, TextOr, Given
  <2>2. CASE cli.dashboard_bind # {}
    BY <1>1, <2>2 DEF DashboardBind, Given
  <2> QED  BY <2>1, <2>2
<1>6. NumericFlagsValid(c)
  BY <1>1 DEF NumericFlagsValid
<1>7. Given(c.display, "logs") \in {"logs", "terminal", "prompt"}
  BY <1>1
<1> QED  BY <1>2, <1>3, <1>4, <1>5, <1>6, <1>7 DEF Settings

\* What the operator is asked for is asked until it is valid.
LEMMA PromptsAreValid ==
  ASSUME NEW operator
  PROVE  /\ PromptForEip55Address(operator.account) \subseteq Addresses
         /\ PromptForDevfeePermillage(operator.fee) \subseteq 0..MaxFee
<1>1. \A answers, valid : FirstOf(answers, valid) \subseteq valid
  BY DEF FirstOf
<1>2. \A a \in {Numeral(fee) : fee \in 0..MaxFee} : a.value \in 0..MaxFee
  BY DEF Numeral
<1> QED  BY <1>1, <1>2 DEF PromptForEip55Address, PromptForDevfeePermillage

\* An identity that a launch may go ahead with.
Identified(account, eco, fee) ==
  account \in Addresses /\ eco \in Addresses \cup {Empty} /\ fee \in 0..MaxFee

\* Load leaves a file that the next Load takes as it is, and changes two keys only.
LEMMA LoadRepairs ==
  ASSUME NEW file \in Files, NEW operator, Load(file, operator).ok
  PROVE  LET found == Load(file, operator)
         IN  /\ Identified(found.account, found.eco, found.fee)
             /\ found.file.account = found.account /\ found.file.fee = Numeral(found.fee)
             /\ found.file.mode = file.mode /\ found.file.step = file.step
             /\ found.file.max = file.max /\ found.file.journal = file.journal
             /\ found.file.bind = file.bind /\ found.file.port = file.port
             /\ found.file.eco = file.eco
             /\ found.eco = IF file.eco \in Addresses THEN file.eco ELSE Empty
<1> DEFINE account == IF file.account \in Addresses THEN {file.account}
                      ELSE PromptForEip55Address(operator.account)
           stored == {v \in Stoi(file.fee) : IsValidDevfee(v)}
           fee == IF stored # {} THEN stored ELSE PromptForDevfeePermillage(operator.fee)
           asks == (file.account \notin Addresses) \/ stored = {}
           a == Given(account, Empty)
           f == Given(fee, 0)
           left == [file EXCEPT !.exists = TRUE, !.account = a, !.fee = Numeral(f)]
           eco == IF file.eco \in Addresses THEN file.eco ELSE Empty
<1>1. account \subseteq Addresses
  BY PromptsAreValid
<1>2. fee \subseteq 0..MaxFee
  BY PromptsAreValid DEF IsValidDevfee
<1> HIDE DEF account, fee, asks
<1>3. Load(file, operator) =
        IF account = {} \/ fee = {} THEN [ok |-> FALSE, file |-> file, asked |-> asks]
        ELSE [ok |-> TRUE, account |-> a, eco |-> eco, fee |-> f, file |-> left, asked |-> asks]
  BY DEF Load, Repaired, account, fee, asks, stored
<1>4. account # {} /\ fee # {}
  BY <1>3
<1>5. a \in Addresses /\ f \in 0..MaxFee
  BY <1>1, <1>2, <1>4, GivenProperties
<1>6. Identified(a, eco, f)
  BY <1>5 DEF Identified
<1> HIDE DEF a, f, left, eco
<1>7. Load(file, operator) =
        [ok |-> TRUE, account |-> a, eco |-> eco, fee |-> f, file |-> left, asked |-> asks]
  BY <1>3, <1>4
<1>8. /\ left.account = a /\ left.fee = Numeral(f)
      /\ left.mode = file.mode /\ left.step = file.step /\ left.max = file.max
      /\ left.journal = file.journal /\ left.bind = file.bind /\ left.port = file.port
      /\ left.eco = file.eco
  BY DEF left, Files
<1> QED  BY <1>6, <1>7, <1>8 DEF eco

\* A file with a valid address and fee is loaded without a question.
LEMMA LoadTakes ==
  ASSUME NEW file, NEW operator, NEW fee \in 0..MaxFee,
         file.account \in Addresses, file.fee = Numeral(fee)
  PROVE  LET found == Load(file, operator)
         IN  /\ found.ok /\ ~found.asked
             /\ found.account = file.account /\ found.fee = fee
             /\ found.eco = IF file.eco \in Addresses THEN file.eco ELSE Empty
<1> DEFINE stored == {v \in Stoi(file.fee) : IsValidDevfee(v)}
           a == Given({file.account}, Empty)
           f == Given({fee}, 0)
           left == [file EXCEPT !.exists = TRUE, !.account = a, !.fee = Numeral(f)]
           eco == IF file.eco \in Addresses THEN file.eco ELSE Empty
<1>1. stored = {fee}
  BY DEF Stoi, Numeral, IsValidDevfee
<1>2. a = file.account /\ f = fee
  BY GivenProperties
<1> HIDE DEF stored, a, f, left, eco
<1> DEFINE asks == (file.account \notin Addresses) \/ stored = {}
<1>3. ~asks
  BY <1>1
<1> HIDE DEF asks
<1>4. Load(file, operator) =
        [ok |-> TRUE, account |-> a, eco |-> eco, fee |-> f, file |-> left, asked |-> asks]
  BY <1>1 DEF Load, Repaired, stored, a, f, left, eco, asks
<1>5. /\ Load(file, operator).ok /\ Load(file, operator).asked = asks
      /\ Load(file, operator).account = a /\ Load(file, operator).fee = f
      /\ Load(file, operator).eco = eco
  BY <1>4
<1> QED  BY <1>2, <1>3, <1>5 DEF eco

\* The identity of a launch, and what it takes to go ahead.
Final(cli, found) ==
  [account |-> Given(cli.miner_addr, found.account),
   eco |-> Given(cli.eco_dev_addr, found.eco),
   fee |-> Given(cli.total_dev_fee, found.fee)]

Goes(cli, file, operator) ==
  LET found == LoadIdentity(cli, file, operator)
  IN  /\ Settings(cli, file, operator) # {}
      /\ found.ok /\ IdentityFlagsValid(cli) /\ IdentityValid(cli, found)
      /\ ~(cli.platform_mode /\ cli.mqtt_broker = Empty)

LEMMA ResolveGoes ==
  ASSUME NEW cli, NEW file, NEW operator
  PROVE  LET r == Resolve(cli, file, operator)
             found == LoadIdentity(cli, file, operator)
             final == Final(cli, found)
         IN  /\ r.ok => Goes(cli, file, operator)
             /\ Goes(cli, file, operator) =>
                  /\ r.ok /\ r.asked = found.asked /\ r.identity = final
                  /\ r.file = IF cli.save_config THEN Save(final) ELSE found.file
                  /\ r.settings = CHOOSE s \in Settings(cli, file, operator) : TRUE
<1> DEFINE found == LoadIdentity(cli, file, operator)
           final == Final(cli, found)
           settings == Settings(cli, file, operator)
           left == IF cli.save_config THEN Save(final) ELSE found.file
           chosen == CHOOSE s \in settings : TRUE
           Refused(f, asks) == [ok |-> FALSE, file |-> f, asked |-> asks]
           r == Resolve(cli, file, operator)
<1> HIDE DEF found, final, settings
<1>1. r = IF settings = {} THEN Refused(file, FALSE)
          ELSE IF ~found.ok \/ ~IdentityFlagsValid(cli) \/ ~IdentityValid(cli, found)
               THEN Refused(found.file, found.asked)
               ELSE IF cli.platform_mode /\ cli.mqtt_broker = Empty
                    THEN Refused(left, found.asked)
                    ELSE [ok |-> TRUE, file |-> left, asked |-> found.asked,
                          identity |-> final, settings |-> chosen]
  BY DEF Resolve, found, final, settings, Final
<1> HIDE DEF left, chosen, r
<1>2. Goes(cli, file, operator) <=>
        /\ settings # {} /\ found.ok /\ IdentityFlagsValid(cli) /\ IdentityValid(cli, found)
        /\ ~(cli.platform_mode /\ cli.mqtt_broker = Empty)
  BY DEF Goes, found, settings
<1>3. ~Goes(cli, file, operator) => ~r.ok
  <2>1. CASE settings = {}
    <3>1. r = Refused(file, FALSE)
      BY <1>1, <2>1
    <3> QED  BY <3>1
  <2>2. CASE /\ settings # {}
             /\ ~found.ok \/ ~IdentityFlagsValid(cli) \/ ~IdentityValid(cli, found)
    <3>1. r = Refused(found.file, found.asked)
      BY <1>1, <2>2
    <3> QED  BY <3>1
  <2>3. CASE /\ settings # {}
             /\ ~(~found.ok \/ ~IdentityFlagsValid(cli) \/ ~IdentityValid(cli, found))
             /\ cli.platform_mode /\ cli.mqtt_broker = Empty
    <3>1. r = Refused(left, found.asked)
      BY <1>1, <2>3
    <3> QED  BY <3>1
  <2> QED  BY <1>2, <2>1, <2>2, <2>3
<1>4. ASSUME Goes(cli, file, operator)
      PROVE  /\ r.ok /\ r.asked = found.asked /\ r.identity = final
             /\ r.file = left /\ r.settings = chosen
  <2>1. r = [ok |-> TRUE, file |-> left, asked |-> found.asked,
             identity |-> final, settings |-> chosen]
    BY <1>1, <1>2, <1>4
  <2> QED  BY <2>1
<1>5. /\ r.ok => Goes(cli, file, operator)
      /\ Goes(cli, file, operator) =>
           /\ r.ok /\ r.asked = found.asked /\ r.identity = final
           /\ r.file = left /\ r.settings = chosen
  BY <1>3, <1>4
<1> QED  BY <1>5 DEF r, found, final, left, chosen, settings

LEMMA GoesIdentified ==
  ASSUME NEW cli, NEW file, NEW operator, Goes(cli, file, operator)
  PROVE  LET final == Final(cli, LoadIdentity(cli, file, operator))
         IN  Identified(final.account, final.eco, final.fee)
BY DEF Goes, IdentityValid, IsValidDevfee, Final, Identified

\* The same command line on the file a launch leaves.
LEMMA SameAgain ==
  ASSUME NEW cli, NEW file \in Files, NEW operator, NEW nobody, Goes(cli, file, operator),
         nobody.interactive = operator.interactive, nobody.display = operator.display
  PROVE  LET found == LoadIdentity(cli, file, operator)
             again == LoadIdentity(cli, found.file, nobody)
         IN  /\ Goes(cli, found.file, nobody)
             /\ ~again.asked /\ Final(cli, again) = Final(cli, found)
             /\ Settings(cli, found.file, nobody) = Settings(cli, file, operator)
<1> DEFINE found == LoadIdentity(cli, file, operator)
           left == found.file
           again == LoadIdentity(cli, left, nobody)
<1>1. /\ Settings(cli, file, operator) # {} /\ found.ok /\ IdentityFlagsValid(cli)
      /\ IdentityValid(cli, found) /\ ~(cli.platform_mode /\ cli.mqtt_broker = Empty)
  BY DEF Goes
<1>2. /\ again.ok /\ ~again.asked /\ again.account = found.account /\ again.eco = found.eco
      /\ again.fee = found.fee /\ Settings(cli, left, nobody) = Settings(cli, file, operator)
  <2>1. CASE cli.test_fixed_diff
    <3>1. found = [ok |-> TRUE, account |-> NullAddress, eco |-> NullAddress, fee |-> 0,
                   file |-> file, asked |-> FALSE]
      BY <2>1 DEF LoadIdentity
    <3>2. left = file
      BY <3>1
    <3> HIDE DEF found, left
    <3>3. again = [ok |-> TRUE, account |-> NullAddress, eco |-> NullAddress, fee |-> 0,
                   file |-> left, asked |-> FALSE]
      BY <2>1 DEF LoadIdentity
    <3>4. Settings(cli, file, nobody) = Settings(cli, file, operator)
      BY SettingsKept
    <3> HIDE DEF again
    <3> QED  BY <3>1, <3>2, <3>3, <3>4
  <2>2. CASE ~cli.test_fixed_diff /\ (cli.miner_addr = {} \/ cli.total_dev_fee = {})
    <3>1. found = Load(file, operator)
      BY <2>2 DEF LoadIdentity
    <3>2. /\ Identified(found.account, found.eco, found.fee)
          /\ left.account = found.account /\ left.fee = Numeral(found.fee)
          /\ left.mode = file.mode /\ left.step = file.step
          /\ left.max = file.max /\ left.journal = file.journal
          /\ left.bind = file.bind /\ left.port = file.port
          /\ left.eco = file.eco
          /\ found.eco = IF file.eco \in Addresses THEN file.eco ELSE Empty
      BY <1>1, <3>1, LoadRepairs
    <3> HIDE DEF found, left
    <3>3. again = Load(left, nobody)
      BY <2>2 DEF LoadIdentity
    <3>4. /\ again.ok /\ ~again.asked
          /\ again.account = left.account /\ again.fee = found.fee
          /\ again.eco = IF left.eco \in Addresses THEN left.eco ELSE Empty
      <4> HIDE DEF again
      <4>1. found.fee \in 0..MaxFee /\ left.account \in Addresses
        BY <3>2 DEF Identified
      <4> QED  BY <3>2, <3>3, <4>1, LoadTakes
    <3>5. Settings(cli, left, nobody) = Settings(cli, file, operator)
      BY <3>2, SettingsKept
    <3> HIDE DEF again
    <3> QED  BY <3>2, <3>4, <3>5
  <2>3. CASE ~cli.test_fixed_diff /\ ~(cli.miner_addr = {} \/ cli.total_dev_fee = {})
    <3>1. found = TryLoad(file)
      BY <2>3 DEF LoadIdentity
    <3>2. left = file
      BY <3>1 DEF TryLoad
    <3> HIDE DEF found, left
    <3>3. again = TryLoad(left)
      BY <2>3 DEF LoadIdentity
    <3>4. Settings(cli, file, nobody) = Settings(cli, file, operator)
      BY SettingsKept
    <3> HIDE DEF again
    <3> QED  BY <3>1, <3>2, <3>3, <3>4 DEF TryLoad
  <2> QED  BY <2>1, <2>2, <2>3
<1>3. Goes(cli, left, nobody)
  <2> HIDE DEF found, left
  <2>1. IdentityValid(cli, again)
    <3> HIDE DEF again
    <3> QED  BY <1>1, <1>2 DEF IdentityValid
  <2> QED  BY <1>1, <1>2, <2>1 DEF Goes
<1>4. Final(cli, again) = Final(cli, found)
  <2> HIDE DEF found, left, again
  <2> QED  BY <1>2 DEF Final
<1> QED  BY <1>2, <1>3, <1>4

\* And the command line without its identity, on the file --saveConfig leaves.
LEMMA SavedAgain ==
  ASSUME NEW cli, NEW file, NEW operator, NEW nobody, NEW bare, Goes(cli, file, operator),
         bare.miner_addr = {}, bare.total_dev_fee = {}, bare.eco_dev_addr = {},
         ~bare.test_fixed_diff,
         bare.platform_mode = cli.platform_mode, bare.mqtt_broker = cli.mqtt_broker,
         bare.margin_mode = cli.margin_mode, bare.margin = cli.margin,
         bare.margin_max = cli.margin_max, bare.dashboard_port = cli.dashboard_port,
         bare.dashboard_bind = cli.dashboard_bind, bare.gpu_streams = cli.gpu_streams,
         bare.cpu_workers = cli.cpu_workers,
         bare.cpu_max_difficulty = cli.cpu_max_difficulty,
         bare.difficulty_quiesce_ms = cli.difficulty_quiesce_ms, bare.display = cli.display
  PROVE  LET final == Final(cli, LoadIdentity(cli, file, operator))
             again == LoadIdentity(bare, Save(final), nobody)
         IN  /\ Goes(bare, Save(final), nobody)
             /\ ~again.asked /\ Final(bare, again) = final
<1> DEFINE final == Final(cli, LoadIdentity(cli, file, operator))
           left == Save(final)
           again == LoadIdentity(bare, left, nobody)
<1>1. Identified(final.account, final.eco, final.fee)
  BY GoesIdentified
<1>2. final = [account |-> final.account, eco |-> final.eco, fee |-> final.fee]
  BY DEF Final
<1> HIDE DEF final
<1>3. /\ left.account = final.account /\ left.eco = final.eco /\ left.fee = Numeral(final.fee)
      /\ left.mode = Empty /\ left.step = NoText /\ left.max = NoText /\ left.bind = Empty
  BY DEF Save, NoFile
<1> HIDE DEF left
<1>4. again = Load(left, nobody)
  BY DEF LoadIdentity
<1>5. /\ again.ok /\ ~again.asked /\ again.account = final.account /\ again.fee = final.fee
      /\ again.eco = final.eco
  <2> HIDE DEF again
  <2>1. final.fee \in 0..MaxFee /\ left.account \in Addresses /\ final.eco \in Addresses \cup {Empty}
    BY <1>1, <1>3 DEF Identified
  <2>2. /\ again.ok /\ ~again.asked /\ again.account = left.account /\ again.fee = final.fee
        /\ again.eco = IF left.eco \in Addresses THEN left.eco ELSE Empty
    BY <1>3, <1>4, <2>1, LoadTakes
  <2> QED  BY <1>3, <2>1, <2>2
<1>6. Settings(bare, left, nobody) # {}
  <2>1. Settings(cli, file, operator) # {}
    BY DEF Goes
  <2> QED  BY <1>3, <2>1, SettingsDefault
<1>7. IdentityFlagsValid(bare)
  BY DEF IdentityFlagsValid
<1> HIDE DEF again
<1>8. Final(bare, again) = final
  BY <1>2, <1>5, GivenProperties DEF Final
<1>9. IdentityValid(bare, again)
  <2>1. /\ Given(bare.eco_dev_addr, again.eco) = final.eco
        /\ Given(bare.miner_addr, again.account) = final.account
        /\ Given(bare.total_dev_fee, again.fee) = final.fee
    BY <1>5, GivenProperties
  <2> QED  BY <1>1, <2>1 DEF IdentityValid, IsValidDevfee, Identified
<1>10. ~(bare.platform_mode /\ bare.mqtt_broker = Empty)
  BY DEF Goes
<1>11. Goes(bare, left, nobody)
  BY <1>5, <1>6, <1>7, <1>9, <1>10 DEF Goes, again
<1> QED  BY <1>5, <1>8, <1>11 DEF again, left, final

LEMMA RelaunchStable ==
  ASSUME NEW cli \in CommandLines, NEW file \in Files, NEW operator \in Operators,
         Resolve(cli, file, operator).ok
  PROVE  LET first == Resolve(cli, file, operator)
             nobody == [operator EXCEPT !.account = <<>>, !.fee = <<>>]
             bare == [cli EXCEPT !.miner_addr = {}, !.total_dev_fee = {},
                                 !.eco_dev_addr = {}, !.test_fixed_diff = FALSE,
                                 !.save_config = FALSE]
             again == Resolve(IF cli.save_config THEN bare ELSE cli, first.file, nobody)
         IN  /\ WellFormed(cli, first)
             /\ again.ok /\ ~again.asked
             /\ again.identity = first.identity
             /\ ~cli.save_config => again.settings = first.settings
<1> DEFINE first == Resolve(cli, file, operator)
           nobody == [operator EXCEPT !.account = <<>>, !.fee = <<>>]
           bare == [cli EXCEPT !.miner_addr = {}, !.total_dev_fee = {},
                               !.eco_dev_addr = {}, !.test_fixed_diff = FALSE,
                               !.save_config = FALSE]
           found == LoadIdentity(cli, file, operator)
           final == Final(cli, found)
           again == Resolve(IF cli.save_config THEN bare ELSE cli, first.file, nobody)
<1>1. Goes(cli, file, operator)
  BY ResolveGoes
<1>2. /\ first.identity = final
      /\ first.file = IF cli.save_config THEN Save(final) ELSE found.file
      /\ first.settings = CHOOSE s \in Settings(cli, file, operator) : TRUE
  BY <1>1, ResolveGoes
<1>3. nobody.interactive = operator.interactive /\ nobody.display = operator.display
  BY DEF Operators
<1>4. WellFormed(cli, first)
  <2>1. Identified(final.account, final.eco, final.fee)
    BY <1>1, GoesIdentified
  <2>2. SettingsFit(first.settings)
    <3>1. Settings(cli, file, operator) # {}
      BY <1>1 DEF Goes
    <3> HIDE DEF first
    <3> QED  BY <1>2, <3>1, SettingsAreFit
  <2>3. cli.platform_mode => cli.mqtt_broker # Empty
    BY <1>1 DEF Goes
  <2> HIDE DEF first, final
  <2> QED  BY <1>2, <2>1, <2>2, <2>3 DEF WellFormed, Identified, SettingsFit
<1> HIDE DEF nobody
<1>5. CASE ~cli.save_config
  <2>1. first.file = found.file /\ again = Resolve(cli, found.file, nobody)
    BY <1>2, <1>5
  <2> DEFINE loaded == LoadIdentity(cli, found.file, nobody)
  <2>2. /\ Goes(cli, found.file, nobody)
        /\ ~loaded.asked /\ Final(cli, loaded) = final
        /\ Settings(cli, found.file, nobody) = Settings(cli, file, operator)
    BY <1>1, <1>3, SameAgain
  <2> HIDE DEF first, found, final
  <2>3. LET r == Resolve(cli, found.file, nobody)
        IN  /\ r.ok /\ r.asked = loaded.asked /\ r.identity = Final(cli, loaded)
            /\ r.settings = CHOOSE s \in Settings(cli, found.file, nobody) : TRUE
    BY <2>2, ResolveGoes
  <2> HIDE DEF again, loaded
  <2>4. /\ again.ok /\ ~again.asked /\ again.identity = first.identity
        /\ again.settings = first.settings
    BY <1>2, <2>1, <2>2, <2>3
  <2> QED  BY <1>4, <2>4 DEF again, first, nobody
<1>6. CASE cli.save_config
  <2>1. first.file = Save(final) /\ again = Resolve(bare, Save(final), nobody)
    BY <1>2, <1>6
  <2>2. /\ bare.miner_addr = {} /\ bare.total_dev_fee = {} /\ bare.eco_dev_addr = {}
        /\ ~bare.test_fixed_diff
        /\ bare.platform_mode = cli.platform_mode /\ bare.mqtt_broker = cli.mqtt_broker
        /\ bare.margin_mode = cli.margin_mode /\ bare.margin = cli.margin
        /\ bare.margin_max = cli.margin_max /\ bare.dashboard_port = cli.dashboard_port
        /\ bare.dashboard_bind = cli.dashboard_bind /\ bare.gpu_streams = cli.gpu_streams
        /\ bare.cpu_workers = cli.cpu_workers
        /\ bare.cpu_max_difficulty = cli.cpu_max_difficulty
        /\ bare.difficulty_quiesce_ms = cli.difficulty_quiesce_ms /\ bare.display = cli.display
    BY DEF CommandLines
  <2> DEFINE loaded == LoadIdentity(bare, Save(final), nobody)
  <2> HIDE DEF bare, first
  <2>3. /\ Goes(bare, Save(final), nobody)
        /\ ~loaded.asked /\ Final(bare, loaded) = final
    BY <1>1, <2>2, SavedAgain
  <2> HIDE DEF found, final
  <2>4. LET r == Resolve(bare, Save(final), nobody)
        IN  r.ok /\ r.asked = loaded.asked /\ r.identity = Final(bare, loaded)
    BY <2>3, ResolveGoes
  <2> HIDE DEF again, loaded
  <2>5. again.ok /\ ~again.asked /\ again.identity = first.identity
    BY <1>2, <2>1, <2>3, <2>4
  <2> QED  BY <1>4, <1>6, <2>5 DEF again, first, nobody, bare
<1> QED  BY <1>5, <1>6

LEMMA DevicesNamed ==
  ASSUME NEW texts, NEW count \in Nat \ {0}
  PROVE  ParseDeviceList(texts, count) # {} /\ ParseDeviceList(texts, count) \subseteq 0..(count - 1)
<1>1. 0 \in 0..(count - 1)
  OBVIOUS
<1> QED  BY <1>1 DEF ParseDeviceList

-----------------------------------------------------------------------------
(* The answers. *)

\* What a question's arguments are, and what holds of the three that go on.
WellAsked ==
  /\ asked[1] = "response" => asked[2] \in Responses
  /\ asked[1] = "health" => asked[2] \in BOOLEAN /\ asked[3] \in [Devices -> Healths]
  /\ asked[1] \in {"day", "window"} => asked[2] \in Int
  /\ asked[1] = "second" => asked[2] \in Nat
  /\ asked[1] = "launch" => /\ asked[2] \in CommandLines /\ asked[3] \in Files
                            /\ asked[4] \in Operators
  /\ asked[1] = "devices" => asked[3] \in Nat \ {0}
  /\ asked[1] = "first blocks" => asked[2] \in Grids
  /\ asked[1] = "lane" => OnLane(asked[2])
  /\ asked[1] = "margin" => Watching(asked[2])
  /\ asked[1] = "verifier" => Remembers(asked[2])

LEMMA ObservationIn ==
  ASSUME NEW now \in Nat, NEW open \in BOOLEAN, NEW counted \in BOOLEAN, NEW backlog \in 0..1
  PROVE  LET obs == Observation(now, open, counted, backlog)
         IN  obs \in Outlook /\ obs.now = now /\ obs.open = open
BY DEF Observation, Outlook

LEMMA AnswersKept ==
  /\ AnswerInit => WellAsked
  /\ WellAsked /\ [AnswerNext]_asked => WellAsked'
<1>1. AnswerInit => WellAsked
  BY DEF AnswerInit, WellAsked
<1>2. ASSUME WellAsked, AnswerNext PROVE WellAsked'
  <2>1. CASE AskClassify
    <3>1. PICK r \in Responses, k \in {"Xen11", "Xuni"} : asked' = <<"response", r, k>>
      BY <2>1 DEF AskClassify, Ask
    <3> QED  BY <3>1 DEF WellAsked
  <2>2. CASE AskSelfTest
    <3>1. PICK reference \in BOOLEAN, h \in [Devices -> Healths] :
            asked' = <<"health", reference, h>>
      BY <2>2 DEF AskSelfTest, Ask
    <3> QED  BY <3>1 DEF WellAsked
  <2>3. CASE AskTime
    <3>1. CASE \E d \in Days : Ask(<<"day", d>>)
      <4>1. PICK d \in Int : asked' = <<"day", d>>
        BY <3>1, AnswersAssumption DEF Ask
      <4> QED  BY <4>1 DEF WellAsked
    <3>2. CASE \E s \in Seconds : Ask(<<"second", s>>)
      <4>1. PICK s \in Nat : asked' = <<"second", s>>
        BY <3>2, AnswersAssumption DEF Ask
      <4> QED  BY <4>1 DEF WellAsked
    <3>3. CASE \E t \in Instants : Ask(<<"window", t>>)
      <4>1. PICK t \in Int : asked' = <<"window", t>>
        BY <3>3, AnswersAssumption DEF Ask
      <4> QED  BY <4>1 DEF WellAsked
    <3> QED  BY <2>3, <3>1, <3>2, <3>3 DEF AskTime
  <2>4. CASE AskLaunch
    <3>1. CASE \E l \in Launches : Ask(<<"launch", l.cli, l.file, l.operator>>)
      <4>1. PICK l \in Launches : asked' = <<"launch", l.cli, l.file, l.operator>>
        BY <3>1 DEF Ask
      <4>2. l.cli \in CommandLines /\ l.file \in Files /\ l.operator \in Operators
        <5>1. l \in [cli : CommandLines, file : Files, operator : Operators]
          BY AnswersAssumption
        <5> QED  BY <5>1
      <4> QED  BY <4>1, <4>2 DEF WellAsked
    <3>2. CASE \E l \in DeviceLists : Ask(<<"devices", l.texts, l.count>>)
      <4>1. PICK l \in DeviceLists : asked' = <<"devices", l.texts, l.count>>
        BY <3>2 DEF Ask
      <4>2. l.count \in Nat \ {0}
        BY AnswersAssumption
      <4> QED  BY <4>1, <4>2 DEF WellAsked
    <3> QED  BY <2>4, <3>1, <3>2 DEF AskLaunch
  <2>5. CASE AskFirstBlocks
    <3>1. PICK g \in Grids : asked' = <<"first blocks", g>>
      BY <2>5 DEF AskFirstBlocks, Ask
    <3> QED  BY <3>1 DEF WellAsked
  <2>6. CASE AskLane
    <3>1. PICK segment \in Nat \ {0, 1} : asked' = <<"lane", LaneStart(segment)>>
      BY <2>6, AnswersAssumption DEF AskLane, Ask
    <3>2. OnLane(LaneStart(segment))
      BY StartOnLane
    <3> QED  BY <3>1, <3>2 DEF WellAsked
  <2>7. CASE AskMargin
    <3>1. PICK counted \in BOOLEAN, backlog \in 0..1 :
            asked' = <<"margin", Watched(NotWatched, Observation(0, FALSE, counted, backlog))>>
      BY <2>7 DEF AskMargin, Ask
    <3>2. Watching(Watched(NotWatched, Observation(0, FALSE, counted, backlog)))
      <4> DEFINE obs == Observation(0, FALSE, counted, backlog)
      <4>1. obs \in Outlook /\ obs.now = 0 /\ obs.open = FALSE
        BY ObservationIn
      <4>2. NotWatched.seen.now = 0
        BY DEF NotWatched, Observation
      <4> HIDE DEF obs
      <4>3. Watching(Watched(NotWatched, obs))
        BY <4>1, <4>2, NotWatchedWatching, StepWatching
      <4> QED  BY <4>3 DEF obs
    <3> QED  BY <3>1, <3>2 DEF WellAsked
  <2>8. CASE AskVerifier
    <3>1. asked' = <<"verifier", NewVerifier>>
      BY <2>8 DEF AskVerifier, Ask
    <3> QED  BY <3>1, NewRemembers DEF WellAsked
  <2>9. CASE WriteBlock
    <3>1. asked' = <<"lane", LaneStep(asked[2])>> /\ OnLane(asked[2]) /\ asked[2].slice < 4
      BY <1>2, <2>9 DEF WriteBlock, WellAsked
    <3>2. OnLane(LaneStep(asked[2]))
      BY <3>1, StepOnLane
    <3> QED  BY <3>1, <3>2 DEF WellAsked
  <2>10. CASE ManagerStep
    <3> DEFINE w == asked[2]
    <3>1. Watching(w)
      BY <1>2, <2>10 DEF ManagerStep, WellAsked
    <3>2. PICK pause \in Pauses, open \in BOOLEAN, counted \in BOOLEAN, backlog \in 0..1 :
            /\ open => w.seen.now + pause > 0
            /\ asked' = <<"margin", Watched(w, Observation(w.seen.now + pause, open, counted,
                                                           backlog))>>
      BY <2>10 DEF ManagerStep
    <3>3. w.seen.now \in Nat /\ pause \in Nat
      BY <3>1, AnswersAssumption DEF Watching, Outlook
    <3> HIDE DEF w
    <3>4. PICK now \in Nat : now = w.seen.now + pause /\ w.seen.now <= now
      BY <3>3
    <3> DEFINE obs == Observation(now, open, counted, backlog)
    <3>5. obs \in Outlook /\ obs.now = now /\ obs.open = open
      BY ObservationIn
    <3>6. asked' = <<"margin", Watched(w, obs)>>
      BY <3>2, <3>4
    <3> HIDE DEF obs
    <3>7. Watching(Watched(w, obs))
      BY <3>1, <3>2, <3>4, <3>5, StepWatching
    <3> QED  BY <3>6, <3>7 DEF WellAsked
  <2>11. CASE DeliverCommand
    <3>1. PICK e \in Envelopes : asked' = <<"verifier", Deliver(asked[2], e)>>
      BY <2>11 DEF DeliverCommand
    <3>2. Remembers(asked[2])
      BY <1>2, <2>11 DEF WellAsked, DeliverCommand
    <3>3. Remembers(Deliver(asked[2], e))
      BY <3>2, DeliverRemembers
    <3> QED  BY <3>1, <3>3 DEF WellAsked
  <2>12. CASE Tick
    <3>1. asked' = <<"verifier", SecondPasses(asked[2])>>
      BY <2>12 DEF Tick
    <3>2. Remembers(asked[2])
      BY <1>2, <2>12 DEF WellAsked, Tick
    <3>3. Remembers(SecondPasses(asked[2]))
      BY <3>2, SecondRemembers
    <3> QED  BY <3>1, <3>3 DEF WellAsked
  <2> QED  BY <1>2, <2>1, <2>2, <2>3, <2>4, <2>5, <2>6, <2>7, <2>8, <2>9, <2>10, <2>11, <2>12
              DEF AnswerNext
<1>3. WellAsked /\ UNCHANGED asked => WellAsked'
  BY DEF WellAsked
<1> QED  BY <1>1, <1>2, <1>3

\* clocktime.rs follows the Gregorian calendar on every day there is, before and after the epoch:
\* civil_from_days and days_from_civil are each other's inverse and consecutive days are
\* consecutive dates; what iso_utc writes parse_http_date_ms reads; and for every length of the
\* hour and of the window, xuni_window_at is open exactly in the window and shuts at the end
\* of the time it claims to have left.
THEOREM TimeIsExactTheorem == AnswerSpec => []TimeIsExact
<1>1. WellAsked => TimeIsExact
  <2> SUFFICES ASSUME WellAsked PROVE TimeIsExact
    OBVIOUS
  <2>1. asked[1] = "day" => /\ CivilFromDays(asked[2] + 1) = DayAfter(CivilFromDays(asked[2]))
                            /\ DaysFromCivil(CivilFromDays(asked[2])) = asked[2]
    BY DaysConsecutive, DaysComeBack DEF WellAsked
  <2>2. asked[1] = "second" => ParseHttpDate(IsoUtc(asked[2])) = asked[2]
    BY SecondsComeBack DEF WellAsked
  <2>3. asked[1] = "window" =>
          LET w == XuniWindowAt(asked[2])
          IN  /\ w.open <=> InWindow(asked[2])
              /\ w.open => /\ \A t \in 0..(w.untilClose - 1) : InWindow(asked[2] + t)
                           /\ ~InWindow(asked[2] + w.untilClose)
    <3>1. asked[1] = "window" => asked[2] \in Int
      BY DEF WellAsked
    <3> QED  BY <3>1, WindowIsExact
  <2> QED  BY <2>1, <2>2, <2>3 DEF TimeIsExact, InWindow
<1> QED  BY <1>1, AnswersKept, PTL DEF AnswerSpec

\* A launch that goes ahead is well formed and stable, for every command line, file and operator:
\* the next one takes what it left without a question (resolve, load, try_load, --saveConfig).
THEOREM RelaunchIsStableTheorem == AnswerSpec => []RelaunchIsStable
<1>1. WellAsked => RelaunchIsStable
  <2> SUFFICES ASSUME WellAsked PROVE RelaunchIsStable
    OBVIOUS
  <2>1. asked[1] = "devices" =>
          LET devices == ParseDeviceList(asked[2], asked[3])
          IN  devices # {} /\ devices \subseteq 0..(asked[3] - 1)
    <3>1. asked[1] = "devices" => asked[3] \in Nat \ {0}
      BY DEF WellAsked
    <3> QED  BY <3>1, DevicesNamed
  <2>2. asked[1] = "launch" =>
          /\ asked[2] \in CommandLines /\ asked[3] \in Files /\ asked[4] \in Operators
    BY DEF WellAsked
  <2> QED  BY <2>1, <2>2, RelaunchStable DEF RelaunchIsStable
<1> QED  BY <1>1, AnswersKept, PTL DEF AnswerSpec

\* In auto mode the headroom covers what the difficulty can rise by the end of the present
\* period, however the manager's steps fall and for every step, maximum, period and evaluation
\* interval (compute_margin, update_margin).
THEOREM HeadroomCoversRiseTheorem == AnswerSpec => []HeadroomCoversRise
<1>1. WellAsked => HeadroomCoversRise
  <2> SUFFICES ASSUME WellAsked, asked[1] = "margin", asked[2].fresh
               PROVE  LET w == asked[2]
                          ends == w.began + Period * (1 + (w.seen.now - w.began) \div Period)
                      IN  /\ w.seen.open => \A phase \in 0..(Period - 1) :
                               w.step.margin >= NoMoreThan(StepKib * RisesBetween(w.began, ends, phase),
                                                           MaxMarginKib)
                          /\ ~w.seen.open /\ w.seen.backlog = 0 => w.step.margin = 0
    BY DEF HeadroomCoversRise
  <2>1. Watching(asked[2])
    BY DEF WellAsked
  <2> QED  BY <2>1, WatchingCovers
<1> QED  BY <1>1, AnswersKept, PTL DEF AnswerSpec

\* A GPU job walks its lane the way Argon2id does, for every segment length, every size of an
\* address block and every width of a reference index, and its first blocks are written once
\* whatever the grid (argon2_first_blocks_kernel, argon2_kernel_oneshot, compute_ref_pos).
THEOREM LaneIsArgon2idTheorem == AnswerSpec => []LaneIsArgon2id
<1>1. WellAsked => LaneIsArgon2id
  <2> SUFFICES ASSUME WellAsked PROVE LaneIsArgon2id
    OBVIOUS
  <2>1. ASSUME asked[1] = "first blocks"
        PROVE  LET g == asked[2]
               IN  LaunchFirstBlocks(g.threads, g.batch, g.segment) = FirstTwo(g.batch, g.segment)
    <3>1. asked[2] \in [threads : Nat \ {0}, batch : Nat, segment : Nat \ {0, 1}]
      BY <2>1, AnswersAssumption DEF WellAsked
    <3>2. asked[2].threads \in Nat \ {0} /\ asked[2].batch \in Nat
      BY <3>1
    <3> QED  BY <3>2, FirstBlocksOnce
  <2>2. ASSUME asked[1] = "lane"
        PROVE  LET lane == asked[2]
               IN  /\ lane.curr > 2 => lane.from = Argon2id(lane.segment, lane.curr - 1)
                   /\ lane.slice < 4 =>
                        /\ lane.curr < 4 * lane.segment
                        /\ \A r \in 0..(WordRange - 1) :
                             ComputeRefPos(lane.segment, lane.slice, lane.offset, r)
                               \in 0..(lane.curr - 2)
                   /\ lane.slice = 4 => lane.curr = 4 * lane.segment
    <3> DEFINE lane == asked[2]
    <3>1. OnLane(lane)
      BY <2>2 DEF WellAsked
    <3> HIDE DEF lane
    <3>2. /\ lane.curr > 2 => lane.from = Argon2id(lane.segment, lane.curr - 1)
          /\ lane.segment \in Nat /\ lane.slice \in 0..4 /\ lane.offset \in Nat
          /\ lane.curr = lane.slice * lane.segment + lane.offset
          /\ IF lane.slice = 4 THEN lane.offset = 0 ELSE lane.offset < lane.segment
      BY <3>1 DEF OnLane, Walking, Lanes
    <3>3. lane.slice < 4 => lane.curr < 4 * lane.segment
      <4> SUFFICES ASSUME lane.slice < 4 PROVE lane.curr < 4 * lane.segment
        OBVIOUS
      <4>1. lane.segment * lane.slice <= lane.segment * 3
        BY <3>2, TimesMonotone
      <4>2. lane.slice * lane.segment = lane.segment * lane.slice
        BY <3>2
      <4> QED  BY <3>2, <4>1, <4>2
    <3>4. lane.slice = 4 => lane.curr = 4 * lane.segment
      BY <3>2
    <3>5. lane.slice < 4 => \A r \in 0..(WordRange - 1) :
            ComputeRefPos(lane.segment, lane.slice, lane.offset, r) \in 0..(lane.curr - 2)
      BY <3>1, RefPosInLane
    <3>6. /\ lane.curr > 2 => lane.from = Argon2id(lane.segment, lane.curr - 1)
          /\ lane.slice < 4 =>
               /\ lane.curr < 4 * lane.segment
               /\ \A r \in 0..(WordRange - 1) :
                    ComputeRefPos(lane.segment, lane.slice, lane.offset, r) \in 0..(lane.curr - 2)
          /\ lane.slice = 4 => lane.curr = 4 * lane.segment
      BY <3>2, <3>3, <3>4, <3>5
    <3> QED  BY <3>6 DEF lane
  <2> QED  BY <2>1, <2>2 DEF LaneIsArgon2id
<1> QED  BY <1>1, AnswersKept, PTL DEF AnswerSpec

\* However the broker repeats and delays signed commands, and however many there are, one that
\* is obeyed again was pushed out of the cache by `capacity' newer ones, or is delivered in the
\* very second it expires (NonceCache::check_and_insert).
THEOREM TwiceOnlyAtTheEdgeTheorem == AnswerSpec => []TwiceOnlyAtTheEdge
<1>1. WellAsked => TwiceOnlyAtTheEdge
  BY DEF WellAsked, Remembers, Once, TwiceOnlyAtTheEdge
<1> QED  BY <1>1, AnswersKept, PTL DEF AnswerSpec

\* Every response the classifier sends back to Pending is one the breaker counts, or a 429, and
\* the breaker counts no other (classify, submit_step).
THEOREM PendingIsOutageTheorem == AnswerSpec => []PendingIsOutage
<1>1. WellAsked => PendingIsOutage
  <2> SUFFICES ASSUME NEW r \in Responses, NEW k
               PROVE  Classify(r, k).next_status = "Pending"
                        <=> TransportFailure(r) \/ r.status = 429
    BY DEF WellAsked, PendingIsOutage
  <2>1. r.status \in Nat /\ r.blank \in BOOLEAN
    BY AnswersAssumption
  <2> QED  BY <2>1 DEF Classify, TransportFailure, Unhealthy, TRANSPORT_ERROR, Verdict, NeedsLookup,
                       ParkedAt
<1> QED  BY <1>1, AnswersKept, PTL DEF AnswerSpec

\* Every verdict has its reason in the response: a lookup that is owed, a difficulty to wait for,
\* or words that leave no doubt (classify).
THEOREM VerdictHasItsReasonTheorem == AnswerSpec => []VerdictHasItsReason
<1>1. WellAsked => VerdictHasItsReason
  <2> SUFFICES ASSUME NEW r \in Responses, NEW k
               PROVE  LET c == Classify(r, k)
                      IN  /\ c.next_status = "AcceptedUnconfirmed" <=> c.lookup
                          /\ c.next_status = "ParkedDifficulty" <=> c.hint # NoHint
                          /\ c.next_status = "PermanentlyInvalid" =>
                               /\ "terminal" \in r.says
                               /\ ~("exists" \in r.says /\ r.status \in {400, 409})
                          /\ c.next_status = "ParkedXuniWindow" => k = "Xuni"
                          /\ c.next_status \notin {"Acked", "Dead", "Absent"}
    BY DEF WellAsked, VerdictHasItsReason
  <2>1. r.status \in Nat
    BY AnswersAssumption
  <2> QED  BY <2>1 DEF Classify, Unhealthy, TRANSPORT_ERROR, Verdict, NeedsLookup, ParkedAt, NoHint
<1> QED  BY <1>1, AnswersKept, PTL DEF AnswerSpec

\* For any number of devices: only a path whose digest the CPU reproduced mines, no healthy
\* device is lost, and the miner gives up only without one (run_self_test, decide_device).
THEOREM OnlyVerifiedPathsMineTheorem == AnswerSpec => []OnlyVerifiedPathsMine
<1>1. WellAsked => OnlyVerifiedPathsMine
  <2> SUFFICES ASSUME NEW b \in BOOLEAN, NEW h \in [Devices -> Healths]
               PROVE  LET report == RunSelfTest(b, h)
                          mining == MiningDevices(report)
                      IN  /\ \A d \in mining : b /\ Matches(h[d], report[d].gpuFirstBlocks)
                          /\ \A d \in DOMAIN h : b /\ Matches(h[d], DefaultFirstBlocks) => d \in mining
                          /\ IsFatal(b, report) <=>
                               b => \A d \in DOMAIN h : ~Matches(h[d], DefaultFirstBlocks)
    BY DEF WellAsked, OnlyVerifiedPathsMine
  <2> QED  BY SelfTestAssumption DEF RunSelfTest, MiningDevices, IsFatal, Decision, Matches, Healths
<1> QED  BY <1>1, AnswersKept, PTL DEF AnswerSpec

-----------------------------------------------------------------------------
(* The difficulty and its cache. *)

\* What each thread has in hand on the way: the poller's sample is the server's and the file it
\* renames is whole; the supervisor and set_config carry values somebody named.
InHand ==
  /\ cache \in Difficulties \cup {Absent}
  /\ poller \in {"sampled", "writing", "renaming"} => sample \in Difficulties
  /\ poller = "renaming" => tmp = sample
  /\ sup \in {"remote", "live"} => remote \in Values
  /\ sup = "report" => live \in Values
  /\ last_remote \in Values
  /\ applying # <<>> => ordered \in Difficulties

SyncInv == TypeOK /\ InHand

LEMMA SyncConstants ==
  /\ Difficulties \subseteq Values /\ FALLBACK_DIFFICULTY \in Values
  /\ Absent \notin Difficulties /\ MaxFailures \in Nat /\ 0 \in 0..MaxFailures
  BY SyncAssumption DEF Values, Absent

LEMMA SyncInit == Init => SyncInv
<1> SUFFICES ASSUME Init PROVE SyncInv
  OBVIOUS
<1>1. endpoint_down \in BOOLEAN
  BY Zenon DEF Init
<1>2. /\ network \in Difficulties /\ difficulty = FALLBACK_DIFFICULTY /\ failures = 0
      /\ cache = Absent /\ tmp = Absent /\ poller = "idle" /\ sup = "top" /\ applying = <<>>
      /\ coordinator = FALLBACK_DIFFICULTY /\ last_remote = FALLBACK_DIFFICULTY
  BY DEF Init
<1> QED  BY <1>1, <1>2, SyncConstants DEF SyncInv, InHand, TypeOK

LEMMA SyncStep == SyncInv /\ [Next]_vars => SyncInv'
<1> SUFFICES ASSUME SyncInv, [Next]_vars PROVE SyncInv'
  OBVIOUS
<1> USE SyncConstants DEF server, poll, supervisor, command
<1>1. CASE ServerChanges
  BY <1>1 DEF ServerChanges, SyncInv, InHand, TypeOK
<1>2. CASE Sampled
  BY <1>2 DEF Sampled, SyncInv, InHand, TypeOK
<1>3. CASE PollFails
  <2>1. endpoint_down' \in BOOLEAN
    BY <1>3, Zenon DEF PollFails, SyncInv, TypeOK, IsDownAfter
  <2> QED  BY <1>3, <2>1 DEF PollFails, SyncInv, InHand, TypeOK
<1>4. CASE SampleStored
  BY <1>4 DEF SampleStored, SyncInv, InHand, TypeOK
<1>5. CASE WritesTmp
  BY <1>5 DEF WritesTmp, SyncInv, InHand, TypeOK
<1>6. CASE RenamesTmp
  BY <1>6 DEF RenamesTmp, SyncInv, InHand, TypeOK
<1>7. CASE Restored
  <2>1. endpoint_down' \in BOOLEAN
    BY <1>7, Zenon DEF Restored
  <2> QED  BY <1>7, <2>1 DEF Restored, SyncInv, InHand, TypeOK
<1>8. CASE ReadsRemote
  BY <1>8 DEF ReadsRemote, SyncInv, InHand, TypeOK
<1>9. CASE CarriesRemote
  BY <1>9 DEF CarriesRemote, SyncInv, InHand, TypeOK
<1>10. CASE ReadsLive
  BY <1>10 DEF ReadsLive, SyncInv, InHand, TypeOK
<1>11. CASE ReportsLive
  BY <1>11 DEF ReportsLive, SyncInv, InHand, TypeOK
<1>12. ASSUME NEW d \in Difficulties, SetConfig(d) PROVE SyncInv'
  BY <1>12 DEF SetConfig, SyncInv, InHand, TypeOK
<1>13. CASE Apply
  <2>1. coordinator' \in Values /\ ordered' \in Difficulties
    BY <1>13 DEF Apply, SyncInv, InHand, TypeOK
  <2>2. UNCHANGED <<server, difficulty, poll, supervisor>>
    BY <1>13 DEF Apply
  <2> QED  BY <2>1, <2>2 DEF SyncInv, InHand, TypeOK
<1>14. CASE Crash
  <2>1. difficulty' \in Values /\ coordinator' = difficulty' /\ last_remote' = difficulty'
    BY <1>14 DEF Crash, LoadCached, SyncInv, InHand, TypeOK
  <2>2. /\ endpoint_down' \in BOOLEAN /\ failures' = 0 /\ poller' = "idle" /\ sup' = "top"
        /\ applying' = <<>> /\ UNCHANGED <<network, cache, tmp>>
    BY <1>14, Zenon DEF Crash
  <2> QED  BY <2>1, <2>2 DEF SyncInv, InHand, TypeOK
<1>15. CASE UNCHANGED vars
  BY <1>15 DEF vars, SyncInv, InHand, TypeOK
<1> QED  BY <1>1, <1>2, <1>3, <1>4, <1>5, <1>6, <1>7, <1>8, <1>9, <1>10, <1>11, <1>12, <1>13,
            <1>14, <1>15 DEF Next, Poller, Supervise

\* No thread ever makes a difficulty up, and a torn write never reaches the cache, for any set of
\* difficulties and any number of crashes (persist_difficulty, supervise, handle_set_config).
THEOREM DifficultyIsNeverMadeUp == Spec => []TypeOK
<1>1. SyncInv => TypeOK
  BY DEF SyncInv
<1> QED  BY <1>1, SyncInit, SyncStep, PTL DEF Spec

\* A step that finds a persisted difficulty leaves one the server named, and a restart mines at
\* it (persist_difficulty, load_cached_difficulty, seed_initial_difficulty).
THEOREM RestartKeepsDifficultyTheorem == Spec => RestartKeepsDifficulty
<1> DEFINE Keeps == cache # Absent => /\ cache' \in Difficulties
                                      /\ crashes' # crashes => difficulty' = cache
<1>1. SyncInv /\ [Next]_vars => [Keeps]_vars
  <2> SUFFICES ASSUME SyncInv, Next, cache # Absent
               PROVE  cache' \in Difficulties /\ (crashes' # crashes => difficulty' = cache)
    OBVIOUS
  <2> USE DEF server, poll, supervisor, command
  <2>1. cache \in Difficulties
    BY DEF SyncInv, InHand
  <2>2. CASE RenamesTmp
    BY <2>1, <2>2 DEF RenamesTmp, SyncInv, InHand
  <2>3. CASE Crash
    BY <2>1, <2>3 DEF Crash, LoadCached
  <2>4. CASE ~RenamesTmp /\ ~Crash
    <3>1. UNCHANGED <<cache, crashes>>
      BY <2>4 DEF Next, ServerChanges, Poller, Supervise, Sampled, PollFails, SampleStored, WritesTmp,
                  Restored, ReadsRemote, CarriesRemote, ReadsLive, ReportsLive, SetConfig, Apply
    <3> QED  BY <2>1, <3>1
  <2> QED  BY <2>2, <2>3, <2>4
<1>2. Spec => [][Keeps]_vars
  BY <1>1, SyncInit, SyncStep, PTL DEF Spec
<1> QED  BY <1>2 DEF RestartKeepsDifficulty

-----------------------------------------------------------------------------
(* The link to the broker. *)

\* What the pump's state says of its clock and its session: a sleep ends within `max' of the
\* broker's return, time without a session is counted in a sleep only, and the flag is up only
\* over a session.
LinkInv ==
  /\ current \in Nat /\ 0 < current /\ current <= max_delay
  /\ delay \in Nat /\ dark \in Nat /\ dark <= max_delay
  /\ pc \in {"polling", "replaying", "sleeping", "ended"}
  /\ connected \in BOOLEAN /\ stop \in BOOLEAN
  /\ session \in {"none", "live", "dead"} /\ broker \in {"up", "down"}
  /\ pc = "sleeping" => 0 < delay /\ delay + dark <= max_delay
  /\ broker = "down" => dark = 0
  /\ session # "none" => dark = 0 /\ pc \in {"polling", "replaying"}
  /\ pc = "replaying" => session # "none"
  /\ connected => session # "none"
  /\ pc = "ended" => stop

LEMMA DelaysAreNaturals ==
  initial_delay \in Nat /\ 0 < initial_delay /\ max_delay \in Nat /\ initial_delay <= max_delay
BY LinkAssumption

LEMMA LinkInvKept == LinkInv /\ [LinkNext]_linkvars => LinkInv'
<1> SUFFICES ASSUME LinkInv, [LinkNext]_linkvars PROVE LinkInv'
  OBVIOUS
<1> USE DelaysAreNaturals DEF LinkInv
<1>1. CASE Push
  BY <1>1 DEF Push, pump, outside
<1>2. CASE Request
  BY <1>2 DEF Request, pump, outside
<1>3. CASE ConnAck
  BY <1>3 DEF ConnAck
<1>4. CASE Replay
  BY <1>4 DEF Replay, outside
<1>5. CASE Send
  BY <1>5 DEF Send, pump
<1>6. CASE ConnectionLost
  <2>1. dark = 0
    BY <1>6 DEF ConnectionLost
  <2>2. /\ session' = "none" /\ connected' = FALSE
        /\ stop' = stop /\ broker' = broker /\ dark' = dark
    BY <1>6 DEF ConnectionLost
  <2>3. CASE stop
    <3>1. pc' = "ended" /\ current' = current /\ delay' = delay
      BY <1>6, <2>3 DEF ConnectionLost
    <3> QED  BY <2>1, <2>2, <2>3, <3>1
  <2>4. CASE ~stop
    <3>1. pc' = "sleeping" /\ delay' = current /\ current' = Doubled
      BY <1>6, <2>4 DEF ConnectionLost
    <3>2. Doubled \in Nat /\ 0 < Doubled /\ Doubled <= max_delay
      BY DEF Doubled, Smaller
    <3>3. /\ current' \in Nat /\ 0 < current' /\ current' <= max_delay
          /\ delay' \in Nat /\ dark' \in Nat /\ dark' <= max_delay
          /\ 0 < delay' /\ delay' + dark' <= max_delay
      BY <2>1, <2>2, <3>1, <3>2
    <3>4. connected' \in BOOLEAN /\ stop' \in BOOLEAN /\ ~connected'
      BY <2>2
    <3> QED  BY <2>1, <2>2, <3>1, <3>3, <3>4
  <2> QED  BY <2>3, <2>4
<1>7. CASE SleepSlice
  BY <1>7 DEF SleepSlice, transport, outside
<1>8. CASE PumpEnds
  BY <1>8 DEF PumpEnds
<1>9. CASE Shutdown
  BY <1>9 DEF Shutdown, transport, pump, outside
<1>10. CASE BrokerFails
  BY <1>10 DEF BrokerFails, transport, pump
<1>11. CASE BrokerReturns
  BY <1>11 DEF BrokerReturns, transport, pump
<1>12. CASE UNCHANGED linkvars
  BY <1>12 DEF linkvars, transport, pump, outside
<1> QED
  BY <1>1, <1>2, <1>3, <1>4, <1>5, <1>6, <1>7, <1>8, <1>9, <1>10, <1>11, <1>12 DEF LinkNext

LEMMA LinkInvHolds == LinkSpec => []LinkInv
<1>1. LinkInit => LinkInv
  <2> SUFFICES ASSUME LinkInit PROVE LinkInv
    OBVIOUS
  <2>1. /\ current = initial_delay /\ delay = 0 /\ dark = 0 /\ pc = "polling"
        /\ connected = FALSE /\ stop = FALSE /\ session = "none" /\ broker \in {"up", "down"}
    BY DEF LinkInit
  <2>2. /\ current \in Nat /\ 0 < current /\ current <= max_delay
        /\ delay \in Nat /\ dark \in Nat /\ dark <= max_delay
    BY <2>1, DelaysAreNaturals
  <2>3. connected \in BOOLEAN /\ stop \in BOOLEAN /\ ~connected
    BY <2>1
  <2> QED  BY <2>1, <2>2, <2>3 DEF LinkInv
<1> QED  BY <1>1, LinkInvKept, PTL DEF LinkSpec

\* However often the broker goes away and whatever the backoff has grown to, the rig dials it
\* within `max' of its return (pump_loop, next_delay).
THEOREM DialsInTimeTheorem == LinkSpec => []DialsInTime
<1>1. LinkInv => DialsInTime
  BY DEF LinkInv, DialsInTime
<1> QED  BY <1>1, LinkInvHolds, PTL

\* A pump that ended was told to, says so, and is not started again (pump_loop, shutdown).
THEOREM PumpEndsForGood == LinkSpec => [](Ended => []Ended)
<1>1. LinkInv /\ Ended /\ [LinkNext]_linkvars => Ended'
  <2> SUFFICES ASSUME LinkInv, Ended, [LinkNext]_linkvars PROVE Ended'
    OBVIOUS
  <2>1. pc = "ended" /\ ~connected /\ session = "none"
    BY DEF LinkInv, Ended
  <2> QED
    BY <2>1 DEF Ended, LinkNext, Push, Request, ConnAck, Replay, Send, ConnectionLost, SleepSlice,
                PumpEnds, Shutdown, BrokerFails, BrokerReturns, linkvars, transport, pump, outside
<1> QED  BY <1>1, LinkInvHolds, PTL DEF LinkSpec

-----------------------------------------------------------------------------
(* The fee cycle. *)

Identities == [prefix : BOOLEAN, eco : BOOLEAN, permillage : 0..FeeCycle]

LEMMA SegmentSize ==
  ASSUME NEW a \in Int, NEW b \in Int, a <= b
  PROVE  Cardinality(a..(b - 1)) = b - a
<1>1. Cardinality(a..(b - 1)) = IF a > b - 1 THEN 0 ELSE (b - 1) - a + 1
  BY FS_Interval
<1> QED  BY <1>1

\* A cycle of batches gives the fee exactly its permillage, the ecosystem the smaller half of
\* it where it has an address, and the user all the rest; with a self-mining prefix the user
\* has all of them, for every length of the cycle (select_work).
THEOREM FeeSharesTheorem ==
  ASSUME NEW id \in Identities
  PROVE  /\ id.prefix => Share(id, "user") = FeeCycle
         /\ ~id.prefix => /\ Share(id, "user") = FeeCycle - id.permillage
                          /\ Share(id, "eco") = IF id.eco THEN id.permillage \div 2 ELSE 0
                          /\ Share(id, "dev") = id.permillage - Share(id, "eco")
<1> DEFINE For(whom) == {i \in 0..(FeeCycle - 1) : SelectWork(id, i) = whom}
           half == id.permillage \div 2
           eco == IF id.eco THEN half ELSE 0
<1>1. FeeCycle \in Nat \ {0} /\ id.prefix \in BOOLEAN /\ id.eco \in BOOLEAN
      /\ id.permillage \in 0..FeeCycle
  BY HashBatchAssumption DEF Identities
<1>2. half \in Nat /\ half <= id.permillage
  BY <1>1
<1> HIDE DEF half
<1>3. eco \in 0..id.permillage
  BY <1>1, <1>2
<1> DEFINE fee == id.permillage
<1>4. ASSUME NEW i \in 0..(FeeCycle - 1)
      PROVE  /\ id.prefix => SelectWork(id, i) = "user"
             /\ ~id.prefix => /\ SelectWork(id, i) = "user" <=> i < FeeCycle - fee
                              /\ SelectWork(id, i) = "eco" <=> i >= FeeCycle - eco
                              /\ SelectWork(id, i) = "dev" <=> FeeCycle - fee <= i /\ i < FeeCycle - eco
  <2>1. SelectWork(id, i) =
          IF id.prefix \/ FeeCycle - i > fee THEN "user"
          ELSE IF FeeCycle - i <= half /\ id.eco THEN "eco" ELSE "dev"
    BY <1>1 DEF SelectWork, half
  <2> QED  BY <1>1, <1>2, <2>1
<1> HIDE DEF fee, eco
<1>5. CASE id.prefix
  <2>1. For("user") = 0..(FeeCycle - 1)
    BY <1>4, <1>5
  <2>2. Cardinality(For("user")) = FeeCycle
    <3> HIDE DEF For
    <3> QED  BY <1>1, <2>1, SegmentSize
  <2> QED  BY <1>5, <2>2 DEF Share
<1>6. CASE ~id.prefix
  <2>1. For("user") = 0..(FeeCycle - id.permillage - 1)
    BY <1>1, <1>4, <1>6 DEF fee
  <2>2. For("eco") = (FeeCycle - eco)..(FeeCycle - 1)
    BY <1>1, <1>3, <1>4, <1>6 DEF fee
  <2>3. For("dev") = (FeeCycle - id.permillage)..(FeeCycle - eco - 1)
    BY <1>1, <1>3, <1>4, <1>6 DEF fee
  <2>4. Cardinality(For("user")) = FeeCycle - id.permillage
    <3> DEFINE a == 0
               b == FeeCycle - id.permillage
    <3>1. a \in Int /\ b \in Int /\ a <= b
      BY <1>1, <1>3
    <3>2. Cardinality(a..(b - 1)) = b - a
      <4> HIDE DEF a, b
      <4> QED  BY <3>1, SegmentSize
    <3>3. Cardinality(For("user")) = b - a
      <4> HIDE DEF For
      <4> QED  BY <3>2, <2>1
    <3> QED  BY <1>1, <1>3, <3>3
  <2>5. Cardinality(For("eco")) = eco
    <3> DEFINE a == FeeCycle - eco
               b == FeeCycle
    <3>1. a \in Int /\ b \in Int /\ a <= b
      BY <1>1, <1>3
    <3>2. Cardinality(a..(b - 1)) = b - a
      <4> HIDE DEF a, b
      <4> QED  BY <3>1, SegmentSize
    <3>3. Cardinality(For("eco")) = b - a
      <4> HIDE DEF For
      <4> QED  BY <3>2, <2>2
    <3> QED  BY <1>1, <1>3, <3>3
  <2>6. Cardinality(For("dev")) = id.permillage - eco
    <3> DEFINE a == FeeCycle - id.permillage
               b == FeeCycle - eco
    <3>1. a \in Int /\ b \in Int /\ a <= b
      BY <1>1, <1>3
    <3>2. Cardinality(a..(b - 1)) = b - a
      <4> HIDE DEF a, b
      <4> QED  BY <3>1, SegmentSize
    <3>3. Cardinality(For("dev")) = b - a
      <4> HIDE DEF For
      <4> QED  BY <3>2, <2>3
    <3> QED  BY <1>1, <1>3, <3>3
  <2> QED  BY <1>6, <2>4, <2>5, <2>6 DEF Share, half, eco
<1> QED  BY <1>1, <1>5, <1>6
=============================================================================
