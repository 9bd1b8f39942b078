--------------------------- MODULE CommandEnvelope --------------------------
(***************************************************************************)
(* tm-platform/src/envelope.rs: whether a command that was delivered is    *)
(* obeyed.  The broker delivers at least once, late, and in any order, so  *)
(* an envelope may arrive again at any time; the cache of accepted nonces  *)
(* is what makes a command happen once.  Signatures are a fact of the      *)
(* envelope: what HMAC-SHA256 computes is external.  The verifier is an    *)
(* object without threads of its own, so its operations are functions of   *)
(* its state `v'.                                                          *)
(***************************************************************************)
EXTENDS Integers, Sequences

CONSTANTS Envelopes,     \* what may be delivered, see EnvelopeSet
          capacity,      \* NonceCache.capacity
          MAX_LIFETIME, CLOCK_SKEW

\* schema: every field is present, typed and bounded; ours: worker_id is this rig's;
\* signed: sig is the HMAC of the canonical string under the shared secret.
EnvelopeSet ==
  [nonce : Nat, issued_at : Nat, expires_at : Nat, schema : BOOLEAN,
   ours : BOOLEAN, signed : BOOLEAN]

ASSUME EnvelopeAssumption ==
  /\ Envelopes \subseteq EnvelopeSet
  /\ \A e, f \in Envelopes : e.nonce = f.nonce /\ e.signed /\ f.signed => e = f
  /\ capacity \in Nat \ {0}
  /\ MAX_LIFETIME \in Nat \ {0} /\ CLOCK_SKEW \in Nat

\* now: Clock::now_epoch_s; cache: NonceCache, its insertion_order with each entry's
\* expires_at; obeyed: history, the envelopes obeyed in order with their times.
NewVerifier == [now |-> 0, cache |-> <<>>, obeyed |-> <<>>]

-----------------------------------------------------------------------------
\* Mutant of purge_expired: drops a nonce a second before its envelope expires.
PurgeEarly(cache, now) ==
  LET live == {i \in 1..Len(cache) : cache[i].expires_at > now + 1}
  IN  IF live = {} THEN <<>>
      ELSE SubSeq(cache, CHOOSE i \in live : \A j \in live : i <= j, Len(cache))

\* purge_expired: sweep from the front, up to the first entry that is still live.
PurgeExpired(cache, now) ==
  LET live == {i \in 1..Len(cache) : cache[i].expires_at > now}
  IN  IF live = {} THEN <<>>
      ELSE SubSeq(cache, CHOOSE i \in live : \A j \in live : i <= j, Len(cache))

\* The eviction of check_and_insert: the oldest entry goes first.
Evict(cache) ==
  IF Len(cache) >= capacity THEN SubSeq(cache, Len(cache) - capacity + 2, Len(cache)) ELSE cache

Holds(cache, nonce) == \E i \in 1..Len(cache) : cache[i].nonce = nonce

\* verify_envelope up to the nonce, in the order of its checks.
VerifyStatus(e, now) ==
  CASE ~e.schema -> "MalformedAuth"
    [] e.schema /\ ~e.ours -> "WrongWorker"
    [] e.schema /\ e.ours /\ e.issued_at > now + CLOCK_SKEW -> "IssuedInFuture"
    [] OTHER ->
         IF e.expires_at <= e.issued_at \/ e.expires_at - e.issued_at > MAX_LIFETIME
         THEN "LifetimeInvalid"
         ELSE IF now > e.expires_at THEN "Expired"
         ELSE IF ~e.signed THEN "BadSignature" ELSE "Ok"

\* verify_envelope.  check_and_insert is called last: an envelope that fails leaves
\* the cache alone, a repeat only purges it.
Deliver(v, e) ==
  LET purged == PurgeExpired(v.cache, v.now)
  IN  IF VerifyStatus(e, v.now) # "Ok" THEN v
      ELSE IF Holds(purged, e.nonce) THEN [v EXCEPT !.cache = purged]
      ELSE [v EXCEPT !.cache = Append(Evict(purged),
                                      [nonce |-> e.nonce, expires_at |-> e.expires_at]),
                     !.obeyed = Append(@, [envelope |-> e, at |-> v.now])]

SecondPasses(v) == [v EXCEPT !.now = @ + 1]
=============================================================================
