------------------------- MODULE SmbCredits_proofs --------------------------
(***************************************************************************)
(* The accounts of a context of libsmb2, for every set of calls, every mix *)
(* of their kinds and every window: where the credits are that the server  *)
(* has granted, and which message ids they pay for.  CreditInv is          *)
(* inductive relative to CallInv of SmbClient_proofs.  TypeOK,             *)
(* WithinWindow and CreditsReturn follow.                                  *)
(***************************************************************************)
EXTENDS SmbClient_proofs

-----------------------------------------------------------------------------
\* Chains of requests, frames of replies, and what the server has taken.
Chains == Seq(Request) \ {<<>>}
Frames == Seq(Reply) \ {<<>>}
Entry == [chain : Chains, pended : BOOLEAN]

\* What the chains behind the i-th of a queue cost.
LaterCosts(q, i) == [j \in 1..(Len(q) - i) |-> Charge(q[i + j])]
CostBehind(q, i) == Total(LaterCosts(q, i))

\* What the replies of a frame bring, what those on their way bring together.
Grants(frame) == [k \in DOMAIN frame |-> frame[k].grant]
Carried(frame) == Total(Grants(frame))
Loads(fr) == [i \in DOMAIN fr |-> Carried(fr[i])]
Coming(fr) == Total(Loads(fr))

\* What the server will still grant for what it has taken.
Due(entry) == IF entry.pended THEN 0 ELSE Grant(entry.chain)
Dues(ib) == [i \in DOMAIN ib |-> Due(ib[i])]
Owed(ib) == Total(Dues(ib))

-----------------------------------------------------------------------------
\* No request costs more than the window; each comes after the one before it.
Bounded(p) == p.charge <= Window /\ p.prev <= p.mid
Affordable(o, w) == /\ \A i \in DOMAIN o : \A k \in DOMAIN o[i] : Bounded(o[i][k])
                    /\ \A i \in DOMAIN w : Bounded(w[i])

\* Before the session there is nothing to account for.
Opening ==
  link \in {"new", "connecting"} =>
    /\ credits = 0 /\ nextMid = 0 /\ granted = 1
    /\ inbox = <<>> /\ frames = <<>>

\* The NEGOTIATE travels alone and pays for itself.
Negotiates(o) == \E i \in DOMAIN o : o[i][1].cmd = "NEGOTIATE"
NegotiatesAlone ==
  Negotiates(outq) =>
    /\ Len(outq) = 1 /\ calls[outq[1][1].call].kind = "connect"
    /\ Charge(outq[1]) = 0
    /\ credits = 0 /\ waitq = <<>> /\ cur = None /\ inbox = <<>> /\ frames = <<>>

\* The credits in hand, on their way and owed never exceed the window, and make
\* it up as long as nothing was given up.
Budget ==
  ~Negotiates(outq) =>
    /\ credits + Coming(frames) + Owed(inbox) <= Window
    /\ expiries = 0 => credits + Coming(frames) + Owed(inbox) = Window

\* Message ids taken and the credits in hand and on their way are covered by
\* what the server has granted, save those that no credit pays for.
Ledger == nextMid + credits + Coming(frames) <= granted + skipped + Cost(outq)

\* Behind a queued request there is room for what is queued after it.
Room(o, n) ==
  \A i \in DOMAIN o : \A k \in DOMAIN o[i] :
    o[i][k].mid + Width(o[i][k].charge) + CostBehind(o, i) <= n

\* Message ids rise along the queues.
Rising(o, w, n) ==
  /\ \A i \in DOMAIN o : \A k \in DOMAIN o[i] :
       /\ o[i][k].mid < n
       /\ \A l \in DOMAIN o[i] : k < l => o[i][k].mid < o[i][l].mid
       /\ \A j \in DOMAIN o : i < j =>
            \A l \in DOMAIN o[j] : o[i][k].mid < o[j][l].mid
       /\ \A j \in DOMAIN w : w[j].mid < o[i][k].mid
  /\ \A i \in DOMAIN w : w[i].mid < n

\* An interim reply has a frame of its own.
Interims(fr) ==
  \A i \in DOMAIN fr : \A k \in DOMAIN fr[i] :
    fr[i][k].status = "pending" => Len(fr[i]) = 1

\* No reply comes twice; no request is answered twice, and each is awaited.
Final(r) == r.status # "pending"
Expects(w, m) == \E i \in DOMAIN w : w[i].mid = m
Distinct(fr) ==
  \A i, j \in DOMAIN fr : \A k \in DOMAIN fr[i] : \A l \in DOMAIN fr[j] :
    Final(fr[i][k]) /\ Final(fr[j][l]) /\ fr[i][k].mid = fr[j][l].mid => i = j /\ k = l
Unanswered(ib, w) ==
  \A i \in DOMAIN ib : \A k \in DOMAIN ib[i].chain :
    /\ Expects(w, ib[i].chain[k].mid)
    /\ \A j \in DOMAIN ib : \A l \in DOMAIN ib[j].chain :
         ib[i].chain[k].mid = ib[j].chain[l].mid => i = j /\ k = l

\* While nothing was given up: every reply on its way and every request the
\* server has not answered is awaited, and none comes twice.
Matched(fr, ib, w) ==
  /\ Distinct(fr) /\ Unanswered(ib, w)
  /\ \A i \in DOMAIN fr : \A k \in DOMAIN fr[i] : Final(fr[i][k]) =>
       /\ Expects(w, fr[i][k].mid)
       /\ \A j \in DOMAIN ib : \A l \in DOMAIN ib[j].chain :
            fr[i][k].mid # ib[j].chain[l].mid

\* The accounts of a session.
Accounts ==
  /\ NegotiatesAlone /\ Budget /\ Ledger
  /\ Room(outq, nextMid) /\ Rising(outq, waitq, nextMid) /\ Interims(frames)
  /\ expiries = 0 => Matched(frames, inbox, waitq)

\* What is inductive beside CallInv.
CreditInv ==
  /\ Affordable(outq, waitq) /\ WithinWindow /\ Opening
  /\ link = "up" => Accounts

-----------------------------------------------------------------------------
\* Sums of sequences of numbers.

\* Two sequences one behind the other.
LEMMA TotalConcat ==
  ASSUME NEW s \in Seq(Nat), NEW t \in Seq(Nat), NEW u \in Seq(Nat),
         Len(u) = Len(s) + Len(t), \A n \in 1..Len(s) : u[n] = s[n],
         \A n \in 1..Len(t) : u[Len(s) + n] = t[n]
  PROVE  Total(u) = Total(s) + Total(t)
<1> DEFINE L == Len(s)
           M == Len(t)
<1>1. L \in Nat /\ M \in Nat /\ Len(u) = L + M /\ L \in 0..L /\ M \in 0..M
  BY LenProperties
<1>2. PICK f : Sums(s, f)  BY TotalDef
<1>3. PICK g : Sums(t, g)  BY TotalDef
<1>4. /\ f \in [0..L -> Nat] /\ f[0] = 0 /\ Total(s) = f[L]
      /\ \A n \in 1..L : f[n] = f[n - 1] + s[n]
      /\ g \in [0..M -> Nat] /\ g[0] = 0 /\ Total(t) = g[M]
      /\ \A n \in 1..M : g[n] = g[n - 1] + t[n]
  BY <1>2, <1>3 DEF Sums
<1>5. \A n \in 1..L : u[n] = s[n]
  OBVIOUS
<1>6. \A n \in 1..M : u[L + n] = t[n]
  OBVIOUS
<1> HIDE DEF L, M
<1> DEFINE h == [n \in 0..(L + M) |-> IF n <= L THEN f[n] ELSE f[L] + g[n - L]]
<1>7. h[0] = 0  BY <1>1, <1>4
<1>8. ASSUME NEW n \in 1..(L + M) PROVE h[n] = h[n - 1] + u[n]
  <2>0. n \in 0..(L + M) /\ n - 1 \in 0..(L + M)  BY <1>1
  <2>1. CASE n <= L
    <3>1. n \in 1..L /\ n - 1 <= L  BY <1>1, <2>1
    <3>2. h[n] = f[n] /\ h[n - 1] = f[n - 1]  BY <2>0, <2>1, <3>1
    <3> QED BY <1>4, <1>5, <3>1, <3>2
  <2>2. CASE n = L + 1
    <3>1. ~ (n <= L) /\ n - 1 = L /\ n - L = 1 /\ 1 \in 1..M /\ L \in 0..L  BY <1>1, <2>2
    <3>2. h[n] = f[L] + g[1] /\ h[n - 1] = f[L]  BY <2>0, <3>1
    <3>3. g[1] = t[1] /\ u[L + 1] = t[1] /\ f[L] \in Nat /\ g[1] \in Nat
      <4>1. g[1] = g[0] + t[1] /\ g[1] \in Nat /\ 1 - 1 = 0 /\ t[1] \in Nat
        <5>1. t[1] \in Nat  BY <3>1, LenProperties DEF M
        <5>2. 1 \in 0..M BY <3>1, <1>1
        <5>3. g[1] = g[1 - 1] + t[1]  BY <1>4, <3>1
        <5> QED BY <1>4, <5>1, <5>2, <5>3
      <4> QED BY <1>4, <1>6, <3>1, <4>1
    <3> QED BY <2>2, <3>2, <3>3
  <2>3. CASE n > L + 1
    <3>1. /\ ~ (n <= L) /\ ~ (n - 1 <= L) /\ n - L \in 1..M /\ (n - 1) - L = (n - L) - 1
          /\ L + (n - L) = n /\ n - L \in 0..M /\ (n - L) - 1 \in 0..M
      BY <1>1, <2>3
    <3>2. h[n] = f[L] + g[n - L] /\ h[n - 1] = f[L] + g[(n - L) - 1]  BY <2>0, <3>1
    <3>3. g[n - L] = g[(n - L) - 1] + t[n - L] /\ u[n] = t[n - L]  BY <1>4, <1>6, <3>1
    <3>4. f[L] \in Nat /\ g[(n - L) - 1] \in Nat /\ t[n - L] \in Nat
      <4>1. t[n - L] \in Nat  BY <3>1, LenProperties DEF M
      <4> QED BY <1>1, <1>4, <3>1, <4>1
    <3>5. \A a, b, c \in Nat : a + (b + c) = (a + b) + c
      OBVIOUS
    <3>6. f[L] + (g[(n - L) - 1] + t[n - L]) = (f[L] + g[(n - L) - 1]) + t[n - L]
      BY <3>4, <3>5
    <3> HIDE DEF h
    <3> QED BY <3>2, <3>3, <3>6
  <2> QED BY <1>1, <2>1, <2>2, <2>3
<1>9. h[L + M] = f[L] + g[M]
  <2>1. CASE M = 0  BY <1>1, <1>4, <2>1
  <2>2. CASE M > 0
    <3>1. ~ (L + M <= L) /\ L + M \in 0..(L + M) /\ (L + M) - L = M  BY <1>1, <2>2
    <3> QED BY <3>1
  <2> QED BY <1>1, <2>1, <2>2
<1> HIDE DEF h
<1>10. Total(u) = h[L + M]
  <2>1. \A n \in 1..Len(u) : h[n] = h[n - 1] + u[n]  BY <1>1, <1>8
  <2> QED BY <1>1, <1>7, <2>1, TotalUnique
<1> QED BY <1>4, <1>9, <1>10

\* One number taken out of a sequence.
LEMMA TotalRemove ==
  ASSUME NEW s \in Seq(Nat), NEW k \in 1..Len(s), NEW t \in Seq(Nat), Len(t) = Len(s) - 1,
         \A n \in 1..Len(t) : t[n] = IF n < k THEN s[n] ELSE s[n + 1]
  PROVE  Total(s) = Total(t) + s[k]
<1> DEFINE L == Len(s)
<1>1. L \in Nat /\ \A n \in 1..L : s[n] \in Nat
  BY LenProperties
<1>2. PICK f : Sums(t, f)  BY TotalDef
<1>3. /\ f \in [0..(L - 1) -> Nat] /\ f[0] = 0 /\ Total(t) = f[L - 1] /\ k \in 1..L
      /\ \A n \in 1..(L - 1) : f[n] = f[n - 1] + t[n] /\ t[n] = IF n < k THEN s[n] ELSE s[n + 1]
  BY <1>2 DEF Sums
<1> DEFINE g == [n \in 0..L |-> IF n < k THEN f[n] ELSE f[n - 1] + s[k]]
<1> HIDE DEF L
<1>4. g[0] = 0 /\ g[L] = f[L - 1] + s[k]
  BY <1>1, <1>3
<1>5. ASSUME NEW n \in 1..L PROVE g[n] = g[n - 1] + s[n]
  <2>0. n \in 0..L /\ n - 1 \in 0..L  BY <1>1
  <2>1. CASE n < k
    <3>1. n - 1 < k /\ n \in 1..(L - 1)  BY <1>1, <1>3, <2>1
    <3>2. g[n] = f[n] /\ g[n - 1] = f[n - 1]  BY <2>0, <2>1, <3>1
    <3>3. f[n] = f[n - 1] + t[n] /\ t[n] = s[n]  BY <1>3, <2>1, <3>1
    <3> QED BY <3>2, <3>3
  <2>2. CASE n = k
    <3>1. ~(n < k) /\ n - 1 < k  BY <1>1, <1>3, <2>2
    <3> QED BY <2>0, <2>2, <3>1
  <2>3. CASE n > k
    <3>1. /\ ~(n < k) /\ ~(n - 1 < k) /\ n - 1 \in 1..(L - 1) /\ (n - 1) + 1 = n
          /\ (n - 1) - 1 \in 0..(L - 1)
      BY <1>1, <1>3, <2>3
    <3>2. g[n] = f[n - 1] + s[k] /\ g[n - 1] = f[(n - 1) - 1] + s[k]  BY <2>0, <3>1
    <3>3. f[n - 1] = f[(n - 1) - 1] + t[n - 1] /\ t[n - 1] = s[n]
      <4>1. f[n - 1] = f[(n - 1) - 1] + t[n - 1]  BY <1>3, <3>1
      <4>2. t[n - 1] = s[(n - 1) + 1]  BY <1>3, <3>1
      <4> QED BY <3>1, <4>1, <4>2
    <3>4. f[(n - 1) - 1] \in Nat /\ s[n] \in Nat /\ s[k] \in Nat  BY <1>1, <1>3, <3>1
    <3> HIDE DEF g
    <3> QED BY <3>2, <3>3, <3>4
  <2> QED BY <1>1, <1>3, <2>1, <2>2, <2>3
<1> HIDE DEF g
<1>6. Total(s) = g[L]
  BY <1>4, <1>5, TotalUnique DEF L
<1> QED BY <1>3, <1>4, <1>6

\* One number replaced.
LEMMA TotalReplace ==
  ASSUME NEW s \in Seq(Nat), NEW k \in 1..Len(s), NEW t \in Seq(Nat), Len(t) = Len(s),
         \A n \in 1..Len(s) : n # k => t[n] = s[n]
  PROVE  Total(t) + s[k] = Total(s) + t[k]
<1> DEFINE r == RemoveAt(s, k)
<1>1. /\ r \in Seq(Nat) /\ Len(r) = Len(s) - 1
      /\ \A n \in 1..(Len(s) - 1) : r[n] = IF n < k THEN s[n] ELSE s[n + 1]
  BY RemoveAtElements
<1>2. Len(s) \in Nat /\ s[k] \in Nat /\ t[k] \in Nat  BY LenProperties
<1> HIDE DEF r
<1>3. Total(s) = Total(r) + s[k]
  BY <1>1, TotalRemove
<1>4. Total(t) = Total(r) + t[k]
  <2>1. ASSUME NEW n \in 1..Len(r) PROVE r[n] = IF n < k THEN t[n] ELSE t[n + 1]
    <3>1. n \in 1..(Len(s) - 1) /\ n \in 1..Len(s) /\ n + 1 \in 1..Len(s) /\ k \in Nat
      BY <1>1, <1>2
    <3>2. CASE n < k
      BY <1>1, <3>1, <3>2
    <3>3. CASE ~(n < k)
      <4>1. n + 1 # k
        BY <3>1, <3>3
      <4>2. t[n + 1] = s[n + 1]
        BY <3>1, <4>1
      <4> QED BY <1>1, <3>1, <3>3, <4>2
    <3> QED BY <3>2, <3>3
  <2>2. k \in 1..Len(t) /\ Len(r) = Len(t) - 1
    BY <1>1
  <2> QED BY <1>1, <2>1, <2>2, TotalRemove
<1>5. Total(r) \in Nat
  BY <1>1, TotalNat
<1> QED BY <1>2, <1>3, <1>4, <1>5

\* One number added at the end.
LEMMA TotalAppend ==
  ASSUME NEW s \in Seq(Nat), NEW t \in Seq(Nat), Len(t) = Len(s) + 1,
         \A n \in 1..Len(s) : t[n] = s[n]
  PROVE  Total(t) = Total(s) + t[Len(t)]
<1> DEFINE L == Len(s)
           M == Len(t)
<1>1. L \in Nat /\ M = L + 1 /\ \A n \in 1..L : t[n] = s[n]
  BY LenProperties
<1> HIDE DEF L, M
<1>2. M \in 1..M /\ L = M - 1 /\ \A n \in 1..L : n < M
  BY <1>1
<1>3. ASSUME NEW n \in 1..L PROVE s[n] = IF n < M THEN t[n] ELSE t[n + 1]
  <2>1. n < M /\ t[n] = s[n]
    BY <1>1, <1>2
  <2> QED BY <2>1
<1>4. PICK k \in 1..M : k = M
  BY <1>2
<1>5. /\ k \in 1..Len(t) /\ Len(s) = Len(t) - 1
      /\ \A n \in 1..Len(s) : s[n] = IF n < k THEN t[n] ELSE t[n + 1]
  BY <1>2, <1>3, <1>4 DEF L, M
<1>6. Total(t) = Total(s) + t[k]
  BY <1>5, TotalRemove
<1> QED BY <1>4, <1>6 DEF M

\* Zeros before the last number.
LEMMA TotalOnlyLast ==
  ASSUME NEW s \in Seq(Nat), s # <<>>, \A n \in 1..Len(s) : n # Len(s) => s[n] = 0
  PROVE  Total(s) = s[Len(s)]
<1> DEFINE L == Len(s)
           g == [n \in 0..L |-> IF n = L THEN s[L] ELSE 0]
<1>1. L \in Nat \ {0} /\ s[L] \in Nat  BY LenProperties, EmptySeq
<1>2. \A n \in 1..L : n # L => s[n] = 0  OBVIOUS
<1> HIDE DEF L
<1>3. g[0] = 0 /\ g[L] = s[L]  BY <1>1
<1>4. ASSUME NEW n \in 1..L PROVE g[n] = g[n - 1] + s[n]
  <2>1. n \in 0..L /\ n - 1 \in 0..L /\ n - 1 # L  BY <1>1
  <2>2. g[n - 1] = 0  BY <2>1
  <2> QED BY <1>1, <1>2, <2>1, <2>2
<1> HIDE DEF g
<1> QED BY <1>3, <1>4, TotalUnique DEF L

\* The sums of the beginnings of a sequence.
LEMMA PrefixTotals ==
  ASSUME NEW s \in Seq(Nat), NEW k \in 0..Len(s), NEW l \in k..Len(s)
  PROVE  /\ Total(SubSeq(s, 1, k)) \in Nat
         /\ Total(SubSeq(s, 1, k)) <= Total(SubSeq(s, 1, l))
         /\ k > 0 => Total(SubSeq(s, 1, k)) = Total(SubSeq(s, 1, k - 1)) + s[k]
<1> DEFINE L == Len(s)
           p(n) == SubSeq(s, 1, n)
<1>1. L \in Nat /\ \A n \in 1..L : s[n] \in Nat
  BY LenProperties
<1>2. ASSUME NEW n \in 0..L PROVE p(n) \in Seq(Nat) /\ Len(p(n)) = n /\ \A i \in 1..n : p(n)[i] = s[i]
  BY <1>2, PrefixElements
<1>3. k \in 0..L /\ l \in 0..L /\ k <= l
  BY <1>1
<1> HIDE DEF p, L
<1>4. Total(p(k)) \in Nat /\ Total(p(l)) \in Nat
  BY <1>2, <1>3, TotalNat
<1>5. Total(p(k)) <= Total(p(l))
  <2> DEFINE b == SubSeq(p(l), k + 1, Len(p(l)))
  <2>1. p(l) \in Seq(Nat) /\ Len(p(l)) = l /\ k \in 0..Len(p(l)) /\ p(k) \in Seq(Nat) /\ Len(p(k)) = k
    BY <1>1, <1>2, <1>3
  <2>2. b \in Seq(Nat) /\ Len(b) = l - k /\ \A i \in 1..(l - k) : b[i] = p(l)[k + i]
    BY <2>1, SuffixElements
  <2> HIDE DEF b
  <2>3. ASSUME NEW i \in 1..k PROVE p(l)[i] = p(k)[i]
    <3>1. i \in 1..l  BY <1>1, <1>3
    <3> QED BY <1>2, <1>3, <3>1
  <2>4. /\ Len(p(l)) = Len(p(k)) + Len(b)
        /\ \A i \in 1..Len(b) : p(l)[Len(p(k)) + i] = b[i]
        /\ \A i \in 1..Len(p(k)) : p(l)[i] = p(k)[i]
    <3>1. l = k + (l - k)
      BY <1>1, <1>3
    <3> QED BY <2>1, <2>2, <2>3, <3>1
  <2>5. Total(p(l)) = Total(p(k)) + Total(b) /\ Total(b) \in Nat
    BY <2>1, <2>2, <2>4, TotalConcat, TotalNat
  <2> QED BY <1>4, <2>5
<1>6. ASSUME k > 0 PROVE Total(p(k)) = Total(p(k - 1)) + s[k]
  <2>1. k - 1 \in 0..L /\ k \in 1..L /\ k = (k - 1) + 1
    BY <1>1, <1>3, <1>6
  <2>2. /\ p(k) \in Seq(Nat) /\ Len(p(k)) = k /\ p(k - 1) \in Seq(Nat) /\ Len(p(k - 1)) = k - 1
        /\ p(k)[k] = s[k]
    BY <1>2, <1>3, <2>1
  <2>3. ASSUME NEW i \in 1..(k - 1) PROVE p(k)[i] = p(k - 1)[i]
    <3>1. i \in 1..k  BY <2>1
    <3> QED BY <1>2, <1>3, <2>1, <3>1
  <2>4. Total(p(k)) = Total(p(k - 1)) + p(k)[Len(p(k))]
    BY <2>1, <2>2, <2>3, TotalAppend
  <2> QED BY <2>2, <2>4
<1> QED BY <1>4, <1>5, <1>6 DEF p

\* A whole sequence is its own beginning.
LEMMA WholeTotal ==
  ASSUME NEW s \in Seq(Nat) PROVE SubSeq(s, 1, Len(s)) = s
BY SubSeqFull

\* The message ids of a chain: they begin where the context is and rise, and each
\* leaves room for what the request takes.
LEMMA NumberedMids ==
  ASSUME NEW call \in Calls, NEW mid \in Nat, NEW c \in Nat,
         NEW chain \in Seq(Command), chain # <<>>
  PROVE  LET n == Numbered(call, chain, mid, c) IN
         /\ DOMAIN n = 1..Len(chain)
         /\ \A k \in DOMAIN n :
              /\ n[k].charge = Asked(chain[k], c) /\ n[k].mid \in Nat
              /\ mid <= n[k].mid /\ n[k].prev <= n[k].mid
              /\ n[k].mid + Width(n[k].charge) <= mid + Widths(n)
              /\ \A l \in DOMAIN n : k < l => n[k].mid < n[l].mid
<1> DEFINE L == Len(chain)
           charge(k) == Asked(chain[k], c)
           widths == [k \in DOMAIN chain |-> Width(charge(k))]
           at(k) == mid + Total(SubSeq(widths, 1, k - 1))
           n == Numbered(call, chain, mid, c)
<1>1. L \in Nat \ {0} /\ DOMAIN chain = 1..L /\ \A k \in 1..L : chain[k] \in Command
  BY LenProperties, EmptySeq
<1>2. \A k \in 1..L : charge(k) \in Nat
  BY <1>1, AskedNat
<1> HIDE DEF charge
<1>3. widths \in [1..L -> Nat] /\ \A k \in 1..L : widths[k] = Width(charge(k)) /\ widths[k] >= 1
  BY <1>1, <1>2 DEF Width
<1> HIDE DEF widths
<1>4. widths \in Seq(Nat) /\ Len(widths) = L
  BY <1>1, <1>3, FcnIsSeq
<1>5. ASSUME NEW k \in 0..L, NEW l \in k..L
      PROVE  /\ Total(SubSeq(widths, 1, k)) \in Nat
             /\ Total(SubSeq(widths, 1, k)) <= Total(SubSeq(widths, 1, l))
             /\ k > 0 => Total(SubSeq(widths, 1, k)) = Total(SubSeq(widths, 1, k - 1)) + widths[k]
  BY <1>4, <1>5, PrefixTotals
<1>6. n = [k \in 1..L |-> [call |-> call, cmd |-> chain[k].cmd, cb |-> chain[k].cb,
                           charge |-> charge(k), mid |-> at(k),
                           prev |-> IF k = 1 THEN 0 ELSE at(k - 1)]]
  BY <1>1 DEF Numbered, charge, widths
<1>7. Widths(n) = Total(widths)
  <2>1. DOMAIN n = 1..L /\ \A k \in 1..L : Width(n[k].charge) = Width(charge(k))
    <3> HIDE DEF n, at
    <3> QED BY <1>6
  <2> HIDE DEF n
  <2>2. [k \in DOMAIN n |-> Width(n[k].charge)] = widths
    BY <1>1, <2>1 DEF widths
  <2> QED BY <2>2 DEF Widths
<1>8. Total(widths) = Total(SubSeq(widths, 1, L))
  BY <1>4, WholeTotal
<1>9. ASSUME NEW k \in 1..L
      PROVE  /\ at(k) \in Nat /\ mid <= at(k)
             /\ at(k) + widths[k] = mid + Total(SubSeq(widths, 1, k))
             /\ at(k) + widths[k] <= mid + Total(widths)
             /\ (IF k = 1 THEN 0 ELSE at(k - 1)) <= at(k)
             /\ \A l \in 1..L : k < l => at(k) < at(l)
  <2> DEFINE T(j) == Total(SubSeq(widths, 1, j))
  <2>1. k - 1 \in 0..L /\ k \in (k - 1)..L /\ L \in k..L /\ k \in 0..L /\ k > 0 /\ k \in k..L
    BY <1>1
  <2>2. T(k - 1) \in Nat /\ T(k) \in Nat /\ T(L) \in Nat /\ T(k) <= T(L) /\ T(k) = T(k - 1) + widths[k]
    <3>1. L \in 0..L /\ L \in L..L
      BY <1>1
    <3> QED BY <1>5, <2>1, <3>1
  <2>3. ASSUME k # 1 PROVE T((k - 1) - 1) \in Nat /\ T((k - 1) - 1) <= T(k - 1)
    <3>1. (k - 1) - 1 \in 0..L /\ k - 1 \in ((k - 1) - 1)..L
      BY <1>1, <2>3
    <3> QED BY <1>5, <3>1
  <2>4. ASSUME NEW l \in 1..L, k < l PROVE T(k) <= T(l - 1) /\ T(l - 1) \in Nat
    <3>1. l - 1 \in k..L /\ l - 1 \in 0..L /\ l - 1 \in (l - 1)..L
      BY <1>1, <2>4
    <3> QED BY <1>5, <2>1, <3>1
  <2>5. widths[k] >= 1 /\ widths[k] \in Nat
    BY <1>3
  <2>6. at(k) = mid + T(k - 1) /\ at(k - 1) = mid + T((k - 1) - 1) /\ \A l \in 1..L : at(l) = mid + T(l - 1)
    OBVIOUS
  <2>7. T(L) = Total(widths)
    BY <1>8
  <2> HIDE DEF at, T
  <2>8. at(k) \in Nat /\ mid <= at(k) /\ at(k) + widths[k] = mid + T(k) /\ at(k) + widths[k] <= mid + T(L)
    <3>1. at(k) = mid + T(k - 1)
      BY <2>6
    <3>2. \A m, x, y, z, w \in Nat : y = x + w /\ y <= z =>
            /\ m + x \in Nat /\ m <= m + x /\ (m + x) + w = m + y /\ (m + x) + w <= m + z
      OBVIOUS
    <3> QED BY <2>2, <2>5, <3>1, <3>2
  <2>9. (IF k = 1 THEN 0 ELSE at(k - 1)) <= at(k)
    BY <2>2, <2>3, <2>6, <2>8
  <2>10. ASSUME NEW l \in 1..L, k < l PROVE at(k) < at(l)
    <3>1. at(l) = mid + T(l - 1) /\ at(k) + widths[k] = mid + T(k)
      BY <2>6, <2>8
    <3>2. T(k) <= T(l - 1) /\ T(l - 1) \in Nat
      BY <2>4, <2>10
    <3>3. \A m, x, y, t, u, w \in Nat : x + w = m + t /\ t <= u /\ y = m + u /\ w >= 1 => x < y
      OBVIOUS
    <3>4. at(l) \in Nat
      BY <3>1, <3>2
    <3> QED BY <2>2, <2>5, <2>8, <3>1, <3>2, <3>3, <3>4
  <2> QED BY <2>7, <2>8, <2>9, <2>10 DEF T
<1> HIDE DEF at
<1>10. \A k \in 1..L : /\ n[k].charge = charge(k) /\ n[k].mid = at(k)
                       /\ n[k].prev = IF k = 1 THEN 0 ELSE at(k - 1)
  <2> HIDE DEF n
  <2> QED BY <1>6
<1>11. DOMAIN n = 1..L
  <2> HIDE DEF n
  <2> QED BY <1>6
<1> HIDE DEF n
<1>12. ASSUME NEW k \in 1..L
       PROVE  /\ n[k].charge = Asked(chain[k], c) /\ n[k].mid \in Nat
              /\ mid <= n[k].mid /\ n[k].prev <= n[k].mid
              /\ n[k].mid + Width(n[k].charge) <= mid + Widths(n)
              /\ \A l \in 1..L : k < l => n[k].mid < n[l].mid
  <2>1. n[k].charge = Asked(chain[k], c)
    BY <1>10 DEF charge
  <2>2. Width(n[k].charge) = widths[k]
    BY <1>3, <1>10
  <2> QED BY <1>7, <1>9, <1>10, <2>1, <2>2
<1> QED BY <1>11, <1>12 DEF n

-----------------------------------------------------------------------------
\* The sums are sums of numbers.

\* The costs of a queue are natural numbers, one of each chain.
LEMMA CostsTyped ==
  ASSUME NEW q \in Seq(Chains)
  PROVE  /\ Costs(q) \in Seq(Nat) /\ Len(Costs(q)) = Len(q) /\ Cost(q) \in Nat
         /\ \A i \in 1..Len(q) : Costs(q)[i] = Charge(q[i]) /\ Charge(q[i]) \in Nat
<1>1. Len(q) \in Nat /\ DOMAIN q = 1..Len(q) /\ \A i \in 1..Len(q) : q[i] \in Chains
  BY LenProperties
<1>2. \A i \in 1..Len(q) : Charge(q[i]) \in Nat
  BY <1>1, ChainSums DEF Chains
<1>3. Costs(q) \in [1..Len(q) -> Nat] /\ \A i \in 1..Len(q) : Costs(q)[i] = Charge(q[i])
  BY <1>1, <1>2 DEF Costs
<1>4. Costs(q) \in Seq(Nat) /\ Len(Costs(q)) = Len(q)
  BY <1>1, <1>3, FcnIsSeq
<1> QED BY <1>2, <1>3, <1>4, TotalNat DEF Cost

\* So are those behind the i-th chain.
LEMMA LaterTyped ==
  ASSUME NEW q \in Seq(Chains), NEW i \in 0..Len(q)
  PROVE  /\ LaterCosts(q, i) \in Seq(Nat) /\ Len(LaterCosts(q, i)) = Len(q) - i
         /\ CostBehind(q, i) \in Nat
         /\ \A j \in 1..(Len(q) - i) : LaterCosts(q, i)[j] = Charge(q[i + j])
<1> DEFINE L == Len(q)
           c == LaterCosts(q, i)
<1>1. L \in Nat /\ i \in 0..L /\ L - i \in Nat /\ \A j \in 1..L : Charge(q[j]) \in Nat
  BY LenProperties, CostsTyped
<1> HIDE DEF L
<1>2. \A j \in 1..(L - i) : i + j \in 1..L
  BY <1>1
<1>3. c = [j \in 1..(L - i) |-> Charge(q[i + j])]
  BY DEF LaterCosts, L
<1>4. c \in [1..(L - i) -> Nat] /\ \A j \in 1..(L - i) : c[j] = Charge(q[i + j])
  <2> HIDE DEF c
  <2> QED BY <1>1, <1>2, <1>3
<1> HIDE DEF c
<1>5. c \in Seq(Nat) /\ Len(c) = L - i
  BY <1>1, <1>4, FcnIsSeq
<1>6. Total(c) \in Nat
  BY <1>5, TotalNat
<1> QED BY <1>4, <1>5, <1>6 DEF c, L, CostBehind

\* What the replies of a frame bring are natural numbers.
LEMMA GrantsTyped ==
  ASSUME NEW f \in Seq(Reply)
  PROVE  /\ Grants(f) \in Seq(Nat) /\ Len(Grants(f)) = Len(f) /\ Carried(f) \in Nat
         /\ \A k \in 1..Len(f) : Grants(f)[k] = f[k].grant /\ f[k].grant \in Nat
<1>1. Len(f) \in Nat /\ DOMAIN f = 1..Len(f) /\ \A i \in 1..Len(f) : f[i] \in Reply
  BY LenProperties
<1>2. \A i \in 1..Len(f) : f[i].grant \in Nat
  BY <1>1 DEF Reply
<1>3. Grants(f) \in [1..Len(f) -> Nat] /\ \A i \in 1..Len(f) : Grants(f)[i] = f[i].grant
  BY <1>1, <1>2 DEF Grants
<1>4. Grants(f) \in Seq(Nat) /\ Len(Grants(f)) = Len(f)
  BY <1>1, <1>3, FcnIsSeq
<1> QED BY <1>2, <1>3, <1>4, TotalNat DEF Carried

\* So is what each frame brings.
LEMMA LoadsTyped ==
  ASSUME NEW fr \in Seq(Frames)
  PROVE  /\ Loads(fr) \in Seq(Nat) /\ Len(Loads(fr)) = Len(fr) /\ Coming(fr) \in Nat
         /\ \A k \in 1..Len(fr) : Loads(fr)[k] = Carried(fr[k]) /\ Carried(fr[k]) \in Nat
<1>1. Len(fr) \in Nat /\ DOMAIN fr = 1..Len(fr) /\ \A i \in 1..Len(fr) : fr[i] \in Seq(Reply)
  BY LenProperties DEF Frames
<1>2. \A i \in 1..Len(fr) : Carried(fr[i]) \in Nat
  BY <1>1, GrantsTyped
<1>3. Loads(fr) \in [1..Len(fr) -> Nat] /\ \A i \in 1..Len(fr) : Loads(fr)[i] = Carried(fr[i])
  BY <1>1, <1>2 DEF Loads
<1>4. Loads(fr) \in Seq(Nat) /\ Len(Loads(fr)) = Len(fr)
  BY <1>1, <1>3, FcnIsSeq
<1> QED BY <1>2, <1>3, <1>4, TotalNat DEF Coming

\* What the server still grants for a chain is a natural number.
LEMMA DueTyped ==
  ASSUME NEW e \in Entry PROVE Due(e) \in Nat /\ Grant(e.chain) \in Nat
<1>1. Charge(e.chain) \in Nat /\ Window \in Nat
  BY ChainSums, ClientAssumption DEF Entry, Chains
<1> QED BY <1>1 DEF Due, Grant

\* So is what it owes for each chain it has taken.
LEMMA DuesTyped ==
  ASSUME NEW ib \in Seq(Entry)
  PROVE  /\ Dues(ib) \in Seq(Nat) /\ Len(Dues(ib)) = Len(ib) /\ Owed(ib) \in Nat
         /\ \A k \in 1..Len(ib) : Dues(ib)[k] = Due(ib[k]) /\ Due(ib[k]) \in Nat
<1>1. Len(ib) \in Nat /\ DOMAIN ib = 1..Len(ib) /\ \A i \in 1..Len(ib) : ib[i] \in Entry
  BY LenProperties
<1>2. \A i \in 1..Len(ib) : Due(ib[i]) \in Nat
  BY <1>1, DueTyped
<1>3. Dues(ib) \in [1..Len(ib) -> Nat] /\ \A i \in 1..Len(ib) : Dues(ib)[i] = Due(ib[i])
  BY <1>1, <1>2 DEF Dues
<1>4. Dues(ib) \in Seq(Nat) /\ Len(Dues(ib)) = Len(ib)
  BY <1>1, <1>3, FcnIsSeq
<1> QED BY <1>2, <1>3, <1>4, TotalNat DEF Owed

-----------------------------------------------------------------------------
\* What the operations on the queues do to the sums.

\* A chain at the end of a queue adds its cost.
LEMMA CostAppend ==
  ASSUME NEW q \in Seq(Chains), NEW p \in Chains
  PROVE  Cost(Append(q, p)) = Cost(q) + Charge(p)
<1> DEFINE r == Append(q, p)
           L == Len(q)
<1>1. /\ r \in Seq(Chains) /\ Len(r) = L + 1 /\ L \in Nat
      /\ \A i \in 1..L : r[i] = q[i] /\ r[L + 1] = p
  BY AppendProperties, LenProperties
<1> HIDE DEF r, L
<1>2. /\ Costs(r) \in Seq(Nat) /\ Len(Costs(r)) = L + 1
      /\ \A i \in 1..(L + 1) : Costs(r)[i] = Charge(r[i])
  BY <1>1, CostsTyped
<1>3. /\ Costs(q) \in Seq(Nat) /\ Len(Costs(q)) = L
      /\ \A i \in 1..L : Costs(q)[i] = Charge(q[i])
  BY CostsTyped DEF L
<1>4. \A i \in 1..L : i \in 1..(L + 1) /\ Costs(r)[i] = Costs(q)[i]
  BY <1>1, <1>2, <1>3
<1>5. Total(Costs(r)) = Total(Costs(q)) + Costs(r)[L + 1]
  BY <1>2, <1>3, <1>4, TotalAppend
<1>6. Costs(r)[L + 1] = Charge(p)
  <2>1. L + 1 \in 1..(L + 1)
    BY <1>1
  <2> QED BY <1>1, <1>2, <2>1, AppendProperties DEF r, L
<1> QED BY <1>5, <1>6 DEF Cost, r

\* The first chain of a queue and those behind it.
LEMMA CostFirst ==
  ASSUME NEW q \in Seq(Chains), q # <<>>
  PROVE  Cost(q) = Charge(q[1]) + CostBehind(q, 1)
<1> DEFINE L == Len(q)
<1>1. L \in Nat \ {0} /\ 1 \in 1..L /\ 1 \in 0..L
  BY LenProperties, EmptySeq
<1>2. /\ Costs(q) \in Seq(Nat) /\ Len(Costs(q)) = L
      /\ \A i \in 1..L : Costs(q)[i] = Charge(q[i]) /\ Charge(q[i]) \in Nat
  BY CostsTyped
<1>3. /\ LaterCosts(q, 1) \in Seq(Nat) /\ Len(LaterCosts(q, 1)) = L - 1
      /\ \A j \in 1..(L - 1) : LaterCosts(q, 1)[j] = Charge(q[1 + j])
      /\ CostBehind(q, 1) \in Nat
  BY <1>1, LaterTyped
<1> HIDE DEF L
<1>4. ASSUME NEW j \in 1..(L - 1)
      PROVE  LaterCosts(q, 1)[j] = IF j < 1 THEN Costs(q)[j] ELSE Costs(q)[j + 1]
  <2>1. j + 1 \in 1..L /\ ~(j < 1) /\ 1 + j = j + 1
    BY <1>1
  <2> QED BY <1>2, <1>3, <2>1
<1>5. Total(Costs(q)) = Total(LaterCosts(q, 1)) + Costs(q)[1]
  <2>1. /\ 1 \in 1..Len(Costs(q)) /\ Len(LaterCosts(q, 1)) = Len(Costs(q)) - 1
        /\ \A j \in 1..Len(LaterCosts(q, 1)) :
             LaterCosts(q, 1)[j] = IF j < 1 THEN Costs(q)[j] ELSE Costs(q)[j + 1]
    BY <1>1, <1>2, <1>3, <1>4
  <2> QED BY <1>2, <1>3, <2>1, TotalRemove
<1> QED BY <1>1, <1>2, <1>3, <1>5 DEF Cost, CostBehind

\* r is what is left of q behind the first h chains.
LEMMA CostSuffix ==
  ASSUME NEW q \in Seq(Chains), NEW h \in 0..Len(q), NEW r \in Seq(Chains),
         Len(r) = Len(q) - h, \A m \in 1..Len(r) : r[m] = q[h + m]
  PROVE  /\ Cost(r) = CostBehind(q, h)
         /\ Cost(q) = Cost(SubSeq(q, 1, h)) + Cost(r)
         /\ \A i \in 1..Len(r) : CostBehind(r, i) = CostBehind(q, h + i)
<1> DEFINE L == Len(q)
           M == Len(r)
           a == SubSeq(q, 1, h)
<1>1. L \in Nat /\ M \in Nat /\ h \in 0..L /\ M = L - h /\ \A m \in 1..M : r[m] = q[h + m]
  <2>1. Len(q) \in Nat /\ Len(r) \in Nat
    BY LenProperties
  <2> QED BY <2>1
<1>2. /\ \A i \in 1..L : Costs(q)[i] = Charge(q[i])
      /\ Costs(q) \in Seq(Nat) /\ Len(Costs(q)) = L
  BY CostsTyped
<1>3. /\ \A i \in 1..M : Costs(r)[i] = Charge(r[i])
      /\ Costs(r) \in Seq(Nat) /\ Len(Costs(r)) = M
  BY CostsTyped
<1>4. a \in Seq(Chains) /\ Len(a) = h /\ \A i \in 1..h : a[i] = q[i]
  BY PrefixElements
<1> HIDE DEF L, M, a
<1>5. /\ \A i \in 1..h : Costs(a)[i] = Charge(q[i])
      /\ Costs(a) \in Seq(Nat) /\ Len(Costs(a)) = h
  <2>1. /\ \A i \in 1..Len(a) : Costs(a)[i] = Charge(a[i])
        /\ Costs(a) \in Seq(Nat) /\ Len(Costs(a)) = Len(a)
    BY <1>4, CostsTyped
  <2> QED BY <1>4, <2>1
<1>6. Cost(r) = CostBehind(q, h)
  <2>1. Costs(r) = LaterCosts(q, h)
    <3>1. Costs(r) = [m \in 1..M |-> Charge(r[m])]
      BY LenProperties DEF Costs, M
    <3>2. LaterCosts(q, h) = [m \in 1..M |-> Charge(q[h + m])]
      BY <1>1 DEF LaterCosts, L
    <3> QED BY <1>1, <3>1, <3>2
  <2> QED BY <2>1 DEF Cost, CostBehind
<1>7. Cost(q) = Cost(a) + Cost(r)
  <2>1. ASSUME NEW i \in 1..h PROVE Costs(q)[i] = Costs(a)[i]
    <3>1. i \in 1..L  BY <1>1
    <3> QED BY <1>2, <1>5, <3>1
  <2>2. ASSUME NEW i \in 1..M PROVE Costs(q)[h + i] = Costs(r)[i]
    <3>1. h + i \in 1..L  BY <1>1
    <3> QED BY <1>1, <1>2, <1>3, <3>1
  <2>3. L = h + M
    BY <1>1
  <2>4. /\ Len(Costs(q)) = Len(Costs(a)) + Len(Costs(r))
        /\ \A i \in 1..Len(Costs(a)) : Costs(q)[i] = Costs(a)[i]
        /\ \A i \in 1..Len(Costs(r)) : Costs(q)[Len(Costs(a)) + i] = Costs(r)[i]
    BY <1>2, <1>3, <1>5, <2>1, <2>2, <2>3
  <2>5. Total(Costs(q)) = Total(Costs(a)) + Total(Costs(r))
    BY <1>2, <1>3, <1>5, <2>4, TotalConcat
  <2> QED BY <2>5 DEF Cost
<1>8. ASSUME NEW i \in 1..M PROVE CostBehind(r, i) = CostBehind(q, h + i)
  <2>1. M - i = L - (h + i) /\ \A j \in 1..(M - i) : i + j \in 1..M /\ h + (i + j) = (h + i) + j
    BY <1>1
  <2>2. LaterCosts(r, i) = [j \in 1..(M - i) |-> Charge(r[i + j])]
    BY DEF LaterCosts, M
  <2>3. LaterCosts(q, h + i) = [j \in 1..(M - i) |-> Charge(q[(h + i) + j])]
    BY <2>1 DEF LaterCosts, L
  <2>4. \A j \in 1..(M - i) : r[i + j] = q[(h + i) + j]
    BY <1>1, <2>1
  <2>5. LaterCosts(r, i) = LaterCosts(q, h + i)
    BY <2>2, <2>3, <2>4
  <2> QED BY <2>5 DEF CostBehind
<1> QED BY <1>6, <1>7, <1>8 DEF M, a

\* Behind a chain added at the end nothing waits; the others have it behind them.
LEMMA BehindAppend ==
  ASSUME NEW q \in Seq(Chains), NEW p \in Chains, NEW r, r = Append(q, p)
  PROVE  /\ \A i \in 1..Len(q) : CostBehind(r, i) = CostBehind(q, i) + Charge(p)
         /\ CostBehind(r, Len(q) + 1) = 0
<1> DEFINE L == Len(q)
<1>1. /\ r \in Seq(Chains) /\ Len(r) = L + 1 /\ L \in Nat
      /\ \A i \in 1..L : r[i] = q[i]
      /\ r[L + 1] = p
  BY AppendProperties, LenProperties
<1> HIDE DEF L
<1>2. ASSUME NEW i \in 1..L PROVE CostBehind(r, i) = CostBehind(q, i) + Charge(p)
  <2> DEFINE s == LaterCosts(q, i)
             t == LaterCosts(r, i)
  <2>1. i \in 0..L /\ i \in 0..(L + 1) /\ (L + 1) - i = (L - i) + 1 /\ L - i \in Nat
    BY <1>1
  <2>2. s \in Seq(Nat) /\ Len(s) = L - i /\ \A j \in 1..(L - i) : s[j] = Charge(q[i + j])
    BY <2>1, LaterTyped DEF L
  <2>3. t \in Seq(Nat) /\ Len(t) = (L - i) + 1 /\ \A j \in 1..((L - i) + 1) : t[j] = Charge(r[i + j])
    <3>1. i \in 0..Len(r) /\ Len(r) - i = (L - i) + 1
      BY <1>1, <2>1
    <3> QED BY <1>1, <3>1, LaterTyped
  <2> HIDE DEF s, t
  <2>4. ASSUME NEW j \in 1..(L - i) PROVE t[j] = s[j]
    <3>1. i + j \in 1..L /\ j \in 1..((L - i) + 1)
      BY <1>1, <2>1
    <3> QED BY <1>1, <2>2, <2>3, <3>1
  <2>5. t[(L - i) + 1] = Charge(p)
    <3>1. (L - i) + 1 \in 1..((L - i) + 1) /\ i + ((L - i) + 1) = L + 1
      BY <1>1, <2>1
    <3> QED BY <1>1, <2>3, <3>1
  <2>6. Total(t) = Total(s) + t[(L - i) + 1]
    BY <2>2, <2>3, <2>4, TotalAppend
  <2> QED BY <2>5, <2>6 DEF s, t, CostBehind
<1>3. CostBehind(r, L + 1) = 0
  <2>1. L + 1 \in 0..(L + 1) /\ (L + 1) - (L + 1) = 0
    BY <1>1
  <2>2. LaterCosts(r, L + 1) \in Seq(Nat) /\ Len(LaterCosts(r, L + 1)) = 0
    BY <1>1, <2>1, LaterTyped
  <2> QED BY <2>2, EmptySeq, TotalNat DEF CostBehind
<1> QED BY <1>2, <1>3 DEF L

\* The tail of a sequence, element by element.
LEMMA TailElements ==
  ASSUME NEW S, NEW q \in Seq(S), q # <<>>
  PROVE  /\ Head(q) = q[1] /\ Head(q) \in S /\ Tail(q) \in Seq(S)
         /\ Len(q) \in Nat \ {0} /\ Len(Tail(q)) = Len(q) - 1
         /\ DOMAIN q = 1..Len(q) /\ DOMAIN Tail(q) = 1..(Len(q) - 1)
         /\ \A m \in 1..(Len(q) - 1) : Tail(q)[m] = q[m + 1]
<1>1. /\ Head(q) \in S /\ Tail(q) \in Seq(S) /\ Len(Tail(q)) = Len(q) - 1
      /\ \A k \in 1..Len(Tail(q)) : Tail(q)[k] = q[k + 1]
      /\ Head(q) = q[1]
  BY HeadTailProperties
<1>2. Len(q) \in Nat \ {0} /\ DOMAIN q = 1..Len(q) /\ DOMAIN Tail(q) = 1..Len(Tail(q))
  BY <1>1, LenProperties, EmptySeq
<1> QED BY <1>1, <1>2

\* Two sequences one behind the other, element by element.
LEMMA ConcatElements ==
  ASSUME NEW S, NEW p \in Seq(S), NEW q \in Seq(S)
  PROVE  /\ p \o q \in Seq(S) /\ Len(p \o q) = Len(p) + Len(q)
         /\ Len(p) \in Nat /\ Len(q) \in Nat
         /\ \A m \in 1..Len(p) : (p \o q)[m] = p[m]
         /\ \A m \in 1..Len(q) : (p \o q)[Len(p) + m] = q[m]
<1> DEFINE r == p \o q
           L == Len(p)
           M == Len(q)
<1>1. /\ r \in Seq(S) /\ Len(r) = L + M /\ L \in Nat /\ M \in Nat
      /\ \A k \in 1..(L + M) : r[k] = IF k <= L THEN p[k] ELSE q[k - L]
  BY ConcatProperties, LenProperties
<1> HIDE DEF r, L, M
<1>2. ASSUME NEW m \in 1..L PROVE r[m] = p[m]
  <2>1. m \in 1..(L + M) /\ m <= L  BY <1>1
  <2> QED BY <1>1, <2>1
<1>3. ASSUME NEW m \in 1..M PROVE r[L + m] = q[m]
  <2>1. L + m \in 1..(L + M) /\ ~(L + m <= L) /\ (L + m) - L = m  BY <1>1
  <2> QED BY <1>1, <2>1
<1> QED BY <1>1, <1>2, <1>3 DEF r, L, M

\* What a frame brings is what its first reply brings and the rest of it.
LEMMA CarriedFirst ==
  ASSUME NEW f \in Frames
  PROVE  /\ f[1].grant \in Nat /\ Carried(f) = f[1].grant + Carried(Tail(f))
         /\ Tail(f) \in Seq(Reply) /\ Carried(Tail(f)) \in Nat
         /\ Len(f) = 1 => Carried(f) = f[1].grant
<1> DEFINE t == Tail(f)
           L == Len(f)
<1>1. /\ f \in Seq(Reply) /\ t \in Seq(Reply) /\ L \in Nat \ {0} /\ Len(t) = L - 1
      /\ \A m \in 1..(L - 1) : t[m] = f[m + 1]
  BY TailElements DEF Frames
<1>2. /\ Grants(f) \in Seq(Nat) /\ Len(Grants(f)) = L
      /\ \A k \in 1..L : Grants(f)[k] = f[k].grant /\ f[k].grant \in Nat
  BY <1>1, GrantsTyped
<1> HIDE DEF t
<1>3. /\ Grants(t) \in Seq(Nat) /\ Len(Grants(t)) = L - 1
      /\ \A k \in 1..(L - 1) : Grants(t)[k] = t[k].grant
      /\ Carried(t) \in Nat
  BY <1>1, GrantsTyped
<1> HIDE DEF L
<1>4. 1 \in 1..L
  BY <1>1
<1>5. ASSUME NEW n \in 1..(L - 1)
      PROVE  Grants(t)[n] = IF n < 1 THEN Grants(f)[n] ELSE Grants(f)[n + 1]
  <2>1. ~(n < 1) /\ n + 1 \in 1..L
    BY <1>1
  <2> QED BY <1>1, <1>2, <1>3, <2>1
<1>6. /\ 1 \in 1..Len(Grants(f)) /\ Len(Grants(t)) = Len(Grants(f)) - 1
      /\ \A n \in 1..Len(Grants(t)) :
           Grants(t)[n] = IF n < 1 THEN Grants(f)[n] ELSE Grants(f)[n + 1]
  BY <1>2, <1>3, <1>4, <1>5
<1>7. Total(Grants(f)) = Total(Grants(t)) + Grants(f)[1]
  BY <1>2, <1>3, <1>6, TotalRemove
<1>8. ASSUME L = 1 PROVE Total(Grants(t)) = 0
  <2>1. Grants(t) = <<>>
    BY <1>3, <1>8, EmptySeq
  <2> QED BY <1>3, <2>1, TotalNat
<1>9. Total(Grants(f)) = Total(Grants(t)) + f[1].grant /\ f[1].grant \in Nat
  BY <1>2, <1>4, <1>7
<1>10. Carried(f) = f[1].grant + Carried(t) /\ (L = 1 => Carried(f) = f[1].grant)
  BY <1>3, <1>8, <1>9 DEF Carried
<1> QED BY <1>1, <1>3, <1>9, <1>10 DEF t, L

\* Frames sent behind others add what they bring.
LEMMA ComingConcat ==
  ASSUME NEW a \in Seq(Frames), NEW b \in Seq(Frames)
  PROVE  a \o b \in Seq(Frames) /\ Coming(a \o b) = Coming(a) + Coming(b)
<1> DEFINE r == a \o b
           L == Len(a)
           M == Len(b)
<1>1. /\ r \in Seq(Frames) /\ Len(r) = L + M /\ L \in Nat /\ M \in Nat
      /\ \A m \in 1..L : r[m] = a[m]
      /\ \A m \in 1..M : r[L + m] = b[m]
  BY ConcatElements
<1>2. /\ Loads(a) \in Seq(Nat) /\ Len(Loads(a)) = L /\ \A k \in 1..L : Loads(a)[k] = Carried(a[k])
      /\ Loads(b) \in Seq(Nat) /\ Len(Loads(b)) = M /\ \A k \in 1..M : Loads(b)[k] = Carried(b[k])
  BY LoadsTyped
<1> HIDE DEF r, L, M
<1>3. /\ Loads(r) \in Seq(Nat) /\ Len(Loads(r)) = L + M
      /\ \A k \in 1..(L + M) : Loads(r)[k] = Carried(r[k])
  BY <1>1, LoadsTyped
<1>4. ASSUME NEW k \in 1..L PROVE Loads(r)[k] = Loads(a)[k]
  <2>1. k \in 1..(L + M)  BY <1>1
  <2> QED BY <1>1, <1>2, <1>3, <2>1
<1>5. ASSUME NEW k \in 1..M PROVE Loads(r)[L + k] = Loads(b)[k]
  <2>1. L + k \in 1..(L + M)  BY <1>1
  <2> QED BY <1>1, <1>2, <1>3, <2>1
<1>6. /\ Len(Loads(r)) = Len(Loads(a)) + Len(Loads(b))
      /\ \A k \in 1..Len(Loads(a)) : Loads(r)[k] = Loads(a)[k]
      /\ \A k \in 1..Len(Loads(b)) : Loads(r)[Len(Loads(a)) + k] = Loads(b)[k]
  BY <1>2, <1>3, <1>4, <1>5
<1>7. Total(Loads(r)) = Total(Loads(a)) + Total(Loads(b))
  BY <1>2, <1>3, <1>6, TotalConcat
<1> QED BY <1>1, <1>7 DEF Coming, r

\* One frame by itself.
LEMMA ComingOne ==
  ASSUME NEW f \in Frames PROVE <<f>> \in Seq(Frames) /\ Coming(<<f>>) = Carried(f)
<1> DEFINE r == <<f>>
<1>1. r \in Seq(Frames) /\ Len(r) = 1 /\ r[1] = f
  OBVIOUS
<1> HIDE DEF r
<1>2. Loads(r) \in Seq(Nat) /\ Len(Loads(r)) = 1 /\ Loads(r)[1] = Carried(f)
  BY <1>1, LoadsTyped
<1>3. Loads(r) # <<>> /\ \A n \in 1..Len(Loads(r)) : n # Len(Loads(r)) => Loads(r)[n] = 0
  BY <1>2
<1>4. Total(Loads(r)) = Loads(r)[1]
  BY <1>2, <1>3, TotalOnlyLast
<1> QED BY <1>1, <1>2, <1>4 DEF Coming, r

\* The first frame and those behind it.
LEMMA ComingTail ==
  ASSUME NEW fr \in Seq(Frames), fr # <<>>
  PROVE  /\ Head(fr) \in Frames /\ Tail(fr) \in Seq(Frames)
         /\ Coming(fr) = Carried(Head(fr)) + Coming(Tail(fr))
<1> DEFINE h == <<Head(fr)>>
<1>1. Head(fr) \in Frames /\ Tail(fr) \in Seq(Frames)
  BY TailElements
<1>2. h \in Seq(Frames) /\ Coming(h) = Carried(Head(fr))
  BY <1>1, ComingOne
<1>3. fr = h \o Tail(fr)
  BY HeadTailProperties
<1> HIDE DEF h
<1>4. Coming(h \o Tail(fr)) = Coming(h) + Coming(Tail(fr))
  BY <1>1, <1>2, ComingConcat
<1> QED BY <1>1, <1>2, <1>3, <1>4

\* The first reply of the first frame is read.
LEMMA ComingRead ==
  ASSUME NEW fr \in Seq(Frames), fr # <<>>, NEW r,
         r = IF Len(Head(fr)) = 1 THEN Tail(fr) ELSE <<Tail(Head(fr))>> \o Tail(fr)
  PROVE  r \in Seq(Frames) /\ Coming(fr) = Head(Head(fr)).grant + Coming(r)
<1> DEFINE f == Head(fr)
           t == Tail(f)
           g == f[1].grant
<1>1. f \in Frames /\ Tail(fr) \in Seq(Frames) /\ Coming(fr) = Carried(f) + Coming(Tail(fr))
  BY ComingTail
<1> HIDE DEF f
<1>2. /\ f \in Seq(Reply) /\ f # <<>> /\ Head(f) = f[1] /\ t \in Seq(Reply) /\ Len(t) = Len(f) - 1
      /\ Len(f) \in Nat \ {0}
  BY <1>1, TailElements DEF Frames
<1>3. /\ g \in Nat /\ Carried(f) = g + Carried(t) /\ Carried(t) \in Nat
      /\ Len(f) = 1 => Carried(f) = g
  BY <1>1, CarriedFirst
<1> HIDE DEF t, g
<1>4. CASE Len(f) = 1
  <2>1. r = Tail(fr)
    BY <1>4 DEF f
  <2> QED BY <1>1, <1>2, <1>3, <1>4, <2>1 DEF f, g
<1>5. CASE Len(f) # 1
  <2>1. r = <<t>> \o Tail(fr)
    BY <1>5 DEF f, t
  <2>2. t \in Frames
    <3>1. Len(t) # 0
      BY <1>2, <1>5
    <3>2. t # <<>>
      BY <3>1, EmptySeq
    <3> QED BY <1>2, <3>2 DEF Frames
  <2>3. <<t>> \in Seq(Frames) /\ Coming(<<t>>) = Carried(t)
    BY <2>2, ComingOne
  <2> DEFINE one == <<t>>
  <2> HIDE DEF one
  <2>4. one \o Tail(fr) \in Seq(Frames) /\ Coming(one \o Tail(fr)) = Coming(one) + Coming(Tail(fr))
    BY <1>1, <2>3, ComingConcat DEF one
  <2>5. Coming(Tail(fr)) \in Nat
    BY <1>1, LoadsTyped
  <2>6. Coming(r) = Carried(t) + Coming(Tail(fr)) /\ r \in Seq(Frames)
    BY <2>1, <2>3, <2>4 DEF one
  <2>7. Coming(fr) = g + Coming(r)
    BY <1>1, <1>3, <2>5, <2>6
  <2>8. Head(Head(fr)).grant = g
    BY <1>2 DEF f, g
  <2> QED BY <2>6, <2>7, <2>8
<1> QED BY <1>4, <1>5

\* The replies to a chain, in one frame or one each, bring what is granted.
LEMMA FramingEffect ==
  ASSUME NEW ch \in Chains, NEW results \in Results(ch), NEW grant \in Nat,
         NEW fs \in Framings(Replies(ch, results, grant))
  PROVE  /\ fs \in Seq(Frames) /\ Coming(fs) = grant
         /\ \A a \in DOMAIN fs : \A k \in DOMAIN fs[a] :
              /\ fs[a][k].status # "pending"
              /\ \E j \in DOMAIN ch : fs[a][k].mid = ch[j].mid
         /\ (\A j, l \in DOMAIN ch : ch[j].mid = ch[l].mid => j = l) =>
              \A a, b \in DOMAIN fs : \A k \in DOMAIN fs[a] : \A l \in DOMAIN fs[b] :
                fs[a][k].mid = fs[b][l].mid => a = b /\ k = l
<1> DEFINE L == Len(ch)
           rs == Replies(ch, results, grant)
<1>1. /\ ch \in Seq(Request) /\ L \in Nat \ {0} /\ DOMAIN ch = 1..L /\ ch # <<>>
      /\ \A j \in 1..L : ch[j] \in Request
  BY LenProperties, EmptySeq DEF Chains
<1>2. \A j \in 1..L : results[j] \in Statuses
  BY <1>1, ResultsTyped
<1>3. /\ rs \in [1..L -> Reply]
      /\ \A j \in 1..L : /\ rs[j].mid = ch[j].mid /\ rs[j].status # "pending"
                         /\ rs[j].grant = IF j = L THEN grant ELSE 0
  <2>1. rs = [j \in 1..L |-> [mid |-> ch[j].mid, status |-> results[j],
                              grant |-> IF j = L THEN grant ELSE 0]]
    BY <1>1 DEF Replies
  <2>2. \A j \in 1..L : ch[j].mid \in Nat
    BY <1>1 DEF Request
  <2>3. \A j \in 1..L : results[j] # "pending"
    BY <1>2 DEF Statuses
  <2> HIDE DEF rs
  <2> QED BY <1>2, <2>1, <2>2, <2>3 DEF Reply
<1> HIDE DEF rs
<1>4. rs \in Seq(Reply) /\ Len(rs) = L /\ DOMAIN rs = 1..L /\ rs # <<>>
  <2>1. rs \in Seq(Reply) /\ Len(rs) = L /\ DOMAIN rs = 1..L
    BY <1>1, <1>3, FcnIsSeq
  <2> QED BY <1>1, <2>1
<1>5. fs = <<rs>> \/ fs = [j \in 1..L |-> <<rs[j]>>]
  BY <1>4 DEF Framings, rs
<1>6. CASE fs = <<rs>>
  <2>1. rs \in Frames
    BY <1>4 DEF Frames
  <2>2. fs \in Seq(Frames) /\ Coming(fs) = Carried(rs)
    BY <1>6, <2>1, ComingOne
  <2>3. /\ Grants(rs) \in Seq(Nat) /\ Len(Grants(rs)) = L
        /\ \A k \in 1..L : Grants(rs)[k] = rs[k].grant
    BY <1>4, GrantsTyped
  <2>4. L \in 1..L
    BY <1>1
  <2>5. Carried(rs) = grant
    <3>1. Grants(rs) # <<>> /\ \A n \in 1..Len(Grants(rs)) : n # Len(Grants(rs)) => Grants(rs)[n] = 0
      BY <1>1, <1>3, <2>3
    <3>2. Total(Grants(rs)) = Grants(rs)[L]
      BY <2>3, <3>1, TotalOnlyLast
    <3> QED BY <1>3, <2>3, <2>4, <3>2 DEF Carried
  <2>6. DOMAIN fs = {1} /\ fs[1] = rs
    BY <1>6
  <2> HIDE DEF L
  <2>7. \A a \in DOMAIN fs : \A k \in DOMAIN fs[a] :
           fs[a][k].status # "pending" /\ \E j \in DOMAIN ch : fs[a][k].mid = ch[j].mid
    BY <1>1, <1>3, <1>4, <2>6
  <2>8. ASSUME \A j, l \in DOMAIN ch : ch[j].mid = ch[l].mid => j = l,
               NEW a \in DOMAIN fs, NEW b \in DOMAIN fs,
               NEW k \in DOMAIN fs[a], NEW l \in DOMAIN fs[b], fs[a][k].mid = fs[b][l].mid
        PROVE  a = b /\ k = l
    BY <1>1, <1>3, <1>4, <2>6, <2>8
  <2> QED BY <2>2, <2>5, <2>7, <2>8
<1>7. CASE fs = [j \in 1..L |-> <<rs[j]>>]
  <2>1. ASSUME NEW j \in 1..L
        PROVE  /\ <<rs[j]>> \in Frames /\ Carried(<<rs[j]>>) = rs[j].grant
    <3> DEFINE o == <<rs[j]>>
    <3>1. o \in Seq(Reply) /\ o # <<>> /\ Len(o) = 1 /\ o[1] = rs[j]
      BY <1>3
    <3> HIDE DEF o
    <3>2. o \in Frames /\ Carried(o) = rs[j].grant
      BY <3>1, CarriedFirst DEF Frames
    <3> QED BY <3>2 DEF o
  <2>2. fs \in [1..L -> Frames] /\ \A j \in 1..L : fs[j] = <<rs[j]>>
    BY <1>7, <2>1
  <2>3. fs \in Seq(Frames) /\ Len(fs) = L /\ DOMAIN fs = 1..L
    BY <1>1, <2>2, FcnIsSeq
  <2>4. /\ Loads(fs) \in Seq(Nat) /\ Len(Loads(fs)) = L
        /\ \A k \in 1..L : Loads(fs)[k] = rs[k].grant
    <3>1. /\ Loads(fs) \in Seq(Nat) /\ Len(Loads(fs)) = L
          /\ \A k \in 1..L : Loads(fs)[k] = Carried(fs[k])
      BY <2>3, LoadsTyped
    <3> QED BY <2>1, <2>2, <3>1
  <2>5. L \in 1..L
    BY <1>1
  <2>6. Coming(fs) = grant
    <3>1. Loads(fs) # <<>> /\ \A n \in 1..Len(Loads(fs)) : n # Len(Loads(fs)) => Loads(fs)[n] = 0
      BY <1>1, <1>3, <2>4
    <3>2. Total(Loads(fs)) = Loads(fs)[L]
      BY <2>4, <3>1, TotalOnlyLast
    <3> QED BY <1>3, <2>4, <2>5, <3>2 DEF Coming
  <2>7. \A a \in 1..L : DOMAIN fs[a] = {1} /\ fs[a][1] = rs[a]
    BY <2>2
  <2> HIDE DEF L
  <2>8. \A a \in DOMAIN fs : \A k \in DOMAIN fs[a] :
           fs[a][k].status # "pending" /\ \E j \in DOMAIN ch : fs[a][k].mid = ch[j].mid
    BY <1>1, <1>3, <2>3, <2>7
  <2>9. ASSUME \A j, l \in DOMAIN ch : ch[j].mid = ch[l].mid => j = l,
               NEW a \in DOMAIN fs, NEW b \in DOMAIN fs,
               NEW k \in DOMAIN fs[a], NEW l \in DOMAIN fs[b], fs[a][k].mid = fs[b][l].mid
        PROVE  a = b /\ k = l
    <3>1. a \in 1..L /\ b \in 1..L /\ k = 1 /\ l = 1
      BY <2>3, <2>7
    <3>2. rs[a].mid = rs[b].mid
      BY <2>7, <2>9, <3>1
    <3> QED BY <1>1, <1>3, <2>9, <3>1, <3>2
  <2> QED BY <2>3, <2>6, <2>8, <2>9
<1> QED BY <1>5, <1>6, <1>7

\* A chain the server takes adds what it will grant for it.
LEMMA OwedAppend ==
  ASSUME NEW ib \in Seq(Entry), NEW e \in Entry
  PROVE  Append(ib, e) \in Seq(Entry) /\ Owed(Append(ib, e)) = Owed(ib) + Due(e)
<1> DEFINE r == Append(ib, e)
           L == Len(ib)
<1>1. /\ r \in Seq(Entry) /\ Len(r) = L + 1 /\ L \in Nat /\ \A i \in 1..L : r[i] = ib[i]
      /\ r[L + 1] = e
  BY AppendProperties, LenProperties
<1> HIDE DEF r
<1>2. /\ Dues(r) \in Seq(Nat) /\ Len(Dues(r)) = L + 1
      /\ \A i \in 1..(L + 1) : Dues(r)[i] = Due(r[i])
  BY <1>1, DuesTyped
<1>3. /\ Dues(ib) \in Seq(Nat) /\ Len(Dues(ib)) = L
      /\ \A i \in 1..L : Dues(ib)[i] = Due(ib[i])
  BY DuesTyped
<1> HIDE DEF L
<1>4. \A i \in 1..L : i \in 1..(L + 1)
  BY <1>1
<1>5. Dues(r)[L + 1] = Due(e)
  BY <1>1, <1>2, L + 1 \in 1..(L + 1)
<1>6. /\ Len(Dues(r)) = Len(Dues(ib)) + 1
      /\ \A i \in 1..Len(Dues(ib)) : Dues(r)[i] = Dues(ib)[i]
  BY <1>1, <1>2, <1>3, <1>4
<1>7. Total(Dues(r)) = Total(Dues(ib)) + Dues(r)[Len(Dues(r))]
  BY <1>2, <1>3, <1>6, TotalAppend
<1> QED BY <1>1, <1>2, <1>5, <1>7 DEF Owed, r

\* A chain it has answered takes its due with it.
LEMMA OwedRemove ==
  ASSUME NEW ib \in Seq(Entry), NEW i \in 1..Len(ib)
  PROVE  RemoveAt(ib, i) \in Seq(Entry) /\ Owed(ib) = Owed(RemoveAt(ib, i)) + Due(ib[i])
<1> DEFINE r == RemoveAt(ib, i)
           L == Len(ib)
<1>1. /\ r \in Seq(Entry) /\ Len(r) = L - 1
      /\ \A m \in 1..(L - 1) : r[m] = IF m < i THEN ib[m] ELSE ib[m + 1]
      /\ L \in Nat /\ i \in 1..L
  BY RemoveAtElements, LenProperties
<1> HIDE DEF r
<1>2. /\ Dues(r) \in Seq(Nat) /\ Len(Dues(r)) = L - 1
      /\ \A m \in 1..(L - 1) : Dues(r)[m] = Due(r[m])
  BY <1>1, DuesTyped
<1>3. /\ Dues(ib) \in Seq(Nat) /\ Len(Dues(ib)) = L
      /\ \A m \in 1..L : Dues(ib)[m] = Due(ib[m])
  BY DuesTyped
<1> HIDE DEF L
<1>4. ASSUME NEW m \in 1..(L - 1)
      PROVE  Dues(r)[m] = IF m < i THEN Dues(ib)[m] ELSE Dues(ib)[m + 1]
  <2>1. m \in 1..L /\ m + 1 \in 1..L
    BY <1>1
  <2>2. CASE m < i
    BY <1>1, <1>2, <1>3, <2>1, <2>2
  <2>3. CASE ~(m < i)
    BY <1>1, <1>2, <1>3, <2>1, <2>3
  <2> QED BY <2>2, <2>3
<1>5. /\ i \in 1..Len(Dues(ib)) /\ Len(Dues(r)) = Len(Dues(ib)) - 1
      /\ \A m \in 1..Len(Dues(r)) : Dues(r)[m] = IF m < i THEN Dues(ib)[m] ELSE Dues(ib)[m + 1]
  BY <1>1, <1>2, <1>3, <1>4
<1>6. Total(Dues(ib)) = Total(Dues(r)) + Dues(ib)[i]
  BY <1>2, <1>3, <1>5, TotalRemove
<1> QED BY <1>1, <1>3, <1>6 DEF Owed, r

\* A chain it has sent an interim reply to changes its own due only.
LEMMA OwedReplace ==
  ASSUME NEW ib \in Seq(Entry), NEW i \in 1..Len(ib), NEW r \in Seq(Entry), Len(r) = Len(ib),
         \A m \in 1..Len(ib) : m # i => r[m] = ib[m]
  PROVE  Owed(r) + Due(ib[i]) = Owed(ib) + Due(r[i])
<1>1. /\ Dues(r) \in Seq(Nat) /\ Len(Dues(r)) = Len(ib)
      /\ \A m \in 1..Len(ib) : Dues(r)[m] = Due(r[m])
  BY DuesTyped
<1>2. /\ Dues(ib) \in Seq(Nat) /\ Len(Dues(ib)) = Len(ib)
      /\ \A m \in 1..Len(ib) : Dues(ib)[m] = Due(ib[m])
  BY DuesTyped
<1>3. /\ i \in 1..Len(Dues(ib)) /\ Len(Dues(r)) = Len(Dues(ib))
      /\ \A m \in 1..Len(Dues(ib)) : m # i => Dues(r)[m] = Dues(ib)[m]
  BY <1>1, <1>2
<1>4. Total(Dues(r)) + Dues(ib)[i] = Total(Dues(ib)) + Dues(r)[i]
  BY <1>1, <1>2, <1>3, TotalReplace
<1> QED BY <1>1, <1>2, <1>4 DEF Owed

-----------------------------------------------------------------------------
\* What the operations on the queues do to the clauses of the invariant.

\* The queues hold chains, frames and what the server has taken.
LEMMA QueuesTyped ==
  ASSUME Types
  PROVE  /\ outq \in Seq(Chains) /\ waitq \in Seq(Request)
         /\ inbox \in Seq(Entry) /\ frames \in Seq(Frames)
<1>1. outq \in Seq(Chains)
  <2>1. Len(outq) \in Nat /\ outq \in [1..Len(outq) -> Seq(Request)] /\ DOMAIN outq = 1..Len(outq)
    BY LenProperties DEF Types
  <2>2. outq \in [1..Len(outq) -> Chains]
    BY <2>1 DEF Types, Chain, Chains
  <2> QED BY <2>1, <2>2, FcnIsSeq
<1>2. inbox \in Seq(Entry)
  <2>1. Len(inbox) \in Nat /\ inbox \in [1..Len(inbox) -> Taken] /\ DOMAIN inbox = 1..Len(inbox)
    BY LenProperties DEF Types
  <2>2. \A i \in 1..Len(inbox) : inbox[i] \in Entry
    <3> TAKE i \in 1..Len(inbox)
    <3>1. inbox[i] \in Taken /\ inbox[i].chain # <<>>
      BY <2>1 DEF Types
    <3> QED BY <3>1 DEF Taken, Entry, Chains
  <2>3. inbox \in [1..Len(inbox) -> Entry]
    BY <2>1, <2>2
  <2> QED BY <2>1, <2>3, FcnIsSeq
<1>3. frames \in Seq(Frames)
  <2>1. Len(frames) \in Nat /\ frames \in [1..Len(frames) -> Seq(Reply)]
        /\ DOMAIN frames = 1..Len(frames)
    BY LenProperties DEF Types
  <2>2. frames \in [1..Len(frames) -> Frames]
    BY <2>1 DEF Types, Frames
  <2> QED BY <2>1, <2>2, FcnIsSeq
<1> QED BY <1>1, <1>2, <1>3 DEF Types

\* Nothing on its way and nothing owed.
LEMMA EmptySums == Coming(<<>>) = 0 /\ Owed(<<>>) = 0
<1>1. \A s \in Seq(Nat) : Len(s) = 0 => Total(s) = 0
  <2> TAKE s \in Seq(Nat)
  <2>1. Len(s) = 0 => s = <<>>
    BY EmptySeq
  <2> QED BY <2>1, TotalNat
<1> DEFINE e == <<>>
<1>2. e \in Seq(Frames) /\ e \in Seq(Entry) /\ Len(e) = 0
  OBVIOUS
<1> HIDE DEF e
<1>3. Loads(e) \in Seq(Nat) /\ Len(Loads(e)) = 0
  BY <1>2, LoadsTyped
<1>4. Dues(e) \in Seq(Nat) /\ Len(Dues(e)) = 0
  BY <1>2, DuesTyped
<1> QED BY <1>1, <1>3, <1>4 DEF Coming, Owed, e

\* A request of a queued chain has its numbers.
LEMMA RequestOf ==
  ASSUME NEW q \in Seq(Chains), NEW i \in DOMAIN q, NEW k \in DOMAIN q[i]
  PROVE  /\ q[i][k] \in Request /\ q[i][k].mid \in Nat /\ q[i][k].charge \in Nat
         /\ Width(q[i][k].charge) \in Nat /\ i \in 1..Len(q) /\ i \in 0..Len(q)
         /\ CostBehind(q, i) \in Nat
<1>1. DOMAIN q = 1..Len(q) /\ i \in 1..Len(q) /\ i \in 0..Len(q) /\ Len(q) \in Nat
  BY LenProperties
<1>2. q[i] \in Seq(Request) /\ DOMAIN q[i] = 1..Len(q[i])
  <2>1. q[i] \in Chains
    BY <1>1, ElementOfSeq
  <2> QED BY <2>1, LenProperties DEF Chains
<1>3. q[i][k] \in Request
  BY <1>2, ElementOfSeq
<1>4. CostBehind(q, i) \in Nat
  BY <1>1, LaterTyped
<1> QED BY <1>1, <1>3, <1>4 DEF Request, Width

\* A chain as smb2_queue_pdu numbers it, from n on up to m.
Follows(p, n, m) ==
  /\ p \in Chains /\ n \in Nat /\ m \in Nat /\ Charge(p) \in Nat /\ n + Charge(p) <= m
  /\ \A k \in DOMAIN p :
       /\ Bounded(p[k]) /\ p[k].cmd # "NEGOTIATE"
       /\ p[k].mid \in Nat /\ n <= p[k].mid /\ p[k].mid + Width(p[k].charge) <= m /\ p[k].mid < m
       /\ \A l \in DOMAIN p : k < l => p[k].mid < p[l].mid

\* What a queue with such a chain at its end keeps.
LEMMA QueuedAtEnd ==
  ASSUME NEW o \in Seq(Chains), NEW w \in Seq(Request), NEW p, NEW n, NEW m, Follows(p, n, m),
         NEW r, r = Append(o, p)
  PROVE  /\ Affordable(o, w) => Affordable(r, w)
         /\ ~Negotiates(o) => ~Negotiates(r)
         /\ Room(o, n) => Room(r, m)
         /\ Rising(o, w, n) => Rising(r, w, m)
<1> DEFINE L == Len(o)
<1>1. p \in Chains /\ n \in Nat /\ m \in Nat /\ Charge(p) \in Nat /\ n + Charge(p) <= m /\ n <= m
  BY DEF Follows
<1>2. /\ r \in Seq(Chains) /\ DOMAIN r = 1..(L + 1) /\ DOMAIN o = 1..L /\ L \in Nat
      /\ \A i \in 1..L : r[i] = o[i]
      /\ r[L + 1] = p
  BY <1>1, AppendElements
<1>3. p \in Seq(Request) /\ Len(p) \in Nat \ {0} /\ DOMAIN p = 1..Len(p)
  BY <1>1, LenProperties, EmptySeq DEF Chains
<1>4. \A i \in DOMAIN r : (i \in 1..L /\ i \in DOMAIN o /\ r[i] = o[i]) \/ (i = L + 1 /\ r[i] = p)
  BY <1>2
<1>5. /\ \A i \in 1..L : CostBehind(r, i) = CostBehind(o, i) + Charge(p)
      /\ CostBehind(r, L + 1) = 0
  BY <1>1, BehindAppend
<1> HIDE DEF L
<1>6. ASSUME Affordable(o, w) PROVE Affordable(r, w)
  BY <1>4, <1>6 DEF Affordable, Follows
<1>7. ASSUME ~Negotiates(o) PROVE ~Negotiates(r)
  <2>1. p[1].cmd # "NEGOTIATE"
    <3>1. 1 \in DOMAIN p
      BY <1>3
    <3> QED BY <3>1 DEF Follows
  <2> QED BY <1>4, <1>7, <2>1 DEF Negotiates
<1>8. ASSUME Room(o, n), NEW i \in DOMAIN r, NEW k \in DOMAIN r[i]
      PROVE  r[i][k].mid + Width(r[i][k].charge) + CostBehind(r, i) <= m
  <2>1. CASE i \in 1..L /\ i \in DOMAIN o /\ r[i] = o[i]
    <3> DEFINE x == o[i][k].mid
               y == Width(o[i][k].charge)
               z == CostBehind(o, i)
    <3>1. k \in DOMAIN o[i]
      BY <2>1
    <3>2. x \in Nat /\ y \in Nat /\ z \in Nat
      BY <2>1, <3>1, RequestOf
    <3>3. x + y + z <= n
      BY <1>8, <2>1, <3>1 DEF Room
    <3>4. CostBehind(r, i) = z + Charge(p)
      BY <1>5, <2>1
    <3>5. r[i][k].mid = x /\ Width(r[i][k].charge) = y
      BY <2>1
    <3> HIDE DEF x, y, z
    <3> QED BY <1>1, <3>2, <3>3, <3>4, <3>5
  <2>2. CASE i = L + 1 /\ r[i] = p
    <3>1. k \in DOMAIN p
      BY <2>2
    <3>2. p[k].mid + Width(p[k].charge) <= m /\ p[k].mid \in Nat /\ Width(p[k].charge) \in Nat
      <4>1. Width(p[k].charge) \in Nat
        BY <1>2, <1>3, <2>2, <3>1, RequestOf
      <4> QED BY <3>1, <4>1 DEF Follows
    <3> DEFINE x == p[k].mid
               y == Width(p[k].charge)
    <3>3. r[i][k].mid = x /\ Width(r[i][k].charge) = y /\ CostBehind(r, i) = 0
      BY <1>5, <2>2
    <3> HIDE DEF x, y
    <3> QED BY <1>1, <3>2, <3>3 DEF x, y
  <2> QED BY <1>4, <2>1, <2>2
<1>9. ASSUME Rising(o, w, n) PROVE Rising(r, w, m)
  <2>1. \A i \in DOMAIN w : w[i].mid < m
    <3>1. \A i \in DOMAIN w : w[i].mid \in Nat /\ w[i].mid < n
      <4>1. \A i \in DOMAIN w : w[i] \in Request
        BY LenProperties
      <4> QED BY <1>9, <4>1 DEF Rising, Request
    <3> QED BY <1>1, <3>1
  <2>2. \A i \in DOMAIN w : w[i].mid \in Nat /\ w[i].mid < n
    <3>1. \A i \in DOMAIN w : w[i] \in Request
      BY LenProperties
    <3> QED BY <1>9, <3>1 DEF Rising, Request
  <2>3. \A i \in 1..L : \A k \in DOMAIN o[i] :
          /\ o[i][k].mid \in Nat /\ o[i][k].mid < n /\ o[i][k].mid < m
          /\ \A l \in DOMAIN o[i] : k < l => o[i][k].mid < o[i][l].mid
          /\ \A j \in 1..L : i < j => \A l \in DOMAIN o[j] : o[i][k].mid < o[j][l].mid
          /\ \A j \in DOMAIN w : w[j].mid < o[i][k].mid
    <3>1. \A i \in 1..L : \A k \in DOMAIN o[i] : o[i][k].mid \in Nat
      BY <1>2, RequestOf
    <3>2. \A i \in 1..L : \A k \in DOMAIN o[i] :
            /\ o[i][k].mid < n
            /\ \A l \in DOMAIN o[i] : k < l => o[i][k].mid < o[i][l].mid
            /\ \A j \in 1..L : i < j => \A l \in DOMAIN o[j] : o[i][k].mid < o[j][l].mid
            /\ \A j \in DOMAIN w : w[j].mid < o[i][k].mid
      BY <1>2, <1>9, Zenon DEF Rising
    <3>3. \A x \in Nat : x < n => x < m
      BY <1>1
    <3> QED BY <3>1, <3>2, <3>3
  <2>4. \A k \in DOMAIN p : /\ p[k].mid \in Nat /\ n <= p[k].mid /\ p[k].mid < m
                            /\ \A l \in DOMAIN p : k < l => p[k].mid < p[l].mid
    BY DEF Follows
  <2>5. ASSUME NEW i \in DOMAIN r, NEW k \in DOMAIN r[i]
        PROVE  /\ r[i][k].mid < m
               /\ \A l \in DOMAIN r[i] : k < l => r[i][k].mid < r[i][l].mid
               /\ \A j \in DOMAIN r : i < j => \A l \in DOMAIN r[j] : r[i][k].mid < r[j][l].mid
               /\ \A j \in DOMAIN w : w[j].mid < r[i][k].mid
    <3>1. CASE i \in 1..L /\ i \in DOMAIN o /\ r[i] = o[i]
      <4>1. ASSUME NEW j \in DOMAIN r, i < j, NEW l \in DOMAIN r[j]
            PROVE  r[i][k].mid < r[j][l].mid
        <5>1. CASE j \in 1..L /\ j \in DOMAIN o /\ r[j] = o[j]
          BY <2>3, <3>1, <4>1, <5>1
        <5>2. CASE j = L + 1 /\ r[j] = p
          <6>1. o[i][k].mid \in Nat /\ o[i][k].mid < n
            BY <2>3, <3>1
          <6>2. p[l].mid \in Nat /\ n <= p[l].mid
            BY <2>4, <4>1, <5>2
          <6> QED BY <1>1, <3>1, <5>2, <6>1, <6>2
        <5> QED BY <1>4, <4>1, <5>1, <5>2
      <4> QED BY <2>3, <3>1, <4>1
    <3>2. CASE i = L + 1 /\ r[i] = p
      <4>1. \A j \in DOMAIN r : ~(i < j)
        BY <1>2, <3>2
      <4>2. \A j \in DOMAIN w : w[j].mid < p[k].mid
        BY <1>1, <2>2, <2>4, <3>2
      <4> QED BY <2>4, <3>2, <4>1, <4>2
    <3> QED BY <1>4, <3>1, <3>2
  <2> QED BY <2>1, <2>5 DEF Rising
<1> QED BY <1>6, <1>7, <1>8, <1>9 DEF Room

\* Nothing waits in v that does not in w.
Within(v, w) == \A i \in DOMAIN v : \E j \in DOMAIN w : v[i] = w[j]

\* r is what is left of o behind the first h chains, v what is left of w.
LEMMA QueuesLeft ==
  ASSUME NEW o \in Seq(Chains), NEW w \in Seq(Request), NEW n \in Nat,
         NEW h \in 0..Len(o), NEW r \in Seq(Chains), Len(r) = Len(o) - h,
         \A i \in 1..Len(r) : r[i] = o[h + i],
         NEW v \in Seq(Request), Within(v, w)
  PROVE  /\ Affordable(o, w) => Affordable(r, v)
         /\ Negotiates(r) => Negotiates(o)
         /\ Room(o, n) => Room(r, n)
         /\ Rising(o, w, n) => Rising(r, v, n)
<1> DEFINE L == Len(o)
           M == Len(r)
<1>1. /\ L \in Nat /\ M \in Nat /\ M = L - h /\ DOMAIN o = 1..L /\ DOMAIN r = 1..M
      /\ \A i \in 1..M : r[i] = o[h + i]
  BY LenProperties
<1>2. \A i \in 1..M : CostBehind(r, i) = CostBehind(o, h + i)
  BY CostSuffix
<1> HIDE DEF L, M
<1>3. \A i \in DOMAIN r : h + i \in DOMAIN o /\ r[i] = o[h + i] /\ CostBehind(r, i) = CostBehind(o, h + i)
  BY <1>1, <1>2
<1>4. \A i, j \in DOMAIN r : i < j => h + i < h + j
  BY <1>1
<1>5. \A i \in DOMAIN v : \E j \in DOMAIN w : v[i] = w[j]
  BY DEF Within
<1>6. ASSUME Affordable(o, w) PROVE Affordable(r, v)
  BY <1>3, <1>5, <1>6 DEF Affordable
<1>7. ASSUME Negotiates(r) PROVE Negotiates(o)
  BY <1>3, <1>7 DEF Negotiates
<1>8. ASSUME Room(o, n) PROVE Room(r, n)
  BY <1>3, <1>8 DEF Room
<1>9. ASSUME Rising(o, w, n) PROVE Rising(r, v, n)
  <2>1. \A i \in DOMAIN v : v[i].mid < n
    BY <1>5, <1>9 DEF Rising
  <2>2. ASSUME NEW i \in DOMAIN r, NEW k \in DOMAIN r[i]
        PROVE  /\ r[i][k].mid < n
               /\ \A l \in DOMAIN r[i] : k < l => r[i][k].mid < r[i][l].mid
               /\ \A j \in DOMAIN r : i < j => \A l \in DOMAIN r[j] : r[i][k].mid < r[j][l].mid
               /\ \A j \in DOMAIN v : v[j].mid < r[i][k].mid
    <3>1. h + i \in DOMAIN o /\ r[i] = o[h + i]
      BY <1>3
    <3>2. /\ o[h + i][k].mid < n
          /\ \A l \in DOMAIN o[h + i] : k < l => o[h + i][k].mid < o[h + i][l].mid
          /\ \A j \in DOMAIN o : h + i < j =>
               \A l \in DOMAIN o[j] : o[h + i][k].mid < o[j][l].mid
          /\ \A j \in DOMAIN w : w[j].mid < o[h + i][k].mid
      BY <1>9, <3>1 DEF Rising
    <3>3. ASSUME NEW j \in DOMAIN r, i < j, NEW l \in DOMAIN r[j]
          PROVE  r[i][k].mid < r[j][l].mid
      <4>1. h + j \in DOMAIN o /\ r[j] = o[h + j] /\ h + i < h + j
        BY <1>3, <1>4, <3>3
      <4> QED BY <3>1, <3>2, <3>3, <4>1
    <3>4. \A j \in DOMAIN v : v[j].mid < r[i][k].mid
      BY <1>5, <3>1, <3>2
    <3> QED BY <3>1, <3>2, <3>3, <3>4
  <2> QED BY <2>1, <2>2 DEF Rising
<1> QED BY <1>6, <1>7, <1>8, <1>9

\* r and v are the queues once the head of o has gone behind w.
Written(o, w, n, r, v) ==
  /\ Affordable(o, w) => Affordable(r, v)
  /\ ~Negotiates(o) \/ Len(o) = 1 => ~Negotiates(r)
  /\ Room(o, n) => Room(r, n)
  /\ Rising(o, w, n) => Rising(r, v, n)
  /\ Cost(o) = Charge(o[1]) + Cost(r)
  /\ \A i \in DOMAIN w : i \in DOMAIN v /\ v[i] = w[i]
  /\ \A k \in DOMAIN o[1] : \E i \in DOMAIN v : v[i] = o[1][k]
  /\ \A i \in DOMAIN v : \/ i \in DOMAIN w /\ v[i] = w[i]
                         \/ \E k \in DOMAIN o[1] : v[i] = o[1][k]

\* The head of o goes on the wire, behind w.
LEMMA HeadWritten ==
  ASSUME NEW o \in Seq(Chains), o # <<>>, NEW w \in Seq(Request), NEW n \in Nat,
         NEW r, r = Tail(o), NEW v, v = w \o Head(o)
  PROVE  Written(o, w, n, r, v)
<1> DEFINE L == Len(o)
           W == Len(w)
           K == Len(o[1])
<1>1. /\ L \in Nat \ {0} /\ DOMAIN o = 1..L /\ Head(o) = o[1] /\ o[1] \in Chains
      /\ r \in Seq(Chains) /\ Len(r) = L - 1 /\ DOMAIN r = 1..(L - 1)
      /\ \A i \in 1..(L - 1) : r[i] = o[i + 1]
  BY TailElements
<1>2. o[1] \in Seq(Request) /\ DOMAIN o[1] = 1..K /\ K \in Nat /\ DOMAIN w = 1..W /\ W \in Nat
  BY <1>1, LenProperties DEF Chains
<1>3. /\ v \in Seq(Request) /\ DOMAIN v = 1..(W + K)
      /\ \A m \in 1..W : v[m] = w[m]
      /\ \A m \in 1..K : v[W + m] = o[1][m]
  <2>1. /\ v \in Seq(Request) /\ Len(v) = W + K
        /\ \A m \in 1..W : v[m] = w[m]
        /\ \A m \in 1..K : v[W + m] = o[1][m]
    <3>1. v = w \o o[1]
      BY <1>1
    <3> QED BY <1>2, <3>1, ConcatElements
  <2> QED BY <2>1, LenProperties
<1> HIDE DEF L, W, K
<1>4. \A i \in DOMAIN w : i \in DOMAIN v /\ v[i] = w[i]
  BY <1>2, <1>3
<1>5. \A k \in DOMAIN o[1] : \E i \in DOMAIN v : v[i] = o[1][k]
  <2> TAKE k \in DOMAIN o[1]
  <2>1. W + k \in DOMAIN v /\ v[W + k] = o[1][k]
    BY <1>2, <1>3
  <2> QED BY <2>1
<1>6. \A i \in DOMAIN v : \/ i \in DOMAIN w /\ v[i] = w[i]
                          \/ \E k \in DOMAIN o[1] : v[i] = o[1][k]
  <2> TAKE i \in DOMAIN v
  <2>0. i \in 1..(W + K) /\ W \in Nat /\ K \in Nat
    BY <1>2, <1>3
  <2>1. i \in 1..W \/ (i - W \in 1..K /\ W + (i - W) = i)
    BY <2>0
  <2> QED BY <1>2, <1>3, <2>1
<1>7. PICK h \in 0..L : h = 1
  BY <1>1
<1>8. /\ h \in 0..Len(o) /\ Len(r) = Len(o) - h
      /\ \A i \in 1..Len(r) : r[i] = o[h + i]
  <2>1. \A i \in 1..(L - 1) : h + i = i + 1
    BY <1>1, <1>7
  <2> QED BY <1>1, <1>7, <2>1 DEF L
<1>9. /\ Affordable(o, w) => Affordable(r, w)
      /\ Negotiates(r) => Negotiates(o)
      /\ Room(o, n) => Room(r, n)
      /\ Rising(o, w, n) => Rising(r, w, n)
  <2>1. r \in Seq(Chains)
    BY <1>1
  <2>2. Within(w, w)
    BY DEF Within
  <2> QED BY <1>8, <2>1, <2>2, QueuesLeft
<1>10. Cost(o) = Charge(o[1]) + Cost(r)
  <2>1. Cost(r) = CostBehind(o, h)
    BY <1>1, <1>8, CostSuffix
  <2> QED BY <1>7, <2>1, CostFirst
<1>11. 1 \in DOMAIN o
  BY <1>1
<1>12. ASSUME Affordable(o, w) PROVE Affordable(r, v)
  <2>1. \A i \in DOMAIN v : Bounded(v[i])
    BY <1>6, <1>11, <1>12 DEF Affordable
  <2> QED BY <1>9, <1>12, <2>1 DEF Affordable
<1>13. ASSUME Len(o) = 1 PROVE ~Negotiates(r)
  <2>1. DOMAIN r = {}
    BY <1>1, <1>13 DEF L
  <2> QED BY <2>1 DEF Negotiates
<1>14. ASSUME Rising(o, w, n) PROVE Rising(r, v, n)
  <2>1. Rising(r, w, n)
    BY <1>9, <1>14
  <2>2. \A i \in DOMAIN v : v[i].mid < n
    BY <1>6, <1>11, <1>14 DEF Rising
  <2>3. ASSUME NEW i \in DOMAIN r, NEW k \in DOMAIN r[i], NEW j \in DOMAIN v
        PROVE  v[j].mid < r[i][k].mid
    <3>1. CASE j \in DOMAIN w /\ v[j] = w[j]
      BY <2>1, <3>1 DEF Rising
    <3>2. ASSUME NEW l \in DOMAIN o[1], v[j] = o[1][l] PROVE v[j].mid < r[i][k].mid
      <4>1. i + 1 \in DOMAIN o /\ 1 < i + 1 /\ r[i] = o[i + 1]
        <5>1. i \in 1..(L - 1)
          BY <1>1
        <5> QED BY <1>1, <5>1
      <4>2. k \in DOMAIN o[i + 1]
        BY <4>1
      <4>3. o[1][l].mid < o[i + 1][k].mid
        BY <1>11, <1>14, <3>2, <4>1, <4>2 DEF Rising
      <4> QED BY <3>2, <4>1, <4>3
    <3> QED BY <1>6, <3>1, <3>2
  <2>4. ASSUME NEW i \in DOMAIN r, NEW k \in DOMAIN r[i]
        PROVE  /\ r[i][k].mid < n
               /\ \A l \in DOMAIN r[i] : k < l => r[i][k].mid < r[i][l].mid
               /\ \A j \in DOMAIN r : i < j => \A l \in DOMAIN r[j] : r[i][k].mid < r[j][l].mid
    BY <2>1 DEF Rising
  <2>5. \A i \in DOMAIN r : \A k \in DOMAIN r[i] :
          /\ r[i][k].mid < n
          /\ \A l \in DOMAIN r[i] : k < l => r[i][k].mid < r[i][l].mid
          /\ \A j \in DOMAIN r : i < j => \A l \in DOMAIN r[j] : r[i][k].mid < r[j][l].mid
          /\ \A j \in DOMAIN v : v[j].mid < r[i][k].mid
    <3> TAKE i \in DOMAIN r
    <3> TAKE k \in DOMAIN r[i]
    <3>1. \A j \in DOMAIN v : v[j].mid < r[i][k].mid
      BY <2>3
    <3> QED BY <2>4, <3>1
  <2> QED BY <2>2, <2>5, Zenon DEF Rising
<1> QED BY <1>4, <1>5, <1>6, <1>9, <1>10, <1>12, <1>13, <1>14 DEF Written

\* A frame is skipped, or its first reply read.
Beginning(fr, r) ==
  \/ r = Tail(fr)
  \/ Len(Head(fr)) # 1 /\ r = <<Tail(Head(fr))>> \o Tail(fr)

\* What is left was there before.
LEMMA RepliesLeft ==
  ASSUME NEW fr \in Seq(Frames), fr # <<>>, NEW r, Beginning(fr, r)
  PROVE  /\ r \in Seq(Frames)
         /\ \A i \in DOMAIN r : \A k \in DOMAIN r[i] :
              \E a \in DOMAIN fr : \E b \in DOMAIN fr[a] :
                r[i][k] = fr[a][b] /\ (a # 1 \/ b # 1)
         /\ Interims(fr) => Interims(r)
         /\ Distinct(fr) => Distinct(r)
<1> DEFINE L == Len(fr)
           f == fr[1]
           K == Len(f)
<1>1. /\ Head(fr) = f /\ f \in Frames /\ Tail(fr) \in Seq(Frames)
      /\ L \in Nat \ {0} /\ Len(Tail(fr)) = L - 1
      /\ DOMAIN fr = 1..L /\ DOMAIN Tail(fr) = 1..(L - 1)
      /\ \A m \in 1..(L - 1) : Tail(fr)[m] = fr[m + 1]
  BY TailElements
<1>2. /\ f \in Seq(Reply) /\ K \in Nat \ {0} /\ DOMAIN f = 1..K
      /\ Tail(f) \in Seq(Reply) /\ Len(Tail(f)) = K - 1 /\ DOMAIN Tail(f) = 1..(K - 1)
      /\ \A m \in 1..(K - 1) : Tail(f)[m] = f[m + 1]
  <2>1. f \in Seq(Reply) /\ f # <<>>
    BY <1>1 DEF Frames
  <2> HIDE DEF f
  <2> QED BY <2>1, TailElements
<1>3. CASE r = Tail(fr)
  <2>1. \A i \in DOMAIN r : i + 1 \in DOMAIN fr /\ r[i] = fr[i + 1] /\ i + 1 # 1
    BY <1>1, <1>3
  <2>2. \A i \in DOMAIN r : \A k \in DOMAIN r[i] :
          \E a \in DOMAIN fr : \E b \in DOMAIN fr[a] : r[i][k] = fr[a][b] /\ (a # 1 \/ b # 1)
    BY <2>1
  <2>3. Interims(fr) => Interims(r)
    BY <2>1 DEF Interims
  <2>4. \A i, j \in DOMAIN r : i + 1 = j + 1 => i = j
    BY <1>1, <1>3
  <2>5. Distinct(fr) => Distinct(r)
    <3> HIDE <1>3
    <3> QED BY <2>1, <2>4 DEF Distinct
  <2> QED BY <1>1, <1>3, <2>2, <2>3, <2>5
<1>4. CASE K # 1 /\ r = <<Tail(f)>> \o Tail(fr)
  <2> DEFINE one == <<Tail(f)>>
             rest == Tail(fr)
             t == Tail(f)
  <2>1. t # <<>>
    <3>1. t \in Seq(Reply) /\ Len(t) = K - 1 /\ K \in Nat /\ K # 1
      BY <1>2, <1>4
    <3> HIDE DEF t, K
    <3> QED BY <3>1, EmptySeq
  <2>2. one \in Seq(Frames) /\ Len(one) = 1 /\ one[1] = Tail(f)
    BY <1>2, <2>1 DEF Frames
  <2> HIDE DEF one
  <2>3. /\ r \in Seq(Frames) /\ Len(r) = L /\ r[1] = Tail(f)
        /\ \A m \in 1..(L - 1) : r[1 + m] = Tail(fr)[m]
    <3>1. rest \in Seq(Frames) /\ Len(rest) = L - 1
      BY <1>1
    <3>2. r = one \o rest
      BY <1>4 DEF one
    <3> HIDE DEF L, rest
    <3>3. one \in Seq(Frames) /\ rest \in Seq(Frames)
      BY <2>2, <3>1
    <3>4. /\ one \o rest \in Seq(Frames) /\ Len(one \o rest) = Len(one) + Len(rest)
          /\ \A m \in 1..Len(one) : (one \o rest)[m] = one[m]
          /\ \A m \in 1..Len(rest) : (one \o rest)[Len(one) + m] = rest[m]
      BY <3>3, ConcatElements, SMTT(30)
    <3>5. 1 \in 1..Len(one) /\ 1 + (L - 1) = L
      BY <1>1, <2>2
    <3> QED BY <1>1, <2>2, <3>1, <3>4, <3>2, <3>5 DEF rest
  <2>4. DOMAIN r = 1..L
    BY <2>3, LenProperties
  <2> HIDE DEF L, K
  <2>5. \A i \in 1..L : i # 1 => r[i] = fr[i]
    <3> SUFFICES ASSUME NEW i \in 1..L, i # 1 PROVE r[i] = fr[i]
      OBVIOUS
    <3>1. i - 1 \in 1..(L - 1) /\ 1 + (i - 1) = i /\ (i - 1) + 1 = i
      BY <1>1
    <3> QED BY <1>1, <2>3, <3>1
  <2>6. \A k \in DOMAIN r[1] : k \in 1..(K - 1) /\ k + 1 \in DOMAIN f /\ r[1][k] = f[k + 1] /\ k + 1 # 1
    BY <1>2, <2>3
  <2>7. ASSUME NEW i \in DOMAIN r, NEW k \in DOMAIN r[i]
        PROVE  \E a \in DOMAIN fr : \E b \in DOMAIN fr[a] : r[i][k] = fr[a][b] /\ (a # 1 \/ b # 1)
    <3>1. CASE i = 1
      BY <1>1, <2>4, <2>6, <2>7, <3>1
    <3>2. CASE i # 1
      BY <1>1, <2>4, <2>5, <2>7, <3>2
    <3> QED BY <3>1, <3>2
  <2>8. ASSUME Interims(fr), NEW i \in DOMAIN r, NEW k \in DOMAIN r[i], r[i][k].status = "pending"
        PROVE  Len(r[i]) = 1
    <3>1. CASE i = 1
      <4>1. f[k + 1].status = "pending" /\ k + 1 \in DOMAIN fr[1] /\ 1 \in DOMAIN fr
        BY <1>1, <2>6, <2>8, <3>1
      <4>2. Len(fr[1]) = 1
        BY <2>8, <4>1 DEF Interims
      <4> QED BY <1>4, <4>2 DEF K
    <3>2. CASE i # 1
      BY <1>1, <2>4, <2>5, <2>8, <3>2 DEF Interims
    <3> QED BY <3>1, <3>2
  <2>9. ASSUME Distinct(fr), NEW i \in DOMAIN r, NEW j \in DOMAIN r,
               NEW k \in DOMAIN r[i], NEW l \in DOMAIN r[j],
               Final(r[i][k]), Final(r[j][l]), r[i][k].mid = r[j][l].mid
        PROVE  i = j /\ k = l
    <3>1. CASE i = 1 /\ j = 1
      <4>1. /\ k + 1 \in DOMAIN fr[1] /\ l + 1 \in DOMAIN fr[1] /\ 1 \in DOMAIN fr
            /\ r[i][k] = fr[1][k + 1] /\ r[j][l] = fr[1][l + 1]
        BY <1>1, <2>6, <3>1
      <4>2. k + 1 = l + 1
        BY <2>9, <4>1 DEF Distinct
      <4>3. k \in Nat /\ l \in Nat
        BY <2>6, <3>1, <1>2
      <4> QED BY <3>1, <4>2, <4>3
    <3>2. CASE i = 1 /\ j # 1
      <4>1. /\ k + 1 \in DOMAIN fr[1] /\ 1 \in DOMAIN fr /\ r[i][k] = fr[1][k + 1]
            /\ j \in DOMAIN fr /\ l \in DOMAIN fr[j] /\ r[j][l] = fr[j][l]
        BY <1>1, <2>4, <2>5, <2>6, <3>2
      <4> QED BY <2>9, <3>2, <4>1 DEF Distinct
    <3>3. CASE i # 1 /\ j = 1
      <4>1. /\ l + 1 \in DOMAIN fr[1] /\ 1 \in DOMAIN fr /\ r[j][l] = fr[1][l + 1]
            /\ i \in DOMAIN fr /\ k \in DOMAIN fr[i] /\ r[i][k] = fr[i][k]
        BY <1>1, <2>4, <2>5, <2>6, <3>3
      <4> QED BY <2>9, <3>3, <4>1 DEF Distinct
    <3>4. CASE i # 1 /\ j # 1
      <4>1. /\ i \in DOMAIN fr /\ k \in DOMAIN fr[i] /\ r[i][k] = fr[i][k]
            /\ j \in DOMAIN fr /\ l \in DOMAIN fr[j] /\ r[j][l] = fr[j][l]
        BY <1>1, <2>4, <2>5, <3>4
      <4> QED BY <2>9, <4>1 DEF Distinct
    <3> QED BY <3>1, <3>2, <3>3, <3>4
  <2> QED BY <2>3, <2>7, <2>8, <2>9 DEF Interims, Distinct
<1>5. r = Tail(fr) \/ (K # 1 /\ r = <<Tail(f)>> \o Tail(fr))
  BY <1>1 DEF Beginning
<1> QED BY <1>3, <1>4, <1>5

\* The replies that are left are still awaited when the first was read.
LEMMA ReadMatched ==
  ASSUME NEW fr \in Seq(Frames), fr # <<>>, NEW r, NEW ib, NEW w, NEW v,
         Beginning(fr, r), Matched(fr, ib, w), Final(fr[1][1]),
         \A i \in DOMAIN w : w[i].mid = fr[1][1].mid \/ \E j \in DOMAIN v : v[j] = w[i]
  PROVE  Matched(r, ib, v)
<1> DEFINE m == fr[1][1].mid
<1>1. /\ \A i \in DOMAIN r : \A k \in DOMAIN r[i] :
              \E a \in DOMAIN fr : \E b \in DOMAIN fr[a] :
                r[i][k] = fr[a][b] /\ (a # 1 \/ b # 1)
      /\ Distinct(fr) => Distinct(r)
  BY RepliesLeft
<1>2. 1 \in DOMAIN fr /\ 1 \in DOMAIN fr[1]
  <2>1. /\ fr[1] \in Frames /\ DOMAIN fr = 1..Len(fr) /\ Len(fr) \in Nat \ {0}
    BY TailElements
  <2>2. DOMAIN fr[1] = 1..Len(fr[1]) /\ Len(fr[1]) \in Nat \ {0}
    BY <2>1, LenProperties, EmptySeq DEF Frames
  <2> QED BY <2>1, <2>2
<1>3. ASSUME NEW x, Expects(w, x), x # m PROVE Expects(v, x)
  BY <1>3 DEF Expects
<1>4. ASSUME NEW i \in DOMAIN r, NEW k \in DOMAIN r[i], Final(r[i][k])
      PROVE  /\ Expects(v, r[i][k].mid)
             /\ \A j \in DOMAIN ib : \A l \in DOMAIN ib[j].chain : r[i][k].mid # ib[j].chain[l].mid
  <2>1. PICK a \in DOMAIN fr : \E b \in DOMAIN fr[a] : r[i][k] = fr[a][b] /\ (a # 1 \/ b # 1)
    BY <1>1
  <2>2. PICK b \in DOMAIN fr[a] : r[i][k] = fr[a][b] /\ (a # 1 \/ b # 1)
    BY <2>1
  <2>3. fr[a][b].mid # m
    BY <1>2, <1>4, <2>2 DEF Matched, Distinct
  <2>4. /\ Expects(w, fr[a][b].mid)
        /\ \A j \in DOMAIN ib : \A l \in DOMAIN ib[j].chain : fr[a][b].mid # ib[j].chain[l].mid
    BY <1>4, <2>2 DEF Matched
  <2> QED BY <1>3, <2>2, <2>3, <2>4
<1>5. Unanswered(ib, v)
  <2>1. Unanswered(ib, w)
    BY DEF Matched
  <2>2. \A i \in DOMAIN ib : \A k \in DOMAIN ib[i].chain : ib[i].chain[k].mid # m
    BY <1>2 DEF Matched
  <2> QED BY <1>3, <2>1, <2>2 DEF Unanswered
<1> QED BY <1>1, <1>4, <1>5 DEF Matched

\* The server takes a chain that is awaited and rises behind what was.
LEMMA TakenMatched ==
  ASSUME NEW fr, NEW ib \in Seq(Entry), NEW w \in Seq(Request), NEW v, NEW ch \in Chains,
         NEW e \in Entry, e.chain = ch, Matched(fr, ib, w),
         \A i \in DOMAIN w : i \in DOMAIN v /\ v[i] = w[i],
         \A k \in DOMAIN ch : \E i \in DOMAIN v : v[i] = ch[k],
         \A i \in DOMAIN w : \A k \in DOMAIN ch : w[i].mid < ch[k].mid,
         \A k, l \in DOMAIN ch : k < l => ch[k].mid < ch[l].mid
  PROVE  Matched(fr, Append(ib, e), v)
<1> DEFINE nb == Append(ib, e)
           L == Len(ib)
<1>1. /\ DOMAIN nb = 1..(L + 1) /\ DOMAIN ib = 1..L /\ L \in Nat
      /\ \A i \in 1..L : nb[i] = ib[i]
      /\ nb[L + 1] = e
  BY AppendElements
<1> HIDE DEF nb, L
<1>2. \A i \in DOMAIN nb : (i \in DOMAIN ib /\ i # L + 1 /\ nb[i] = ib[i]) \/ (i = L + 1 /\ nb[i] = e)
  BY <1>1
<1>3. ASSUME NEW x, Expects(w, x) PROVE Expects(v, x) /\ \A k \in DOMAIN ch : x # ch[k].mid
  <2>1. PICK i \in DOMAIN w : w[i].mid = x
    BY <1>3 DEF Expects
  <2>2. Expects(v, x)
    BY <2>1 DEF Expects
  <2>3. w[i].mid \in Nat /\ \A k \in DOMAIN ch : ch[k].mid \in Nat
    <3>1. w[i] \in Request
      BY LenProperties
    <3>2. \A k \in DOMAIN ch : ch[k] \in Request
      BY LenProperties DEF Chains
    <3> QED BY <3>1, <3>2 DEF Request
  <2>4. \A k \in DOMAIN ch : w[i].mid < ch[k].mid
    OBVIOUS
  <2>5. \A a, b \in Nat : a < b => a # b
    OBVIOUS
  <2> QED BY <2>1, <2>2, <2>3, <2>4, <2>5
<1>4. \A k, l \in DOMAIN ch : ch[k].mid = ch[l].mid => k = l
  <2>1. DOMAIN ch = 1..Len(ch) /\ \A k \in DOMAIN ch : ch[k] \in Request
    BY LenProperties DEF Chains
  <2>2. \A k \in DOMAIN ch : k \in Nat /\ ch[k].mid \in Nat
    BY <2>1 DEF Request
  <2>3. \A a, b \in Nat : a = b \/ a < b \/ b < a
    OBVIOUS
  <2>4. \A a, b \in Nat : a < b => a # b
    OBVIOUS
  <2> QED BY <2>2, <2>3, <2>4
<1>5. \A k \in DOMAIN ch : Expects(v, ch[k].mid)
  BY DEF Expects
<1>6. ASSUME NEW i \in DOMAIN nb, NEW k \in DOMAIN nb[i].chain
      PROVE  /\ Expects(v, nb[i].chain[k].mid)
             /\ \A j \in DOMAIN nb : \A l \in DOMAIN nb[j].chain :
                  nb[i].chain[k].mid = nb[j].chain[l].mid => i = j /\ k = l
  <2>1. CASE i \in DOMAIN ib /\ i # L + 1 /\ nb[i] = ib[i]
    <3>1. /\ Expects(w, ib[i].chain[k].mid)
          /\ \A j \in DOMAIN ib : \A l \in DOMAIN ib[j].chain :
               ib[i].chain[k].mid = ib[j].chain[l].mid => i = j /\ k = l
      BY <1>6, <2>1 DEF Matched, Unanswered
    <3> QED BY <1>2, <1>3, <2>1, <3>1
  <2>2. CASE i = L + 1 /\ nb[i] = e
    <3>1. ASSUME NEW j \in DOMAIN ib, NEW l \in DOMAIN ib[j].chain
          PROVE  ch[k].mid # ib[j].chain[l].mid
      <4>1. Expects(w, ib[j].chain[l].mid)
        BY DEF Matched, Unanswered
      <4> QED BY <1>3, <1>6, <2>2, <4>1
    <3> QED BY <1>2, <1>4, <1>5, <1>6, <2>2, <3>1
  <2> QED BY <1>2, <2>1, <2>2
<1>7. Unanswered(nb, v)
  BY <1>6 DEF Unanswered
<1>8. ASSUME NEW i \in DOMAIN fr, NEW k \in DOMAIN fr[i], Final(fr[i][k])
      PROVE  /\ Expects(v, fr[i][k].mid)
             /\ \A j \in DOMAIN nb : \A l \in DOMAIN nb[j].chain : fr[i][k].mid # nb[j].chain[l].mid
  <2>1. /\ Expects(w, fr[i][k].mid)
        /\ \A j \in DOMAIN ib : \A l \in DOMAIN ib[j].chain : fr[i][k].mid # ib[j].chain[l].mid
    BY <1>8 DEF Matched
  <2> QED BY <1>2, <1>3, <2>1
<1> QED BY <1>7, <1>8 DEF Matched, nb

\* The server answers the i-th chain: its replies are the only ones to it.
LEMMA AnsweredMatched ==
  ASSUME NEW fr \in Seq(Frames), NEW ib \in Seq(Entry), NEW w, NEW i \in DOMAIN ib,
         Matched(fr, ib, w), NEW fs \in Seq(Frames), Distinct(fs),
         \A a \in DOMAIN fs : \A k \in DOMAIN fs[a] :
           \E j \in DOMAIN ib[i].chain : fs[a][k].mid = ib[i].chain[j].mid
  PROVE  Matched(fr \o fs, RemoveAt(ib, i), w)
<1> DEFINE nb == RemoveAt(ib, i)
           nf == fr \o fs
           L == Len(fr)
           M == Len(fs)
           I == Len(ib)
           at(m) == IF m < i THEN m ELSE m + 1
<1>1. /\ nf \in Seq(Frames) /\ Len(nf) = L + M /\ L \in Nat /\ M \in Nat
      /\ \A m \in 1..L : nf[m] = fr[m]
      /\ \A m \in 1..M : nf[L + m] = fs[m]
  BY ConcatElements
<1>2. DOMAIN fr = 1..L /\ DOMAIN fs = 1..M /\ DOMAIN nf = 1..(L + M)
  BY <1>1, LenProperties
<1>3. DOMAIN ib = 1..I /\ I \in Nat /\ i \in 1..I
  BY LenProperties
<1>4. /\ Len(nb) = I - 1 /\ \A m \in 1..(I - 1) : nb[m] = IF m < i THEN ib[m] ELSE ib[m + 1]
      /\ DOMAIN nb = 1..(I - 1)
  <2>1. /\ nb \in Seq(Entry) /\ Len(nb) = I - 1
        /\ \A m \in 1..(I - 1) : nb[m] = IF m < i THEN ib[m] ELSE ib[m + 1]
    BY <1>3, RemoveAtElements
  <2> HIDE DEF nb, I
  <2> QED BY <2>1, LenProperties
<1> HIDE DEF nb, nf, L, M, I
<1>5. \A m \in DOMAIN nb : at(m) \in DOMAIN ib /\ at(m) # i /\ nb[m] = ib[at(m)]
  BY <1>3, <1>4
<1>6. \A m, n \in DOMAIN nb : at(m) = at(n) => m = n
  BY <1>3, <1>4
<1> HIDE DEF at
<1>7. \A m \in DOMAIN nf : (m \in DOMAIN fr /\ nf[m] = fr[m])
                             \/ \E a \in DOMAIN fs : m = L + a /\ nf[m] = fs[a]
  <2> TAKE m \in DOMAIN nf
  <2>1. m \in 1..L \/ (m - L \in 1..M /\ L + (m - L) = m)
    BY <1>1, <1>2
  <2> QED BY <1>1, <1>2, <2>1
<1>8. Unanswered(nb, w)
  <2>1. Unanswered(ib, w)
    BY DEF Matched
  <2> QED BY <1>5, <1>6, <2>1 DEF Unanswered
<1>9. ASSUME NEW a \in DOMAIN fs, NEW k \in DOMAIN fs[a]
      PROVE  /\ Expects(w, fs[a][k].mid)
             /\ \A j \in DOMAIN ib : j # i => \A l \in DOMAIN ib[j].chain :
                  fs[a][k].mid # ib[j].chain[l].mid
             /\ \A b \in DOMAIN fr : \A l \in DOMAIN fr[b] :
                  Final(fr[b][l]) => fs[a][k].mid # fr[b][l].mid
  <2>1. PICK n \in DOMAIN ib[i].chain : fs[a][k].mid = ib[i].chain[n].mid
    OBVIOUS
  <2>2. /\ Expects(w, ib[i].chain[n].mid)
        /\ \A j \in DOMAIN ib : \A l \in DOMAIN ib[j].chain :
             ib[i].chain[n].mid = ib[j].chain[l].mid => i = j
    BY DEF Matched, Unanswered
  <2>3. \A b \in DOMAIN fr : \A l \in DOMAIN fr[b] :
          Final(fr[b][l]) => ib[i].chain[n].mid # fr[b][l].mid
    BY DEF Matched
  <2> QED BY <2>1, <2>2, <2>3
<1>10. ASSUME NEW b \in DOMAIN fr, NEW k \in DOMAIN fr[b], Final(fr[b][k])
       PROVE  /\ Expects(w, fr[b][k].mid)
              /\ \A j \in DOMAIN ib : \A l \in DOMAIN ib[j].chain : fr[b][k].mid # ib[j].chain[l].mid
  BY <1>10 DEF Matched
<1>11. ASSUME NEW m \in DOMAIN nf, NEW k \in DOMAIN nf[m], Final(nf[m][k])
       PROVE  /\ Expects(w, nf[m][k].mid)
              /\ \A j \in DOMAIN nb : \A l \in DOMAIN nb[j].chain : nf[m][k].mid # nb[j].chain[l].mid
  <2>1. CASE m \in DOMAIN fr /\ nf[m] = fr[m]
    BY <1>5, <1>10, <1>11, <2>1
  <2>2. ASSUME NEW a \in DOMAIN fs, nf[m] = fs[a]
        PROVE  /\ Expects(w, nf[m][k].mid)
               /\ \A j \in DOMAIN nb : \A l \in DOMAIN nb[j].chain : nf[m][k].mid # nb[j].chain[l].mid
    BY <1>5, <1>9, <1>11, <2>2
  <2> QED BY <1>7, <2>1, <2>2
<1>12. ASSUME NEW m \in DOMAIN nf, NEW n \in DOMAIN nf, NEW k \in DOMAIN nf[m],
              NEW l \in DOMAIN nf[n], Final(nf[m][k]), Final(nf[n][l]), nf[m][k].mid = nf[n][l].mid
       PROVE  m = n /\ k = l
  <2>1. CASE m \in DOMAIN fr /\ nf[m] = fr[m] /\ n \in DOMAIN fr /\ nf[n] = fr[n]
    BY <1>12, <2>1 DEF Matched, Distinct
  <2>2. ASSUME NEW a \in DOMAIN fs, nf[m] = fs[a], n \in DOMAIN fr, nf[n] = fr[n] PROVE FALSE
    BY <1>9, <1>12, <2>2
  <2>3. ASSUME NEW a \in DOMAIN fs, nf[n] = fs[a], m \in DOMAIN fr, nf[m] = fr[m] PROVE FALSE
    BY <1>9, <1>12, <2>3
  <2>4. ASSUME NEW a \in DOMAIN fs, nf[m] = fs[a], m = L + a,
               NEW b \in DOMAIN fs, nf[n] = fs[b], n = L + b
        PROVE  m = n /\ k = l
    BY <1>12, <2>4 DEF Distinct
  <2> QED BY <1>7, <2>1, <2>2, <2>3, <2>4
<1>13. Distinct(nf)
  BY <1>12 DEF Distinct
<1>14. Matched(nf, nb, w)
  <2> HIDE DEF Distinct, Unanswered, Expects, Final
  <2> QED BY <1>8, <1>11, <1>13 DEF Matched
<1> QED BY <1>14 DEF nf, nb

\* Replies that are not interim do not disturb the frames of interim ones.
LEMMA InterimsConcat ==
  ASSUME NEW fr \in Seq(Frames), NEW fs \in Seq(Frames), Interims(fr), Interims(fs)
  PROVE  Interims(fr \o fs)
<1> DEFINE nf == fr \o fs
           L == Len(fr)
           M == Len(fs)
<1>1. /\ nf \in Seq(Frames) /\ Len(nf) = L + M /\ L \in Nat /\ M \in Nat
      /\ \A m \in 1..L : nf[m] = fr[m]
      /\ \A m \in 1..M : nf[L + m] = fs[m]
  BY ConcatElements
<1>2. DOMAIN fr = 1..L /\ DOMAIN fs = 1..M /\ DOMAIN nf = 1..(L + M)
  BY <1>1, LenProperties
<1> HIDE DEF nf, L, M
<1>3. \A m \in DOMAIN nf : (m \in DOMAIN fr /\ nf[m] = fr[m])
                             \/ \E a \in DOMAIN fs : m = L + a /\ nf[m] = fs[a]
  <2> TAKE m \in DOMAIN nf
  <2>1. m \in 1..L \/ (m - L \in 1..M /\ L + (m - L) = m)
    BY <1>1, <1>2
  <2> QED BY <1>1, <1>2, <2>1
<1>4. Interims(nf)
  BY <1>3 DEF Interims
<1> QED BY <1>4 DEF nf

\* An interim reply to the i-th chain answers nothing.
LEMMA PendedMatched ==
  ASSUME NEW fr \in Seq(Frames), NEW ib, NEW w, Matched(fr, ib, w),
         NEW f \in Frames, NEW r, f = <<r>>, ~Final(r),
         NEW nb, DOMAIN nb = DOMAIN ib, \A i \in DOMAIN ib : nb[i].chain = ib[i].chain
  PROVE  Matched(Append(fr, f), nb, w)
<1> DEFINE nf == Append(fr, f)
           L == Len(fr)
<1>1. /\ DOMAIN nf = 1..(L + 1) /\ DOMAIN fr = 1..L /\ L \in Nat
      /\ \A i \in 1..L : nf[i] = fr[i]
      /\ nf[L + 1] = f
  BY AppendElements
<1> HIDE DEF nf, L
<1>2. \A m \in DOMAIN nf : (m \in DOMAIN fr /\ nf[m] = fr[m]) \/ nf[m] = f
  <2> TAKE m \in DOMAIN nf
  <2>1. m \in 1..L \/ m = L + 1
    BY <1>1
  <2> QED BY <1>1, <2>1
<1>3. \A k \in DOMAIN f : ~Final(f[k])
  OBVIOUS
<1>4. ASSUME NEW m \in DOMAIN nf, NEW k \in DOMAIN nf[m], Final(nf[m][k])
      PROVE  m \in DOMAIN fr /\ nf[m] = fr[m]
  BY <1>2, <1>3, <1>4
<1>5. Distinct(nf)
  BY <1>4 DEF Matched, Distinct
<1>6. Unanswered(nb, w)
  BY DEF Matched, Unanswered
<1>7. ASSUME NEW m \in DOMAIN nf, NEW k \in DOMAIN nf[m], Final(nf[m][k])
      PROVE  /\ Expects(w, nf[m][k].mid)
             /\ \A j \in DOMAIN nb : \A l \in DOMAIN nb[j].chain : nf[m][k].mid # nb[j].chain[l].mid
  BY <1>4, <1>7 DEF Matched
<1> QED BY <1>5, <1>6, <1>7 DEF Matched, nf

-----------------------------------------------------------------------------
\* Steps that queue.

\* Steps that touch no queue and no account; connecting opens no account either.
LEMMA SameCredits ==
  ASSUME CreditInv,
         UNCHANGED <<calls, outq, waitq, cur, credits, nextMid, inbox, frames, granted, skipped,
                     expiries>>,
         link' = link \/ (link = "new" /\ link' = "connecting")
  PROVE  CreditInv'
<1>1. Affordable(outq', waitq') /\ WithinWindow'
  BY DEF CreditInv, WithinWindow
<1>2. Opening'
  BY DEF CreditInv, Opening
<1>3. ASSUME link' = "up" PROVE Accounts'
  <2>1. Accounts
    BY <1>3 DEF CreditInv
  <2>2. NegotiatesAlone' /\ Budget' /\ Ledger'
    BY <2>1 DEF Accounts, NegotiatesAlone, Budget, Ledger
  <2>3. /\ Room(outq', nextMid') /\ Rising(outq', waitq', nextMid') /\ Interims(frames')
        /\ expiries' = 0 => Matched(frames', inbox', waitq')
    BY <2>1 DEF Accounts
  <2> QED BY <2>2, <2>3 DEF Accounts
<1> QED BY <1>1, <1>2, <1>3 DEF CreditInv

\* While a reply is read or on its way, or a request awaited, no NEGOTIATE waits.
LEMMA NotNegotiating ==
  ASSUME CreditInv, link = "up", \/ cur # None \/ frames # <<>> \/ inbox # <<>> \/ waitq # <<>>
  PROVE  Accounts /\ ~Negotiates(outq)
BY DEF CreditInv, Accounts, NegotiatesAlone

\* What smb2_queue_pdu numbers follows the message ids that were given out.
LEMMA NumberedFollows ==
  ASSUME NEW c \in Calls, NEW chain, Chained(chain), NEW mid \in Nat \ {0},
         NEW cr \in Nat, cr <= Window, NEW p, p = Numbered(c, chain, mid, cr)
  PROVE  Follows(p, mid, mid + Widths(p)) /\ p \in Seq(Request) /\ p # <<>>
<1>1. /\ chain \in Seq(Command) /\ chain # <<>>
      /\ \A k \in DOMAIN chain : chain[k].cb \in (IF k = Len(chain) THEN Tellers ELSE Silent)
  BY DEF Chained
<1>2. Chain(p) /\ \A k \in DOMAIN p : p[k].cmd = chain[k].cmd
  <2> DEFINE n == Numbered(c, chain, mid, cr)
  <2>1. mid \in Nat
    OBVIOUS
  <2>2. Len(chain) > 1 => mid > 0
    OBVIOUS
  <2>3. chain \in Seq(Command)
    BY <1>1
  <2>4. \A k \in DOMAIN chain : chain[k].cb \in (IF k = Len(chain) THEN Tellers ELSE Silent)
    BY <1>1
  <2>5. /\ Chain(n) /\ Len(n) = Len(chain)
        /\ \A k \in DOMAIN n : /\ n[k].call = c /\ n[k].cmd = chain[k].cmd
                               /\ n[k].cb = chain[k].cb /\ n[k].charge = Asked(chain[k], cr)
    BY <1>1, <2>1, <2>2, <2>3, <2>4, NumberedChain, SMTT(60)
  <2> HIDE DEF n
  <2>6. p = n
    BY DEF n
  <2> QED BY <2>5, <2>6
<1>3. /\ DOMAIN p = 1..Len(chain)
      /\ \A k \in DOMAIN p :
           /\ p[k].charge = Asked(chain[k], cr) /\ p[k].mid \in Nat
           /\ mid <= p[k].mid /\ p[k].prev <= p[k].mid
           /\ p[k].mid + Width(p[k].charge) <= mid + Widths(p)
           /\ \A l \in DOMAIN p : k < l => p[k].mid < p[l].mid
  <2> DEFINE n == Numbered(c, chain, mid, cr)
  <2>1. mid \in Nat
    OBVIOUS
  <2>2. /\ DOMAIN n = 1..Len(chain)
        /\ \A k \in DOMAIN n :
             /\ n[k].charge = Asked(chain[k], cr) /\ n[k].mid \in Nat
             /\ mid <= n[k].mid /\ n[k].prev <= n[k].mid
             /\ n[k].mid + Width(n[k].charge) <= mid + Widths(n)
             /\ \A l \in DOMAIN n : k < l => n[k].mid < n[l].mid
    BY <1>1, <2>1, NumberedMids
  <2> HIDE DEF n
  <2>3. p = n
    BY DEF n
  <2> QED BY <2>2, <2>3
<1>4. p \in Seq(Request) /\ p # <<>> /\ p \in Chains
  BY <1>2, EmptySeq DEF Chain, Chains
<1>5. Charge(p) \in Nat /\ Widths(p) \in Nat \ {0} /\ Unpaid(p) \in Nat
      /\ Charge(p) + Unpaid(p) = Widths(p)
  BY <1>4, ChainSums
<1>6. DOMAIN chain = 1..Len(chain) /\ \A k \in DOMAIN chain : chain[k] \in Command
  BY <1>1, LenProperties
<1>7. ASSUME NEW k \in DOMAIN p
      PROVE  /\ p[k].charge <= Window /\ p[k].cmd # "NEGOTIATE" /\ p[k].charge \in Nat
             /\ p[k].mid < mid + Widths(p)
  <2>1. k \in DOMAIN chain /\ p[k].charge = Asked(chain[k], cr) /\ p[k].cmd = chain[k].cmd
    BY <1>2, <1>3, <1>6
  <2>2. /\ chain[k] \in Command /\ chain[k].cmd # "NEGOTIATE"
        /\ chain[k].cost = 1 \/ chain[k].cmd \in {"READ", "WRITE"}
    BY <1>6, <2>1 DEF Chained
  <2>3. chain[k].cost \in Nat /\ Window \in Nat \ {0}
    BY <2>2, ClientAssumption DEF Command
  <2>4. p[k].charge \in Nat /\ p[k].charge <= Window
    BY <2>1, <2>2, <2>3 DEF Asked, Clipped
  <2>5. Width(p[k].charge) \in Nat \ {0}
    BY <2>4 DEF Width
  <2>6. p[k].mid \in Nat /\ p[k].mid + Width(p[k].charge) <= mid + Widths(p)
    BY <1>3
  <2>7. p[k].mid < mid + Widths(p)
    BY <1>5, <2>5, <2>6
  <2> QED BY <2>1, <2>2, <2>4, <2>7
<1>8. mid + Widths(p) \in Nat /\ mid + Charge(p) <= mid + Widths(p)
  BY <1>5
<1> QED BY <1>3, <1>4, <1>5, <1>7, <1>8 DEF Follows, Bounded

\* A request takes at least one message id.
LEMMA RequestNumbers ==
  ASSUME NEW p \in Request
  PROVE  p.mid \in Nat /\ p.mid + Width(p.charge) \in Nat
<1>1. p.mid \in Nat /\ p.charge \in Nat
  BY DEF Request
<1>2. \A n \in Nat : Width(n) \in Nat
  BY DEF Width
<1>3. Width(p.charge) \in Nat
  BY <1>1, <1>2
<1> QED BY <1>1, <1>3

\* A chain queued within a session: its ids are paid for or on record.
LEMMA QueuedCredits ==
  ASSUME Types, CreditInv, link = "up", ~Negotiates(outq), NEW p,
         p \in Seq(Request), p # <<>>, Follows(p, nextMid, nextMid'),
         outq' = Append(outq, p), nextMid' = nextMid + Widths(p), skipped' = skipped + Unpaid(p),
         UNCHANGED <<waitq, credits, inbox, frames, granted, expiries>>, link' \in {"up", "shut"}
  PROVE  CreditInv'
<1>1. outq \in Seq(Chains) /\ waitq \in Seq(Request) /\ inbox \in Seq(Entry) /\ frames \in Seq(Frames)
  BY QueuesTyped
<1>2. Accounts /\ Affordable(outq, waitq) /\ WithinWindow
  BY DEF CreditInv
<1>3. /\ Affordable(outq, waitq) => Affordable(outq', waitq)
      /\ ~Negotiates(outq) => ~Negotiates(outq')
      /\ Room(outq, nextMid) => Room(outq', nextMid')
      /\ Rising(outq, waitq, nextMid) => Rising(outq', waitq, nextMid')
  BY <1>1, QueuedAtEnd
<1>4. Cost(outq') = Cost(outq) + Charge(p) /\ Cost(outq) \in Nat
  <2>1. p \in Chains
    BY DEF Chains
  <2> QED BY <1>1, <2>1, CostAppend, CostsTyped
<1>5. /\ Charge(p) \in Nat /\ Widths(p) \in Nat \ {0} /\ Unpaid(p) \in Nat
      /\ Charge(p) + Unpaid(p) = Widths(p)
  BY ChainSums
<1>6. Coming(frames) \in Nat /\ skipped \in Nat /\ granted \in Nat /\ nextMid \in Nat /\ credits \in Nat
  BY <1>1, LoadsTyped DEF Types
<1>7. WithinWindow'
  <2> SUFFICES ASSUME NEW i \in DOMAIN waitq
               PROVE  waitq[i].mid + Width(waitq[i].charge) <= granted + (skipped + Unpaid(p))
    BY DEF WithinWindow
  <2>1. waitq[i].mid + Width(waitq[i].charge) <= granted + skipped
    BY <1>2 DEF WithinWindow
  <2>2. waitq[i].mid + Width(waitq[i].charge) \in Nat
    <3>1. waitq[i] \in Request
      BY <1>1, ElementOfSeq
    <3> QED BY <3>1, RequestNumbers
  <2>3. \A a, g, s, u \in Nat : a <= g + s => a <= g + (s + u)
    OBVIOUS
  <2> HIDE DEF Unpaid, Width
  <2> QED BY <1>5, <1>6, <2>1, <2>2, <2>3
<1>8. Ledger'
  <2>1. nextMid + credits + Coming(frames) <= granted + skipped + Cost(outq)
    BY <1>2 DEF Accounts, Ledger
  <2>2. \A a, b, c, d, e, f, x, y, z \in Nat :
          a + b + c <= d + e + f /\ x + y = z => a + z + b + c <= d + (e + y) + (f + x)
    OBVIOUS
  <2>3. nextMid + Widths(p) + credits + Coming(frames)
          <= granted + (skipped + Unpaid(p)) + (Cost(outq) + Charge(p))
    BY <1>4, <1>5, <1>6, <2>1, <2>2
  <2> QED BY <1>4, <2>3 DEF Ledger
<1>9. NegotiatesAlone' /\ Budget'
  BY <1>2, <1>3 DEF Accounts, NegotiatesAlone, Budget
<1>10. Opening'
  BY DEF Opening
<1>11. Accounts'
  BY <1>2, <1>3, <1>8, <1>9 DEF Accounts
<1> QED BY <1>2, <1>3, <1>7, <1>10, <1>11 DEF CreditInv

\* Within a session the credits in hand are part of the window.
LEMMA CreditsBounded ==
  ASSUME Types, CreditInv, link = "up", ~Negotiates(outq) PROVE credits <= Window
<1>1. credits + Coming(frames) + Owed(inbox) <= Window
  BY DEF CreditInv, Accounts, Budget
<1>2. Coming(frames) \in Nat /\ Owed(inbox) \in Nat /\ credits \in Nat /\ Window \in Nat
  BY QueuesTyped, LoadsTyped, DuesTyped, ClientAssumption DEF Types
<1>3. \A a, b, d, e \in Nat : a + b + d <= e => a <= e
  OBVIOUS
<1> QED BY <1>1, <1>2, <1>3

\* A call that was not made yet queues its first chain.
LEMMA StartCredits ==
  ASSUME CallInv, CreditInv, NEW c \in Calls, Start(c) PROVE CreditInv'
<1> DEFINE chain == FirstChain[calls[c].kind]
           st == smb2_queue_pdu(Before, c, chain)
           pdus == Numbered(c, chain, nextMid, credits)
<1>1. /\ link = "up" /\ calls[c].kind # "connect" /\ Connectable
      /\ Becomes(st) /\ outq' = st.outq
      /\ UNCHANGED <<link, partial, waitq, cur, credits, server, dropped, garbled, expiries>>
  BY DEF Start
<1>2. Types /\ nextMid \in Nat \ {0} /\ credits \in Nat
  BY <1>1 DEF CallInv, Types, Session
<1>3. calls[c].kind \in DOMAIN FirstChain
  BY <1>1, <1>2 DEF Types, Call, Kinds
<1>4. Chained(chain)
  BY <1>3, FirstChained
<1>5. ~Negotiates(outq)
  <2> SUFFICES ASSUME Negotiates(outq) PROVE FALSE
    OBVIOUS
  <2> DEFINE d == outq[1][1].call
  <2>1. Len(outq) = 1 /\ calls[d].kind = "connect"
    BY <1>1 DEF CreditInv, Accounts, NegotiatesAlone
  <2>2. outq \in Seq(Chains) /\ 1 \in DOMAIN outq
    BY <1>2, <2>1, QueuesTyped, LenProperties
  <2>3. outq[1] \in Chains
    BY <2>2, ElementOfSeq
  <2>4. outq[1] \in Seq(Request) /\ 1 \in DOMAIN outq[1]
    BY <2>3, LenProperties, EmptySeq DEF Chains
  <2>5. d \in Calls
    <3>1. outq[1][1] \in Request
      BY <2>4, ElementOfSeq
    <3> QED BY <3>1 DEF Request
  <2>6. InOutq(d)
    BY <2>2 DEF InOutq
  <2>7. Told(d)
    <3>1. calls[d].told = <<"ok">>
      BY <1>1, <2>1, <2>5 DEF Connectable
    <3> QED BY <3>1 DEF Told
  <2> QED BY <2>5, <2>6, <2>7 DEF CallInv, ToldLast
<1>6. credits <= Window
  BY <1>1, <1>2, <1>5, CreditsBounded
<1> HIDE DEF chain
<1>7. Follows(pdus, nextMid, nextMid + Widths(pdus)) /\ pdus \in Seq(Request) /\ pdus # <<>>
  BY <1>2, <1>4, <1>6, NumberedFollows
<1>8. 1 \in DOMAIN pdus /\ pdus[1].cmd # "NEGOTIATE"
  <2>1. 1 \in DOMAIN pdus
    BY <1>7, LenProperties, EmptySeq
  <2> QED BY <1>7, <2>1 DEF Follows
<1>9. /\ calls' = calls /\ outq' = Append(outq, pdus)
      /\ nextMid' = nextMid + Widths(pdus) /\ skipped' = skipped + Unpaid(pdus)
  <2>1. chain # <<>>
    BY <1>4 DEF Chained
  <2> DEFINE extra == IF pdus[1].cmd = "NEGOTIATE" THEN 0 ELSE Unpaid(pdus)
  <2>2. st = smb2_queue_pdu(Before, c, chain) /\ pdus = Numbered(c, chain, nextMid, credits)
    OBVIOUS
  <2> HIDE DEF st, pdus
  <2>3. extra = Unpaid(pdus)
    BY <1>8
  <2>4. st.calls = calls /\ st.outq = Append(outq, pdus) /\ st.nextMid = nextMid + Widths(pdus)
        /\ st.skipped = skipped + extra
    BY <2>1, <2>2, QueuedRecord
  <2> HIDE DEF extra
  <2> QED BY <1>1, <2>3, <2>4 DEF Becomes
<1> HIDE DEF pdus, st
<1>10. UNCHANGED <<waitq, credits, inbox, frames, granted, expiries>> /\ link' \in {"up", "shut"}
  BY <1>1 DEF server
<1> QED BY <1>1, <1>2, <1>5, <1>7, <1>9, <1>10, QueuedCredits

\* The rest of a reply: its callback queues one command more or none.
LEMMA ReadBodyCredits ==
  ASSUME CallInv, CreditInv, ReadBody PROVE CreditInv'
<1> DEFINE p == cur.pdu
           s == cur.status
           st == Complete(Before, p, s)
<1>1. /\ link = "up" /\ cur # None /\ cur' = None /\ Becomes(st) /\ outq' = st.outq
      /\ link' = (IF st.shut THEN "shut" ELSE link)
      /\ UNCHANGED <<begun, partial, waitq, credits, server, dropped, garbled, expiries>>
  BY DEF ReadBody
<1>2. Types /\ cur \in Reading
  BY <1>1 DEF CallInv, Types
<1>3. p \in Request /\ s \in Statuses
  BY <1>2 DEF Reading
<1>4. \/ st.outq = outq /\ st.nextMid = nextMid /\ st.skipped = skipped
      \/ \E cmd \in FollowUps :
           LET pdus == Numbered(p.call, <<cmd>>, nextMid, credits) IN
           /\ st.outq = Append(outq, pdus)
           /\ st.nextMid = nextMid + Widths(pdus)
           /\ st.skipped = skipped + Unpaid(pdus)
  <2> HIDE DEF p, s
  <2>1. \/ /\ st.outq = outq /\ st.nextMid = nextMid /\ st.skipped = skipped
           /\ p.cb \in Silent => st.calls[p.call].told = calls[p.call].told
           /\ p.cb \in Tellers => \E t \in Statuses : st.calls[p.call].told
                                                        = Append(calls[p.call].told, t)
        \/ /\ p.cb \in Tellers /\ st.calls[p.call] = calls[p.call]
           /\ \E cmd \in FollowUps :
                LET pdus == Numbered(p.call, <<cmd>>, nextMid, credits) IN
                /\ st.outq = Append(outq, pdus)
                /\ st.nextMid = nextMid + Widths(pdus)
                /\ st.skipped = skipped + Unpaid(pdus)
    BY <1>2, <1>3, CompleteReply
  <2> QED BY <2>1
<1> HIDE DEF st
<1>5. /\ nextMid' = st.nextMid /\ skipped' = st.skipped /\ link' \in {"up", "shut"}
      /\ UNCHANGED <<waitq, credits, inbox, frames, granted, expiries>>
  BY <1>1 DEF Becomes, server
<1>6. Accounts /\ ~Negotiates(outq)
  BY <1>1, NotNegotiating
<1>7. CASE st.outq = outq /\ st.nextMid = nextMid /\ st.skipped = skipped
  <2>1. outq' = outq /\ nextMid' = nextMid /\ skipped' = skipped
    BY <1>1, <1>5, <1>7
  <2>2. Affordable(outq', waitq') /\ WithinWindow'
    BY <1>5, <2>1 DEF CreditInv, WithinWindow
  <2>3. Opening'
    BY <1>5 DEF Opening
  <2>4. NegotiatesAlone' /\ Budget' /\ Ledger'
    BY <1>5, <1>6, <2>1 DEF Accounts, NegotiatesAlone, Budget, Ledger
  <2>5. /\ Room(outq', nextMid') /\ Rising(outq', waitq', nextMid') /\ Interims(frames')
        /\ expiries' = 0 => Matched(frames', inbox', waitq')
    BY <1>5, <1>6, <2>1 DEF Accounts
  <2> QED BY <2>2, <2>3, <2>4, <2>5 DEF CreditInv, Accounts
<1>8. ASSUME NEW cmd \in FollowUps,
             LET pdus == Numbered(p.call, <<cmd>>, nextMid, credits) IN
             /\ st.outq = Append(outq, pdus)
             /\ st.nextMid = nextMid + Widths(pdus)
             /\ st.skipped = skipped + Unpaid(pdus)
      PROVE  CreditInv'
  <2> DEFINE chain == <<cmd>>
             c == p.call
             pdus == Numbered(c, chain, nextMid, credits)
  <2>1. outq' = Append(outq, pdus) /\ nextMid' = nextMid + Widths(pdus)
        /\ skipped' = skipped + Unpaid(pdus)
    BY <1>1, <1>5, <1>8
  <2>2. Chained(chain)
    BY FollowUpChained
  <2>3. nextMid \in Nat \ {0} /\ credits \in Nat /\ c \in Calls
    BY <1>1, <1>2, <1>3 DEF CallInv, Session, Types, Request
  <2>4. credits <= Window
    BY <1>1, <1>2, <1>6, CreditsBounded
  <2> HIDE DEF chain, c
  <2>5. Follows(pdus, nextMid, nextMid + Widths(pdus)) /\ pdus \in Seq(Request) /\ pdus # <<>>
    BY <2>2, <2>3, <2>4, NumberedFollows
  <2> HIDE DEF pdus
  <2> QED BY <1>1, <1>2, <1>5, <1>6, <2>1, <2>5, QueuedCredits
<1> QED BY <1>4, <1>7, <1>8

-----------------------------------------------------------------------------
\* The beginning and the end of a context.

\* Nothing queued and nothing sent is affordable and within the window.
LEMMA NothingQueued ==
  /\ Affordable(<<>>, <<>>) /\ Interims(<<>>) /\ Matched(<<>>, <<>>, <<>>) /\ ~Negotiates(<<>>)
  /\ \A n : Room(<<>>, n) /\ Rising(<<>>, <<>>, n)
BY DEF Affordable, Interims, Matched, Distinct, Unanswered, Negotiates, Room, Rising

\* The context is destroyed: the accounts are closed.
LEMMA DestroyCredits ==
  ASSUME smb2_destroy_context PROVE CreditInv'
<1>1. outq' = <<>> /\ waitq' = <<>> /\ link' \in {"down", "crashed"}
  BY DEF smb2_destroy_context
<1>2. Affordable(outq', waitq')
  BY <1>1, NothingQueued
<1>3. WithinWindow' /\ Opening' /\ link' # "up"
  BY <1>1 DEF WithinWindow, Opening
<1> QED BY <1>2, <1>3 DEF CreditInv

\* One request that costs nothing and takes one message id.
Begins(p, c, mid) ==
  /\ p \in Chains /\ p \in Seq(Request) /\ DOMAIN p = {1} /\ p[1].cmd = "NEGOTIATE"
  /\ p[1].call = c /\ Charge(p) = 0 /\ Widths(p) = 1
  /\ p[1].charge = 0 /\ p[1].mid \in Nat /\ p[1].prev <= p[1].mid
  /\ p[1].mid + Width(p[1].charge) <= mid + 1

\* The NEGOTIATE is such a request.
LEMMA NegotiateNumbered ==
  ASSUME NEW c \in Calls, NEW mid \in Nat, NEW cr \in Nat
  PROVE  Begins(Numbered(c, NegotiateChain, mid, cr), c, mid)
<1> DEFINE chain == NegotiateChain
           n == Numbered(c, chain, mid, cr)
<1>1. /\ chain \in Seq(Command) /\ chain # <<>> /\ Len(chain) = 1 /\ DOMAIN chain = {1}
      /\ chain[1].cb \in Tellers /\ chain[1].cmd = "NEGOTIATE" /\ chain[1].cost = 0
  <2> DEFINE cmd == [Cmd("NEGOTIATE", "negotiate_cb") EXCEPT !.cost = 0]
  <2>1. cmd \in Command /\ cmd.cb \in Tellers /\ cmd.cmd = "NEGOTIATE" /\ cmd.cost = 0
    BY DEF Cmd, Command, Commands, Tellers
  <2>2. chain = <<cmd>>
    BY DEF NegotiateChain
  <2> HIDE DEF cmd, chain
  <2> QED BY <2>1, <2>2
<1> HIDE DEF chain
<1>2. /\ Chain(n) /\ Len(n) = Len(chain)
      /\ \A k \in DOMAIN n : /\ n[k].call = c /\ n[k].cmd = chain[k].cmd
                             /\ n[k].cb = chain[k].cb /\ n[k].charge = Asked(chain[k], cr)
  <2>1. mid \in Nat /\ (Len(chain) > 1 => mid > 0)
    BY <1>1
  <2>2. \A k \in DOMAIN chain : chain[k].cb \in (IF k = Len(chain) THEN Tellers ELSE Silent)
    BY <1>1
  <2>3. chain \in Seq(Command) /\ chain # <<>>
    BY <1>1
  <2> QED BY <2>1, <2>2, <2>3, NumberedChain
<1>3. /\ DOMAIN n = 1..Len(chain)
      /\ \A k \in DOMAIN n :
           /\ n[k].charge = Asked(chain[k], cr) /\ n[k].mid \in Nat
           /\ mid <= n[k].mid /\ n[k].prev <= n[k].mid
           /\ n[k].mid + Width(n[k].charge) <= mid + Widths(n)
           /\ \A l \in DOMAIN n : k < l => n[k].mid < n[l].mid
  BY <1>1, NumberedMids
<1>4. Asked(chain[1], cr) = 0
  BY <1>1 DEF Asked
<1> HIDE DEF n
<1>5. n = Numbered(c, NegotiateChain, mid, cr) /\ 1 \in DOMAIN n /\ DOMAIN n = {1} /\ Len(n) = 1
  BY <1>1, <1>2, <1>3 DEF n, chain
<1>6. n \in Seq(Request) /\ n # <<>> /\ n \in Chains
  BY <1>2, EmptySeq DEF Chain, Chains
<1>7. n[1].charge = 0 /\ Width(n[1].charge) = 1
  BY <1>2, <1>4, <1>5 DEF Width
<1>8. Charge(n) = 0 /\ Widths(n) = 1
  <2> DEFINE s == [k \in DOMAIN n |-> n[k].charge]
             w == [k \in DOMAIN n |-> Width(n[k].charge)]
  <2>1. s \in Seq(Nat) /\ Len(s) = 1 /\ s[1] = 0 /\ w \in Seq(Nat) /\ Len(w) = 1 /\ w[1] = 1
    <3> PICK L \in Nat : L = 1
      OBVIOUS
    <3>1. DOMAIN n = 1..L
      BY <1>3, <1>5, <1>1
    <3>2. s \in [1..L -> Nat] /\ w \in [1..L -> Nat] /\ s[1] = 0 /\ w[1] = 1
      BY <1>5, <1>7, <3>1
    <3> HIDE DEF s, w
    <3> QED BY <3>2, FcnIsSeq
  <2> HIDE DEF s, w
  <2>2. s # <<>> /\ w # <<>> /\ (\A k \in 1..Len(s) : k # Len(s) => s[k] = 0)
        /\ (\A k \in 1..Len(w) : k # Len(w) => w[k] = 0)
    BY <2>1, EmptySeq
  <2>3. Total(s) = s[Len(s)] /\ Total(w) = w[Len(w)]
    BY <2>1, <2>2, TotalOnlyLast
  <2> QED BY <2>1, <2>3 DEF Charge, Widths, s, w
<1>9. Begins(n, c, mid)
  BY <1>1, <1>2, <1>3, <1>5, <1>6, <1>7, <1>8 DEF Begins
<1> QED BY <1>5, <1>9

\* The socket is connected: the NEGOTIATE opens the accounts.
LEMMA ConnectedCredits ==
  ASSUME CallInv, CreditInv, NEW c \in Calls, Connected(c) PROVE CreditInv'
<1> DEFINE st == smb2_queue_pdu(Before, c, connect_cb(calls[c], "ok").chain)
           pdus == Numbered(c, NegotiateChain, nextMid, credits)
<1>1. /\ link = "connecting" /\ calls[c].kind = "connect" /\ c \in begun /\ link' = "up"
      /\ Becomes(st) /\ outq' = st.outq
      /\ UNCHANGED <<begun, partial, waitq, cur, credits, server, dropped, garbled, expiries>>
  BY DEF Connected
<1>2. /\ outq = <<>> /\ waitq = <<>> /\ cur = None /\ credits = 0 /\ nextMid = 0 /\ granted = 1
      /\ inbox = <<>> /\ frames = <<>> /\ skipped \in Nat
  BY <1>1 DEF CallInv, Session, Types, CreditInv, Opening
<1>3. /\ pdus \in Chains /\ pdus \in Seq(Request) /\ DOMAIN pdus = {1} /\ pdus[1].cmd = "NEGOTIATE"
      /\ pdus[1].call = c /\ Charge(pdus) = 0 /\ Widths(pdus) = 1
      /\ pdus[1].charge = 0 /\ pdus[1].mid \in Nat /\ pdus[1].prev <= pdus[1].mid
      /\ pdus[1].mid + Width(pdus[1].charge) <= nextMid + 1
  <2>1. nextMid \in Nat /\ credits \in Nat
    BY <1>2
  <2>2. Begins(pdus, c, nextMid)
    BY <2>1, NegotiateNumbered
  <2> HIDE DEF pdus
  <2> QED BY <2>2 DEF Begins
<1>4. /\ calls' = calls /\ outq' = Append(outq, pdus) /\ nextMid' = nextMid + Widths(pdus)
      /\ skipped' = skipped
  <2>1. connect_cb(calls[c], "ok").chain = NegotiateChain
    BY DEF connect_cb, Queue
  <2>2. NegotiateChain # <<>> /\ Before.nextMid = nextMid
    BY DEF NegotiateChain, Before
  <2> HIDE DEF st
  <2>3. st = smb2_queue_pdu(Before, c, NegotiateChain)
    BY <2>1 DEF st
  <2> HIDE DEF pdus
  <2>4. st = [Before EXCEPT !.outq = Append(@, pdus), !.nextMid = @ + Widths(pdus),
                            !.skipped = @ + IF pdus[1].cmd = "NEGOTIATE" THEN 0 ELSE Unpaid(pdus)]
    BY <2>2, <2>3 DEF pdus, smb2_queue_pdu
  <2>5. st.calls = calls /\ st.outq = Append(outq, pdus) /\ st.nextMid = nextMid + Widths(pdus)
        /\ st.skipped = skipped + 0
    BY <1>3, <2>4 DEF Before
  <2> QED BY <1>1, <1>2, <2>5 DEF Becomes
<1> HIDE DEF pdus, st
<1>5. UNCHANGED <<waitq, cur, credits, inbox, frames, granted, expiries>>
  BY <1>1 DEF server
<1>6. /\ DOMAIN outq' = {1} /\ Len(outq') = 1 /\ outq'[1] = pdus /\ nextMid' = 1
      /\ Cost(outq') = 0 /\ CostBehind(outq', 1) = 0
  <2> DEFINE q == <<>>
             one == Append(q, pdus)
  <2>1. q \in Seq(Chains) /\ Len(q) = 0 /\ DOMAIN one = {1} /\ Len(one) = 1 /\ one[1] = pdus
    OBVIOUS
  <2>2. outq' = one /\ nextMid' = 1
    BY <1>2, <1>3, <1>4
  <2> HIDE DEF q
  <2>3. CostBehind(one, Len(q) + 1) = 0
    BY <1>3, <2>1, BehindAppend
  <2>4. Cost(one) = Cost(q) + Charge(pdus)
    BY <1>3, <2>1, CostAppend
  <2>5. Cost(q) = 0
    <3> DEFINE cs == Costs(q)
    <3>1. cs \in Seq(Nat) /\ Len(cs) = 0
      BY <2>1, CostsTyped
    <3> HIDE DEF cs
    <3>2. cs = <<>>
      BY <3>1, EmptySeq
    <3> QED BY <3>1, <3>2, TotalNat DEF cs, Cost
  <2> HIDE DEF one
  <2> QED BY <1>3, <2>1, <2>2, <2>3, <2>4, <2>5
<1>7. Affordable(outq', waitq') /\ Room(outq', nextMid') /\ Rising(outq', waitq', nextMid')
  <2>1. pdus[1].mid < 1 /\ Width(pdus[1].charge) = 1 /\ pdus[1].mid + 1 <= 1
    BY <1>2, <1>3 DEF Width
  <2>2. Affordable(outq', waitq')
    BY <1>2, <1>3, <1>5, <1>6, ClientAssumption DEF Affordable, Bounded
  <2>3. Room(outq', nextMid')
    BY <1>3, <1>6, <2>1 DEF Room
  <2>4. Rising(outq', waitq', nextMid')
    BY <1>2, <1>3, <1>5, <1>6, <2>1 DEF Rising
  <2> QED BY <2>2, <2>3, <2>4
<1>8. WithinWindow' /\ Opening'
  BY <1>1, <1>2, <1>5 DEF WithinWindow, Opening
<1>9. Negotiates(outq') /\ NegotiatesAlone' /\ Budget'
  <2>1. Negotiates(outq')
    BY <1>3, <1>6 DEF Negotiates
  <2>2. calls'[outq'[1][1].call].kind = "connect" /\ Charge(outq'[1]) = 0
    BY <1>1, <1>3, <1>4, <1>6
  <2> QED BY <1>2, <1>5, <1>6, <2>1, <2>2 DEF NegotiatesAlone, Budget
<1>10. Ledger'
  <2>1. Coming(frames') = 0
    BY <1>2, <1>5, EmptySums
  <2> QED BY <1>2, <1>4, <1>5, <1>6, <2>1 DEF Ledger
<1>11. Interims(frames') /\ Matched(frames', inbox', waitq')
  BY <1>2, <1>5, NothingQueued
<1> QED BY <1>7, <1>8, <1>9, <1>10, <1>11 DEF CreditInv, Accounts

-----------------------------------------------------------------------------
\* The wire.

\* A request that waits has its numbers.
LEMMA WaitingNumbers ==
  ASSUME NEW w \in Seq(Request), NEW i \in DOMAIN w
  PROVE  w[i] \in Request /\ w[i].mid \in Nat /\ Width(w[i].charge) \in Nat
<1>1. w[i] \in Request
  BY ElementOfSeq
<1> QED BY <1>1 DEF Request, Width

\* A chain goes on the wire: its credits are paid, and the server owes them.
LEMMA WriteCredits ==
  ASSUME CallInv, CreditInv, smb2_write_to_socket PROVE CreditInv'
<1> DEFINE ch == Head(outq)
           e == [chain |-> ch, pended |-> FALSE]
<1>1. /\ link = "up" /\ outq # <<>> /\ Charge(ch) <= credits /\ credits' = credits - Charge(ch)
      /\ waitq' = waitq \o ch /\ inbox' = Append(inbox, e) /\ outq' = Tail(outq)
      /\ UNCHANGED <<link, begun, calls, cur, nextMid, frames, handles, granted, failed, legs,
                     record>>
  BY DEF smb2_write_to_socket, Sendable
<1>2. Types /\ Accounts /\ Affordable(outq, waitq) /\ WithinWindow
  BY <1>1 DEF CallInv, CreditInv
<1>3. outq \in Seq(Chains) /\ waitq \in Seq(Request) /\ inbox \in Seq(Entry) /\ frames \in Seq(Frames)
  BY <1>2, QueuesTyped
<1>4. /\ credits \in Nat /\ nextMid \in Nat /\ granted \in Nat /\ skipped \in Nat
      /\ Coming(frames) \in Nat /\ Owed(inbox) \in Nat /\ Window \in Nat
  BY <1>2, <1>3, LoadsTyped, DuesTyped, ClientAssumption DEF Types
<1>5. ch = outq[1] /\ ch \in Chains /\ 1 \in DOMAIN outq /\ outq' \in Seq(Chains)
  BY <1>1, <1>3, TailElements
<1>6. ch \in Seq(Request) /\ ch # <<>> /\ 1 \in DOMAIN ch
  BY <1>5, LenProperties, EmptySeq DEF Chains
<1>7. e \in Entry /\ e.chain = ch /\ e.pended = FALSE
  BY <1>5 DEF Entry
<1>8. /\ waitq' \in Seq(Request)
      /\ Affordable(outq, waitq) => Affordable(outq', waitq')
      /\ ~Negotiates(outq) \/ Len(outq) = 1 => ~Negotiates(outq')
      /\ Room(outq, nextMid) => Room(outq', nextMid)
      /\ Rising(outq, waitq, nextMid) => Rising(outq', waitq', nextMid)
      /\ Cost(outq) = Charge(outq[1]) + Cost(outq')
      /\ \A i \in DOMAIN waitq : i \in DOMAIN waitq' /\ waitq'[i] = waitq[i]
      /\ \A k \in DOMAIN outq[1] : \E i \in DOMAIN waitq' : waitq'[i] = outq[1][k]
      /\ \A i \in DOMAIN waitq' : \/ i \in DOMAIN waitq /\ waitq'[i] = waitq[i]
                                  \/ \E k \in DOMAIN outq[1] : waitq'[i] = outq[1][k]
  <2>1. waitq' = waitq \o Head(outq) /\ outq' = Tail(outq) /\ outq # <<>>
    BY <1>1
  <2> HIDE DEF ch, e
  <2>2. waitq' \in Seq(Request)
    BY <1>1, <1>3, <1>6, ConcatElements
  <2>3. Written(outq, waitq, nextMid, outq', waitq')
    BY <1>3, <1>4, <2>1, HeadWritten
  <2> QED BY <2>2, <2>3 DEF Written
<1> HIDE DEF ch, e
<1>9. Charge(ch) \in Nat /\ Cost(outq') \in Nat /\ CostBehind(outq, 1) \in Nat
      /\ Cost(outq) = Charge(ch) + CostBehind(outq, 1)
  <2>1. Charge(ch) \in Nat
    BY <1>6, ChainSums
  <2>2. Cost(outq') \in Nat
    BY <1>5, CostsTyped
  <2>3. Cost(outq) = Charge(outq[1]) + CostBehind(outq, 1)
    BY <1>1, <1>3, CostFirst
  <2>4. CostBehind(outq, 1) \in Nat
    BY <1>3, <1>5, <1>6, RequestOf
  <2> QED BY <1>5, <2>1, <2>2, <2>3, <2>4
<1>10. WithinWindow'
  <2> SUFFICES ASSUME NEW i \in DOMAIN waitq'
               PROVE  waitq'[i].mid + Width(waitq'[i].charge) <= granted + skipped
    BY <1>1 DEF WithinWindow, record
  <2>1. CASE i \in DOMAIN waitq /\ waitq'[i] = waitq[i]
    BY <1>2, <2>1 DEF WithinWindow
  <2>2. ASSUME NEW k \in DOMAIN outq[1], waitq'[i] = outq[1][k]
        PROVE  waitq'[i].mid + Width(waitq'[i].charge) <= granted + skipped
    <3>1. outq[1][k].mid + Width(outq[1][k].charge) + CostBehind(outq, 1) <= nextMid
      BY <1>2, <1>5 DEF Accounts, Room
    <3>2. nextMid + credits + Coming(frames) <= granted + skipped + Cost(outq)
      BY <1>2 DEF Accounts, Ledger
    <3>3. outq[1][k].mid \in Nat /\ Width(outq[1][k].charge) \in Nat
      BY <1>3, <1>5, RequestOf
    <3>4. \A m, w, b, n, c, f, g, s, t, x \in Nat :
            m + w + b <= n /\ n + c + f <= g + s + t /\ t = x + b /\ x <= c => m + w <= g + s
      OBVIOUS
    <3>5. outq[1][k].mid + Width(outq[1][k].charge) <= granted + skipped
      <4>1. Cost(outq) \in Nat
        BY <1>3, CostsTyped
      <4> QED BY <1>1, <1>4, <1>9, <3>1, <3>2, <3>3, <3>4, <4>1
    <3> QED BY <2>2, <3>5
  <2> QED BY <1>8, <2>1, <2>2
<1>11. ~Negotiates(outq')
  BY <1>2, <1>8 DEF Accounts, NegotiatesAlone
<1>12. Owed(inbox') = Owed(inbox) + Due(e) /\ Due(e) = Grant(ch)
  <2>1. Owed(inbox') = Owed(inbox) + Due(e)
    BY <1>1, <1>3, <1>7, OwedAppend
  <2> QED BY <1>7, <2>1 DEF Due
<1>13. Budget'
  <2>1. frames' = frames /\ expiries' = expiries
    BY <1>1 DEF record
  <2>2. CASE Negotiates(outq)
    <3>1. /\ Len(outq) = 1 /\ Charge(ch) = 0 /\ credits = 0 /\ inbox = <<>> /\ frames = <<>>
      BY <1>2, <1>5, <2>2 DEF Accounts, NegotiatesAlone
    <3>2. ch[1].cmd = "NEGOTIATE"
      <4>1. DOMAIN outq = {1}
        BY <1>3, <3>1, LenProperties
      <4> QED BY <1>5, <2>2, <4>1 DEF Negotiates
    <3>3. Due(e) = Window /\ Coming(frames) = 0 /\ Owed(inbox) = 0 /\ credits' = 0
      BY <1>1, <1>12, <3>1, <3>2, EmptySums DEF Grant
    <3>4. credits' + Coming(frames) + Owed(inbox') = Window
      BY <1>4, <1>12, <3>3
    <3>5. Window \in Nat /\ Window <= Window
      BY ClientAssumption
    <3> QED BY <2>1, <3>4, <3>5 DEF Budget
  <2>3. CASE ~Negotiates(outq)
    <3>1. Due(e) = Charge(ch)
      <4>1. ch[1].cmd # "NEGOTIATE"
        BY <1>5, <2>3 DEF Negotiates
      <4> QED BY <1>12, <4>1 DEF Grant
    <3>2. credits' + Coming(frames) + Owed(inbox') = credits + Coming(frames) + Owed(inbox)
      <4>1. credits' = credits - Charge(ch) /\ Owed(inbox') = Owed(inbox) + Charge(ch)
        BY <1>1, <1>12, <3>1
      <4>2. \A c, f, d, x \in Nat : (c - x) + f + (d + x) = c + f + d
        OBVIOUS
      <4> QED BY <1>4, <1>9, <4>1, <4>2
    <3>3. /\ credits + Coming(frames) + Owed(inbox) <= Window
          /\ expiries = 0 => credits + Coming(frames) + Owed(inbox) = Window
      BY <1>2, <2>3 DEF Accounts, Budget
    <3> QED BY <2>1, <3>2, <3>3 DEF Budget
  <2> QED BY <2>2, <2>3
<1>14. Ledger'
  <2>1. nextMid + credits + Coming(frames) <= granted + skipped + Cost(outq)
    BY <1>2 DEF Accounts, Ledger
  <2>2. \A n, c, f, g, s, x, t \in Nat :
          x <= c /\ n + c + f <= g + s + (x + t) => n + (c - x) + f <= g + s + t
    OBVIOUS
  <2>3. nextMid + (credits - Charge(ch)) + Coming(frames) <= granted + skipped + Cost(outq')
    BY <1>1, <1>4, <1>5, <1>8, <1>9, <2>1, <2>2
  <2> QED BY <1>1, <2>3 DEF Ledger, record
<1>15. ASSUME expiries' = 0 PROVE Matched(frames', inbox', waitq')
  <2>1. Matched(frames, inbox, waitq) /\ Rising(outq, waitq, nextMid)
    BY <1>1, <1>2, <1>15 DEF Accounts, record
  <2>2. /\ \A i \in DOMAIN waitq : \A k \in DOMAIN ch : waitq[i].mid < ch[k].mid
        /\ \A k, l \in DOMAIN ch : k < l => ch[k].mid < ch[l].mid
    BY <1>5, <2>1 DEF Rising
  <2>3. /\ \A i \in DOMAIN waitq : i \in DOMAIN waitq' /\ waitq'[i] = waitq[i]
        /\ \A k \in DOMAIN ch : \E i \in DOMAIN waitq' : waitq'[i] = ch[k]
    BY <1>5, <1>8
  <2>4. Matched(frames, Append(inbox, e), waitq')
    BY <1>3, <1>5, <1>7, <2>1, <2>2, <2>3, TakenMatched
  <2> QED BY <1>1, <2>4
<1>16. Accounts'
  <2>1. NegotiatesAlone'
    BY <1>11 DEF NegotiatesAlone
  <2>2. Room(outq', nextMid') /\ Rising(outq', waitq', nextMid') /\ Interims(frames')
    BY <1>1, <1>2, <1>8 DEF Accounts
  <2> QED BY <1>13, <1>14, <1>15, <2>1, <2>2 DEF Accounts
<1>17. Affordable(outq', waitq') /\ Opening'
  BY <1>1, <1>2, <1>8 DEF Opening
<1> QED BY <1>10, <1>16, <1>17 DEF CreditInv

\* Replies that are left are awaited as before when none was taken.
LEMMA SkippedMatched ==
  ASSUME NEW fr \in Seq(Frames), fr # <<>>, NEW r, NEW ib, NEW w, Beginning(fr, r),
         Matched(fr, ib, w)
  PROVE  Matched(r, ib, w)
<1>1. /\ \A i \in DOMAIN r : \A k \in DOMAIN r[i] :
              \E a \in DOMAIN fr : \E b \in DOMAIN fr[a] :
                r[i][k] = fr[a][b] /\ (a # 1 \/ b # 1)
      /\ Distinct(fr) => Distinct(r)
  BY RepliesLeft
<1>2. ASSUME NEW i \in DOMAIN r, NEW k \in DOMAIN r[i], Final(r[i][k])
      PROVE  /\ Expects(w, r[i][k].mid)
             /\ \A j \in DOMAIN ib : \A l \in DOMAIN ib[j].chain : r[i][k].mid # ib[j].chain[l].mid
  <2>1. PICK a \in DOMAIN fr : \E b \in DOMAIN fr[a] : r[i][k] = fr[a][b]
    BY <1>1
  <2>2. PICK b \in DOMAIN fr[a] : r[i][k] = fr[a][b]
    BY <2>1
  <2> QED BY <1>2, <2>2 DEF Matched
<1> QED BY <1>1, <1>2 DEF Matched

\* A header is read: what its frame brought comes into hand.
LEMMA ReadHeaderCredits ==
  ASSUME CallInv, CreditInv, ReadHeader PROVE CreditInv'
<1> DEFINE r == Head(Head(frames))
           i == Position(r.mid)
           left == IF Len(Head(frames)) = 1 THEN Tail(frames)
                   ELSE <<Tail(Head(frames))>> \o Tail(frames)
<1>1. /\ link = "up" /\ cur = None /\ frames # <<>> /\ credits' = credits + r.grant
      /\ UNCHANGED <<calls, outq, nextMid, inbox, granted, skipped, expiries>>
      /\ \/ SkipFrame(r) /\ frames' = Tail(frames) /\ UNCHANGED <<link, waitq, cur>>
         \/ link' = "shut" /\ UNCHANGED <<frames, waitq, cur>>
         \/ /\ ~SkipFrame(r) /\ waitq' = RemoveAt(waitq, i) /\ UNCHANGED link
            /\ frames' = left
  BY DEF ReadHeader, smb2_find_pdu, Without, CreditsOf, record
<1>2. Types /\ Accounts /\ ~Negotiates(outq) /\ Affordable(outq, waitq) /\ WithinWindow
  BY <1>1, NotNegotiating DEF CallInv, CreditInv
<1>3. outq \in Seq(Chains) /\ waitq \in Seq(Request) /\ inbox \in Seq(Entry) /\ frames \in Seq(Frames)
  BY <1>2, QueuesTyped
<1>4. /\ credits \in Nat /\ nextMid \in Nat /\ granted \in Nat /\ skipped \in Nat
      /\ Coming(frames) \in Nat /\ Owed(inbox) \in Nat /\ Window \in Nat /\ Cost(outq) \in Nat
  BY <1>2, <1>3, LoadsTyped, DuesTyped, CostsTyped, ClientAssumption DEF Types
<1>5. /\ Head(frames) \in Frames /\ Tail(frames) \in Seq(Frames) /\ Head(frames) = frames[1]
      /\ Coming(frames) = Carried(Head(frames)) + Coming(Tail(frames))
      /\ 1 \in DOMAIN frames
  BY <1>1, <1>3, ComingTail, TailElements
<1>6. /\ r = frames[1][1] /\ 1 \in DOMAIN frames[1] /\ r.grant \in Nat
      /\ Carried(Head(frames)) = r.grant + Carried(Tail(Head(frames)))
      /\ Carried(Tail(Head(frames))) \in Nat /\ Coming(Tail(frames)) \in Nat
      /\ Len(Head(frames)) = 1 => Carried(Head(frames)) = r.grant
  <2> DEFINE f == Head(frames)
  <2>1. f \in Frames /\ f = frames[1]
    BY <1>5
  <2> HIDE DEF f
  <2>2. /\ f[1].grant \in Nat /\ Carried(f) = f[1].grant + Carried(Tail(f))
        /\ Carried(Tail(f)) \in Nat
        /\ Len(f) = 1 => Carried(f) = f[1].grant
    BY <2>1, CarriedFirst
  <2>3. f \in Seq(Reply) /\ f # <<>>
    BY <2>1 DEF Frames
  <2>4. Head(f) = f[1] /\ 1 \in DOMAIN f
    BY <2>3, TailElements
  <2>5. Coming(Tail(frames)) \in Nat
    BY <1>5, LoadsTyped
  <2> QED BY <2>1, <2>2, <2>4, <2>5 DEF f
<1>7. /\ credits + Coming(frames) + Owed(inbox) <= Window
      /\ expiries = 0 => credits + Coming(frames) + Owed(inbox) = Window
      /\ nextMid + credits + Coming(frames) <= granted + skipped + Cost(outq)
  BY <1>2 DEF Accounts, Budget, Ledger
<1>8. credits' \in Nat /\ Opening'
  <2>1. link' # "new" /\ link' # "connecting"
    <3>1. link' \in {"up", "shut"}
      BY <1>1
    <3> QED BY <3>1
  <2>2. credits' \in Nat
    <3>1. \A a, b \in Nat : a + b \in Nat
      OBVIOUS
    <3> HIDE DEF r
    <3> QED BY <1>1, <1>4, <1>6, <3>1
  <2>3. Opening'
    BY <2>1 DEF Opening
  <2> QED BY <2>2, <2>3
\* What the accounts are when the frames that are left bring no more than is due.
<1>9. ASSUME Coming(frames') \in Nat, r.grant + Coming(frames') <= Coming(frames),
             expiries = 0 => r.grant + Coming(frames') = Coming(frames)
      PROVE  NegotiatesAlone' /\ Budget' /\ Ledger'
  <2>1. /\ credits' + Coming(frames') + Owed(inbox) <= Window
        /\ expiries = 0 => credits' + Coming(frames') + Owed(inbox) = Window
        /\ nextMid + credits' + Coming(frames') <= granted + skipped + Cost(outq)
    <3> DEFINE c == Coming(frames)
               d == Coming(frames')
               g == r.grant
               o == Owed(inbox)
               q == Cost(outq)
    <3>1. /\ c \in Nat /\ d \in Nat /\ g \in Nat /\ o \in Nat /\ q \in Nat /\ credits \in Nat
          /\ nextMid \in Nat /\ granted \in Nat /\ skipped \in Nat /\ Window \in Nat
          /\ credits' = credits + g /\ g + d <= c /\ (expiries = 0 => g + d = c)
          /\ credits + c + o <= Window /\ (expiries = 0 => credits + c + o = Window)
          /\ nextMid + credits + c <= granted + skipped + q
      BY <1>1, <1>4, <1>6, <1>7, <1>9
    <3> HIDE DEF c, d, g, o, q, r
    <3>2. /\ credits' + d + o <= Window
          /\ expiries = 0 => credits' + d + o = Window
          /\ nextMid + credits' + d <= granted + skipped + q
      BY <3>1
    <3> QED BY <3>2 DEF c, d, o, q
  <2> QED BY <1>1, <1>2, <2>1 DEF NegotiatesAlone, Budget, Ledger
<1>10. Room(outq', nextMid')
  BY <1>1, <1>2 DEF Accounts
<1>11. CASE link' = "shut" /\ waitq' = waitq
  <2>1. Affordable(outq', waitq') /\ WithinWindow' /\ link' # "up"
    BY <1>1, <1>2, <1>11 DEF WithinWindow
  <2> QED BY <1>8, <2>1 DEF CreditInv
<1>12. CASE SkipFrame(r) /\ frames' = Tail(frames) /\ UNCHANGED <<link, waitq, cur>>
  <2>1. Beginning(frames, frames')
    BY <1>12 DEF Beginning
  <2>2. Interims(frames')
    <3>1. Interims(frames) => Interims(frames')
      BY <1>1, <1>3, <2>1, RepliesLeft
    <3> QED BY <1>2, <3>1 DEF Accounts
  <2>3. expiries = 0 => Matched(frames', inbox, waitq)
    BY <1>1, <1>2, <1>3, <2>1, SkippedMatched DEF Accounts
  <2>4. expiries = 0 => r.status = "pending"
    <3> SUFFICES ASSUME expiries = 0, r.status # "pending" PROVE FALSE
      OBVIOUS
    <3>1. Matched(frames, inbox, waitq)
      BY <1>2 DEF Accounts
    <3> HIDE DEF r
    <3>2. Expects(waitq, r.mid)
      BY <1>5, <1>6, <3>1 DEF Matched, Final
    <3> QED BY <1>12, <3>2 DEF SkipFrame, Awaited, Expects
  <2>5. expiries = 0 => Carried(Head(frames)) = r.grant
    <3> HIDE DEF r
    <3>1. r.status = "pending" => Len(frames[1]) = 1
      BY <1>2, <1>5, <1>6 DEF Accounts, Interims
    <3> QED BY <1>5, <1>6, <2>4, <3>1
  <2>6. /\ Coming(frames') \in Nat /\ r.grant + Coming(frames') <= Coming(frames)
        /\ expiries = 0 => r.grant + Coming(frames') = Coming(frames)
    <3> HIDE DEF r
    <3> QED BY <1>5, <1>6, <1>12, <2>5
  <2>7. NegotiatesAlone' /\ Budget' /\ Ledger'
    BY <1>9, <2>6
  <2>8. Rising(outq', waitq', nextMid')
    BY <1>1, <1>2, <1>12 DEF Accounts
  <2>9. Accounts'
    BY <1>1, <1>10, <1>12, <2>2, <2>3, <2>7, <2>8 DEF Accounts
  <2>10. Affordable(outq', waitq') /\ WithinWindow'
    BY <1>1, <1>2, <1>12 DEF WithinWindow
  <2> QED BY <1>8, <2>9, <2>10 DEF CreditInv
<1>13. CASE ~SkipFrame(r) /\ waitq' = RemoveAt(waitq, i) /\ UNCHANGED link /\ frames' = left
  <2>1. i \in DOMAIN waitq /\ waitq[i].mid = r.mid /\ Final(r)
    BY <1>13 DEF SkipFrame, Awaited, Position, Final
  <2> HIDE DEF i
  <2>2. Len(waitq) \in Nat /\ DOMAIN waitq = 1..Len(waitq)
    BY <1>3, LenProperties
  <2>3. /\ waitq' \in Seq(Request) /\ Len(waitq') = Len(waitq) - 1
        /\ \A m \in 1..(Len(waitq) - 1) : waitq'[m] = IF m < i THEN waitq[m] ELSE waitq[m + 1]
    BY <1>3, <1>13, <2>1, <2>2, RemoveAtElements
  <2>4. DOMAIN waitq' = 1..(Len(waitq) - 1)
    BY <2>2, <2>3, LenProperties
  <2>5. Within(waitq', waitq)
    <3> SUFFICES ASSUME NEW m \in DOMAIN waitq' PROVE \E j \in DOMAIN waitq : waitq'[m] = waitq[j]
      BY DEF Within
    <3>1. m \in DOMAIN waitq /\ m + 1 \in DOMAIN waitq
      BY <2>2, <2>4
    <3> QED BY <2>3, <2>4, <3>1
  <2>6. ASSUME NEW j \in DOMAIN waitq
        PROVE  waitq[j].mid = r.mid \/ \E m \in DOMAIN waitq' : waitq'[m] = waitq[j]
    <3>1. CASE j = i  BY <2>1, <3>1
    <3>2. CASE j < i
      <4>1. j \in DOMAIN waitq'
        BY <2>1, <2>2, <2>4, <3>2
      <4> QED BY <2>3, <2>4, <3>2, <4>1
    <3>3. CASE j > i
      <4>1. j - 1 \in DOMAIN waitq' /\ ~(j - 1 < i) /\ (j - 1) + 1 = j
        BY <2>1, <2>2, <2>4, <3>3
      <4> QED BY <2>3, <2>4, <4>1
    <3> QED BY <2>1, <2>2, <3>1, <3>2, <3>3
  <2>7. /\ Affordable(outq, waitq) => Affordable(outq, waitq')
        /\ Rising(outq, waitq, nextMid) => Rising(outq, waitq', nextMid)
    <3>1. Len(outq) \in Nat
      BY <1>3, LenProperties
    <3> PICK h \in 0..Len(outq) : h = 0
      BY <3>1
    <3>2. Len(outq) = Len(outq) - h /\ \A m \in 1..Len(outq) : outq[m] = outq[h + m]
      BY <3>1
    <3> QED BY <1>3, <1>4, <2>3, <2>5, <3>2, QueuesLeft
  <2>8. frames' \in Seq(Frames) /\ Coming(frames) = r.grant + Coming(frames')
    BY <1>1, <1>3, <1>13, ComingRead
  <2>9. Beginning(frames, frames')
    BY <1>13 DEF Beginning
  <2> HIDE DEF r, left
  <2>10. Interims(frames')
    <3>1. Interims(frames) => Interims(frames')
      BY <1>1, <1>3, <2>9, RepliesLeft
    <3> QED BY <1>2, <3>1 DEF Accounts
  <2>11. expiries = 0 => Matched(frames', inbox, waitq')
    <3> SUFFICES ASSUME expiries = 0 PROVE Matched(frames', inbox, waitq')
      OBVIOUS
    <3>1. Matched(frames, inbox, waitq)
      BY <1>2 DEF Accounts
    <3>2. \A j \in DOMAIN waitq :
            waitq[j].mid = frames[1][1].mid \/ \E m \in DOMAIN waitq' : waitq'[m] = waitq[j]
      BY <1>6, <2>6
    <3>3. Final(frames[1][1])
      BY <1>6, <2>1
    <3> QED BY <1>1, <1>3, <2>9, <3>1, <3>2, <3>3, ReadMatched
  <2>12. Coming(frames') \in Nat
    BY <2>8, LoadsTyped
  <2>13. NegotiatesAlone' /\ Budget' /\ Ledger'
    <3>1. r.grant + Coming(frames') <= Coming(frames)
      BY <1>4, <2>8
    <3> QED BY <1>9, <2>8, <2>12, <3>1
  <2>14. Affordable(outq', waitq') /\ Rising(outq', waitq', nextMid')
    BY <1>1, <1>2, <2>7 DEF Accounts
  <2>15. WithinWindow'
    BY <1>1, <1>2, <2>5 DEF WithinWindow, Within
  <2>16. Accounts'
    BY <1>1, <1>10, <2>10, <2>11, <2>13, <2>14 DEF Accounts
  <2> QED BY <1>8, <2>14, <2>15, <2>16 DEF CreditInv
<1> QED BY <1>1, <1>11, <1>12, <1>13

\* Requests given up: the message ids of those that were not sent are on record.
LEMMA TimeOutCredits ==
  ASSUME CallInv, CreditInv, NEW n \in 1..(Len(waitq) + Len(outq)), smb2_timeout_pdus(n)
  PROVE  CreditInv'
<1>1. link = "up" /\ UNCHANGED <<cur, credits, inbox, frames, granted>> /\ link' \in {"up", "shut", "crashed"}
  BY DEF smb2_timeout_pdus, server
<1>2. Types /\ Whereabouts /\ Accounts /\ Affordable(outq, waitq) /\ WithinWindow
  BY <1>1 DEF CallInv, CreditInv, Whereabouts
<1>3. outq \in Seq(Chains) /\ waitq \in Seq(Request) /\ inbox \in Seq(Entry) /\ frames \in Seq(Frames)
  BY <1>2, QueuesTyped
<1>4. /\ credits \in Nat /\ nextMid \in Nat /\ granted \in Nat /\ skipped \in Nat /\ expiries \in Nat
      /\ Coming(frames) \in Nat /\ Owed(inbox) \in Nat /\ Window \in Nat
      /\ Len(outq) \in Nat /\ Len(waitq) \in Nat
  BY <1>2, <1>3, LoadsTyped, DuesTyped, LenProperties, ClientAssumption DEF Types
<1>5. PICK h \in 0..Len(outq) : \E w \in 0..Len(waitq) :
        /\ Expired(h, w) /\ h + w = n /\ (h > 0 => w = Len(waitq)) /\ nextMid' = nextMid
        /\ skipped' = skipped + Cost(SubSeq(outq, 1, h))
  BY <1>2, TimeOutEffect
<1>6. PICK w \in 0..Len(waitq) :
        /\ Expired(h, w) /\ h + w = n /\ nextMid' = nextMid
        /\ skipped' = skipped + Cost(SubSeq(outq, 1, h))
  BY <1>5
<1>7. /\ outq' = SubSeq(outq, h + 1, Len(outq)) /\ waitq' = SubSeq(waitq, w + 1, Len(waitq))
      /\ expiries' # 0
  <2>1. expiries' = expiries + 1
    BY <1>6 DEF Expired
  <2>2. expiries + 1 # 0
    BY <1>4
  <2> QED BY <1>6, <2>1, <2>2 DEF Expired
<1>8. /\ outq' \in Seq(Chains) /\ Len(outq') = Len(outq) - h
      /\ \A m \in 1..Len(outq') : outq'[m] = outq[h + m]
  BY <1>3, <1>7, SuffixElements
<1>9. waitq' \in Seq(Request) /\ Within(waitq', waitq)
  <2>1. /\ waitq' \in Seq(Request) /\ Len(waitq') = Len(waitq) - w
        /\ \A m \in 1..(Len(waitq) - w) : waitq'[m] = waitq[w + m]
    BY <1>3, <1>7, SuffixElements
  <2>2. DOMAIN waitq' = 1..(Len(waitq) - w) /\ DOMAIN waitq = 1..Len(waitq)
    BY <1>3, <2>1, LenProperties
  <2>3. ASSUME NEW m \in DOMAIN waitq' PROVE \E j \in DOMAIN waitq : waitq'[m] = waitq[j]
    <3>1. w + m \in DOMAIN waitq
      BY <1>4, <2>2
    <3> QED BY <2>1, <2>2, <3>1
  <2> QED BY <2>1, <2>3 DEF Within
<1>10. /\ Affordable(outq, waitq) => Affordable(outq', waitq')
       /\ Negotiates(outq') => Negotiates(outq)
       /\ Room(outq, nextMid) => Room(outq', nextMid)
       /\ Rising(outq, waitq, nextMid) => Rising(outq', waitq', nextMid)
  BY <1>3, <1>4, <1>8, <1>9, QueuesLeft
<1>11. /\ Cost(outq) = Cost(SubSeq(outq, 1, h)) + Cost(outq')
       /\ Cost(outq') \in Nat /\ Cost(SubSeq(outq, 1, h)) \in Nat
  <2>1. Cost(outq) = Cost(SubSeq(outq, 1, h)) + Cost(outq')
    BY <1>3, <1>8, CostSuffix
  <2>2. SubSeq(outq, 1, h) \in Seq(Chains)
    BY <1>3, PrefixElements
  <2> QED BY <1>8, <2>1, <2>2, CostsTyped
<1>12. ~Negotiates(outq')
  <2> SUFFICES ASSUME Negotiates(outq') PROVE FALSE
    OBVIOUS
  <2>1. Len(outq) = 1 /\ waitq = <<>>
    BY <1>2, <1>10 DEF Accounts, NegotiatesAlone
  <2>2. Len(waitq) = 0
    BY <2>1
  <2>3. h = 1
    BY <1>4, <1>6, <2>1, <2>2
  <2>4. DOMAIN outq' = 1..Len(outq') /\ Len(outq') = 0
    BY <1>8, <2>1, <2>3, LenProperties
  <2> QED BY <2>4 DEF Negotiates
<1>13. Budget'
  <2>1. credits + Coming(frames) + Owed(inbox) <= Window
    <3>1. CASE Negotiates(outq)
      <4>1. credits = 0 /\ Coming(frames) = 0 /\ Owed(inbox) = 0
        BY <1>2, <3>1, EmptySums DEF Accounts, NegotiatesAlone
      <4> QED BY <1>4, <4>1
    <3>2. CASE ~Negotiates(outq)
      BY <1>2, <3>2 DEF Accounts, Budget
    <3> QED BY <3>1, <3>2
  <2> QED BY <1>1, <1>7, <2>1 DEF Budget
<1>14. Ledger'
  <2>1. nextMid + credits + Coming(frames) <= granted + skipped + Cost(outq)
    BY <1>2 DEF Accounts, Ledger
  <2> DEFINE gone == Cost(SubSeq(outq, 1, h))
             rest == Cost(outq')
  <2>2. gone \in Nat /\ rest \in Nat /\ skipped' = skipped + gone /\ Cost(outq) = gone + rest
    BY <1>6, <1>11
  <2> HIDE DEF gone, rest
  <2>3. nextMid + credits + Coming(frames) <= granted + skipped' + rest
    BY <1>4, <2>1, <2>2
  <2> QED BY <1>1, <1>6, <2>3 DEF Ledger, rest
<1>15. WithinWindow'
  <2> SUFFICES ASSUME NEW i \in DOMAIN waitq'
               PROVE  waitq'[i].mid + Width(waitq'[i].charge) <= granted + skipped'
    BY <1>1 DEF WithinWindow
  <2>1. PICK j \in DOMAIN waitq : waitq'[i] = waitq[j]
    BY <1>9 DEF Within
  <2>2. waitq[j].mid + Width(waitq[j].charge) <= granted + skipped
    BY <1>2 DEF WithinWindow
  <2>3. waitq[j].mid \in Nat /\ Width(waitq[j].charge) \in Nat
    BY <1>3, WaitingNumbers
  <2>4. \A a, b, c, d, e \in Nat : a + b <= c + d => a + b <= c + (d + e)
    OBVIOUS
  <2>5. waitq[j].mid + Width(waitq[j].charge) <= granted + (skipped + Cost(SubSeq(outq, 1, h)))
    BY <1>4, <1>11, <2>2, <2>3, <2>4
  <2> QED BY <1>6, <2>1, <2>5
<1>16. Accounts'
  <2>1. NegotiatesAlone'
    BY <1>12 DEF NegotiatesAlone
  <2>2. Room(outq', nextMid') /\ Rising(outq', waitq', nextMid') /\ Interims(frames')
    BY <1>1, <1>2, <1>6, <1>10 DEF Accounts
  <2> QED BY <1>7, <1>13, <1>14, <2>1, <2>2 DEF Accounts
<1>17. Affordable(outq', waitq') /\ Opening'
  BY <1>1, <1>2, <1>10 DEF Opening
<1> QED BY <1>15, <1>16, <1>17 DEF CreditInv

-----------------------------------------------------------------------------
\* The server.

\* What it grants widens the window of the client, whose queues it does not touch.
LEMMA ServerGrants ==
  ASSUME Types, CreditInv, NEW g \in Nat, granted' = granted + g,
         UNCHANGED <<link, outq, waitq, skipped>>, inbox # <<>>,
         link = "up" => Accounts'
  PROVE  CreditInv'
<1>1. Affordable(outq', waitq') /\ Opening'
  BY DEF CreditInv, Opening
<1>2. WithinWindow'
  <2> SUFFICES ASSUME NEW i \in DOMAIN waitq
               PROVE  waitq[i].mid + Width(waitq[i].charge) <= (granted + g) + skipped
    BY DEF WithinWindow
  <2>1. waitq[i].mid + Width(waitq[i].charge) <= granted + skipped
    BY DEF CreditInv, WithinWindow
  <2>2. waitq[i].mid \in Nat /\ Width(waitq[i].charge) \in Nat
    BY QueuesTyped, WaitingNumbers
  <2>3. granted \in Nat /\ skipped \in Nat
    BY DEF Types
  <2>4. \A a, b, c, d, e \in Nat : a + b <= c + d => a + b <= (c + e) + d
    OBVIOUS
  <2> QED BY <2>1, <2>2, <2>3, <2>4
<1> QED BY <1>1, <1>2 DEF CreditInv

\* The accounts when it grants g, which comes with the replies it sends.
LEMMA GrantedAccounts ==
  ASSUME Types, CreditInv, link = "up", inbox # <<>>,
         NEW g \in Nat, granted' = granted + g,
         UNCHANGED <<calls, outq, waitq, cur, credits, nextMid, skipped, expiries>>,
         inbox' \in Seq(Entry), frames' \in Seq(Frames),
         Owed(inbox) = Owed(inbox') + g, Coming(frames') = Coming(frames) + g,
         Interims(frames'), expiries = 0 => Matched(frames', inbox', waitq)
  PROVE  Accounts'
<1>1. Accounts /\ ~Negotiates(outq)
  BY NotNegotiating
<1>2. outq \in Seq(Chains) /\ frames \in Seq(Frames)
  BY QueuesTyped
<1>3. /\ credits \in Nat /\ nextMid \in Nat /\ granted \in Nat /\ skipped \in Nat
      /\ Coming(frames) \in Nat /\ Owed(inbox') \in Nat /\ Window \in Nat /\ Cost(outq) \in Nat
  BY <1>2, LoadsTyped, DuesTyped, CostsTyped, ClientAssumption DEF Types
<1>4. Budget'
  <2>1. credits + Coming(frames') + Owed(inbox') = credits + Coming(frames) + Owed(inbox)
    <3>1. \A a, b, c, d \in Nat : a + (b + d) + c = a + b + (c + d)
      OBVIOUS
    <3> QED BY <1>3, <3>1
  <2>2. /\ credits + Coming(frames) + Owed(inbox) <= Window
        /\ expiries = 0 => credits + Coming(frames) + Owed(inbox) = Window
    BY <1>1 DEF Accounts, Budget
  <2> QED BY <2>1, <2>2 DEF Budget
<1>5. Ledger'
  <2>1. nextMid + credits + Coming(frames) <= granted + skipped + Cost(outq)
    BY <1>1 DEF Accounts, Ledger
  <2>2. \A a, b, c, d, e, f, x \in Nat : a + b + c <= d + e + f => a + b + (c + x) <= (d + x) + e + f
    OBVIOUS
  <2>3. nextMid + credits + (Coming(frames) + g) <= (granted + g) + skipped + Cost(outq)
    BY <1>3, <2>1, <2>2
  <2> QED BY <2>3 DEF Ledger
<1>6. NegotiatesAlone'
  BY <1>1 DEF NegotiatesAlone
<1>7. Room(outq', nextMid') /\ Rising(outq', waitq', nextMid')
  BY <1>1 DEF Accounts
<1> QED BY <1>4, <1>5, <1>6, <1>7 DEF Accounts

\* A chain is answered: what is granted with it comes with its last reply.
LEMMA AnswerCredits ==
  ASSUME CallInv, CreditInv, NEW i \in DOMAIN inbox, Answer(i) PROVE CreditInv'
<1> DEFINE ch == inbox[i].chain
           g == IF inbox[i].pended THEN 0 ELSE Grant(ch)
<1>1. Types /\ inbox # <<>>
  BY DEF CallInv
<1>2. inbox \in Seq(Entry) /\ frames \in Seq(Frames) /\ inbox[i] \in Entry
  <2>1. inbox \in Seq(Entry) /\ frames \in Seq(Frames)
    BY <1>1, QueuesTyped
  <2> QED BY <2>1, ElementOfSeq
<1>3. ch \in Chains /\ i \in 1..Len(inbox)
  BY <1>2, LenProperties DEF Entry
<1>4. g = Due(inbox[i]) /\ g \in Nat
  BY <1>2, DueTyped DEF Due
<1>5. /\ inbox' = RemoveAt(inbox, i) /\ granted' = granted + g
      /\ UNCHANGED <<link, calls, outq, waitq, cur, credits, nextMid, skipped, expiries>>
  BY DEF Answer, client, record
<1>6. \E results \in Results(ch) : \E fs \in Framings(Replies(ch, results, g)) : frames' = frames \o fs
  BY DEF Answer
<1> HIDE DEF ch, g
<1>7. PICK results \in Results(ch) : \E fs \in Framings(Replies(ch, results, g)) : frames' = frames \o fs
  BY <1>6
<1>8. PICK fs \in Framings(Replies(ch, results, g)) : frames' = frames \o fs
  BY <1>7
<1>9. /\ fs \in Seq(Frames) /\ Coming(fs) = g
      /\ \A a \in DOMAIN fs : \A k \in DOMAIN fs[a] :
           /\ fs[a][k].status # "pending"
           /\ \E j \in DOMAIN ch : fs[a][k].mid = ch[j].mid
      /\ (\A j, l \in DOMAIN ch : ch[j].mid = ch[l].mid => j = l) =>
           \A a, b \in DOMAIN fs : \A k \in DOMAIN fs[a] : \A l \in DOMAIN fs[b] :
             fs[a][k].mid = fs[b][l].mid => a = b /\ k = l
  BY <1>3, <1>4, FramingEffect
<1>10. /\ inbox' \in Seq(Entry) /\ Owed(inbox) = Owed(inbox') + g
       /\ frames' \in Seq(Frames) /\ Coming(frames') = Coming(frames) + g
  BY <1>2, <1>3, <1>4, <1>5, <1>8, <1>9, OwedRemove, ComingConcat
<1>11. ASSUME link = "up" PROVE Accounts'
  <2>1. Accounts
    BY <1>1, <1>11, NotNegotiating
  <2>2. Interims(frames')
    <3>1. Interims(fs)
      BY <1>9 DEF Interims
    <3> QED BY <1>2, <1>8, <1>9, <2>1, <3>1, InterimsConcat DEF Accounts
  <2>3. ASSUME expiries = 0 PROVE Matched(frames', inbox', waitq)
    <3>1. Matched(frames, inbox, waitq)
      BY <2>1, <2>3 DEF Accounts
    <3>2. \A j, l \in DOMAIN ch : ch[j].mid = ch[l].mid => j = l
      BY <3>1 DEF Matched, Unanswered, ch
    <3>3. Distinct(fs)
      BY <1>9, <3>2 DEF Distinct
    <3>4. \A a \in DOMAIN fs : \A k \in DOMAIN fs[a] :
            \E j \in DOMAIN inbox[i].chain : fs[a][k].mid = inbox[i].chain[j].mid
      BY <1>9 DEF ch
    <3> QED BY <1>2, <1>5, <1>8, <1>9, <3>1, <3>3, <3>4, AnsweredMatched
  <2> QED BY <1>1, <1>4, <1>5, <1>10, <1>11, <2>2, <2>3, GrantedAccounts
<1> QED BY <1>1, <1>4, <1>5, <1>11, ServerGrants

\* An interim reply brings the credits of the chain it is to.
LEMMA PendCredits ==
  ASSUME CallInv, CreditInv, NEW i \in DOMAIN inbox, Pend(i) PROVE CreditInv'
<1> DEFINE ch == inbox[i].chain
           g == Grant(ch)
           r == [mid |-> ch[1].mid, status |-> "pending", grant |-> g]
           f == <<r>>
<1>1. Types /\ inbox # <<>>
  BY DEF CallInv
<1>2. inbox \in Seq(Entry) /\ frames \in Seq(Frames) /\ inbox[i] \in Entry
  <2>1. inbox \in Seq(Entry) /\ frames \in Seq(Frames)
    BY <1>1, QueuesTyped
  <2> QED BY <2>1, ElementOfSeq
<1>3. ch \in Chains /\ i \in 1..Len(inbox) /\ Len(inbox) \in Nat /\ DOMAIN inbox = 1..Len(inbox)
  BY <1>2, LenProperties DEF Entry
<1>4. g = Due(inbox[i]) /\ g \in Nat
  <2>1. ~inbox[i].pended
    BY DEF Pend
  <2> QED BY <1>2, <2>1, DueTyped DEF Due
<1>5. /\ inbox' = [inbox EXCEPT ![i].pended = TRUE] /\ granted' = granted + g
      /\ frames' = Append(frames, f)
      /\ UNCHANGED <<link, calls, outq, waitq, cur, credits, nextMid, skipped, expiries>>
  BY DEF Pend, client, record
<1>6. f \in Frames /\ Carried(f) = g /\ r \in Reply /\ ~Final(r)
  <2>1. ch \in Seq(Request) /\ ch # <<>>
    BY <1>3 DEF Chains
  <2>2. 1 \in DOMAIN ch
    BY <2>1, LenProperties, EmptySeq
  <2>3. ch[1] \in Request
    BY <2>1, <2>2, ElementOfSeq
  <2> HIDE DEF ch, g
  <2>4. r \in Reply /\ r.grant = g /\ ~Final(r)
    BY <1>4, <2>3 DEF Reply, Request, Final
  <2> HIDE DEF r
  <2>5. f \in Frames /\ Len(f) = 1 /\ f[1] = r
    BY <2>4 DEF Frames
  <2> HIDE DEF f
  <2> QED BY <2>4, <2>5, CarriedFirst
<1> HIDE DEF ch, g, r, f
<1>7. frames' = frames \o <<f>> /\ frames' \in Seq(Frames) /\ Coming(frames') = Coming(frames) + g
  <2> DEFINE one == <<f>>
  <2>1. one \in Seq(Frames) /\ Coming(one) = Carried(f)
    BY <1>6, ComingOne
  <2>2. frames' = frames \o one
    BY <1>2, <1>5
  <2> HIDE DEF one
  <2> QED BY <1>2, <1>6, <2>1, <2>2, ComingConcat DEF one
<1>8. /\ DOMAIN inbox' = DOMAIN inbox /\ \A m \in DOMAIN inbox : inbox'[m].chain = inbox[m].chain
      /\ \A m \in DOMAIN inbox : m # i => inbox'[m] = inbox[m]
      /\ inbox'[i] \in Entry /\ inbox'[i].pended = TRUE
  BY <1>2, <1>5 DEF Entry
<1>9. inbox' \in Seq(Entry) /\ Len(inbox') = Len(inbox)
  <2>1. \A m \in 1..Len(inbox) : inbox[m] \in Entry
    BY <1>2, <1>3, ElementOfSeq
  <2>2. inbox' \in [1..Len(inbox) -> Entry]
    <3>1. \A m \in 1..Len(inbox) : inbox'[m] \in Entry
      BY <1>3, <1>8, <2>1
    <3>2. inbox' = [m \in DOMAIN inbox |-> inbox'[m]]
      BY <1>5
    <3> QED BY <1>3, <3>1, <3>2
  <2> QED BY <1>3, <2>2, FcnIsSeq
<1>10. Owed(inbox) = Owed(inbox') + g
  <2>1. Owed(inbox') + Due(inbox[i]) = Owed(inbox) + Due(inbox'[i])
    BY <1>2, <1>3, <1>8, <1>9, OwedReplace
  <2>2. Due(inbox'[i]) = 0
    BY <1>8 DEF Due
  <2>3. Owed(inbox) \in Nat
    BY <1>2, DuesTyped
  <2> QED BY <1>4, <2>1, <2>2, <2>3
<1>11. ASSUME link = "up" PROVE Accounts'
  <2>1. Accounts
    BY <1>1, <1>11, NotNegotiating
  <2>2. Interims(frames')
    <3>1. Interims(<<f>>)
      BY DEF Interims, f
    <3>2. <<f>> \in Seq(Frames)
      BY <1>6
    <3> QED BY <1>2, <1>7, <2>1, <3>1, <3>2, InterimsConcat DEF Accounts
  <2>3. ASSUME expiries = 0 PROVE Matched(frames', inbox', waitq)
    <3>1. Matched(frames, inbox, waitq)
      BY <2>1, <2>3 DEF Accounts
    <3>2. f = <<r>>
      BY DEF f
    <3> QED BY <1>2, <1>5, <1>6, <1>8, <3>1, <3>2, PendedMatched
  <2> QED BY <1>1, <1>4, <1>5, <1>7, <1>9, <1>10, <1>11, <2>2, <2>3, GrantedAccounts
<1> QED BY <1>1, <1>4, <1>5, <1>11, ServerGrants

-----------------------------------------------------------------------------
\* The invariant.

\* No chains cost nothing.
LEMMA NoCost == Cost(<<>>) = 0
<1> DEFINE q == <<>>
           s == Costs(q)
<1>1. q \in Seq(Chains) /\ Len(q) = 0
  OBVIOUS
<1> HIDE DEF q
<1>2. s \in Seq(Nat) /\ Len(s) = 0
  BY <1>1, CostsTyped
<1> HIDE DEF s
<1>3. s = <<>>
  BY <1>2, EmptySeq
<1> QED BY <1>2, <1>3, TotalNat DEF s, q, Cost

\* A new context has no credits, one that is up the window and one message id gone.
LEMMA CreditInvInit == Init => CreditInv
<1> SUFFICES ASSUME Init PROVE CreditInv
  OBVIOUS
<1>1. /\ outq = <<>> /\ waitq = <<>> /\ cur = None /\ inbox = <<>> /\ frames = <<>> /\ skipped = 0
      /\ \/ link = "new" /\ credits = 0 /\ nextMid = 0 /\ granted = 1
         \/ link = "up" /\ credits = Window /\ nextMid = 1 /\ granted = Window + 1
  BY DEF Init
<1>2. Affordable(outq, waitq) /\ WithinWindow /\ Opening
  BY <1>1, NothingQueued DEF WithinWindow, Opening
<1>3. ASSUME link = "up" PROVE Accounts
  <2>1. credits = Window /\ nextMid = 1 /\ granted = Window + 1 /\ Window \in Nat
    BY <1>1, <1>3, ClientAssumption
  <2>2. Coming(frames) = 0 /\ Owed(inbox) = 0 /\ Cost(outq) = 0
    BY <1>1, EmptySums, NoCost
  <2>3. NegotiatesAlone /\ Budget /\ Ledger
    BY <1>1, <2>1, <2>2, NothingQueued DEF NegotiatesAlone, Budget, Ledger
  <2>4. /\ Room(outq, nextMid) /\ Rising(outq, waitq, nextMid) /\ Interims(frames)
        /\ Matched(frames, inbox, waitq)
    BY <1>1, NothingQueued
  <2> QED BY <2>3, <2>4 DEF Accounts
<1> QED BY <1>2, <1>3 DEF CreditInv

\* Every step of a context whose calls are in order keeps its accounts.
LEMMA CreditInvStep == CallInv /\ CreditInv /\ [Next]_vars => CreditInv'
<1> SUFFICES ASSUME CallInv, CreditInv, [Next]_vars PROVE CreditInv'
  OBVIOUS
<1> DEFINE Goal == CreditInv'
<1>1. ASSUME NEW c \in Calls, Connect(c) \/ Connected(c) \/ Start(c) PROVE Goal
  <2>1. CASE Connect(c)
    <3>1. /\ UNCHANGED <<calls, outq, waitq, cur, credits, nextMid, inbox, frames, granted, skipped,
                         expiries>>
          /\ link = "new" /\ link' = "connecting"
      BY <2>1 DEF Connect, client, server, record
    <3> QED BY <3>1, SameCredits
  <2> QED BY <1>1, <2>1, ConnectedCredits, StartCredits
<1>2. CASE smb2_write_to_socket  BY <1>2, WriteCredits
<1>3. CASE WritePart
  <2>1. /\ UNCHANGED <<calls, outq, waitq, cur, credits, nextMid, inbox, frames, granted, skipped,
                       expiries>>
        /\ link' = link
    BY <1>3 DEF WritePart, server, record
  <2> QED BY <2>1, SameCredits
<1>4. CASE ReadHeader            BY <1>4, ReadHeaderCredits
<1>5. CASE ReadBody              BY <1>5, ReadBodyCredits
<1>6. ASSUME TimeOut PROVE Goal
  <2>1. PICK n \in 1..(Len(waitq) + Len(outq)) : smb2_timeout_pdus(n)
    BY <1>6 DEF TimeOut
  <2> QED BY <2>1, TimeOutCredits
<1>7. CASE smb2_destroy_context  BY <1>7, DestroyCredits
<1>8. ASSUME NEW i \in DOMAIN inbox, Answer(i) \/ Pend(i) PROVE Goal
  BY <1>8, AnswerCredits, PendCredits
<1>9. CASE UNCHANGED vars
  <2>1. /\ UNCHANGED <<calls, outq, waitq, cur, credits, nextMid, inbox, frames, granted, skipped,
                       expiries>>
        /\ link' = link
    BY <1>9 DEF vars, client, server, record
  <2> QED BY <2>1, SameCredits
<1> HIDE DEF Goal
<1>10. CASE Next
  BY <1>1, <1>2, <1>3, <1>4, <1>5, <1>6, <1>7, <1>8, <1>10 DEF Next, Serve, Interim, Goal
<1> QED BY <1>9, <1>10 DEF Goal

\* The accounts of credits and message ids hold in every state: of pdu.c's
\* queues and smb2_read_from_socket with a server that grants as SmbClient's does.
THEOREM CreditInvAlways == Spec => [](CallInv /\ CreditInv)
<1>1. Init => CallInv /\ CreditInv
  BY CallInvInit, CreditInvInit
<1>2. (CallInv /\ CreditInv) /\ [Next]_vars => (CallInv /\ CreditInv)'
  BY CallInvStep, CreditInvStep
<1> QED BY <1>1, <1>2, PTL DEF Spec

\* Every variable has its type: the credits in hand are never negative though
\* smb2_write_to_socket subtracts what a chain costs, no request costs more than
\* the window, and each comes after the one of its chain it depends on.
THEOREM TypeCorrect == Spec => []TypeOK
<1>1. ASSUME CallInv, CreditInv PROVE TypeOK
  <2>1. Types /\ Affordable(outq, waitq)
    BY <1>1 DEF CallInv, CreditInv
  <2>2. outq \in Seq(Chains) /\ waitq \in Seq(Request)
    BY <2>1, QueuesTyped
  <2>3. \A c \in Calls : calls[c].status \in Statuses /\ ToSet(calls[c].told) \subseteq Statuses
    <3> TAKE c \in Calls
    <3>1. calls[c] \in Call
      BY <2>1 DEF Types
    <3>2. calls[c].told \in Seq(Statuses) /\ calls[c].status \in Statuses
      BY <3>1 DEF Call
    <3>3. \A i \in DOMAIN calls[c].told : calls[c].told[i] \in Statuses
      BY <3>2, ElementOfSeq
    <3> QED BY <3>2, <3>3 DEF ToSet
  <2>4. ASSUME NEW p \in Request, Bounded(p) PROVE p.charge <= Window /\ p.prev < p.mid + 1
    <3>1. p.prev \in Nat /\ p.mid \in Nat
      BY DEF Request
    <3> QED BY <2>4, <3>1 DEF Bounded
  <2>5. ASSUME NEW p \in ToSet(waitq) PROVE p.charge <= Window /\ p.prev < p.mid + 1
    <3>1. PICK i \in DOMAIN waitq : p = waitq[i]
      BY <2>5 DEF ToSet
    <3>2. p \in Request
      BY <2>2, <3>1, ElementOfSeq
    <3>3. Bounded(p)
      BY <2>1, <3>1 DEF Affordable
    <3> QED BY <2>4, <3>2, <3>3
  <2>6. ASSUME NEW i \in DOMAIN outq, NEW p \in ToSet(outq[i])
        PROVE  p.charge <= Window /\ p.prev < p.mid + 1
    <3>1. PICK k \in DOMAIN outq[i] : p = outq[i][k]
      BY <2>6 DEF ToSet
    <3>2. p \in Request
      BY <2>2, <3>1, RequestOf
    <3>3. Bounded(p)
      BY <2>1, <3>1 DEF Affordable
    <3> QED BY <2>4, <3>2, <3>3
  <2>7. \A p \in ToSet(waitq) \cup UNION {ToSet(outq[i]) : i \in DOMAIN outq} :
          p.charge <= Window /\ p.prev < p.mid + 1
    BY <2>5, <2>6
  <2> QED BY <2>1, <2>3, <2>7 DEF TypeOK, Types
<1> QED BY <1>1, CreditInvAlways, PTL

\* A request on the wire has a message id the server has allowed, save those ids
\* smb2_queue_pdu takes without a credit and smb2_timeout_pdus frees unsent: no
\* chain, interim reply or lost credit runs the client ahead of the window.
THEOREM WithinWindowAlways == Spec => []WithinWindow
<1>1. CreditInv => WithinWindow
  BY DEF CreditInv
<1> QED BY <1>1, CreditInvAlways, PTL

\* When everything was answered and nothing given up, the client holds the whole
\* window: no path of smb2_read_from_socket, the interim replies and the skipped
\* frames among them, loses credits.
THEOREM CreditsReturnAlways == Spec => []CreditsReturn
<1>1. ASSUME CallInv, CreditInv PROVE CreditsReturn
  <2> SUFFICES ASSUME link = "up", Quiet, expiries = 0 PROVE credits = Window
    BY DEF CreditsReturn
  <2>1. outq = <<>> /\ inbox = <<>> /\ frames = <<>>
    BY DEF Quiet
  <2>2. credits + Coming(frames) + Owed(inbox) = Window
    <3>1. ~Negotiates(outq)
      BY <2>1, NothingQueued
    <3> QED BY <1>1, <3>1 DEF CreditInv, Accounts, Budget
  <2>3. Coming(frames) = 0 /\ Owed(inbox) = 0 /\ credits \in Nat
    BY <1>1, <2>1, EmptySums DEF CallInv, Types
  <2> QED BY <2>2, <2>3
<1> QED BY <1>1, CreditInvAlways, PTL

=============================================================================
