-------------------------- MODULE CyclicMailboxProofs --------------------------
(***************************************************************************)
(* What holds of the mailboxes for every number of drives, of objects, of  *)
(* calls and of lost datagrams.                                            *)
(*                                                                         *)
(* However small the pool is and whatever the drives send: no buffer is in *)
(* two places, and a request that was given up is not written (BaseInv).   *)
(*                                                                         *)
(* With a pool for every call and every lost read, and drives that only    *)
(* answer: no buffer is lost, and a call compares what it got with its own *)
(* request, though the buffer of that is back in the pool (AmpleInv).  The *)
(* pool is a ring: a buffer given back is used again only after all those  *)
(* that were free then, and there are more of those than there are answers *)
(* still to come and reads that may still fail.                            *)
(***************************************************************************)
EXTENDS CyclicMailbox, SequenceTheorems, FiniteSetTheorems, TLAPS

(* Where the buffers are                                                   *)
Pool == Range(free)
Queued == {queue[i].buffer : i \in DOMAIN queue} \ {NoBuffer}
Answers == {coembxin[s] : s \in Slaves} \ {NoBuffer}
Held == Answers \cup ({mbxIn} \ {NoBuffer})

Typed ==
  /\ free \in Seq(Buffers) /\ content \in [Buffers -> Messages]
  /\ queue \in Seq(Entries)
  /\ coembxin \in [Slaves -> Buffers \cup {NoBuffer}]
  /\ rmp \in [Slaves -> 0..3] /\ last \in Slaves
  /\ taken \in [Slaves -> 0..MaxCalls]
  /\ inbox \in [Slaves -> Seq(Calls)] /\ outbox \in [Slaves -> Seq(Messages)]
  /\ pc \in {"idle", "get", "send", "receive", "compare"}
  /\ call \in Calls \cup {NoCall}
  /\ sdop \in Buffers \cup {NoBuffer} /\ mbxIn \in Buffers \cup {NoBuffer}
  /\ result \in [ok: BOOLEAN, answer: Messages]
  /\ lost \in 0..MaxLost /\ failed \in BOOLEAN

(* No buffer is in two places.                                             *)
Apart ==
  /\ IsInjective(free)
  /\ \A i, j \in DOMAIN queue :
       queue[i].buffer = queue[j].buffer /\ queue[i].buffer # NoBuffer => i = j
  /\ \A s, t \in Slaves :
       coembxin[s] = coembxin[t] /\ coembxin[s] # NoBuffer => s = t
  /\ mbxIn \notin Answers
  /\ Pool \cap Queued = {} /\ Pool \cap Held = {} /\ Queued \cap Held = {}

(* The one entry that is not to be removed is the request of the call that *)
(* waits to see it written.                                                *)
Ticketed ==
  /\ \A i, j \in DOMAIN queue : ~queue[i].remove /\ ~queue[j].remove => i = j
  /\ pc = "send" <=> \E i \in DOMAIN queue : ~queue[i].remove
  /\ \A i \in DOMAIN queue : queue[i].buffer = NoBuffer <=> queue[i].state = "DONE"
  /\ \A i \in DOMAIN queue : ~queue[i].remove =>
       /\ queue[i].slave = call.slave
       /\ queue[i].state # "DONE" =>
            queue[i].buffer = sdop /\ content[sdop] = Request(call)

Worked ==
  /\ pc # "idle" => call \in Calls
  /\ pc \in {"send", "receive", "compare"} => sdop \in Buffers
  /\ pc \in {"idle", "receive"} => mbxIn = NoBuffer
  /\ pc = "compare" => mbxIn # NoBuffer

BaseInv == Typed /\ Apart /\ Ticketed /\ Worked

(* How the handler leaves the queue and the pool: p is the entry it wrote, *)
(* or 0, and g tells for each entry that stays which one it was.           *)
Turned(g, p, ok) ==
  /\ g \in [1..Len(queue') -> DOMAIN queue] /\ IsInjective(g)
  /\ queue' \in Seq(Entries) /\ Len(queue') <= Len(queue)
  /\ \A j \in 1..Len(queue') : g[j] # p => queue'[j] = queue[g[j]]
  /\ \A j \in 1..Len(queue') : g[j] = p => queue'[j] =
       IF ok THEN [queue[p] EXCEPT !.state = "DONE", !.buffer = NoBuffer]
       ELSE [queue[p] EXCEPT !.state = "FAIL"]
  /\ \A i \in DOMAIN queue : ~queue[i].remove => \E j \in 1..Len(queue') : g[j] = i
  /\ free' \in Seq(Buffers) /\ IsInjective(free') /\ Len(free) <= Len(free')
  /\ \A i \in DOMAIN free : i \in DOMAIN free' /\ free'[i] = free[i]
  /\ \A b : b \in Pool' <=>
       \/ b \in Pool
       \/ b # NoBuffer /\ \E i \in DOMAIN queue :
             queue[i].buffer = b /\ \A j \in 1..Len(queue') : g[j] # i
       \/ ok /\ b = queue[p].buffer
  /\ ok => Len(free') > 0 /\ free'[Len(free')] = queue[p].buffer

----------------------------------------------------------------------------
(* A finite set of numbers has its order, which takes every one of them.   *)
LEMMA OrderOf ==
  ASSUME NEW K, K \subseteq Nat, IsFiniteSet(K)
  PROVE  /\ Cardinality(K) \in Nat
         /\ InOrder(K) \in [1..Cardinality(K) -> K]
         /\ \A i, j \in 1..Cardinality(K) : i < j => InOrder(K)[i] < InOrder(K)[j]
         /\ \A k \in K : \E i \in 1..Cardinality(K) : InOrder(K)[i] = k
<1> DEFINE n == Cardinality(K)
           Below(k) == {l \in K : l <= k}
           rank == [k \in K |-> Cardinality(Below(k))]
<1>1. n \in Nat /\ IsFiniteSet(1..n) /\ Cardinality(1..n) = n
  BY FS_CardinalityType, FS_Interval
<1>2. ASSUME NEW k \in K
      PROVE  IsFiniteSet(Below(k)) /\ Cardinality(Below(k)) \in 1..n
  <2>1. Below(k) \in SUBSET K /\ k \in Below(k)
    OBVIOUS
  <2>2. IsFiniteSet(Below(k)) /\ Cardinality(Below(k)) <= n
    BY <2>1, FS_Subset
  <2>3. Cardinality(Below(k)) \in Nat /\ Cardinality(Below(k)) # 0
    BY <2>1, <2>2, FS_CardinalityType, FS_EmptySet
  <2> QED
    BY <1>1, <2>2, <2>3
<1>3. ASSUME NEW k \in K, NEW l \in K, k < l
      PROVE  rank[k] < rank[l]
  <2>0. k \in Nat /\ l \in Nat /\ ~(l <= k) /\ l <= l
    BY <1>3
  <2>1. Below(k) \in SUBSET Below(l) /\ l \in Below(l) /\ l \notin Below(k)
    <3>1. ASSUME NEW m \in K, m <= k PROVE m <= l
      BY <1>3, <2>0, <3>1
    <3> QED
      BY <2>0, <3>1
  <2>2. Cardinality(Below(k)) <= Cardinality(Below(l)) /\ Cardinality(Below(k)) # Cardinality(Below(l))
    BY <1>2, <2>1, FS_Subset
  <2>3. Cardinality(Below(k)) \in 1..n /\ Cardinality(Below(l)) \in 1..n
    BY <1>2
  <2> HIDE DEF Below
  <2> QED
    BY <1>1, <2>2, <2>3
<1>4. rank \in [K -> 1..n]
  BY <1>2
<1> HIDE DEF rank, Below
<1>5. rank \in Injection(K, 1..n)
  <2>1. ASSUME NEW k \in K, NEW l \in K, rank[k] = rank[l] PROVE k = l
    <3>1. ~(k < l) /\ ~(l < k)
      BY <1>1, <1>3, <1>4, <2>1
    <3> QED
      BY <3>1
  <2> QED
    BY <1>4, <2>1 DEF Injection, IsInjective
<1>6. rank \in Surjection(K, 1..n)
  BY <1>1, <1>5, FS_Injection
<1> DEFINE f == [i \in 1..n |-> CHOOSE k \in K : rank[k] = i]
<1>7. ASSUME NEW i \in 1..n PROVE f[i] \in K /\ rank[f[i]] = i
  BY <1>6 DEF Surjection
<1>8. f \in [1..n -> K] /\ \A i, j \in 1..n : i < j => f[i] < f[j]
  <2>1. f \in [1..n -> K]
    BY <1>7
  <2>2. ASSUME NEW i \in 1..n, NEW j \in 1..n, i < j PROVE f[i] < f[j]
    <3> HIDE DEF f
    <3>1. f[i] \in K /\ f[j] \in K /\ rank[f[i]] = i /\ rank[f[j]] = j
      BY <1>7
    <3>2. f[i] \in Nat /\ f[j] \in Nat
      BY <3>1
    <3>5. i \in Nat /\ j \in Nat
      BY <1>1
    <3>6. ~(j < i) /\ i # j
      BY <2>2, <3>5
    <3>3. ~(f[j] < f[i])
      BY <1>3, <3>1, <3>6
    <3>4. f[i] # f[j]
      BY <3>1, <3>6
    <3> QED
      BY <3>2, <3>3, <3>4
  <2> QED
    BY <2>1, <2>2
<1>9. InOrder(K) \in [1..n -> K] /\ \A i, j \in 1..n : i < j => InOrder(K)[i] < InOrder(K)[j]
  <2> HIDE DEF f
  <2> QED
    BY <1>8 DEF InOrder
<1>10. InOrder(K) \in Injection(1..n, K)
  <2>1. ASSUME NEW i \in 1..n, NEW j \in 1..n, InOrder(K)[i] = InOrder(K)[j] PROVE i = j
    <3>1. InOrder(K)[i] \in Nat
      BY <1>9
    <3>2. ~(i < j) /\ ~(j < i)
      BY <1>9, <2>1, <3>1
    <3> QED
      BY <1>1, <3>2
  <2> QED
    BY <1>9, <2>1 DEF Injection, IsInjective
<1>11. InOrder(K) \in Surjection(1..n, K)
  BY <1>1, <1>10, FS_Injection
<1> QED
  BY <1>1, <1>9, <1>11 DEF Surjection

(* What stays in the queue is what is not to be removed, each entry once.  *)
LEMMA KeptOf ==
  ASSUME NEW q \in Seq(Entries)
  PROVE  /\ Kept(q) \in Seq(Entries) /\ Len(Kept(q)) <= Len(q)
         /\ \E f \in [1..Len(Kept(q)) -> DOMAIN q] :
              /\ IsInjective(f)
              /\ \A j \in 1..Len(Kept(q)) : Kept(q)[j] = q[f[j]]
              /\ \A i \in DOMAIN q :
                   ~q[i].remove <=> \E j \in 1..Len(Kept(q)) : f[j] = i
<1> DEFINE K == {i \in DOMAIN q : ~q[i].remove}
           n == Cardinality(K)
           f == InOrder(K)
<1>1. DOMAIN q = 1..Len(q) /\ Len(q) \in Nat /\ \A i \in DOMAIN q : q[i] \in Entries
  BY LenProperties, ElementOfSeq
<1>2. IsFiniteSet(K) /\ n <= Len(q) /\ K \subseteq Nat
  <2>1. IsFiniteSet(1..Len(q)) /\ Cardinality(1..Len(q)) = Len(q)
    BY <1>1, FS_Interval
  <2>2. K \in SUBSET (1..Len(q))
    BY <1>1
  <2>3. IsFiniteSet(K) /\ n <= Len(q)
    BY <2>1, <2>2, FS_Subset
  <2> QED
    BY <1>1, <2>2, <2>3
<1>3. /\ n \in Nat /\ f \in [1..n -> K]
      /\ \A i, j \in 1..n : i < j => f[i] < f[j]
      /\ \A k \in K : \E i \in 1..n : f[i] = k
  BY <1>2, OrderOf
<1>4. DOMAIN f = 1..n /\ Kept(q) = [j \in 1..n |-> q[f[j]]]
  BY <1>3 DEF Kept
<1> HIDE DEF n, f
<1>5. \A j \in 1..n : f[j] \in K /\ q[f[j]] \in Entries
  BY <1>1, <1>3
<1>6. Kept(q) \in Seq(Entries) /\ Len(Kept(q)) = n
  BY <1>3, <1>4, <1>5
<1>7. IsInjective(f)
  <2>1. ASSUME NEW i \in 1..n, NEW j \in 1..n, f[i] = f[j] PROVE i = j
    <3>1. f[i] \in Nat
      BY <1>2, <1>5
    <3>2. ~(i < j) /\ ~(j < i)
      BY <1>3, <2>1, <3>1
    <3> QED
      BY <1>3, <3>2
  <2> QED
    BY <1>4, <2>1 DEF IsInjective
<1>8. f \in [1..n -> DOMAIN q]
  BY <1>3
<1>9. ASSUME NEW i \in DOMAIN q PROVE ~q[i].remove <=> \E j \in 1..n : f[j] = i
  BY <1>3, <1>5
<1> QED
  BY <1>2, <1>4, <1>6, <1>7, <1>8, <1>9

(* The buffers that go back to the pool are those of the entries removed,  *)
(* each one once.                                                          *)
LEMMA BuffersOfRemoved ==
  ASSUME NEW q \in Seq(Entries),
         \A i, j \in DOMAIN q :
           q[i].buffer = q[j].buffer /\ q[i].buffer # NoBuffer => i = j
  PROVE  /\ BuffersOf(q) \in Seq(Buffers) /\ IsInjective(BuffersOf(q))
         /\ \A b : b \in Range(BuffersOf(q)) <=>
              b # NoBuffer /\ \E i \in DOMAIN q : q[i].remove /\ q[i].buffer = b
<1> DEFINE K == {i \in DOMAIN q : q[i].remove /\ q[i].buffer # NoBuffer}
           n == Cardinality(K)
           f == InOrder(K)
<1>1. DOMAIN q = 1..Len(q) /\ Len(q) \in Nat /\ \A i \in DOMAIN q : q[i] \in Entries
  BY LenProperties, ElementOfSeq
<1>2. IsFiniteSet(K) /\ K \subseteq Nat
  <2>1. IsFiniteSet(1..Len(q))
    BY <1>1, FS_Interval
  <2>2. K \in SUBSET (1..Len(q))
    BY <1>1
  <2>3. IsFiniteSet(K)
    BY <2>1, <2>2, FS_Subset
  <2> QED
    BY <1>1, <2>2, <2>3
<1>3. /\ n \in Nat /\ f \in [1..n -> K]
      /\ \A i, j \in 1..n : i < j => f[i] < f[j]
      /\ \A k \in K : \E i \in 1..n : f[i] = k
  BY <1>2, OrderOf
<1>4. DOMAIN f = 1..n /\ BuffersOf(q) = [j \in 1..n |-> q[f[j]].buffer]
  BY <1>3 DEF BuffersOf
<1> HIDE DEF n, f
<1>5. \A j \in 1..n : f[j] \in K /\ q[f[j]].buffer \in Buffers
  BY <1>1, <1>3 DEF Entries
<1>6. BuffersOf(q) \in Seq(Buffers) /\ DOMAIN BuffersOf(q) = 1..n
  BY <1>3, <1>4, <1>5
<1>7. ASSUME NEW i \in 1..n, NEW j \in 1..n, BuffersOf(q)[i] = BuffersOf(q)[j]
      PROVE  i = j
  <2>1. f[i] = f[j] /\ f[i] \in Nat
    BY <1>2, <1>4, <1>5, <1>7
  <2>2. ~(i < j) /\ ~(j < i)
    BY <1>3, <2>1
  <2> QED
    BY <1>3, <2>2
<1>8. ASSUME NEW b
      PROVE  b \in Range(BuffersOf(q)) <=>
               b # NoBuffer /\ \E i \in DOMAIN q : q[i].remove /\ q[i].buffer = b
  <2>1. b \in Range(BuffersOf(q)) <=> \E j \in 1..n : q[f[j]].buffer = b
    BY <1>4, <1>6 DEF Range
  <2>2. (\E j \in 1..n : q[f[j]].buffer = b) <=> \E i \in K : q[i].buffer = b
    <3>1. (\E j \in 1..n : q[f[j]].buffer = b) => \E i \in K : q[i].buffer = b
      BY <1>3
    <3>2. (\E i \in K : q[i].buffer = b) => \E j \in 1..n : q[f[j]].buffer = b
      BY <1>3, <1>5
    <3> QED
      BY <3>1, <3>2
  <2> QED
    BY <2>1, <2>2
<1> QED
  BY <1>6, <1>7, <1>8 DEF IsInjective

(* Two sequences without repetition and without a common element.          *)
LEMMA Joined ==
  ASSUME NEW S, NEW s \in Seq(S), NEW t \in Seq(S),
         IsInjective(s), IsInjective(t), Range(s) \cap Range(t) = {}
  PROVE  /\ s \o t \in Seq(S) /\ Len(s \o t) = Len(s) + Len(t)
         /\ IsInjective(s \o t) /\ Range(s \o t) = Range(s) \cup Range(t)
         /\ \A i \in DOMAIN s : i \in DOMAIN (s \o t) /\ (s \o t)[i] = s[i]
         /\ \A i \in DOMAIN t : Len(s) + i \in DOMAIN (s \o t)
                                  /\ (s \o t)[Len(s) + i] = t[i]
<1> DEFINE u == s \o t
           m == Len(s)
           n == Len(t)
<1>1. /\ m \in Nat /\ n \in Nat /\ DOMAIN s = 1..m /\ DOMAIN t = 1..n
      /\ u \in Seq(S) /\ Len(u) = m + n /\ DOMAIN u = 1..(m + n)
      /\ \A i \in 1..(m + n) : u[i] = IF i <= m THEN s[i] ELSE t[i - m]
  BY LenProperties, ConcatProperties
<1> HIDE DEF u, m, n
<1>2. \A i \in 1..m : i \in 1..(m + n) /\ u[i] = s[i]
  BY <1>1
<1>3. ASSUME NEW i \in 1..n PROVE m + i \in 1..(m + n) /\ u[m + i] = t[i]
  <2>1. m + i \in 1..(m + n) /\ ~(m + i <= m) /\ (m + i) - m = i
    BY <1>1
  <2> QED
    BY <1>1, <2>1
<1>4. ASSUME NEW i \in 1..(m + n), i > m PROVE i - m \in 1..n /\ u[i] = t[i - m]
  <2>1. i - m \in 1..n /\ ~(i <= m)
    BY <1>1, <1>4
  <2> QED
    BY <1>1, <2>1
<1>5. ASSUME NEW i \in 1..(m + n), NEW j \in 1..(m + n), u[i] = u[j] PROVE i = j
  <2>1. CASE i <= m /\ j <= m
    <3>1. i \in 1..m /\ j \in 1..m
      BY <1>1, <2>1
    <3>2. s[i] = s[j]
      BY <1>2, <1>5, <3>1
    <3> QED
      BY <1>1, <3>1, <3>2 DEF IsInjective
  <2>2. CASE i > m /\ j > m
    <3>1. i - m = j - m
      BY <1>1, <1>4, <1>5, <2>2 DEF IsInjective
    <3> QED
      BY <1>1, <3>1
  <2>3. ASSUME NEW k \in 1..(m + n), NEW l \in 1..(m + n), k <= m, l > m
        PROVE  u[k] # u[l]
    <3>1. k \in 1..m /\ u[k] = s[k] /\ l - m \in 1..n /\ u[l] = t[l - m]
      BY <1>1, <1>2, <1>4, <2>3
    <3>2. s[k] \in Range(s) /\ t[l - m] \in Range(t)
      BY <1>1, <3>1 DEF Range
    <3> QED
      BY <3>1, <3>2
  <2> QED
    BY <1>1, <1>5, <2>1, <2>2, <2>3
<1>6. Range(u) = Range(s) \cup Range(t)
  <2> USE DEF u
  <2> QED
    BY RangeConcatenation
<1> QED
  BY <1>1, <1>2, <1>3, <1>5, <1>6 DEF IsInjective, u, m, n

(* When nothing is pending, what is removed leaves the queue for the pool. *)
LEMMA TidyTurns ==
  ASSUME BaseInv, Tidy
  PROVE  \E g : Turned(g, 0, FALSE)
<1>1. /\ queue \in Seq(Entries) /\ DOMAIN queue = 1..Len(queue) /\ Len(queue) \in Nat
      /\ free \in Seq(Buffers) /\ DOMAIN free = 1..Len(free) /\ Len(free) \in Nat
  BY LenProperties DEF BaseInv, Typed
<1>2. PICK g \in [1..Len(Kept(queue)) -> DOMAIN queue] :
        /\ IsInjective(g)
        /\ \A j \in 1..Len(Kept(queue)) : Kept(queue)[j] = queue[g[j]]
        /\ \A i \in DOMAIN queue :
             ~queue[i].remove <=> \E j \in 1..Len(Kept(queue)) : g[j] = i
  BY <1>1, KeptOf
<1>3. Kept(queue) \in Seq(Entries) /\ Len(Kept(queue)) <= Len(queue)
  BY <1>1, KeptOf
<1>4. /\ BuffersOf(queue) \in Seq(Buffers) /\ IsInjective(BuffersOf(queue))
      /\ \A b : b \in Range(BuffersOf(queue)) <=>
           b # NoBuffer /\ \E i \in DOMAIN queue : queue[i].remove /\ queue[i].buffer = b
  BY <1>1, BuffersOfRemoved DEF BaseInv, Apart
<1>5. Pool \cap Range(BuffersOf(queue)) = {}
  <2>1. Range(BuffersOf(queue)) \subseteq Queued
    BY <1>4 DEF Queued
  <2> QED
    BY <2>1 DEF BaseInv, Apart
<1>6. queue' = Kept(queue) /\ free' = free \o BuffersOf(queue)
  BY DEF Tidy
<1>7. /\ free' \in Seq(Buffers) /\ IsInjective(free')
      /\ Range(free') = Pool \cup Range(BuffersOf(queue))
      /\ Len(free') = Len(free) + Len(BuffersOf(queue))
      /\ \A i \in DOMAIN free : i \in DOMAIN free' /\ free'[i] = free[i]
  BY <1>1, <1>4, <1>5, <1>6, Joined DEF Pool, BaseInv, Apart
<1>8. Len(BuffersOf(queue)) \in Nat
  BY <1>4, LenProperties
<1>9. ASSUME NEW b
      PROVE  b \in Pool' <=>
               \/ b \in Pool
               \/ b # NoBuffer /\ \E i \in DOMAIN queue :
                     queue[i].buffer = b /\ \A j \in 1..Len(queue') : g[j] # i
  BY <1>2, <1>4, <1>6, <1>7 DEF Pool
<1>10. \A j \in 1..Len(queue') : g[j] # 0
  BY <1>1, <1>2, <1>6
<1>11. /\ g \in [1..Len(queue') -> DOMAIN queue] /\ IsInjective(g)
       /\ queue' \in Seq(Entries) /\ Len(queue') <= Len(queue)
       /\ \A j \in 1..Len(queue') : queue'[j] = queue[g[j]]
       /\ \A i \in DOMAIN queue :
            ~queue[i].remove => \E j \in 1..Len(queue') : g[j] = i
  BY <1>2, <1>3, <1>6
<1>12. Len(free) <= Len(free')
  BY <1>1, <1>7, <1>8
<1>13. Turned(g, 0, FALSE)
  BY <1>7, <1>9, <1>10, <1>11, <1>12 DEF Turned
<1> QED
  BY <1>13

(* The entry that is pending is the ticket, and holds the request of the   *)
(* call under way.                                                         *)
LEMMA PendingIsTicket ==
  ASSUME BaseInv, \E i \in DOMAIN queue : Pending(queue[i])
  PROVE  /\ pc = "send" /\ call \in Calls /\ sdop \in Buffers
         /\ FirstPending \in DOMAIN queue /\ queue[FirstPending] \in Entries
         /\ ~queue[FirstPending].remove /\ queue[FirstPending].state # "DONE"
         /\ queue[FirstPending].buffer = sdop /\ content[sdop] = Request(call)
         /\ \A i \in DOMAIN queue : i # FirstPending => queue[i].remove
<1>1. queue \in Seq(Entries) /\ DOMAIN queue = 1..Len(queue) /\ Len(queue) \in Nat
  BY LenProperties DEF BaseInv, Typed
<1>2. PICK i \in DOMAIN queue : Pending(queue[i])
  OBVIOUS
<1>3. \A j \in 1..(i - 1) : j \in DOMAIN queue /\ j # i
  BY <1>1, <1>2
<1>4. \A j \in 1..(i - 1) : ~Pending(queue[j])
  BY <1>2, <1>3 DEF BaseInv, Ticketed, Pending
<1>5. FirstPending \in DOMAIN queue /\ Pending(queue[FirstPending])
  BY <1>2, <1>4 DEF FirstPending
<1>6. queue[FirstPending] \in Entries
  BY <1>1, <1>5, ElementOfSeq
<1>7. /\ ~queue[FirstPending].remove /\ queue[FirstPending].state # "DONE"
      /\ pc = "send"
  BY <1>5 DEF Pending, BaseInv, Ticketed
<1>8. /\ queue[FirstPending].buffer = sdop /\ content[sdop] = Request(call)
      /\ \A k \in DOMAIN queue : k # FirstPending => queue[k].remove
  BY <1>5, <1>7 DEF BaseInv, Ticketed
<1>9. call \in Calls /\ sdop \in Buffers
  BY <1>7 DEF BaseInv, Worked
<1> QED
  BY <1>5, <1>6, <1>7, <1>8, <1>9

(* A pending request is written, and what was before it turns.             *)
LEMMA WriteTurns ==
  ASSUME BaseInv, WriteFirst
  PROVE  \E g, ok : /\ ok \in BOOLEAN /\ Turned(g, FirstPending, ok)
                    /\ WriteMailbox(call, ok)
<1> DEFINE p == FirstPending
           before == SubSeq(queue, 1, p - 1)
           after == SubSeq(queue, p + 1, Len(queue))
           entry == queue[p]
           new(ok) == IF ok THEN [entry EXCEPT !.state = "DONE", !.buffer = NoBuffer]
                      ELSE [entry EXCEPT !.state = "FAIL"]
<1>1. /\ queue \in Seq(Entries) /\ DOMAIN queue = 1..Len(queue) /\ Len(queue) \in Nat
      /\ free \in Seq(Buffers) /\ DOMAIN free = 1..Len(free) /\ Len(free) \in Nat
      /\ \A i \in 1..Len(queue) : queue[i] \in Entries
  BY LenProperties, ElementOfSeq DEF BaseInv, Typed
<1>2. \E i \in DOMAIN queue : Pending(queue[i])
  BY DEF WriteFirst
<1>3. /\ p \in 1..Len(queue) /\ entry \in Entries /\ ~entry.remove
      /\ entry.buffer = sdop /\ sdop \in Buffers /\ content[sdop] = Request(call)
      /\ \A i \in DOMAIN queue : i # p => queue[i].remove
  BY <1>1, <1>2, PendingIsTicket
<1>4. PICK ok \in BOOLEAN :
        /\ WriteMailbox(content[entry.buffer].call, ok)
        /\ queue' = (after \o Kept(before)) \o <<new(ok)>>
        /\ free' = (free \o BuffersOf(before))
                     \o (IF ok THEN <<entry.buffer>> ELSE <<>>)
  BY DEF WriteFirst
<1>5. WriteMailbox(call, ok)
  BY <1>3, <1>4 DEF Request
<1> HIDE DEF p
<1>6. p \in Nat /\ p >= 1 /\ p <= Len(queue)
  BY <1>1, <1>3
<1>7. /\ before \in Seq(Entries) /\ Len(before) = p - 1 /\ DOMAIN before = 1..(p - 1)
      /\ \A i \in 1..(p - 1) : before[i] = queue[i] /\ i \in DOMAIN queue /\ i # p
  <2>1. \A i \in 1..(p - 1) : queue[i] \in Entries /\ i \in DOMAIN queue /\ i # p
    BY <1>1, <1>6
  <2>2. /\ before \in Seq(Entries) /\ Len(before) = IF 1 <= p - 1 THEN p - 1 - 1 + 1 ELSE 0
        /\ \A i \in 1..(p - 1 - 1 + 1) : before[i] = queue[1 + i - 1]
    BY <1>6, <2>1, SubSeqProperties
  <2>3. Len(before) = p - 1 /\ DOMAIN before = 1..(p - 1)
    BY <1>6, <2>2, LenProperties
  <2>4. ASSUME NEW i \in 1..(p - 1) PROVE before[i] = queue[i]
    <3>1. 1 + i - 1 = i /\ p - 1 - 1 + 1 = p - 1
      BY <1>6
    <3> QED
      BY <2>2, <3>1
  <2> QED
    BY <2>1, <2>2, <2>3, <2>4
<1> DEFINE la == Len(queue) - p
<1>8. /\ after \in Seq(Entries) /\ Len(after) = la /\ la \in Nat /\ DOMAIN after = 1..la
      /\ \A i \in 1..la : after[i] = queue[p + i] /\ p + i \in DOMAIN queue /\ p + i # p
  <2>0. la \in Nat
    BY <1>1, <1>6
  <2>1. \A i \in p + 1 .. Len(queue) : queue[i] \in Entries
    BY <1>1, <1>6
  <2>2. /\ after \in Seq(Entries)
        /\ Len(after) = IF p + 1 <= Len(queue) THEN Len(queue) - (p + 1) + 1 ELSE 0
        /\ \A i \in 1..(Len(queue) - (p + 1) + 1) : after[i] = queue[p + 1 + i - 1]
    BY <1>1, <1>6, <2>1, SubSeqProperties
  <2>3. Len(after) = la /\ DOMAIN after = 1..la
    <3>1. Len(after) = la
      <4>1. CASE p + 1 <= Len(queue)
        <5>1. Len(after) = Len(queue) - (p + 1) + 1
          BY <2>2, <4>1
        <5>2. Len(queue) - (p + 1) + 1 = Len(queue) - p
          BY <1>1, <1>6
        <5> QED
          BY <5>1, <5>2
      <4>2. CASE ~(p + 1 <= Len(queue))
        <5>0. Len(after) = 0
          BY <2>2, <4>2
        <5>1. p = Len(queue)
          <6> DEFINE all == Len(queue)
          <6>1. all \in Nat /\ p \in Nat /\ p <= all /\ ~(p + 1 <= all)
            BY <1>1, <1>6, <4>2
          <6> HIDE DEF all
          <6>2. p = all
            BY <6>1
          <6> QED
            BY <6>2 DEF all
        <5>2. Len(queue) - p = 0
          BY <1>1, <1>6, <5>1
        <5> QED
          BY <5>0, <5>2
      <4> QED
        BY <4>1, <4>2
    <3> QED
      BY <2>2, <3>1, LenProperties
  <2>4. ASSUME NEW i \in 1..la PROVE after[i] = queue[p + i] /\ p + i \in DOMAIN queue /\ p + i # p
    <3>1. p + 1 + i - 1 = p + i /\ Len(queue) - (p + 1) + 1 = la /\ p + i \in 1..Len(queue)
          /\ p + i # p
      BY <1>1, <1>6
    <3> QED
      BY <1>1, <2>2, <3>1
  <2> QED
    BY <2>0, <2>2, <2>3, <2>4
<1> HIDE DEF before, after, la, new
<1> DEFINE kept == Kept(before)
           L == Len(kept)
           back == BuffersOf(before)
<1>9. kept \in Seq(Entries) /\ L <= p - 1 /\ L \in Nat /\ DOMAIN kept = 1..L
  BY <1>7, KeptOf, LenProperties
<1>10. PICK f \in [1..L -> 1..(p - 1)] :
         /\ \A i, j \in 1..L : f[i] = f[j] => i = j
         /\ \A j \in 1..L : kept[j] = queue[f[j]]
         /\ \A j \in 1..L : ~queue[f[j]].remove
  <2>1. PICK f \in [1..L -> DOMAIN before] :
          /\ IsInjective(f)
          /\ \A j \in 1..L : kept[j] = before[f[j]]
          /\ \A i \in DOMAIN before : ~before[i].remove <=> \E j \in 1..L : f[j] = i
    BY <1>7, KeptOf
  <2>2. f \in [1..L -> 1..(p - 1)] /\ \A i, j \in 1..L : f[i] = f[j] => i = j
    BY <1>7, <2>1 DEF IsInjective
  <2>3. ASSUME NEW j \in 1..L PROVE kept[j] = queue[f[j]] /\ ~queue[f[j]].remove
    <3>1. f[j] \in 1..(p - 1) /\ f[j] \in DOMAIN before
      BY <1>7, <2>2
    <3> QED
      BY <1>7, <2>1, <3>1
  <2> QED
    BY <2>2, <2>3
<1> HIDE DEF kept, L, back
<1>11. new(ok) \in Entries
  BY <1>3 DEF new, Entries, NoBuffer
<1>12. /\ queue' \in Seq(Entries) /\ Len(queue') = la + L + 1 /\ la + L \in Nat
       /\ \A j \in 1..la : queue'[j] = queue[p + j]
       /\ \A j \in 1..(la + L) : j > la => queue'[j] = queue[f[j - la]]
       /\ queue'[la + L + 1] = new(ok)
  <2> DEFINE first == after \o kept
  <2>1. queue' = first \o <<new(ok)>>
    BY <1>4 DEF kept
  <2>2. /\ first \in Seq(Entries) /\ Len(first) = la + L
        /\ \A i \in 1..(la + L) : first[i] = IF i <= la THEN after[i] ELSE kept[i - la]
    BY <1>8, <1>9, ConcatProperties DEF L
  <2>3. <<new(ok)>> \in Seq(Entries) /\ Len(<<new(ok)>>) = 1 /\ <<new(ok)>>[1] = new(ok)
    BY <1>11
  <2> HIDE DEF first
  <2>4. /\ queue' \in Seq(Entries) /\ Len(queue') = la + L + 1
        /\ \A i \in 1..(la + L + 1) :
             queue'[i] = IF i <= la + L THEN first[i] ELSE <<new(ok)>>[i - (la + L)]
    BY <2>1, <2>2, <2>3, ConcatProperties
  <2>5. la + L \in Nat /\ la + L + 1 \in 1..(la + L + 1) /\ ~(la + L + 1 <= la + L)
        /\ la + L + 1 - (la + L) = 1
    BY <1>8, <1>9
  <2>6. ASSUME NEW j \in 1..la PROVE queue'[j] = queue[p + j]
    <3>1. j \in 1..(la + L) /\ j \in 1..(la + L + 1) /\ j <= la /\ j <= la + L
      BY <1>8, <1>9
    <3> QED
      BY <1>8, <2>2, <2>4, <3>1
  <2>7. ASSUME NEW j \in 1..(la + L), j > la PROVE queue'[j] = queue[f[j - la]]
    <3>1. j - la \in 1..L /\ j \in 1..(la + L + 1) /\ ~(j <= la) /\ j <= la + L
      BY <1>8, <1>9, <2>7
    <3> QED
      BY <1>10, <2>2, <2>4, <3>1
  <2> QED
    BY <2>3, <2>4, <2>5, <2>6, <2>7
<1> DEFINE g == [j \in 1..(la + L + 1) |-> IF j <= la THEN p + j
                                           ELSE IF j <= la + L THEN f[j - la] ELSE p]
<1>13. ASSUME NEW j \in 1..(la + L + 1)
       PROVE  \/ j <= la /\ g[j] = p + j /\ j \in 1..la
              \/ j > la /\ j <= la + L /\ g[j] = f[j - la] /\ j - la \in 1..L
              \/ j = la + L + 1 /\ g[j] = p
  BY <1>8, <1>9
<1>14. \A j \in 1..L : f[j] \in 1..(p - 1) /\ f[j] \in 1..Len(queue) /\ f[j] < p
  BY <1>1, <1>6, <1>10
<1>15. ASSUME NEW j \in 1..(la + L + 1)
       PROVE  /\ g[j] \in 1..Len(queue) /\ (g[j] > p <=> j <= la)
              /\ (g[j] = p <=> j = la + L + 1)
  BY <1>1, <1>6, <1>8, <1>9, <1>13, <1>14
<1>16. ASSUME NEW i \in 1..(la + L + 1), NEW j \in 1..(la + L + 1), g[i] = g[j]
       PROVE  i = j
  <2>1. CASE i <= la
    BY <1>6, <1>8, <1>9, <1>13, <1>15, <1>16, <2>1
  <2>2. CASE i = la + L + 1
    BY <1>6, <1>8, <1>9, <1>15, <1>16, <2>2
  <2>3. CASE i > la /\ i # la + L + 1
    <3>1. j > la /\ j # la + L + 1
      BY <1>6, <1>8, <1>9, <1>15, <1>16, <2>3
    <3>2. /\ i - la \in 1..L /\ j - la \in 1..L
          /\ f[i - la] = f[j - la]
      BY <1>8, <1>9, <1>13, <1>16, <2>3, <3>1
    <3>3. i - la = j - la
      BY <1>10, <3>2
    <3> QED
      BY <1>8, <3>3
  <2> QED
    BY <1>8, <2>1, <2>2, <2>3
<1> HIDE DEF g
<1>17. /\ g \in [1..Len(queue') -> DOMAIN queue] /\ IsInjective(g)
       /\ Len(queue') <= Len(queue)
  <2>1. g \in [1..(la + L + 1) -> 1..Len(queue)]
    BY <1>15 DEF g
  <2>2. la + L + 1 <= Len(queue)
    BY <1>1, <1>6, <1>8, <1>9 DEF la
  <2> QED
    BY <1>1, <1>12, <1>16, <2>1, <2>2 DEF IsInjective
<1>18. ASSUME NEW j \in 1..Len(queue')
       PROVE  (g[j] # p => queue'[j] = queue[g[j]]) /\ (g[j] = p => queue'[j] = new(ok))
  <2>1. CASE j <= la
    BY <1>12, <1>13, <1>15, <2>1
  <2>2. CASE j > la /\ j <= la + L
    BY <1>12, <1>13, <1>15, <2>2
  <2>3. CASE j = la + L + 1
    BY <1>12, <1>15, <2>3
  <2> QED
    BY <1>8, <1>9, <1>12, <2>1, <2>2, <2>3
<1>19. ASSUME NEW i \in DOMAIN queue, ~queue[i].remove
       PROVE  \E j \in 1..Len(queue') : g[j] = i
  <2>1. i = p /\ la + L + 1 \in 1..(la + L + 1)
    BY <1>3, <1>12, <1>19
  <2> QED
    BY <1>12, <1>15, <2>1
<1>20. ASSUME NEW i \in DOMAIN queue
       PROVE  i < p <=> \A j \in 1..Len(queue') : g[j] # i
  <2>1. CASE i < p
    <3>1. ASSUME NEW j \in 1..(la + L + 1), g[j] = i PROVE FALSE
      <4>1. j > la /\ j # la + L + 1
        <5>1. ~(g[j] > p) /\ g[j] # p
          BY <1>1, <1>6, <2>1, <3>1
        <5>2. ~(j <= la) /\ j # la + L + 1
          BY <1>15, <5>1
        <5> QED
          BY <1>8, <1>9, <5>2
      <4>2. j - la \in 1..L /\ f[j - la] = i
        BY <1>8, <1>9, <1>13, <3>1, <4>1
      <4>3. ~queue[i].remove /\ i # p
        BY <1>10, <1>14, <4>2, <2>1, <1>1, <1>6
      <4> QED
        BY <1>3, <4>3
    <3> QED
      BY <1>12, <2>1, <3>1
  <2>2. CASE i = p
    <3>1. la + L + 1 \in 1..(la + L + 1) /\ g[la + L + 1] = p
      BY <1>12, <1>15
    <3> QED
      BY <1>6, <1>12, <2>2, <3>1
  <2>3. CASE i > p
    <3>1. i - p \in 1..la /\ i - p \in 1..(la + L + 1) /\ p + (i - p) = i
      BY <1>1, <1>6, <1>8, <1>9, <2>3 DEF la
    <3>2. g[i - p] = i
      BY <1>8, <1>9, <3>1 DEF g
    <3> QED
      BY <1>1, <1>6, <1>12, <2>3, <3>1, <3>2
  <2> QED
    BY <1>1, <1>6, <2>1, <2>2, <2>3
<1>21. /\ back \in Seq(Buffers) /\ IsInjective(back)
       /\ \A b : b \in Range(back) <=>
            b # NoBuffer /\ \E i \in 1..(p - 1) : queue[i].buffer = b
  <2>1. \A i, j \in DOMAIN before :
          before[i].buffer = before[j].buffer /\ before[i].buffer # NoBuffer => i = j
    BY <1>7 DEF BaseInv, Apart
  <2>2. /\ back \in Seq(Buffers) /\ IsInjective(back)
        /\ \A b : b \in Range(back) <=>
             b # NoBuffer /\ \E i \in DOMAIN before : before[i].remove /\ before[i].buffer = b
    BY <1>7, <2>1, BuffersOfRemoved DEF back
  <2>3. \A i \in 1..(p - 1) : before[i].remove /\ before[i] = queue[i]
    BY <1>3, <1>7
  <2> QED
    BY <1>7, <2>2, <2>3
<1>22. /\ Range(back) \subseteq Queued /\ Range(back) \cap Pool = {}
       /\ sdop \in Queued /\ sdop \notin Pool /\ sdop \notin Range(back) /\ sdop # NoBuffer
  <2>1. sdop # NoBuffer
    BY <1>3 DEF Buffers, NoBuffer
  <2>2. Range(back) \subseteq Queued /\ sdop \in Queued
    <3>1. \A i \in 1..(p - 1) : i \in DOMAIN queue
      BY <1>7
    <3>2. p \in DOMAIN queue
      BY <1>1, <1>3
    <3> QED
      BY <1>3, <1>21, <2>1, <3>1, <3>2 DEF Queued
  <2>3. Pool \cap Queued = {}
    BY DEF BaseInv, Apart
  <2>4. sdop \notin Range(back)
    <3>1. ASSUME NEW i \in 1..(p - 1), queue[i].buffer = sdop PROVE FALSE
      <4>1. i \in DOMAIN queue /\ p \in DOMAIN queue /\ i # p
        BY <1>1, <1>3, <1>7
      <4> QED
        BY <1>3, <2>1, <3>1, <4>1 DEF BaseInv, Apart
    <3> QED
      BY <1>21, <3>1
  <2> QED
    BY <2>1, <2>2, <2>3, <2>4
<1> DEFINE first == free \o back
<1>23. /\ first \in Seq(Buffers) /\ IsInjective(first) /\ Range(first) = Pool \cup Range(back)
       /\ Len(first) = Len(free) + Len(back) /\ Len(back) \in Nat
       /\ \A i \in DOMAIN free : i \in DOMAIN first /\ first[i] = free[i]
  <2>1. Len(back) \in Nat
    BY <1>21, LenProperties
  <2>2. IsInjective(free) /\ Range(free) \cap Range(back) = {}
    BY <1>22 DEF BaseInv, Apart, Pool
  <2> QED
    BY <1>1, <1>21, <2>1, <2>2, Joined DEF Pool
<1> HIDE DEF first
<1>24. free' = first \o (IF ok THEN <<sdop>> ELSE <<>>)
  BY <1>3, <1>4 DEF first, back
<1>25. /\ free' \in Seq(Buffers) /\ IsInjective(free') /\ Len(free) <= Len(free')
       /\ \A i \in DOMAIN free : i \in DOMAIN free' /\ free'[i] = free[i]
       /\ Range(free') = Pool \cup Range(back) \cup (IF ok THEN {sdop} ELSE {})
       /\ ok => Len(free') > 0 /\ free'[Len(free')] = sdop
  <2>1. CASE ok
    <3> DEFINE one == <<sdop>>
    <3>1. /\ one \in Seq(Buffers) /\ IsInjective(one) /\ Range(one) = {sdop}
          /\ Len(one) = 1 /\ 1 \in DOMAIN one /\ one[1] = sdop
      BY <1>3 DEF IsInjective, Range
    <3> HIDE DEF one
    <3>2. free' = first \o one /\ Range(first) \cap Range(one) = {}
      BY <1>22, <1>23, <1>24, <2>1, <3>1 DEF one
    <3>6. /\ first \in Seq(Buffers) /\ one \in Seq(Buffers) /\ IsInjective(first)
          /\ IsInjective(one) /\ Range(first) \cap Range(one) = {}
      BY <1>23, <3>1, <3>2
    <3>3. /\ first \o one \in Seq(Buffers) /\ IsInjective(first \o one)
          /\ Range(first \o one) = Range(first) \cup Range(one)
          /\ Len(first \o one) = Len(first) + Len(one)
          /\ \A i \in DOMAIN first :
               i \in DOMAIN (first \o one) /\ (first \o one)[i] = first[i]
          /\ \A i \in DOMAIN one : (first \o one)[Len(first) + i] = one[i]
      BY <3>6, Joined
    <3>5. /\ free' \in Seq(Buffers) /\ IsInjective(free')
          /\ Range(free') = Range(first) \cup {sdop}
          /\ Len(free') = Len(first) + 1
          /\ \A i \in DOMAIN first : i \in DOMAIN free' /\ free'[i] = first[i]
          /\ free'[Len(first) + 1] = sdop
      BY <3>1, <3>2, <3>3
    <3>4. Len(free) <= Len(free') /\ Len(free') > 0
      BY <1>1, <1>23, <3>5
    <3> QED
      BY <1>23, <2>1, <3>4, <3>5
  <2>2. CASE ~ok
    <3>1. free' = first
      BY <1>23, <1>24, <2>2, ConcatEmptySeq
    <3>2. Len(free) <= Len(free')
      BY <1>1, <1>23, <3>1
    <3> QED
      BY <1>23, <2>2, <3>1, <3>2
  <2> QED
    BY <2>1, <2>2
<1>26. ASSUME NEW b
       PROVE  b \in Pool' <=>
                \/ b \in Pool
                \/ b # NoBuffer /\ \E i \in DOMAIN queue :
                      queue[i].buffer = b /\ \A j \in 1..Len(queue') : g[j] # i
                \/ ok /\ b = queue[p].buffer
  <2>1. (\E i \in 1..(p - 1) : queue[i].buffer = b)
          <=> \E i \in DOMAIN queue : queue[i].buffer = b /\ i < p
    <3>1. \A i : i \in 1..(p - 1) <=> i \in 1..Len(queue) /\ i < p
      BY <1>1, <1>6
    <3> QED
      BY <1>1, <3>1
  <2>2. Pool' = Pool \cup Range(back) \cup (IF ok THEN {sdop} ELSE {})
    BY <1>25 DEF Pool
  <2> QED
    BY <1>3, <1>20, <1>21, <2>1, <2>2
<1>27. Turned(g, p, ok)
  BY <1>3, <1>12, <1>17, <1>18, <1>19, <1>25, <1>26 DEF Turned, new
<1> QED
  BY <1>5, <1>27 DEF p

----------------------------------------------------------------------------
(* The pool as a ring                                                      *)
LEMMA FromPool ==
  ASSUME NEW f \in Seq(Buffers), IsInjective(f), f # <<>>
  PROVE  /\ Head(f) \in Buffers /\ Head(f) \in Range(f) /\ Head(f) = f[1]
         /\ Tail(f) \in Seq(Buffers) /\ IsInjective(Tail(f))
         /\ Range(Tail(f)) = Range(f) \ {Head(f)}
         /\ \A i \in DOMAIN f : i # 1 => i - 1 \in DOMAIN Tail(f) /\ Tail(f)[i - 1] = f[i]
<1> DEFINE t == Tail(f)
           n == Len(f)
<1>1. /\ n \in Nat /\ n >= 1 /\ DOMAIN f = 1..n /\ Head(f) = f[1]
      /\ t \in Seq(Buffers) /\ Len(t) = n - 1 /\ DOMAIN t = 1..(n - 1)
      /\ \A i \in 1..(n - 1) : t[i] = f[i + 1]
  OBVIOUS
<1> HIDE DEF t, n
<1>2. 1 \in DOMAIN f /\ f[1] \in Buffers
  BY <1>1
<1>3. ASSUME NEW i \in 1..n, i # 1 PROVE i - 1 \in 1..(n - 1) /\ t[i - 1] = f[i]
  <2>1. i - 1 \in 1..(n - 1) /\ (i - 1) + 1 = i
    BY <1>1, <1>3
  <2> QED
    BY <1>1, <2>1
<1>4. \A i \in 1..(n - 1) : i + 1 \in 1..n /\ i + 1 # 1
  BY <1>1
<1>5. ASSUME NEW i \in 1..(n - 1), NEW j \in 1..(n - 1), t[i] = t[j] PROVE i = j
  <2>0. /\ f[i + 1] = f[j + 1] /\ i + 1 \in DOMAIN f /\ j + 1 \in DOMAIN f
        /\ IsInjective(f)
    BY <1>1, <1>4, <1>5
  <2>1. i + 1 = j + 1
    BY <2>0 DEF IsInjective
  <2> QED
    BY <1>1, <2>1
<1>6. Range(t) = Range(f) \ {f[1]}
  <2>1. ASSUME NEW b \in Range(t) PROVE b \in Range(f) /\ b # f[1]
    <3>1. PICK i \in 1..(n - 1) : b = t[i]
      BY <1>1, <2>1 DEF Range
    <3>2. b = f[i + 1] /\ i + 1 \in 1..n /\ i + 1 # 1
      BY <1>1, <1>4, <3>1
    <3> QED
      BY <1>1, <1>2, <3>2 DEF Range, IsInjective
  <2>2. ASSUME NEW b \in Range(f), b # f[1] PROVE b \in Range(t)
    <3>1. PICK i \in 1..n : b = f[i]
      BY <1>1 DEF Range
    <3>2. i - 1 \in 1..(n - 1) /\ t[i - 1] = b
      BY <1>3, <2>2, <3>1
    <3> QED
      BY <1>1, <3>2 DEF Range
  <2> QED
    BY <2>1, <2>2
<1> QED
  BY <1>1, <1>2, <1>3, <1>5, <1>6 DEF IsInjective, Range, t

(* A buffer that is not in the pool is put at its end.                     *)
LEMMA ToPool ==
  ASSUME NEW f \in Seq(Buffers), IsInjective(f), NEW b \in Buffers, b \notin Range(f)
  PROVE  /\ Append(f, b) \in Seq(Buffers) /\ IsInjective(Append(f, b))
         /\ Range(Append(f, b)) = Range(f) \cup {b}
         /\ \A i \in DOMAIN f : i \in DOMAIN Append(f, b) /\ Append(f, b)[i] = f[i]
<1> DEFINE t == Append(f, b)
           n == Len(f)
<1>1. /\ n \in Nat /\ DOMAIN f = 1..n /\ t \in Seq(Buffers) /\ DOMAIN t = 1..(n + 1)
      /\ \A i \in 1..n : t[i] = f[i]
      /\ t[n + 1] = b
  OBVIOUS
<1> HIDE DEF t, n
<1>2. \A i \in 1..(n + 1) : i \in 1..n \/ i = n + 1
  BY <1>1
<1>3. /\ \A i \in 1..n : i \in 1..(n + 1) /\ i # n + 1 /\ f[i] # b
      /\ n + 1 \in 1..(n + 1)
  BY <1>1 DEF Range
<1>4. ASSUME NEW i \in 1..(n + 1), NEW j \in 1..(n + 1), t[i] = t[j] PROVE i = j
  BY <1>1, <1>2, <1>3, <1>4 DEF IsInjective
<1>5. Range(t) = Range(f) \cup {b}
  BY <1>1, <1>2, <1>3 DEF Range
<1> QED
  BY <1>1, <1>3, <1>4, <1>5 DEF IsInjective, t

(* free \o Dropped(b)                                                      *)
LEMMA DropToPool ==
  ASSUME NEW f \in Seq(Buffers), IsInjective(f), NEW b \in Buffers \cup {NoBuffer},
         b \notin Range(f)
  PROVE  /\ f \o Dropped(b) \in Seq(Buffers) /\ IsInjective(f \o Dropped(b))
         /\ Range(f \o Dropped(b)) = Range(f) \cup ({b} \ {NoBuffer})
         /\ \A i \in DOMAIN f :
              i \in DOMAIN (f \o Dropped(b)) /\ (f \o Dropped(b))[i] = f[i]
<1>1. CASE b = NoBuffer
  <2>1. f \o Dropped(b) = f
    BY <1>1, ConcatEmptySeq DEF Dropped
  <2> QED
    BY <1>1, <2>1
<1>2. CASE b # NoBuffer
  <2>1. b \in Buffers /\ f \o Dropped(b) = Append(f, b)
    BY <1>2, AppendIsConcat DEF Dropped
  <2> QED
    BY <1>2, <2>1, ToPool
<1> QED
  BY <1>1, <1>2

(* The places for answers                                                  *)
LEMMA TakeAnswer ==
  ASSUME BaseInv, NEW s \in Slaves, coembxin' = [coembxin EXCEPT ![s] = NoBuffer]
  PROVE  /\ coembxin' \in [Slaves -> Buffers \cup {NoBuffer}]
         /\ Answers' = Answers \ {coembxin[s]}
         /\ \A r, t \in Slaves :
              coembxin'[r] = coembxin'[t] /\ coembxin'[r] # NoBuffer => r = t
<1>1. /\ coembxin \in [Slaves -> Buffers \cup {NoBuffer}]
      /\ \A r, t \in Slaves : coembxin[r] = coembxin[t] /\ coembxin[r] # NoBuffer => r = t
  BY DEF BaseInv, Typed, Apart
<1>2. \A t \in Slaves : coembxin'[t] = IF t = s THEN NoBuffer ELSE coembxin[t]
  BY <1>1
<1>3. Answers' = {coembxin'[t] : t \in Slaves} \ {NoBuffer}
  BY DEF Answers, Slaves, NoBuffer
<1>4. \A b : b \in Answers' <=> b # NoBuffer /\ \E t \in Slaves : t # s /\ coembxin[t] = b
  BY <1>2, <1>3
<1>5. \A b : b \in Answers <=> b # NoBuffer /\ \E t \in Slaves : coembxin[t] = b
  BY DEF Answers
<1>6. Answers' = Answers \ {coembxin[s]}
  BY <1>1, <1>4, <1>5
<1> QED
  BY <1>1, <1>2, <1>6

(* An answer is kept in a place that was empty.                            *)
LEMMA PutAnswer ==
  ASSUME BaseInv, NEW s \in Slaves, coembxin[s] = NoBuffer, NEW b \in Buffers,
         b \notin Answers, coembxin' = [coembxin EXCEPT ![s] = b]
  PROVE  /\ coembxin' \in [Slaves -> Buffers \cup {NoBuffer}]
         /\ Answers' = Answers \cup {b}
         /\ \A r, t \in Slaves :
              coembxin'[r] = coembxin'[t] /\ coembxin'[r] # NoBuffer => r = t
<1>1. /\ coembxin \in [Slaves -> Buffers \cup {NoBuffer}] /\ b # NoBuffer
      /\ \A r, t \in Slaves : coembxin[r] = coembxin[t] /\ coembxin[r] # NoBuffer => r = t
  BY DEF BaseInv, Typed, Apart, Buffers, NoBuffer
<1>2. \A t \in Slaves : coembxin'[t] = IF t = s THEN b ELSE coembxin[t]
  BY <1>1
<1>3. Answers' = {coembxin'[t] : t \in Slaves} \ {NoBuffer}
  BY DEF Answers, Slaves, NoBuffer
<1>5. \A t \in Slaves : coembxin[t] # b
  BY <1>1 DEF Answers
<1>6. Answers' = Answers \cup {b}
  BY <1>1, <1>2, <1>3 DEF Answers
<1> QED
  BY <1>1, <1>2, <1>5, <1>6

----------------------------------------------------------------------------
(* What holds of every pool, however small                                 *)
LEMMA InitBase == ASSUME MailboxAssumption, Init PROVE BaseInv
<1>1. Slaves # {} /\ 1 \in Slaves /\ 0 \in 0..3 /\ 0 \in 0..MaxCalls /\ 0 \in 0..MaxLost
  BY DEF MailboxAssumption, Slaves
<1>2. EmergencyMessage \in Messages
  BY DEF EmergencyMessage, Messages
<1>3. free \in Seq(Buffers) /\ Pool = Buffers /\ IsInjective(free)
  <2>1. free = [i \in Buffers |-> i]
    BY DEF Init
  <2>2. PoolSize \in Nat
    BY DEF MailboxAssumption
  <2>3. free = [i \in 1..PoolSize |-> i] /\ \A i \in 1..PoolSize : i \in Buffers
    BY <2>1 DEF Buffers
  <2>4. free \in Seq(Buffers)
    BY <2>2, <2>3
  <2> QED
    BY <2>1, <2>4 DEF Pool, Range, IsInjective
<1>4. Typed
  <2>1. queue = <<>> /\ queue \in Seq(Entries)
    BY DEF Init
  <2>2. content \in [Buffers -> Messages]
    BY <1>2 DEF Init
  <2>3. inbox \in [Slaves -> Seq(Calls)] /\ outbox \in [Slaves -> Seq(Messages)]
    BY DEF Init
  <2>4. result \in [ok: BOOLEAN, answer: Messages]
    BY <1>2 DEF Init
  <2> QED
    BY <1>1, <1>3, <2>1, <2>2, <2>3, <2>4 DEF Typed, Init
<1>5. DOMAIN queue = {} /\ Queued = {} /\ Answers = {} /\ Held = {}
  BY DEF Init, Queued, Answers, Held
<1>6. Apart
  <2>1. \A s \in Slaves : coembxin[s] = NoBuffer
    BY DEF Init
  <2> QED
    BY <1>3, <1>5, <2>1 DEF Apart
<1>7. Ticketed /\ Worked
  BY <1>5 DEF Ticketed, Worked, Init
<1> QED
  BY <1>4, <1>6, <1>7 DEF BaseInv

(* The worker: a call begins; an answer left behind passes to its hands.   *)
LEMMA BeginBase ==
  ASSUME BaseInv, NEW c \in Calls, Begin(c)
  PROVE  BaseInv' /\ Held' = Held
<1>1. /\ pc = "idle" /\ call' = c /\ pc' = "get" /\ sdop' = NoBuffer
      /\ mbxIn' = coembxin[c.slave]
      /\ coembxin' = [coembxin EXCEPT ![c.slave] = NoBuffer]
      /\ UNCHANGED <<free, content, queue, rmp, last, inbox, taken, outbox, result, failed, lost>>
  BY DEF Begin, poolVars, deviceVars
<1>2. c.slave \in Slaves
  BY DEF Calls
<1>3. /\ coembxin' \in [Slaves -> Buffers \cup {NoBuffer}]
      /\ Answers' = Answers \ {coembxin[c.slave]}
      /\ \A r, t \in Slaves :
           coembxin'[r] = coembxin'[t] /\ coembxin'[r] # NoBuffer => r = t
  BY <1>1, <1>2, TakeAnswer
<1>4. mbxIn = NoBuffer
  BY <1>1 DEF BaseInv, Worked
<1>5. mbxIn' \in Buffers \cup {NoBuffer} /\ (mbxIn' # NoBuffer => mbxIn' \in Answers)
  BY <1>1, <1>2 DEF BaseInv, Typed, Answers
<1>6. Held' = Held
  <2>1. Held' = Answers' \cup ({mbxIn'} \ {NoBuffer})
    BY DEF Held, NoBuffer
  <2> QED
    BY <1>1, <1>3, <1>4, <1>5, <2>1 DEF Held, Answers
<1>7. Pool' = Pool /\ Queued' = Queued
  BY <1>1 DEF Pool, Queued
<1>8. Typed'
  BY <1>1, <1>3, <1>5 DEF BaseInv, Typed
<1>9. Apart'
  BY <1>1, <1>3, <1>6, <1>7 DEF BaseInv, Apart
<1>10. Ticketed'
  BY <1>1 DEF BaseInv, Ticketed
<1>11. Worked'
  BY <1>1 DEF Worked
<1> QED
  BY <1>6, <1>8, <1>9, <1>10, <1>11 DEF BaseInv

(* It finds no buffer, and loses the one in its hands.                     *)
LEMMA NoMailboxBase ==
  ASSUME BaseInv, NoMailbox
  PROVE  BaseInv'
<1>1. /\ pc = "get" /\ pc' = "idle" /\ mbxIn' = NoBuffer
      /\ result' = [ok |-> mbxIn # NoBuffer,
                    answer |-> IF mbxIn = NoBuffer THEN EmergencyMessage ELSE content[mbxIn]]
      /\ failed' = (failed \/ ~(mbxIn # NoBuffer))
      /\ UNCHANGED <<free, content, queue, coembxin, rmp, last, inbox, taken, outbox,
                     call, sdop, lost>>
  BY DEF NoMailbox, Return, poolVars, deviceVars
<1>2. result' \in [ok: BOOLEAN, answer: Messages]
  <2>1. EmergencyMessage \in Messages
    BY DEF EmergencyMessage, Messages
  <2> QED
    BY <1>1, <2>1 DEF BaseInv, Typed
<1>3. Typed'
  BY <1>1, <1>2 DEF BaseInv, Typed
<1>4. Pool' = Pool /\ Queued' = Queued /\ Answers' = Answers /\ Held' \subseteq Held
  BY <1>1 DEF Pool, Queued, Answers, Held
<1>5. Apart'
  <2>1. mbxIn' \notin Answers'
    BY <1>1, <1>4 DEF Answers
  <2> QED
    BY <1>1, <1>4, <2>1 DEF BaseInv, Apart
<1>6. Ticketed' /\ Worked'
  BY <1>1 DEF BaseInv, Ticketed, Worked
<1> QED
  BY <1>3, <1>5, <1>6 DEF BaseInv

(* It takes the first free buffer and queues its request.                  *)
LEMMA SendBase ==
  ASSUME BaseInv, Send
  PROVE  /\ BaseInv' /\ Queued' = Queued \cup {sdop'} /\ sdop' \in Pool
         /\ Pool' = Pool \ {sdop'} /\ Len(queue') = Len(queue) + 1
         /\ content' = [content EXCEPT ![sdop'] = Request(call)]
         /\ sdop' \in Buffers /\ call \in Calls
         /\ \A i \in DOMAIN queue' : ~queue'[i].remove => queue'[i].state = "REQ"
<1> DEFINE b == Head(free)
           entry == [slave |-> call.slave, buffer |-> b, state |-> "REQ", remove |-> FALSE]
<1>1. /\ pc = "get" /\ free # <<>> /\ sdop' = b /\ free' = Tail(free) /\ pc' = "send"
      /\ content' = [content EXCEPT ![b] = Request(call)]
      /\ queue' = Append(queue, entry)
      /\ UNCHANGED <<coembxin, rmp, last, inbox, taken, outbox, call, mbxIn, result,
                     failed, lost>>
  BY DEF Send, deviceVars
<1>2. call \in Calls
  BY <1>1 DEF BaseInv, Worked
<1>3. /\ free \in Seq(Buffers) /\ IsInjective(free) /\ queue \in Seq(Entries)
      /\ Len(queue) \in Nat /\ DOMAIN queue = 1..Len(queue)
  BY LenProperties DEF BaseInv, Typed, Apart
<1>4. /\ b \in Buffers /\ b \in Pool /\ b # NoBuffer
      /\ free' \in Seq(Buffers) /\ IsInjective(free') /\ Pool' = Pool \ {b}
  BY <1>1, <1>3, FromPool DEF Pool, Buffers, NoBuffer
<1> HIDE DEF b
<1>5. Request(call) \in Messages
  BY <1>2 DEF Request, Messages
<1>6. entry \in Entries /\ entry.buffer = b /\ entry.slave = call.slave
      /\ entry.state = "REQ" /\ ~entry.remove
  BY <1>2, <1>4 DEF Entries, Calls
<1> HIDE DEF entry
<1>7. /\ queue' \in Seq(Entries) /\ Len(queue') = Len(queue) + 1
      /\ DOMAIN queue' = 1..(Len(queue) + 1)
      /\ \A i \in 1..Len(queue) : queue'[i] = queue[i]
      /\ queue'[Len(queue) + 1] = entry
  BY <1>1, <1>3, <1>6, AppendProperties, LenProperties
<1>8. \A i \in DOMAIN queue' :
        (i \in DOMAIN queue /\ queue'[i] = queue[i]) \/ (i = Len(queue) + 1 /\ queue'[i] = entry)
  BY <1>3, <1>7
<1>9. /\ \A i \in DOMAIN queue : i \in DOMAIN queue' /\ queue'[i] = queue[i]
      /\ Len(queue) + 1 \in DOMAIN queue' /\ Len(queue) + 1 \notin DOMAIN queue
  BY <1>3, <1>7
<1>10. Queued' = Queued \cup {b}
  <2>1. Queued' = {queue'[i].buffer : i \in DOMAIN queue'} \ {NoBuffer}
    BY DEF Queued, NoBuffer
  <2>2. \A x : x \in Queued' <=> x # NoBuffer /\ \E i \in DOMAIN queue' : queue'[i].buffer = x
    BY <2>1
  <2>3. \A x : x \in Queued <=> x # NoBuffer /\ \E i \in DOMAIN queue : queue[i].buffer = x
    BY DEF Queued
  <2>4. ASSUME NEW x \in Queued' PROVE x \in Queued \cup {b}
    BY <1>6, <1>8, <2>2, <2>3
  <2>5. ASSUME NEW x \in Queued PROVE x \in Queued'
    BY <1>9, <2>2, <2>3
  <2>6. b \in Queued'
    BY <1>4, <1>6, <1>7, <1>9, <2>2
  <2> QED
    BY <2>4, <2>5, <2>6
<1>11. Answers' = Answers /\ Held' = Held
  BY <1>1 DEF Answers, Held
<1>12. b \notin Queued /\ b \notin Held
  BY <1>4 DEF BaseInv, Apart
<1>13. Typed'
  BY <1>1, <1>4, <1>5, <1>7 DEF BaseInv, Typed
<1>14. Apart'
  <2>1. \A i \in DOMAIN queue : queue[i].buffer # b
    BY <1>4, <1>12 DEF Queued
  <2>2. ASSUME NEW i \in DOMAIN queue', NEW j \in DOMAIN queue',
               queue'[i].buffer = queue'[j].buffer, queue'[i].buffer # NoBuffer
        PROVE  i = j
    BY <1>6, <1>8, <2>1, <2>2 DEF BaseInv, Apart
  <2> QED
    BY <1>1, <1>4, <1>10, <1>11, <1>12, <2>2 DEF BaseInv, Apart
<1>15. \A i \in DOMAIN queue : queue[i].remove
  BY <1>1 DEF BaseInv, Ticketed
<1>16. content'[sdop'] = Request(call')
  BY <1>1, <1>4 DEF BaseInv, Typed
<1>17. Ticketed'
  <2>1. \A i \in DOMAIN queue' : ~queue'[i].remove => i = Len(queue) + 1 /\ queue'[i] = entry
    BY <1>8, <1>15
  <2>2. \E i \in DOMAIN queue' : ~queue'[i].remove
    BY <1>6, <1>7, <1>9
  <2>3. ASSUME NEW i \in DOMAIN queue'
        PROVE  queue'[i].buffer = NoBuffer <=> queue'[i].state = "DONE"
    BY <1>4, <1>6, <1>8 DEF BaseInv, Ticketed
  <2> QED
    BY <1>1, <1>6, <1>16, <2>1, <2>2, <2>3 DEF Ticketed
<1>18. Worked'
  BY <1>1, <1>2, <1>4 DEF BaseInv, Worked
<1> QED
  BY <1>1, <1>2, <1>4, <1>6, <1>7, <1>8, <1>10, <1>13, <1>14, <1>15, <1>17, <1>18 DEF BaseInv

(* Giving the ticket back marks the entry and moves no buffer.             *)
LEMMA TicketBack ==
  ASSUME BaseInv, pc = "send", GiveTicketBack
  PROVE  /\ Ticket \in DOMAIN queue /\ ~queue[Ticket].remove
         /\ queue' \in Seq(Entries) /\ DOMAIN queue' = DOMAIN queue
         /\ Len(queue') = Len(queue) /\ Queued' = Queued
         /\ \A i \in DOMAIN queue : /\ queue'[i].remove
                                    /\ queue'[i].buffer = queue[i].buffer
                                    /\ queue'[i].state = queue[i].state
<1>1. queue \in Seq(Entries) /\ DOMAIN queue = 1..Len(queue)
  BY LenProperties DEF BaseInv, Typed
<1>2. Ticket \in DOMAIN queue /\ ~queue[Ticket].remove
  BY DEF Ticket, BaseInv, Ticketed
<1> DEFINE t == Ticket
           e == [queue[t] EXCEPT !.remove = TRUE]
<1> HIDE DEF t
<1>3. queue' = [queue EXCEPT ![t] = e] /\ t \in 1..Len(queue)
  BY <1>1, <1>2 DEF GiveTicketBack, t
<1>4. queue[t] \in Entries
  BY <1>1, <1>3, ElementOfSeq
<1>5. /\ e \in Entries /\ e.remove /\ e.buffer = queue[t].buffer
      /\ e.state = queue[t].state
  BY <1>4 DEF Entries
<1> HIDE DEF e
<1>6. /\ queue' \in Seq(Entries) /\ Len(queue') = Len(queue) /\ DOMAIN queue' = DOMAIN queue
      /\ \A i \in DOMAIN queue : queue'[i] = IF i = t THEN e ELSE queue[i]
  BY <1>1, <1>3, <1>5, ExceptSeq
<1>7. ASSUME NEW i \in DOMAIN queue
      PROVE  /\ queue'[i].remove /\ queue'[i].buffer = queue[i].buffer
             /\ queue'[i].state = queue[i].state
  BY <1>2, <1>5, <1>6 DEF BaseInv, Ticketed, t
<1>8. Queued' = Queued
  BY <1>6, <1>7 DEF Queued, NoBuffer
<1> QED
  BY <1>2, <1>6, <1>7, <1>8

(* The ticket is given back and what mbxIn held goes to the pool.          *)
LEMMA GiveBackBase ==
  ASSUME BaseInv, pc = "send", GiveTicketBack, pc' \in {"idle", "receive"},
         mbxIn' = NoBuffer, free' = free \o Dropped(mbxIn),
         result' \in [ok: BOOLEAN, answer: Messages], failed' \in BOOLEAN,
         UNCHANGED <<content, coembxin, rmp, last, deviceVars, call, sdop, lost>>
  PROVE  /\ BaseInv' /\ Pool' = Pool \cup ({mbxIn} \ {NoBuffer}) /\ Held' = Answers
         /\ \A i \in DOMAIN free : i \in DOMAIN free' /\ free'[i] = free[i]
<1>0. UNCHANGED <<inbox, taken, outbox>>
  BY DEF deviceVars
<1>1. /\ queue' \in Seq(Entries) /\ DOMAIN queue' = DOMAIN queue /\ Queued' = Queued
      /\ \A i \in DOMAIN queue : /\ queue'[i].remove
                                 /\ queue'[i].buffer = queue[i].buffer
                                 /\ queue'[i].state = queue[i].state
  BY TicketBack
<1>2. /\ free \in Seq(Buffers) /\ IsInjective(free) /\ mbxIn \in Buffers \cup {NoBuffer}
      /\ mbxIn \notin Range(free)
  <2>1. ASSUME mbxIn \in Range(free) PROVE FALSE
    <3>0. free \in Seq(Buffers)
      BY DEF BaseInv, Typed
    <3>1. mbxIn \in Buffers /\ mbxIn # NoBuffer
      <4>1. Range(free) \subseteq Buffers
        BY <3>0, RangeOfSeq
      <4> QED
        BY <2>1, <4>1 DEF Buffers, NoBuffer
    <3> QED
      BY <2>1, <3>1 DEF BaseInv, Apart, Held, Pool
  <2> QED
    BY <2>1 DEF BaseInv, Typed, Apart
<1>3. /\ free' \in Seq(Buffers) /\ IsInjective(free')
      /\ Range(free') = Pool \cup ({mbxIn} \ {NoBuffer})
      /\ \A i \in DOMAIN free : i \in DOMAIN free' /\ free'[i] = free[i]
  BY <1>2, DropToPool DEF Pool
<1>4. Pool' = Pool \cup ({mbxIn} \ {NoBuffer})
  BY <1>3 DEF Pool
<1>5. Answers' = Answers /\ Held' = Answers
  BY DEF Answers, Held
<1>6. Typed'
  BY <1>0, <1>1, <1>3 DEF BaseInv, Typed
<1>7. mbxIn' \notin Answers'
  BY <1>5 DEF Answers
<1>8. ({mbxIn} \ {NoBuffer}) \cap Answers = {} /\ ({mbxIn} \ {NoBuffer}) \cap Queued = {}
  BY DEF BaseInv, Apart, Held
<1>9. Apart'
  <2>1. Pool' \cap Queued' = {} /\ Pool' \cap Held' = {} /\ Queued' \cap Held' = {}
    BY <1>1, <1>4, <1>5, <1>8 DEF BaseInv, Apart, Held
  <2> QED
    BY <1>1, <1>3, <1>7, <2>1 DEF BaseInv, Apart
<1>10. Ticketed'
  <2>1. pc' # "send" /\ \A i \in DOMAIN queue' : queue'[i].remove
    BY <1>1
  <2>2. \A i \in DOMAIN queue' :
          queue'[i].buffer = NoBuffer <=> queue'[i].state = "DONE"
    BY <1>1 DEF BaseInv, Ticketed
  <2> QED
    BY <2>1, <2>2 DEF Ticketed
<1>11. Worked'
  BY DEF BaseInv, Worked
<1> QED
  BY <1>3, <1>4, <1>5, <1>6, <1>9, <1>10, <1>11 DEF BaseInv

(* It gives its ticket back, the request written or not.                   *)
LEMMA SendEndsBase ==
  ASSUME BaseInv, SendDone \/ SendExpires
  PROVE  /\ BaseInv' /\ Pool' = Pool \cup ({mbxIn} \ {NoBuffer}) /\ Held' = Answers
         /\ Queued' = Queued /\ Len(queue') = Len(queue)
         /\ \A i \in DOMAIN free : i \in DOMAIN free' /\ free'[i] = free[i]
<1>1. EmergencyMessage \in Messages /\ result \in [ok: BOOLEAN, answer: Messages]
      /\ failed \in BOOLEAN
  BY DEF EmergencyMessage, Messages, BaseInv, Typed
<1>2. /\ pc = "send" /\ GiveTicketBack /\ pc' \in {"idle", "receive"}
      /\ mbxIn' = NoBuffer /\ free' = free \o Dropped(mbxIn)
      /\ result' \in [ok: BOOLEAN, answer: Messages] /\ failed' \in BOOLEAN
      /\ UNCHANGED <<content, coembxin, rmp, last, deviceVars, call, sdop, lost>>
  <2>1. CASE SendDone
    BY <1>1, <2>1 DEF SendDone
  <2>2. CASE SendExpires
    BY <1>1, <2>2 DEF SendExpires, Return
  <2> QED
    BY <2>1, <2>2
<1> QED
  BY <1>2, GiveBackBase, TicketBack

(* It takes the answer out of its place.                                   *)
LEMMA ReceiveBase ==
  ASSUME BaseInv, Receive
  PROVE  BaseInv' /\ Held' = Held
<1>1. /\ pc = "receive" /\ coembxin[call.slave] # NoBuffer
      /\ mbxIn' = coembxin[call.slave] /\ pc' = "compare"
      /\ coembxin' = [coembxin EXCEPT ![call.slave] = NoBuffer]
      /\ UNCHANGED <<free, content, queue, rmp, last, inbox, taken, outbox, call, sdop,
                     result, failed, lost>>
  BY DEF Receive, poolVars, deviceVars
<1>2. call.slave \in Slaves /\ mbxIn = NoBuffer
  BY <1>1 DEF Calls, BaseInv, Worked
<1>3. /\ coembxin' \in [Slaves -> Buffers \cup {NoBuffer}]
      /\ Answers' = Answers \ {coembxin[call.slave]}
      /\ \A r, t \in Slaves :
           coembxin'[r] = coembxin'[t] /\ coembxin'[r] # NoBuffer => r = t
  BY <1>1, <1>2, TakeAnswer
<1>4. mbxIn' \in Buffers \cup {NoBuffer} /\ mbxIn' \in Answers
  BY <1>1, <1>2 DEF BaseInv, Typed, Answers
<1>5. Held' = Held
  <2>1. Held' = Answers' \cup ({mbxIn'} \ {NoBuffer})
    BY DEF Held, NoBuffer
  <2> QED
    BY <1>1, <1>2, <1>3, <1>4, <2>1 DEF Held
<1>6. Pool' = Pool /\ Queued' = Queued
  BY <1>1 DEF Pool, Queued
<1>7. Typed'
  BY <1>1, <1>3, <1>4 DEF BaseInv, Typed
<1>8. Apart'
  BY <1>1, <1>3, <1>5, <1>6 DEF BaseInv, Apart
<1>9. Ticketed' /\ Worked'
  BY <1>1 DEF BaseInv, Ticketed, Worked
<1> QED
  BY <1>5, <1>7, <1>8, <1>9 DEF BaseInv

(* It has waited long enough.                                              *)
LEMMA ReceiveExpiresBase ==
  ASSUME BaseInv, ReceiveExpires
  PROVE  BaseInv' /\ Held' = Held
<1>1. /\ pc = "receive" /\ pc' = "idle" /\ mbxIn' = NoBuffer /\ failed' = (failed \/ ~FALSE)
      /\ result' = [ok |-> FALSE, answer |-> EmergencyMessage]
      /\ UNCHANGED <<free, content, queue, coembxin, rmp, last, inbox, taken, outbox,
                     call, sdop, lost>>
  BY DEF ReceiveExpires, Return, poolVars, deviceVars
<1>2. EmergencyMessage \in Messages
  BY DEF EmergencyMessage, Messages
<1>3. Typed'
  BY <1>1, <1>2 DEF BaseInv, Typed
<1>4. mbxIn = NoBuffer
  BY <1>1 DEF BaseInv, Worked
<1>5. Pool' = Pool /\ Queued' = Queued /\ Answers' = Answers /\ Held' = Held
  BY <1>1, <1>4 DEF Pool, Queued, Answers, Held
<1>6. Apart'
  BY <1>1, <1>4, <1>5 DEF BaseInv, Apart
<1>7. Ticketed' /\ Worked'
  BY <1>1 DEF BaseInv, Ticketed, Worked
<1> QED
  BY <1>3, <1>5, <1>6, <1>7 DEF BaseInv

(* It compares the answer and gives the buffer back.                       *)
LEMMA CompareBase ==
  ASSUME BaseInv, Compare
  PROVE  /\ BaseInv' /\ Held' = Answers /\ mbxIn \in Buffers
         /\ Pool' = Pool \cup {mbxIn} /\ mbxIn \in Held /\ mbxIn \notin Answers
<1>1. /\ pc = "compare" /\ pc' = "idle" /\ mbxIn' = NoBuffer
      /\ failed' = (failed \/ ~Matches)
      /\ result' = [ok |-> Matches, answer |-> content[mbxIn]]
      /\ free' = Append(free, mbxIn)
      /\ UNCHANGED <<content, queue, coembxin, rmp, last, inbox, taken, outbox,
                     call, sdop, lost>>
  BY DEF Compare, Return, deviceVars
<1>2. mbxIn \in Buffers /\ mbxIn # NoBuffer /\ mbxIn \in Held /\ mbxIn \notin Answers
  BY <1>1 DEF BaseInv, Typed, Worked, Held, Apart
<1>3. Matches \in BOOLEAN
  BY DEF Matches
<1>4. result' \in [ok: BOOLEAN, answer: Messages] /\ failed' \in BOOLEAN
  BY <1>1, <1>2, <1>3 DEF BaseInv, Typed
<1>5. free' \in Seq(Buffers) /\ IsInjective(free') /\ Pool' = Pool \cup {mbxIn}
  <2>1. free \in Seq(Buffers) /\ IsInjective(free) /\ mbxIn \notin Range(free)
    BY <1>2 DEF BaseInv, Typed, Apart, Pool
  <2> QED
    BY <1>1, <1>2, <2>1, ToPool DEF Pool
<1>6. Queued' = Queued /\ Answers' = Answers /\ Held' = Answers
  BY <1>1 DEF Queued, Answers, Held
<1>7. Typed'
  BY <1>1, <1>4, <1>5 DEF BaseInv, Typed
<1>8. Apart'
  <2>1. mbxIn' \notin Answers'
    BY <1>1, <1>6 DEF Answers
  <2>2. mbxIn \notin Queued
    BY <1>2 DEF BaseInv, Apart
  <2> QED
    BY <1>1, <1>2, <1>5, <1>6, <2>1, <2>2 DEF BaseInv, Apart, Held
<1>9. Ticketed' /\ Worked'
  BY <1>1 DEF BaseInv, Ticketed, Worked
<1> QED
  BY <1>2, <1>5, <1>6, <1>7, <1>8, <1>9 DEF BaseInv

(* A finite set of numbers that is not empty has a least one.              *)
LEMMA Smallest ==
  ASSUME NEW K, K # {}, K \subseteq Nat, IsFiniteSet(K)
  PROVE  \E k \in K : \A l \in K : k <= l
<1> DEFINE n == Cardinality(K)
<1>1. /\ n \in Nat /\ InOrder(K) \in [1..n -> K]
      /\ \A i, j \in 1..n : i < j => InOrder(K)[i] < InOrder(K)[j]
      /\ \A k \in K : \E i \in 1..n : InOrder(K)[i] = k
  BY OrderOf
<1>2. 1 \in 1..n /\ InOrder(K)[1] \in K
  <2>1. PICK k \in K : TRUE
    OBVIOUS
  <2>2. PICK i \in 1..n : InOrder(K)[i] = k
    BY <1>1
  <2>3. 1 \in 1..n
    BY <1>1, <2>2
  <2> QED
    BY <1>1, <2>3
<1> HIDE DEF n
<1>3. ASSUME NEW l \in K PROVE InOrder(K)[1] <= l
  <2>1. PICK i \in 1..n : InOrder(K)[i] = l
    BY <1>1
  <2>2. InOrder(K)[1] \in Nat /\ l \in Nat
    BY <1>2
  <2>3. CASE i = 1
    BY <2>1, <2>2, <2>3
  <2>4. CASE i # 1
    <3>1. 1 < i
      BY <1>1, <2>4
    <3>2. InOrder(K)[1] < InOrder(K)[i]
      BY <1>1, <1>2, <3>1
    <3> QED
      BY <2>1, <2>2, <3>2
  <2> QED
    BY <2>3, <2>4
<1> QED
  BY <1>2, <1>3

(* The turn is one of those that are waiting.                              *)
LEMMA TurnOf ==
  ASSUME MailboxAssumption, BaseInv, Incoming # {}
  PROVE  NextInTurn \in Incoming
<1> DEFINE Distance(s) == (s + N - last - 1) % N
           K == {Distance(s) : s \in Incoming}
<1>1. N \in Nat /\ N > 0 /\ last \in 1..N /\ \A s \in Incoming : s \in 1..N
  BY DEF MailboxAssumption, BaseInv, Typed, Incoming, Slaves
<1>2. ASSUME NEW s \in Incoming PROVE Distance(s) \in 0..(N - 1)
  <2> DEFINE a == s + N - last - 1
  <2>1. a \in Int
    BY <1>1
  <2> HIDE DEF a
  <2>2. a % N \in 0..(N - 1)
    BY <1>1, <2>1
  <2> QED
    BY <2>2 DEF a
<1>3. K # {} /\ K \subseteq Nat /\ IsFiniteSet(K)
  <2>1. K \in SUBSET (0..(N - 1))
    BY <1>2
  <2>2. IsFiniteSet(0..(N - 1))
    BY <1>1, FS_Interval
  <2>3. 0..(N - 1) \subseteq Nat
    BY <1>1
  <2> QED
    <3>1. K # {}
      OBVIOUS
    <3> HIDE DEF K
    <3>2. IsFiniteSet(K)
      BY <2>1, <2>2, FS_Subset
    <3> QED
      BY <2>1, <2>3, <3>1, <3>2
<1>4. PICK k \in K : \A l \in K : k <= l
  <2> HIDE DEF K
  <2> QED
    BY <1>3, Smallest
<1>5. PICK s \in Incoming : k = Distance(s)
  BY <1>4
<1>6. \A t \in Incoming : Distance(t) \in K
  OBVIOUS
<1> HIDE DEF K
<1>7. \A t \in Incoming : Distance(s) <= Distance(t)
  BY <1>4, <1>5, <1>6
<1> HIDE DEF Distance
<1>8. NextInTurn = CHOOSE r \in Incoming : \A t \in Incoming : Distance(r) <= Distance(t)
  BY DEF NextInTurn, Distance
<1> QED
  BY <1>7, <1>8

(* The handler reads: a buffer is taken from the pool and put back, or     *)
(* kept for the worker.                                                    *)
LEMMA RepeatBase ==
  ASSUME MailboxAssumption, BaseInv, NEW s \in Slaves, Repeat(s), last' \in Slaves,
         UNCHANGED <<queue, workerVars>>
  PROVE  BaseInv' /\ lost <= lost' /\ lost' <= MaxLost
<1>1. UNCHANGED <<free, content, queue, coembxin, inbox, taken, outbox,
                  pc, call, sdop, mbxIn, result, failed>>
  BY DEF Repeat, poolVars, deviceVars, workerVars
<1>2. rmp \in [Slaves -> 0..3] /\ lost \in 0..MaxLost
  BY DEF BaseInv, Typed
<1>3. rmp' \in [Slaves -> 0..3]
  <2>1. CASE rmp' = [rmp EXCEPT ![s] = (@ + 1) % 4]
    <3>1. rmp[s] \in 0..3
      BY <1>2
    <3>2. (rmp[s] + 1) % 4 \in 0..3
      BY <3>1
    <3> QED
      BY <1>2, <2>1, <3>2
  <2>2. CASE rmp' = rmp
    BY <1>2, <2>2
  <2> QED
    BY <2>1, <2>2 DEF Repeat
<1>4. lost' \in 0..MaxLost /\ lost <= lost'
  BY <1>2 DEF Repeat, Lose, MailboxAssumption
<1>5. Typed'
  BY <1>1, <1>3, <1>4 DEF BaseInv, Typed
<1>6. Pool' = Pool /\ Queued' = Queued /\ Answers' = Answers /\ Held' = Held
  BY <1>1 DEF Pool, Queued, Answers, Held
<1>7. Apart'
  BY <1>1, <1>6 DEF BaseInv, Apart
<1>8. Ticketed' /\ Worked'
  BY <1>1 DEF BaseInv, Ticketed, Worked
<1> QED
  BY <1>2, <1>4, <1>5, <1>7, <1>8 DEF BaseInv

(* The head of the pool goes to its end.                                   *)
LEMMA Rotated ==
  ASSUME NEW f \in Seq(Buffers), IsInjective(f), f # <<>>
  PROVE  LET t == Append(Tail(f), Head(f))
         IN /\ t \in Seq(Buffers) /\ IsInjective(t) /\ Range(t) = Range(f)
            /\ \A i \in DOMAIN f : i # 1 => i - 1 \in DOMAIN t /\ t[i - 1] = f[i]
<1>1. /\ Head(f) \in Buffers /\ Head(f) \in Range(f)
      /\ Tail(f) \in Seq(Buffers) /\ IsInjective(Tail(f))
      /\ Range(Tail(f)) = Range(f) \ {Head(f)}
      /\ \A i \in DOMAIN f : i # 1 => i - 1 \in DOMAIN Tail(f) /\ Tail(f)[i - 1] = f[i]
  BY FromPool
<1> DEFINE h == Head(f)
           r == Tail(f)
           t == Append(r, h)
<1> HIDE DEF h, r
<1>2. h \in Buffers /\ r \in Seq(Buffers) /\ IsInjective(r) /\ h \notin Range(r)
      /\ Range(f) = Range(r) \cup {h}
      /\ \A i \in DOMAIN f : i # 1 => i - 1 \in DOMAIN r /\ r[i - 1] = f[i]
  BY <1>1 DEF h, r
<1>3. /\ t \in Seq(Buffers) /\ IsInjective(t) /\ Range(t) = Range(r) \cup {h}
      /\ \A i \in DOMAIN r : i \in DOMAIN t /\ t[i] = r[i]
  BY <1>2, ToPool
<1> HIDE DEF t
<1>4. \A i \in DOMAIN f : i # 1 => i - 1 \in DOMAIN t /\ t[i - 1] = f[i]
  BY <1>2, <1>3
<1> QED
  BY <1>2, <1>3, <1>4 DEF t, h, r

(* A read that fails puts its buffer at the end of the pool.               *)
LEMMA ReadFailsBase ==
  ASSUME MailboxAssumption, BaseInv, NEW s \in Slaves, ReadFails(s), last' \in Slaves,
         free # <<>>,
         UNCHANGED <<queue, workerVars>>
  PROVE  /\ BaseInv' /\ Pool' = Pool /\ lost' = lost + 1 /\ lost' <= MaxLost
         /\ \A i \in DOMAIN free : i # 1 => i - 1 \in DOMAIN free' /\ free'[i - 1] = free[i]
<1>1. /\ rmp' = [rmp EXCEPT ![s] = 1] /\ free' = Append(Tail(free), Head(free))
      /\ UNCHANGED <<content, queue, coembxin, inbox, taken, outbox,
                     pc, call, sdop, mbxIn, result, failed>>
  BY DEF ReadFails, deviceVars, workerVars
<1>2. /\ rmp \in [Slaves -> 0..3] /\ lost \in 0..MaxLost
      /\ free \in Seq(Buffers) /\ IsInjective(free)
  BY DEF BaseInv, Typed, Apart
<1>3. /\ free' \in Seq(Buffers) /\ IsInjective(free') /\ Pool' = Pool
      /\ \A i \in DOMAIN free : i # 1 => i - 1 \in DOMAIN free' /\ free'[i - 1] = free[i]
  BY <1>1, <1>2, Rotated DEF Pool
<1>4. lost' \in 0..MaxLost /\ lost' = lost + 1 /\ lost' <= MaxLost
  BY <1>2 DEF ReadFails, Lose, MailboxAssumption
<1>5. rmp' \in [Slaves -> 0..3]
  BY <1>1, <1>2
<1>6. Typed'
  BY <1>1, <1>3, <1>4, <1>5 DEF BaseInv, Typed
<1>7. Queued' = Queued /\ Answers' = Answers /\ Held' = Held
  BY <1>1 DEF Queued, Answers, Held
<1>8. Apart'
  BY <1>1, <1>3, <1>7 DEF BaseInv, Apart
<1>9. Ticketed' /\ Worked'
  BY <1>1 DEF BaseInv, Ticketed, Worked
<1> QED
  BY <1>3, <1>4, <1>6, <1>8, <1>9 DEF BaseInv

(* What is read is kept if it is an answer and its place is empty.         *)
LEMMA ReadBase ==
  ASSUME BaseInv, NEW s \in Slaves, Read(s), last' \in Slaves, free # <<>>,
         outbox[s] # <<>>, UNCHANGED <<queue, workerVars>>
  PROVE  /\ BaseInv' /\ Head(free) \in Pool /\ Head(free) = free[1] /\ Head(free) \in Buffers
         /\ content' = [content EXCEPT ![Head(free)] = Head(outbox[s])]
         /\ outbox' = [outbox EXCEPT ![s] = Tail(@)]
         /\ \A i \in DOMAIN free : i # 1 => i - 1 \in DOMAIN free' /\ free'[i - 1] = free[i]
         /\ \/ Held' = Held \cup {Head(free)} /\ Pool' = Pool \ {Head(free)}
               /\ Head(outbox[s]).type = "answer"
            \/ Held' = Held /\ Pool' = Pool
<1> DEFINE b == Head(free)
           message == Head(outbox[s])
<1>1. /\ content' = [content EXCEPT ![b] = message]
      /\ outbox' = [outbox EXCEPT ![s] = Tail(@)]
      /\ IF message.type = "answer" /\ coembxin[s] = NoBuffer
         THEN coembxin' = [coembxin EXCEPT ![s] = b] /\ free' = Tail(free)
         ELSE UNCHANGED coembxin /\ free' = Append(Tail(free), b)
      /\ UNCHANGED <<rmp, lost, inbox, taken, queue, pc, call, sdop, mbxIn, result, failed>>
  BY DEF Read, workerVars
<1>2. /\ free \in Seq(Buffers) /\ IsInjective(free) /\ content \in [Buffers -> Messages]
      /\ outbox \in [Slaves -> Seq(Messages)]
      /\ coembxin \in [Slaves -> Buffers \cup {NoBuffer}]
  BY DEF BaseInv, Typed, Apart
<1>3. /\ b \in Buffers /\ b \in Pool /\ b = free[1]
      /\ Tail(free) \in Seq(Buffers) /\ IsInjective(Tail(free))
      /\ Range(Tail(free)) = Pool \ {b}
      /\ \A i \in DOMAIN free : i # 1 => i - 1 \in DOMAIN Tail(free) /\ Tail(free)[i - 1] = free[i]
  BY <1>2, FromPool DEF Pool
<1>4. message \in Messages /\ outbox' \in [Slaves -> Seq(Messages)]
  <2>1. outbox[s] \in Seq(Messages)
    BY <1>2
  <2>2. Head(outbox[s]) \in Messages /\ Tail(outbox[s]) \in Seq(Messages)
    BY <2>1, HeadTailProperties
  <2> QED
    BY <1>1, <1>2, <2>2
<1> HIDE DEF b, message
<1>5. content' \in [Buffers -> Messages] /\ \A x \in Buffers : x # b => content'[x] = content[x]
  BY <1>1, <1>2, <1>3, <1>4
<1>6. b \notin Queued /\ b \notin Held /\ b \notin Answers
  BY <1>3 DEF BaseInv, Apart, Held
<1>7. /\ coembxin' \in [Slaves -> Buffers \cup {NoBuffer}]
      /\ free' \in Seq(Buffers) /\ IsInjective(free')
      /\ \A i \in DOMAIN free : i # 1 => i - 1 \in DOMAIN free' /\ free'[i - 1] = free[i]
      /\ \A r, t \in Slaves : coembxin'[r] = coembxin'[t] /\ coembxin'[r] # NoBuffer => r = t
      /\ mbxIn' \notin Answers'
      /\ \/ Held' = Held \cup {b} /\ Pool' = Pool \ {b} /\ message.type = "answer"
         \/ Held' = Held /\ Pool' = Pool
  <2>0. mbxIn \notin Answers /\ mbxIn' = mbxIn /\ (mbxIn # NoBuffer => mbxIn \in Held)
    BY <1>1 DEF BaseInv, Apart, Held
  <2>1. CASE message.type = "answer" /\ coembxin[s] = NoBuffer
    <3>1. coembxin' = [coembxin EXCEPT ![s] = b] /\ free' = Tail(free)
      BY <1>1, <2>1
    <3>2. /\ coembxin' \in [Slaves -> Buffers \cup {NoBuffer}]
          /\ Answers' = Answers \cup {b}
          /\ \A r, t \in Slaves :
               coembxin'[r] = coembxin'[t] /\ coembxin'[r] # NoBuffer => r = t
      BY <1>3, <1>6, <2>1, <3>1, PutAnswer
    <3>3. Held' = Held \cup {b}
      <4>1. Held' = Answers' \cup ({mbxIn'} \ {NoBuffer})
        BY DEF Held, NoBuffer
      <4> QED
        BY <2>0, <3>2, <4>1 DEF Held
    <3>4. mbxIn # b
      BY <1>3, <1>6, <2>0 DEF Buffers, NoBuffer
    <3> QED
      BY <1>3, <2>0, <2>1, <3>1, <3>2, <3>3, <3>4 DEF Pool
  <2>2. CASE ~(message.type = "answer" /\ coembxin[s] = NoBuffer)
    <3>1. coembxin' = coembxin /\ free' = Append(Tail(free), Head(free))
      BY <1>1, <2>2 DEF b
    <3>2. /\ free' \in Seq(Buffers) /\ IsInjective(free') /\ Range(free') = Range(free)
          /\ \A i \in DOMAIN free : i # 1 => i - 1 \in DOMAIN free' /\ free'[i - 1] = free[i]
      BY <1>2, <3>1, Rotated
    <3>3. Answers' = Answers /\ Held' = Held
      BY <2>0, <3>1 DEF Answers, Held
    <3> QED
      BY <1>2, <2>0, <3>1, <3>2, <3>3 DEF BaseInv, Apart, Pool
  <2> QED
    BY <2>1, <2>2
<1>8. Typed'
  BY <1>1, <1>4, <1>5, <1>7 DEF BaseInv, Typed
<1>9. Queued' = Queued
  BY <1>1 DEF Queued
<1>10. Apart'
  <2>1. Pool' \cap Queued' = {} /\ Pool' \cap Held' = {} /\ Queued' \cap Held' = {}
    BY <1>6, <1>7, <1>9 DEF BaseInv, Apart
  <2> QED
    BY <1>1, <1>7, <2>1 DEF BaseInv, Apart
<1>11. ASSUME NEW i \in DOMAIN queue, ~queue[i].remove, queue[i].state # "DONE"
       PROVE  content'[sdop] = Request(call)
  <2>1. queue[i].buffer = sdop /\ content[sdop] = Request(call) /\ queue[i].buffer # NoBuffer
    BY <1>11 DEF BaseInv, Ticketed
  <2>2. sdop \in Queued /\ pc = "send"
    BY <1>11, <2>1 DEF Queued, BaseInv, Ticketed
  <2>3. sdop \in Buffers /\ sdop # b
    BY <1>6, <2>2 DEF BaseInv, Worked
  <2> QED
    BY <1>5, <2>1, <2>3
<1>12. Ticketed' /\ Worked'
  BY <1>1, <1>11 DEF BaseInv, Ticketed, Worked
<1> QED
  BY <1>1, <1>3, <1>7, <1>8, <1>10, <1>12 DEF BaseInv, b, message

(* The handler writes, or only tidies the queue.                           *)
LEMMA TurnedBase ==
  ASSUME BaseInv, NEW g, NEW p, NEW ok \in BOOLEAN, Turned(g, p, ok),
         p = 0 => ~ok, p # 0 => p \in DOMAIN queue /\ ~queue[p].remove
                               /\ queue[p].state # "DONE",
         inbox' \in [Slaves -> Seq(Calls)], taken' \in [Slaves -> 0..MaxCalls],
         lost' \in 0..MaxLost,
         UNCHANGED <<content, coembxin, rmp, last, outbox, workerVars>>
  PROVE  /\ BaseInv' /\ Queued' \subseteq Queued /\ Pool' = Pool \cup (Queued \ Queued')
         /\ Held' = Held /\ (ok => sdop \notin Queued')
<1>1. UNCHANGED <<content, coembxin, rmp, last, outbox, pc, call, sdop, mbxIn, result, failed>>
  BY DEF workerVars
<1>2. /\ queue \in Seq(Entries) /\ DOMAIN queue = 1..Len(queue)
      /\ queue' \in Seq(Entries) /\ DOMAIN queue' = 1..Len(queue')
      /\ \A i \in DOMAIN queue : queue[i] \in Entries
  BY LenProperties, ElementOfSeq DEF BaseInv, Typed, Turned
<1>3. ASSUME NEW j \in DOMAIN queue'
      PROVE  /\ g[j] \in DOMAIN queue
             /\ queue'[j].slave = queue[g[j]].slave
             /\ queue'[j].remove = queue[g[j]].remove
             /\ queue'[j].state = IF g[j] # p THEN queue[g[j]].state
                                  ELSE IF ok THEN "DONE" ELSE "FAIL"
             /\ queue'[j].buffer = IF g[j] = p /\ ok THEN NoBuffer ELSE queue[g[j]].buffer
  <2>1. g[j] \in DOMAIN queue
    BY <1>2 DEF Turned
  <2>2. queue[g[j]] \in Entries
    BY <1>2, <2>1
  <2>3. CASE g[j] # p
    BY <1>2, <2>1, <2>3 DEF Turned
  <2>4. CASE g[j] = p
    <3>1. queue'[j] = IF ok THEN [queue[p] EXCEPT !.state = "DONE", !.buffer = NoBuffer]
                      ELSE [queue[p] EXCEPT !.state = "FAIL"]
      BY <1>2, <2>4 DEF Turned
    <3>2. queue[p] \in [slave: Slaves, buffer: Buffers \cup {NoBuffer},
                       state: {"REQ", "FAIL", "DONE"}, remove: BOOLEAN]
      BY <2>2, <2>4 DEF Entries
    <3>3. CASE ok
      BY <2>1, <2>4, <3>1, <3>2, <3>3
    <3>4. CASE ~ok
      BY <2>1, <2>4, <3>1, <3>2, <3>4
    <3> QED
      BY <3>3, <3>4
  <2> QED
    BY <2>1, <2>3, <2>4
<1>4. \A i, j \in DOMAIN queue' : g[i] = g[j] => i = j
  BY <1>2 DEF Turned, IsInjective
<1>5. p # 0 => queue[p].buffer = sdop /\ sdop # NoBuffer /\ content[sdop] = Request(call)
  BY DEF BaseInv, Ticketed
<1>6. p # 0 => \E j \in DOMAIN queue' : g[j] = p
  BY <1>2 DEF Turned
<1>7. \A b : b \in Queued <=> b # NoBuffer /\ \E i \in DOMAIN queue : queue[i].buffer = b
  BY DEF Queued
<1>8. \A b : b \in Queued' <=> b # NoBuffer /\ \E j \in DOMAIN queue' : queue'[j].buffer = b
  BY DEF Queued, NoBuffer
<1>9. \A i, j \in DOMAIN queue :
        queue[i].buffer = queue[j].buffer /\ queue[i].buffer # NoBuffer => i = j
  BY DEF BaseInv, Apart
<1>10. ASSUME NEW b \in Queued
       PROVE  \/ b \in Queued'
              \/ \E i \in DOMAIN queue :
                    queue[i].buffer = b /\ \A j \in DOMAIN queue' : g[j] # i
              \/ ok /\ b = queue[p].buffer
  BY <1>3, <1>7, <1>8
<1>11. Queued' \subseteq Queued
  BY <1>3, <1>7, <1>8
<1>12. ASSUME NEW i \in DOMAIN queue, queue[i].buffer # NoBuffer,
              \A j \in DOMAIN queue' : g[j] # i
       PROVE  queue[i].buffer \in Queued \ Queued'
  <2>1. ASSUME NEW j \in DOMAIN queue', queue'[j].buffer = queue[i].buffer PROVE FALSE
    <3>1. g[j] \in DOMAIN queue /\ g[j] # i /\ queue[g[j]].buffer = queue[i].buffer
      BY <1>3, <1>12, <2>1
    <3> QED
      BY <1>9, <1>12, <3>1
  <2> QED
    BY <1>7, <1>8, <1>12, <2>1
<1>13. ok => queue[p].buffer = sdop /\ sdop \in Queued /\ sdop \notin Queued'
  <2>1. ASSUME ok PROVE p \in DOMAIN queue /\ queue[p].buffer = sdop /\ sdop \in Queued
    BY <1>5, <1>7, <2>1
  <2>2. ASSUME ok, NEW j \in DOMAIN queue', queue'[j].buffer = sdop PROVE FALSE
    <3>1. sdop # NoBuffer /\ queue[p].buffer = sdop /\ p \in DOMAIN queue
      BY <1>5, <2>1, <2>2
    <3>2. g[j] # p /\ g[j] \in DOMAIN queue /\ queue[g[j]].buffer = sdop
      BY <1>3, <2>2, <3>1
    <3> QED
      BY <1>9, <3>1, <3>2
  <2> QED
    BY <1>8, <2>1, <2>2
<1>14. Pool' = Pool \cup (Queued \ Queued')
  <2>1. \A b : b \in Pool' <=>
          \/ b \in Pool
          \/ b # NoBuffer /\ \E i \in DOMAIN queue :
                queue[i].buffer = b /\ \A j \in DOMAIN queue' : g[j] # i
          \/ ok /\ b = queue[p].buffer
    BY <1>2 DEF Turned
  <2>2. ASSUME NEW b \in Pool', b \notin Pool PROVE b \in Queued \ Queued'
    BY <1>12, <1>13, <2>1, <2>2
  <2>3. ASSUME NEW b \in Queued \ Queued' PROVE b \in Pool'
    <3>1. b # NoBuffer
      BY <1>7
    <3> QED
      BY <1>10, <2>1, <3>1
  <2> QED
    BY <2>1, <2>2, <2>3
<1>15. Answers' = Answers /\ Held' = Held
  BY <1>1 DEF Answers, Held
<1>16. free' \in Seq(Buffers) /\ IsInjective(free')
  BY DEF Turned
<1>17. Typed'
  BY <1>1, <1>2, <1>16 DEF BaseInv, Typed
<1>18. Apart'
  <2>1. ASSUME NEW i \in DOMAIN queue', NEW j \in DOMAIN queue',
               queue'[i].buffer = queue'[j].buffer, queue'[i].buffer # NoBuffer
        PROVE  i = j
    BY <1>3, <1>4, <1>9, <2>1
  <2>2. Pool' \cap Queued' = {} /\ Pool' \cap Held' = {} /\ Queued' \cap Held' = {}
    BY <1>11, <1>14, <1>15 DEF BaseInv, Apart
  <2> QED
    BY <1>1, <1>15, <1>16, <2>1, <2>2 DEF BaseInv, Apart
<1>19. Ticketed'
  <2>1. ASSUME NEW i \in DOMAIN queue', NEW j \in DOMAIN queue',
               ~queue'[i].remove, ~queue'[j].remove
        PROVE  i = j
    BY <1>3, <1>4, <2>1 DEF BaseInv, Ticketed
  <2>2. pc' = "send" <=> \E i \in DOMAIN queue' : ~queue'[i].remove
    <3>1. ASSUME NEW i \in DOMAIN queue, ~queue[i].remove
          PROVE  \E j \in DOMAIN queue' : ~queue'[j].remove
      <4>1. PICK j \in 1..Len(queue') : g[j] = i
        BY <3>1 DEF Turned
      <4> QED
        BY <1>2, <1>3, <3>1, <4>1
    <3> QED
      BY <1>1, <1>3, <3>1 DEF BaseInv, Ticketed
  <2>3. ASSUME NEW i \in DOMAIN queue'
        PROVE  queue'[i].buffer = NoBuffer <=> queue'[i].state = "DONE"
    <3>1. queue[g[i]].buffer = NoBuffer <=> queue[g[i]].state = "DONE"
      BY <1>3 DEF BaseInv, Ticketed
    <3>2. CASE g[i] # p
      BY <1>3, <3>1, <3>2
    <3>3. CASE g[i] = p
      BY <1>2, <1>3, <1>5, <3>3
    <3> QED
      BY <3>2, <3>3
  <2>4. ASSUME NEW i \in DOMAIN queue', ~queue'[i].remove
        PROVE  /\ queue'[i].slave = call'.slave
               /\ queue'[i].state # "DONE" =>
                    queue'[i].buffer = sdop' /\ content'[sdop'] = Request(call')
    <3>1. ~queue[g[i]].remove /\ g[i] \in DOMAIN queue
      BY <1>3, <2>4
    <3>2. /\ queue[g[i]].slave = call.slave
          /\ queue[g[i]].state # "DONE" =>
               queue[g[i]].buffer = sdop /\ content[sdop] = Request(call)
      BY <3>1 DEF BaseInv, Ticketed
    <3>3. Request(call') = Request(call)
      BY <1>1
    <3>4. CASE g[i] # p
      BY <1>1, <1>3, <3>2, <3>3, <3>4
    <3>5. CASE g[i] = p
      BY <1>1, <1>2, <1>3, <1>5, <3>2, <3>3, <3>5
    <3> QED
      BY <3>4, <3>5
  <2> QED
    BY <2>1, <2>2, <2>3, <2>4 DEF Ticketed
<1>20. Worked'
  BY <1>1 DEF BaseInv, Worked
<1> QED
  BY <1>11, <1>13, <1>14, <1>15, <1>17, <1>18, <1>19, <1>20 DEF BaseInv

(* What a datagram with the request of call c does at the drive            *)
LEMMA WriteEffect ==
  ASSUME MailboxAssumption, BaseInv, NEW c \in Calls, NEW ok \in BOOLEAN, WriteMailbox(c, ok)
  PROVE  /\ inbox' \in [Slaves -> Seq(Calls)] /\ taken' \in [Slaves -> 0..MaxCalls]
         /\ lost' \in 0..MaxLost /\ lost <= lost'
         /\ \/ ~ok /\ UNCHANGED <<inbox, taken>>
            \/ taken[c.slave] = c.id /\ UNCHANGED <<inbox, taken>>
            \/ /\ taken[c.slave] # c.id /\ Len(inbox[c.slave]) < 2
               /\ inbox' = [inbox EXCEPT ![c.slave] = Append(@, c)]
               /\ taken' = [taken EXCEPT ![c.slave] = c.id]
<1>1. /\ inbox \in [Slaves -> Seq(Calls)] /\ taken \in [Slaves -> 0..MaxCalls]
      /\ lost \in 0..MaxLost /\ MaxLost \in Nat /\ MaxCalls \in Nat
      /\ c.slave \in Slaves /\ c.id \in 0..MaxCalls
  <2>1. c.slave \in Slaves /\ c.id \in 1..MaxCalls /\ MaxCalls \in Nat
    BY DEF MailboxAssumption, Calls
  <2>2. c.id \in 0..MaxCalls
    BY <2>1
  <2> QED
    BY <2>1, <2>2 DEF BaseInv, Typed, MailboxAssumption
<1>2. lost' \in 0..MaxLost /\ lost <= lost'
  BY <1>1 DEF WriteMailbox, Lose
<1>3. \/ ~ok /\ UNCHANGED <<inbox, taken>>
      \/ taken[c.slave] = c.id /\ UNCHANGED <<inbox, taken>>
      \/ /\ taken[c.slave] # c.id /\ Len(inbox[c.slave]) < 2
         /\ inbox' = [inbox EXCEPT ![c.slave] = Append(@, c)]
         /\ taken' = [taken EXCEPT ![c.slave] = c.id]
  <2>1. CASE inbox[c.slave] # <<>> /\ ~ok /\ UNCHANGED <<inbox, taken, lost>>
    BY <2>1
  <2>2. CASE ~ok /\ Lose /\ UNCHANGED <<inbox, taken>>
    BY <2>2
  <2>3. CASE /\ Len(inbox[c.slave]) < 2
             /\ inbox' = IF taken[c.slave] = c.id THEN inbox
                         ELSE [inbox EXCEPT ![c.slave] = Append(@, c)]
             /\ taken' = [taken EXCEPT ![c.slave] = c.id]
    <3>1. CASE taken[c.slave] = c.id
      <4>1. taken' = taken
        BY <1>1, <2>3, <3>1
      <4> QED
        BY <2>3, <3>1, <4>1
    <3>2. CASE taken[c.slave] # c.id
      BY <2>3, <3>2
    <3> QED
      BY <3>1, <3>2
  <2> QED
    BY <2>1, <2>2, <2>3 DEF WriteMailbox
<1>4. inbox' \in [Slaves -> Seq(Calls)] /\ taken' \in [Slaves -> 0..MaxCalls]
  <2>1. inbox[c.slave] \in Seq(Calls)
    BY <1>1
  <2>2. Append(inbox[c.slave], c) \in Seq(Calls)
    BY <2>1, AppendProperties
  <2> QED
    BY <1>1, <1>3, <2>2
<1> QED
  BY <1>2, <1>3, <1>4

(* What the handler does when nothing comes in, with what it did.          *)
LEMMA OutHandlerBase ==
  ASSUME MailboxAssumption, BaseInv, OutHandler
  PROVE  /\ BaseInv' /\ Queued' \subseteq Queued /\ Pool' = Pool \cup (Queued \ Queued')
         /\ Held' = Held /\ lost <= lost' /\ lost' \in 0..MaxLost
         /\ Len(queue') <= Len(queue)
         /\ UNCHANGED <<content, coembxin, rmp, last, outbox, workerVars>>
         /\ \A i \in DOMAIN free : i \in DOMAIN free' /\ free'[i] = free[i]
         /\ \/ /\ UNCHANGED <<inbox, taken, lost>>
               /\ \A i \in DOMAIN queue : ~Pending(queue[i])
               /\ \A i \in DOMAIN queue' : \E j \in DOMAIN queue : queue'[i] = queue[j]
            \/ \E ok \in BOOLEAN :
                 /\ pc = "send" /\ call \in Calls /\ WriteMailbox(call, ok)
                 /\ content[sdop] = Request(call) /\ sdop \in Buffers
                 /\ \A i \in DOMAIN queue : ~queue[i].remove => queue[i].state # "DONE"
                 /\ ok => /\ sdop \notin Queued' /\ sdop \in Queued
                          /\ Len(free') > 0 /\ free'[Len(free')] = sdop
                 /\ ~ok => \A i \in DOMAIN queue' :
                              ~queue'[i].remove => queue'[i].state # "DONE"
<1>0. UNCHANGED <<content, coembxin, rmp, last, outbox, workerVars>>
  BY DEF OutHandler
<1>1. /\ inbox \in [Slaves -> Seq(Calls)] /\ taken \in [Slaves -> 0..MaxCalls]
      /\ lost \in 0..MaxLost
  BY DEF BaseInv, Typed
<1>2. CASE Tidy
  <2>1. PICK g : Turned(g, 0, FALSE)
    BY <1>2, TidyTurns
  <2>2. UNCHANGED <<inbox, taken, lost>>
    BY <1>2 DEF Tidy
  <2>3. /\ BaseInv' /\ Queued' \subseteq Queued /\ Pool' = Pool \cup (Queued \ Queued')
        /\ Held' = Held
    BY <1>0, <1>1, <2>1, <2>2, TurnedBase
  <2>4. /\ Len(queue') <= Len(queue)
        /\ \A i \in DOMAIN free : i \in DOMAIN free' /\ free'[i] = free[i]
    BY <2>1 DEF Turned
  <2>5. \A i \in DOMAIN queue' : \E j \in DOMAIN queue : queue'[i] = queue[j]
    <3>1. DOMAIN queue' = 1..Len(queue')
      BY <2>1, LenProperties DEF Turned
    <3>2. \A i \in 1..Len(queue') : g[i] \in DOMAIN queue /\ g[i] # 0
      <4>1. DOMAIN queue = 1..Len(queue)
        BY LenProperties DEF BaseInv, Typed
      <4> QED
        BY <2>1, <4>1 DEF Turned
    <3> QED
      BY <2>1, <3>1, <3>2 DEF Turned
  <2>6. \A i \in DOMAIN queue : ~Pending(queue[i])
    BY <1>2 DEF Tidy
  <2>7. lost <= lost' /\ lost' \in 0..MaxLost
    BY <1>1, <2>2
  <2> QED
    BY <1>0, <2>2, <2>3, <2>4, <2>5, <2>6, <2>7
<1>3. CASE WriteFirst
  <2>1. PICK g, ok : ok \in BOOLEAN /\ Turned(g, FirstPending, ok) /\ WriteMailbox(call, ok)
    BY <1>3, WriteTurns
  <2> DEFINE p == FirstPending
  <2> HIDE DEF p
  <2>2. /\ pc = "send" /\ call \in Calls /\ sdop \in Buffers
        /\ p \in DOMAIN queue /\ ~queue[p].remove /\ queue[p].state # "DONE"
        /\ queue[p].buffer = sdop /\ content[sdop] = Request(call)
        /\ \A i \in DOMAIN queue : i # p => queue[i].remove
    BY <1>3, PendingIsTicket DEF WriteFirst, p
  <2>3. p # 0 /\ DOMAIN queue = 1..Len(queue) /\ queue[p] \in Entries
    BY <2>2, LenProperties, ElementOfSeq DEF BaseInv, Typed
  <2>4. Turned(g, p, ok)
    BY <2>1 DEF p
  <2>5. /\ inbox' \in [Slaves -> Seq(Calls)] /\ taken' \in [Slaves -> 0..MaxCalls]
        /\ lost' \in 0..MaxLost /\ lost <= lost'
    BY <2>1, <2>2, WriteEffect
  <2>6. /\ BaseInv' /\ Queued' \subseteq Queued /\ Pool' = Pool \cup (Queued \ Queued')
        /\ Held' = Held /\ (ok => sdop \notin Queued')
    BY <1>0, <2>1, <2>2, <2>3, <2>4, <2>5, TurnedBase
  <2>7. /\ Len(queue') <= Len(queue)
        /\ \A i \in DOMAIN free : i \in DOMAIN free' /\ free'[i] = free[i]
        /\ ok => Len(free') > 0 /\ free'[Len(free')] = sdop
    BY <2>2, <2>4 DEF Turned
  <2>8. ~ok => \A i \in DOMAIN queue' : ~queue'[i].remove => queue'[i].state # "DONE"
    <3>1. ASSUME ~ok, NEW i \in DOMAIN queue', ~queue'[i].remove
          PROVE  queue'[i].state # "DONE"
      <4>1. i \in 1..Len(queue') /\ g[i] \in DOMAIN queue
        BY <2>4, LenProperties DEF Turned
      <4>2. CASE g[i] # p
        <5>1. queue'[i] = queue[g[i]]
          BY <2>4, <4>1, <4>2 DEF Turned
        <5> QED
          BY <2>2, <3>1, <4>1, <4>2, <5>1
      <4>3. CASE g[i] = p
        <5>1. queue'[i] = [queue[p] EXCEPT !.state = "FAIL"]
          BY <2>4, <3>1, <4>1, <4>3 DEF Turned
        <5> QED
          BY <2>3, <5>1 DEF Entries
      <4> QED
        BY <4>2, <4>3
    <3> QED
      BY <3>1
  <2>9. sdop \in Queued /\ \A i \in DOMAIN queue : ~queue[i].remove => queue[i].state # "DONE"
    BY <2>2 DEF Queued, Buffers, NoBuffer
  <2>10. \E o \in BOOLEAN :
                 /\ pc = "send" /\ call \in Calls /\ WriteMailbox(call, o)
                 /\ content[sdop] = Request(call) /\ sdop \in Buffers
                 /\ \A i \in DOMAIN queue : ~queue[i].remove => queue[i].state # "DONE"
                 /\ o => /\ sdop \notin Queued' /\ sdop \in Queued
                         /\ Len(free') > 0 /\ free'[Len(free')] = sdop
                 /\ ~o => \A i \in DOMAIN queue' :
                              ~queue'[i].remove => queue'[i].state # "DONE"
    <3> ok \in BOOLEAN
      BY <2>1
    <3> WITNESS ok \in BOOLEAN
    <3> QED
      BY <2>1, <2>2, <2>6, <2>7, <2>8, <2>9
  <2> QED
    BY <1>0, <2>5, <2>6, <2>7, <2>10
<1> QED
  BY <1>2, <1>3 DEF OutHandler

(* What the handler does when a drive has its turn.                        *)
LEMMA InHandlerTurn ==
  ASSUME MailboxAssumption, BaseInv, InHandler
  PROVE  \E s \in Slaves :
           /\ last' = s /\ UNCHANGED <<queue, workerVars>>
           /\ \/ Repeat(s)
              \/ ReadFails(s) /\ free # <<>> /\ outbox[s] # <<>>
              \/ Read(s) /\ free # <<>> /\ outbox[s] # <<>>
<1>1. NextInTurn \in Incoming
  BY TurnOf DEF InHandler
<1> DEFINE s == NextInTurn
<1> HIDE DEF s
<1>2. s \in Slaves /\ (rmp[s] > 0 \/ (outbox[s] # <<>> /\ free # <<>>))
  BY <1>1 DEF Incoming, s
<1>3. last' = s /\ UNCHANGED <<queue, workerVars>> /\ (Repeat(s) \/ ReadFails(s) \/ Read(s))
  BY DEF InHandler, s
<1>4. ReadFails(s) \/ Read(s) => rmp[s] = 0
  BY DEF ReadFails, Read
<1> QED
  BY <1>2, <1>3, <1>4

(* A drive answers.                                                        *)
LEMMA ServeBase ==
  ASSUME BaseInv, NEW s \in Slaves, Serve(s)
  PROVE  BaseInv'
<1>1. /\ outbox' = [outbox EXCEPT ![s] = Append(@, Answer(Head(inbox[s])))]
      /\ inbox' = [inbox EXCEPT ![s] = Tail(@)] /\ inbox[s] # <<>>
      /\ UNCHANGED <<free, content, queue, coembxin, rmp, last, taken,
                     pc, call, sdop, mbxIn, result, failed, lost>>
  BY DEF Serve, poolVars, workerVars
<1>2. inbox \in [Slaves -> Seq(Calls)] /\ outbox \in [Slaves -> Seq(Messages)]
  BY DEF BaseInv, Typed
<1>3. Head(inbox[s]) \in Calls /\ Tail(inbox[s]) \in Seq(Calls)
  BY <1>1, <1>2, HeadTailProperties
<1>4. Answer(Head(inbox[s])) \in Messages
  BY <1>3 DEF Answer, Messages
<1>5. Append(outbox[s], Answer(Head(inbox[s]))) \in Seq(Messages)
  BY <1>2, <1>4, AppendProperties
<1>6. Typed'
  BY <1>1, <1>2, <1>3, <1>5 DEF BaseInv, Typed
<1>7. Pool' = Pool /\ Queued' = Queued /\ Answers' = Answers /\ Held' = Held
  BY <1>1 DEF Pool, Queued, Answers, Held
<1>8. Apart'
  BY <1>1, <1>7 DEF BaseInv, Apart
<1>9. Ticketed' /\ Worked'
  BY <1>1 DEF BaseInv, Ticketed, Worked
<1> QED
  BY <1>6, <1>8, <1>9 DEF BaseInv

(* A drive sends an emergency.                                             *)
LEMMA EmergencyBase ==
  ASSUME BaseInv, NEW s \in Slaves, Emergency(s)
  PROVE  BaseInv'
<1>1. /\ outbox' = [outbox EXCEPT ![s] = <<EmergencyMessage>>]
      /\ UNCHANGED <<free, content, queue, coembxin, rmp, last, inbox, taken,
                     pc, call, sdop, mbxIn, result, failed, lost>>
  BY DEF Emergency, poolVars, workerVars
<1>2. outbox \in [Slaves -> Seq(Messages)]
  BY DEF BaseInv, Typed
<1>3. <<EmergencyMessage>> \in Seq(Messages)
  <2>1. EmergencyMessage \in Messages
    BY DEF EmergencyMessage, Messages
  <2> QED
    BY <2>1
<1>4. Typed'
  BY <1>1, <1>2, <1>3 DEF BaseInv, Typed
<1>5. Pool' = Pool /\ Queued' = Queued /\ Answers' = Answers /\ Held' = Held
  BY <1>1 DEF Pool, Queued, Answers, Held
<1>6. Apart'
  BY <1>1, <1>5 DEF BaseInv, Apart
<1>7. Ticketed' /\ Worked'
  BY <1>1 DEF BaseInv, Ticketed, Worked
<1> QED
  BY <1>4, <1>6, <1>7 DEF BaseInv

(* Each step keeps the invariant that needs no bound on the pool.          *)
LEMMA BaseStep == ASSUME MailboxAssumption, BaseInv, [Next]_vars PROVE BaseInv'
<1>1. CASE Worker
  <2>1. ASSUME NEW c \in Calls, Begin(c) PROVE BaseInv'
    BY <2>1, BeginBase
  <2> QED
    BY <1>1, <2>1, NoMailboxBase, SendBase, SendEndsBase, ReceiveBase, ReceiveExpiresBase,
       CompareBase DEF Worker
<1>2. CASE InHandler
  <2>1. PICK s \in Slaves :
          /\ last' = s /\ UNCHANGED <<queue, workerVars>>
          /\ \/ Repeat(s)
             \/ ReadFails(s) /\ free # <<>> /\ outbox[s] # <<>>
             \/ Read(s) /\ free # <<>> /\ outbox[s] # <<>>
    BY <1>2, InHandlerTurn
  <2> QED
    BY <2>1, RepeatBase, ReadFailsBase, ReadBase
<1>3. CASE OutHandler
  BY <1>3, OutHandlerBase
<1>4. ASSUME NEW s \in Slaves, Serve(s) \/ Emergency(s) PROVE BaseInv'
  BY <1>4, ServeBase, EmergencyBase
<1>5. CASE UNCHANGED vars
  <2>1. UNCHANGED <<free, content, queue, coembxin, rmp, last, inbox, taken, outbox,
                    pc, call, sdop, mbxIn, result, failed, lost>>
    BY <1>5 DEF vars, poolVars, deviceVars, workerVars
  <2>2. Pool' = Pool /\ Queued' = Queued /\ Answers' = Answers /\ Held' = Held
    BY <2>1 DEF Pool, Queued, Answers, Held
  <2>3. Typed'
    BY <2>1 DEF BaseInv, Typed
  <2>4. Apart'
    BY <2>1, <2>2 DEF BaseInv, Apart
  <2>5. Ticketed' /\ Worked'
    BY <2>1 DEF BaseInv, Ticketed, Worked
  <2> QED
    BY <2>3, <2>4, <2>5 DEF BaseInv
<1> QED
  BY <1>1, <1>2, <1>3, <1>4, <1>5 DEF Next, Handler

(* Where a value is in a sequence, and that it is there at most once       *)
In(s, b) == \E i \in DOMAIN s : s[i] = b
Once(s, b) == \A i, j \in DOMAIN s : s[i] = b /\ s[j] = b => i = j

(* A value that is once in one of two sequences                            *)
LEMMA OnceJoined ==
  ASSUME NEW S, NEW s \in Seq(S), NEW t \in Seq(S), NEW b,
         Once(s, b), Once(t, b), ~(In(s, b) /\ In(t, b))
  PROVE  /\ s \o t \in Seq(S) /\ Once(s \o t, b)
         /\ In(s \o t, b) <=> In(s, b) \/ In(t, b)
<1> DEFINE u == s \o t
           m == Len(s)
           n == Len(t)
<1>1. /\ m \in Nat /\ n \in Nat /\ DOMAIN s = 1..m /\ DOMAIN t = 1..n
      /\ u \in Seq(S) /\ DOMAIN u = 1..(m + n)
      /\ \A i \in 1..(m + n) : u[i] = IF i <= m THEN s[i] ELSE t[i - m]
  BY LenProperties, ConcatProperties
<1> HIDE DEF u, m, n
<1>0. /\ \A i, j \in 1..m : s[i] = b /\ s[j] = b => i = j
      /\ \A i, j \in 1..n : t[i] = b /\ t[j] = b => i = j
      /\ ~((\E i \in 1..m : s[i] = b) /\ (\E i \in 1..n : t[i] = b))
  BY <1>1 DEF In, Once
<1>2. ASSUME NEW i \in 1..(m + n)
      PROVE  \/ i <= m /\ i \in 1..m /\ u[i] = s[i]
             \/ i > m /\ i - m \in 1..n /\ u[i] = t[i - m]
  BY <1>1
<1>3. \A i \in 1..m : i \in 1..(m + n) /\ u[i] = s[i]
  BY <1>1
<1>4. ASSUME NEW i \in 1..n PROVE m + i \in 1..(m + n) /\ u[m + i] = t[i]
  <2>1. m + i \in 1..(m + n) /\ ~(m + i <= m) /\ (m + i) - m = i
    BY <1>1
  <2> QED
    BY <1>1, <2>1
<1>5. ASSUME NEW i \in 1..(m + n), NEW j \in 1..(m + n), u[i] = b, u[j] = b PROVE i = j
  <2>1. CASE i <= m /\ j <= m
    BY <1>0, <1>1, <1>2, <1>5, <2>1
  <2>2. CASE i > m /\ j > m
    <3>1. i - m \in 1..n /\ j - m \in 1..n /\ t[i - m] = b /\ t[j - m] = b
      BY <1>0, <1>1, <1>2, <1>5, <2>2
    <3>2. i - m = j - m
      BY <1>0, <3>1
    <3> QED
      BY <1>1, <3>2
  <2>3. CASE ~(i <= m /\ j <= m) /\ ~(i > m /\ j > m)
    BY <1>0, <1>1, <1>2, <1>5, <2>3
  <2> QED
    BY <2>1, <2>2, <2>3
<1>6. (\E i \in 1..(m + n) : u[i] = b)
        <=> (\E i \in 1..m : s[i] = b) \/ (\E i \in 1..n : t[i] = b)
  BY <1>2, <1>3, <1>4
<1> QED
  BY <1>1, <1>5, <1>6 DEF u, In, Once

(* A place that holds a buffer is the only one: a buffer is in the pool,   *)
(* in the queue, kept for the worker or in its hands.                      *)
LEMMA OnePlace ==
  ASSUME MailboxAssumption, BaseInv, NEW b \in Buffers
  PROVE  /\ Holders(b) <= 1
         /\ b \in Pool \cup Queued \cup Held => Holders(b) = 1
<1> DEFINE S == Buffers \cup {NoBuffer}
           q == [i \in DOMAIN queue |-> queue[i].buffer]
           a == coembxin
           places == free \o q \o a \o <<mbxIn>>
           Places == {i \in DOMAIN places : places[i] = b}
<1>0. b # NoBuffer /\ Buffers \subseteq S
  BY DEF Buffers, NoBuffer
<1>1. free \in Seq(S) /\ free \in Seq(Buffers) /\ IsInjective(free)
  BY <1>0 DEF BaseInv, Typed, Apart
<1>2. q \in Seq(S) /\ DOMAIN q = DOMAIN queue /\ DOMAIN queue = 1..Len(queue)
  <2>1. queue \in Seq(Entries) /\ DOMAIN queue = 1..Len(queue) /\ Len(queue) \in Nat
    BY DEF BaseInv, Typed
  <2>2. ASSUME NEW i \in DOMAIN queue PROVE queue[i].buffer \in S
    <3>1. queue[i] \in Entries
      BY <2>1
    <3> QED
      BY <3>1 DEF Entries, S
  <2> HIDE DEF S
  <2> QED
    BY <2>1, <2>2
<1>3. a \in Seq(S) /\ DOMAIN a = Slaves
  BY DEF BaseInv, Typed, Slaves, MailboxAssumption
<1>4. <<mbxIn>> \in Seq(S) /\ DOMAIN <<mbxIn>> = {1} /\ <<mbxIn>>[1] = mbxIn
  BY DEF BaseInv, Typed
<1> HIDE DEF S
<1>5. Once(free, b) /\ (In(free, b) <=> b \in Pool)
  BY <1>1 DEF In, Once, IsInjective, Pool, Range
<1>6. Once(q, b) /\ (In(q, b) <=> b \in Queued)
  BY <1>0, <1>2 DEF In, Once, BaseInv, Apart, Queued
<1>7. Once(a, b) /\ (In(a, b) <=> b \in Answers)
  BY <1>0, <1>3 DEF In, Once, BaseInv, Apart, Answers
<1>8. Once(<<mbxIn>>, b) /\ (In(<<mbxIn>>, b) <=> b = mbxIn)
  BY <1>4 DEF In, Once
<1> HIDE DEF q, a
<1>9. ~(b \in Pool /\ b \in Queued) /\ ~(b \in Pool \cup Queued /\ b \in Answers)
        /\ ~(b \in Pool \cup Queued \cup Answers /\ b = mbxIn)
  BY <1>0 DEF BaseInv, Apart, Held
<1>10. /\ free \o q \in Seq(S) /\ Once(free \o q, b)
       /\ In(free \o q, b) <=> b \in Pool \cup Queued
  BY <1>1, <1>2, <1>5, <1>6, <1>9, OnceJoined
<1>11. /\ free \o q \o a \in Seq(S) /\ Once(free \o q \o a, b)
       /\ In(free \o q \o a, b) <=> b \in Pool \cup Queued \cup Answers
  BY <1>3, <1>7, <1>9, <1>10, OnceJoined
<1>12. /\ Once(places, b)
       /\ In(places, b) <=> b \in Pool \cup Queued \cup Answers \/ b = mbxIn
  BY <1>4, <1>8, <1>9, <1>11, OnceJoined
<1>13. Holders(b) = Cardinality(Places)
  BY DEF Holders, q, a
<1> HIDE DEF places
<1>14. CASE Places = {}
  <2>1. ~(b \in Pool \cup Queued \cup Held)
    BY <1>0, <1>12, <1>14 DEF Held, In
  <2>2. Cardinality(Places) = 0
    BY <1>14, FS_EmptySet
  <2> QED
    BY <1>13, <2>1, <2>2
<1>15. ASSUME NEW i \in Places PROVE Cardinality(Places) = 1
  <2>1. Places = {i}
    BY <1>12 DEF Once
  <2> QED
    BY <2>1, FS_Singleton
<1> QED
  BY <1>13, <1>14, <1>15

(* Only the handler that writes the request of the waiting call changes    *)
(* what a drive has taken.                                                 *)
LEMMA WriteStep ==
  ASSUME MailboxAssumption, BaseInv, [Next]_vars, NEW s \in Slaves,
         taken'[s] # taken[s]
  PROVE  pc = "send" /\ s = call.slave /\ taken'[s] = call.id
<1>1. taken \in [Slaves -> 0..MaxCalls]
  BY DEF BaseInv, Typed
<1>2. CASE OutHandler
  <2>1. PICK ok \in BOOLEAN : pc = "send" /\ call \in Calls /\ WriteMailbox(call, ok)
    BY <1>2, OutHandlerBase
  <2>2. taken' = [taken EXCEPT ![call.slave] = call.id]
    BY <2>1, WriteEffect
  <2> QED
    BY <1>1, <2>1, <2>2
<1>3. ASSUME Worker PROVE UNCHANGED taken
  BY <1>3 DEF Worker, Begin, NoMailbox, Send, SendDone, SendExpires, Receive,
              ReceiveExpires, Compare, deviceVars
<1>4. ASSUME InHandler PROVE UNCHANGED taken
  <2>1. PICK r \in Slaves : Repeat(r) \/ ReadFails(r) \/ Read(r)
    BY <1>4, InHandlerTurn
  <2> QED
    BY <2>1 DEF Repeat, ReadFails, Read, deviceVars
<1>5. ASSUME NEW r \in Slaves, Serve(r) \/ Emergency(r) PROVE UNCHANGED taken
  BY <1>5 DEF Serve, Emergency
<1>6. ASSUME UNCHANGED vars PROVE UNCHANGED taken
  BY <1>6 DEF vars, deviceVars
<1> QED
  BY <1>2, <1>3, <1>4, <1>5, <1>6 DEF Next, Handler

----------------------------------------------------------------------------
(* With buffers enough for all, nothing is lost.                           *)

(* What a drive still has of what it took, oldest first: the calls it has  *)
(* answered, then those it works on.                                       *)
LineOf(o, i) == [k \in 1..(Len(o) + Len(i)) |->
                   IF k <= Len(o) THEN o[k].call ELSE i[k - Len(o)]]
Lines == [s \in Slaves |-> LineOf(outbox[s], inbox[s])]

Ids(L) == UNION {{L[s][k].id : k \in DOMAIN L[s]} : s \in Slaves}
Spread(L) == \A s, t \in Slaves : \A i \in DOMAIN L[s], j \in DOMAIN L[t] :
  L[s][i].id = L[t][j].id => s = t /\ i = j
FirstOff(L, s) == [L EXCEPT ![s] = Tail(@)]
LastOn(L, s, c) == [L EXCEPT ![s] = Append(@, c)]
HeldIds == {content[b].call.id : b \in Held}

(* The request of the running call was written.                            *)
Sent == \/ pc \in {"receive", "compare"}
        \/ pc = "send" /\ \A i \in DOMAIN queue :
                            ~queue[i].remove => queue[i].state = "DONE"

(* Each request that was taken is under way once, with a drive or as an    *)
(* answer, and no later than the running call.                             *)
Traced ==
  /\ \A s \in Slaves : Len(inbox[s]) <= 2 /\ Len(outbox[s]) <= 2
  /\ \A s \in Slaves : \A k \in DOMAIN outbox[s] :
       outbox[s][k].type = "answer" /\ outbox[s][k].call \in Calls
  /\ \A b \in Held : content[b].type = "answer" /\ content[b].call \in Calls
  /\ Spread(Lines)
  /\ \A b, d \in Held : content[b].call.id = content[d].call.id => b = d
  /\ Ids(Lines) \cap HeldIds = {}
  /\ \A id \in Ids(Lines) \cup HeldIds :
       id <= call.id /\ (id = call.id => taken[call.slave] = call.id)
  /\ \A s \in Slaves : taken[s] <= call.id
  /\ Sent => taken[call.slave] = call.id

(* Every buffer is somewhere, and no call has queued more than one.        *)
Counted ==
  /\ Pool \cup Queued \cup Held = Buffers
  /\ Len(queue) <= call.id
  /\ pc = "get" => Len(queue) < call.id

(* Before the buffer of the request is used again, all that is still to    *)
(* come is read, and all reads that can fail have failed.                  *)
Asked ==
  Sent => /\ content[sdop] = Request(call)
          /\ \E p \in DOMAIN free :
               free[p] = sdop /\ p > Cardinality(Ids(Lines)) + (MaxLost - lost)

(* As long as no call failed there is nothing but the running call.        *)
Own == ~failed =>
  /\ \A s \in Slaves : \A k \in DOMAIN Lines[s] : Lines[s][k] = call
  /\ \A b \in Held : content[b].call = call
  /\ pc \in {"idle", "get"} => Ids(Lines) = {} /\ Held = {}
  /\ pc = "idle" /\ call # NoCall => result.answer = Answer(call)

AmpleInv == BaseInv /\ Traced /\ Counted /\ Asked /\ Own

(* What the lines hold is a finite set of numbers.                         *)
LEMMA IdsFinite ==
  ASSUME MailboxAssumption, NEW L \in [Slaves -> Seq(Calls)]
  PROVE  IsFiniteSet(Ids(L)) /\ Ids(L) \subseteq 1..MaxCalls /\ Cardinality(Ids(L)) \in Nat
<1>1. ASSUME NEW s \in Slaves, NEW k \in DOMAIN L[s] PROVE L[s][k].id \in 1..MaxCalls
  <2>1. L[s][k] \in Calls
    BY <1>1
  <2> QED
    BY <2>1 DEF Calls
<1>2. Ids(L) \in SUBSET (1..MaxCalls)
  BY <1>1 DEF Ids
<1>3. IsFiniteSet(1..MaxCalls)
  BY FS_Interval DEF MailboxAssumption
<1> QED
  BY <1>2, <1>3, FS_Subset, FS_CardinalityType

(* The first of a line is taken off.                                       *)
LEMMA FirstTaken ==
  ASSUME MailboxAssumption, NEW L \in [Slaves -> Seq(Calls)], Spread(L),
         NEW s \in Slaves, L[s] # <<>>,
         NEW M, M = FirstOff(L, s)
  PROVE  /\ M \in [Slaves -> Seq(Calls)] /\ Spread(M)
         /\ 1 \in DOMAIN L[s] /\ L[s][1] \in Calls /\ L[s][1].id \in Ids(L)
         /\ Ids(M) = Ids(L) \ {L[s][1].id}
         /\ Cardinality(Ids(M)) = Cardinality(Ids(L)) - 1
         /\ \A t \in Slaves : \A k \in DOMAIN M[t] : \E j \in DOMAIN L[t] : M[t][k] = L[t][j]
<1> DEFINE q == L[s]
           x == q[1].id
<1>1. /\ q \in Seq(Calls) /\ Len(q) \in Nat \ {0} /\ DOMAIN q = 1..Len(q)
      /\ 1 \in DOMAIN q /\ q[1] \in Calls
  BY EmptySeq
<1>2. /\ Tail(q) \in Seq(Calls) /\ DOMAIN Tail(q) = 1..(Len(q) - 1)
      /\ \A k \in 1..(Len(q) - 1) : Tail(q)[k] = q[k + 1]
  BY <1>1, HeadTailProperties
<1> HIDE DEF q
<1>3. M \in [Slaves -> Seq(Calls)] /\ M[s] = Tail(q)
  BY <1>2 DEF q, FirstOff
<1>4. \A t \in Slaves : t # s => M[t] = L[t]
  BY DEF FirstOff
<1> DEFINE from(t, k) == IF t = s THEN k + 1 ELSE k
<1>5. ASSUME NEW t \in Slaves, NEW k \in DOMAIN M[t]
      PROVE  /\ from(t, k) \in DOMAIN L[t] /\ M[t][k] = L[t][from(t, k)]
             /\ k \in Nat \ {0} /\ (t = s => from(t, k) # 1)
  <2>1. CASE t = s
    <3>1. k \in 1..(Len(q) - 1)
      BY <1>2, <1>3, <2>1
    <3>2. k + 1 \in 1..Len(q) /\ k + 1 # 1 /\ k \in Nat \ {0}
      BY <1>1, <3>1
    <3> QED
      BY <1>1, <1>2, <1>3, <2>1, <3>1, <3>2 DEF q
  <2>2. CASE t # s
    <3>1. M[t] = L[t] /\ L[t] \in Seq(Calls)
      BY <1>4, <2>2
    <3> QED
      BY <2>2, <3>1
  <2> QED
    BY <2>1, <2>2
<1>6. \A t \in Slaves : \A k \in DOMAIN M[t] : \E j \in DOMAIN L[t] : M[t][k] = L[t][j]
  BY <1>5
<1>7. Spread(M)
  <2>1. ASSUME NEW t \in Slaves, NEW r \in Slaves, NEW i \in DOMAIN M[t],
               NEW j \in DOMAIN M[r], M[t][i].id = M[r][j].id
        PROVE  t = r /\ i = j
    <3>1. /\ from(t, i) \in DOMAIN L[t] /\ M[t][i] = L[t][from(t, i)] /\ i \in Nat
          /\ from(r, j) \in DOMAIN L[r] /\ M[r][j] = L[r][from(r, j)] /\ j \in Nat
      BY <1>5
    <3> HIDE DEF from
    <3>2. t = r /\ from(t, i) = from(r, j)
      BY <2>1, <3>1 DEF Spread
    <3> QED
      BY <3>1, <3>2 DEF from
  <2> QED
    BY <2>1 DEF Spread
<1>8. x \in Ids(L)
  BY <1>1 DEF Ids, q
<1>9. ASSUME NEW y PROVE y \in Ids(M) <=> y \in Ids(L) /\ y # x
  <2>1. ASSUME y \in Ids(M) PROVE y \in Ids(L) /\ y # x
    <3>0. PICK t \in Slaves : \E k \in DOMAIN M[t] : y = M[t][k].id
      BY <2>1 DEF Ids
    <3>1. PICK k \in DOMAIN M[t] : y = M[t][k].id
      BY <3>0
    <3>2. /\ from(t, k) \in DOMAIN L[t] /\ M[t][k] = L[t][from(t, k)]
          /\ t = s => from(t, k) # 1
      BY <1>5
    <3> HIDE DEF from
    <3>3. y \in Ids(L)
      BY <3>1, <3>2 DEF Ids
    <3>4. y # x
      BY <1>1, <3>1, <3>2 DEF Spread, q
    <3> QED
      BY <3>3, <3>4
  <2>2. ASSUME y \in Ids(L), y # x PROVE y \in Ids(M)
    <3>0. PICK t \in Slaves : \E k \in DOMAIN L[t] : y = L[t][k].id
      BY <2>2 DEF Ids
    <3>1. PICK k \in DOMAIN L[t] : y = L[t][k].id
      BY <3>0
    <3>2. CASE t = s
      <4>1. k \in 1..Len(q) /\ k # 1
        BY <1>1, <2>2, <3>1, <3>2 DEF q
      <4>2. k - 1 \in 1..(Len(q) - 1) /\ (k - 1) + 1 = k
        BY <1>1, <4>1
      <4>3. k - 1 \in DOMAIN M[t] /\ M[t][k - 1] = L[t][k]
        BY <1>2, <1>3, <3>2, <4>2 DEF q
      <4> QED
        BY <3>1, <4>3 DEF Ids
    <3>3. CASE t # s
      BY <1>4, <3>1, <3>3 DEF Ids
    <3> QED
      BY <3>2, <3>3
  <2> QED
    BY <2>1, <2>2
<1>10. Ids(M) = Ids(L) \ {x}
  BY <1>9
<1>11. Cardinality(Ids(M)) = Cardinality(Ids(L)) - 1
  <2>1. IsFiniteSet(Ids(L))
    BY IdsFinite
  <2> HIDE DEF x
  <2>2. Cardinality(Ids(L) \ {x}) = Cardinality(Ids(L)) - 1
    BY <1>8, <2>1, FS_RemoveElement
  <2> QED
    BY <1>10, <2>2
<1> QED
  BY <1>1, <1>3, <1>6, <1>7, <1>8, <1>10, <1>11 DEF q

(* A call that is new goes to the end of a line.                           *)
LEMMA LastPut ==
  ASSUME MailboxAssumption, NEW L \in [Slaves -> Seq(Calls)], Spread(L),
         NEW s \in Slaves, NEW c \in Calls, c.id \notin Ids(L),
         NEW M, M = LastOn(L, s, c)
  PROVE  /\ M \in [Slaves -> Seq(Calls)] /\ Spread(M)
         /\ Ids(M) = Ids(L) \cup {c.id}
         /\ \A t \in Slaves : \A k \in DOMAIN M[t] :
              M[t][k] = c \/ \E j \in DOMAIN L[t] : M[t][k] = L[t][j]
<1> DEFINE q == L[s]
           n == Len(q) + 1
<1>1. /\ q \in Seq(Calls) /\ Len(q) \in Nat /\ DOMAIN q = 1..Len(q)
      /\ Append(q, c) \in Seq(Calls) /\ DOMAIN Append(q, c) = 1..n
      /\ \A k \in 1..n : Append(q, c)[k] = IF k <= Len(q) THEN q[k] ELSE c
  BY AppendProperties
<1>2. M \in [Slaves -> Seq(Calls)] /\ M[s] = Append(q, c)
  BY <1>1 DEF LastOn
<1>3. \A t \in Slaves : t # s => M[t] = L[t]
  BY DEF LastOn
<1>3a. ASSUME NEW t \in Slaves, NEW k \in DOMAIN L[t]
       PROVE  k \in DOMAIN M[t] /\ M[t][k] = L[t][k]
  <2>1. CASE t = s
    <3>1. k \in 1..Len(q) /\ k \in 1..n /\ k <= Len(q)
      BY <1>1, <2>1
    <3> HIDE DEF n
    <3> QED
      BY <1>1, <1>2, <2>1, <3>1
  <2> QED
    BY <1>3, <2>1
<1>4. ASSUME NEW t \in Slaves, NEW k \in DOMAIN M[t]
      PROVE  \/ k \in DOMAIN L[t] /\ M[t][k] = L[t][k]
             \/ t = s /\ k = n /\ M[t][k] = c
  <2>1. CASE t = s
    <3>1. k \in 1..n
      BY <1>1, <1>2, <2>1
    <3>2. (k \in 1..Len(q) /\ k <= Len(q)) \/ (k = n /\ ~(k <= Len(q)))
      BY <1>1, <3>1
    <3> HIDE DEF n
    <3> QED
      BY <1>1, <1>2, <2>1, <3>1, <3>2
  <2> QED
    BY <1>3, <2>1
<1>4a. n \in DOMAIN M[s] /\ M[s][n] = c
  BY <1>1, <1>2
<1> HIDE DEF q, n
<1>5. \A t \in Slaves : \A k \in DOMAIN L[t] : L[t][k].id # c.id
  BY DEF Ids
<1>6. Spread(M)
  <2>1. ASSUME NEW t \in Slaves, NEW r \in Slaves, NEW i \in DOMAIN M[t],
               NEW j \in DOMAIN M[r], M[t][i].id = M[r][j].id
        PROVE  t = r /\ i = j
    <3>1. /\ \/ i \in DOMAIN L[t] /\ M[t][i] = L[t][i]
             \/ t = s /\ i = n /\ M[t][i] = c
          /\ \/ j \in DOMAIN L[r] /\ M[r][j] = L[r][j]
             \/ r = s /\ j = n /\ M[r][j] = c
      BY <1>4
    <3> QED
      BY <1>5, <2>1, <3>1 DEF Spread
  <2> QED
    BY <2>1 DEF Spread
<1>7. ASSUME NEW y PROVE y \in Ids(M) <=> y \in Ids(L) \/ y = c.id
  <2>1. y \in Ids(M) => y \in Ids(L) \/ y = c.id
    BY <1>4 DEF Ids
  <2>2. y \in Ids(L) => y \in Ids(M)
    BY <1>3a DEF Ids
  <2>3. y = c.id => y \in Ids(M)
    BY <1>4a DEF Ids
  <2> QED
    BY <2>1, <2>2, <2>3
<1>8. \A t \in Slaves : \A k \in DOMAIN M[t] :
        M[t][k] = c \/ \E j \in DOMAIN L[t] : M[t][k] = L[t][j]
  BY <1>4
<1> QED
  BY <1>2, <1>6, <1>7, <1>8

Line(o, i) == /\ o \in Seq(Messages) /\ i \in Seq(Calls)
              /\ \A k \in DOMAIN o : o[k].call \in Calls

(* A line is a sequence of calls.                                          *)
LEMMA LineTyped ==
  ASSUME NEW o, NEW i, Line(o, i)
  PROVE  /\ LineOf(o, i) \in Seq(Calls) /\ Len(LineOf(o, i)) = Len(o) + Len(i)
         /\ Len(o) \in Nat /\ Len(i) \in Nat
         /\ \A k \in 1..(Len(o) + Len(i)) :
              LineOf(o, i)[k] = IF k <= Len(o) THEN o[k].call ELSE i[k - Len(o)]
<1>1. Len(o) \in Nat /\ Len(i) \in Nat /\ DOMAIN o = 1..Len(o) /\ DOMAIN i = 1..Len(i)
  BY DEF Line
<1> DEFINE n == Len(o) + Len(i)
<1>2. n \in Nat
  BY <1>1
<1>3. ASSUME NEW k \in 1..n
      PROVE  (IF k <= Len(o) THEN o[k].call ELSE i[k - Len(o)]) \in Calls
  <2>1. CASE k <= Len(o)
    <3>1. k \in DOMAIN o
      BY <1>1, <2>1
    <3> QED
      BY <2>1, <3>1 DEF Line
  <2>2. CASE ~(k <= Len(o))
    <3>1. k - Len(o) \in 1..Len(i)
      BY <1>1, <2>2
    <3> HIDE DEF n
    <3> QED
      BY <1>1, <2>2, <3>1 DEF Line
  <2> QED
    BY <2>1, <2>2
<1>4. LineOf(o, i) \in [1..n -> Calls]
  BY <1>3 DEF LineOf
<1>5. LineOf(o, i) \in Seq(Calls) /\ Len(LineOf(o, i)) = n
  <2> HIDE DEF n
  <2> QED
    BY <1>2, <1>4
<1> QED
  BY <1>1, <1>5 DEF LineOf

(* An answer stays where its call was in the line.                         *)
LEMMA LineAnswered ==
  ASSUME NEW o, NEW i, Line(o, i), i # <<>>
  PROVE  /\ Line(Append(o, Answer(Head(i))), Tail(i))
         /\ LineOf(Append(o, Answer(Head(i))), Tail(i)) = LineOf(o, i)
<1> DEFINE m == Answer(Head(i))
           p == Append(o, m)
           j == Tail(i)
<1>1. o \in Seq(Messages) /\ i \in Seq(Calls) /\ Len(o) \in Nat /\ Len(i) \in Nat \ {0}
        /\ Head(i) \in Calls /\ Head(i) = i[1]
  BY EmptySeq DEF Line
<1>2. m \in Messages /\ m.call = i[1]
  BY <1>1 DEF Answer, Messages
<1> HIDE DEF m
<1>3. /\ p \in Seq(Messages) /\ Len(p) = Len(o) + 1 /\ DOMAIN p = 1..(Len(o) + 1)
      /\ \A k \in 1..(Len(o) + 1) : p[k] = IF k <= Len(o) THEN o[k] ELSE m
  BY <1>1, <1>2, AppendProperties
<1>4. /\ j \in Seq(Calls) /\ Len(j) = Len(i) - 1
      /\ \A k \in 1..(Len(i) - 1) : j[k] = i[k + 1]
  BY <1>1, HeadTailProperties
<1>5. ASSUME NEW k \in 1..(Len(o) + 1) PROVE p[k].call \in Calls
  <2>1. (k <= Len(o) /\ k \in DOMAIN o) \/ ~(k <= Len(o))
    BY <1>1
  <2> HIDE DEF p
  <2> QED
    BY <1>1, <1>2, <1>3, <2>1 DEF Line
<1> HIDE DEF p, j
<1>6. Line(p, j)
  BY <1>3, <1>4, <1>5 DEF Line
<1>7. Len(LineOf(p, j)) = Len(LineOf(o, i)) /\ Len(LineOf(o, i)) = Len(o) + Len(i)
  BY <1>1, <1>3, <1>4, <1>6, LineTyped
<1>8. ASSUME NEW k \in 1..(Len(o) + Len(i)) PROVE LineOf(p, j)[k] = LineOf(o, i)[k]
  <2>1. /\ LineOf(o, i)[k] = IF k <= Len(o) THEN o[k].call ELSE i[k - Len(o)]
        /\ LineOf(p, j)[k] = IF k <= Len(o) + 1 THEN p[k].call ELSE j[k - (Len(o) + 1)]
    <3>1. Len(p) + Len(j) = Len(o) + Len(i)
      BY <1>1, <1>3, <1>4
    <3> QED
      <4>1. LineOf(o, i)[k] = IF k <= Len(o) THEN o[k].call ELSE i[k - Len(o)]
        BY LineTyped
      <4>2. k \in 1..(Len(p) + Len(j)) /\ Len(p) = Len(o) + 1
        BY <1>3, <3>1
      <4>3. LineOf(p, j)[k] = IF k <= Len(p) THEN p[k].call ELSE j[k - Len(p)]
        BY <1>6, <4>2, LineTyped
      <4> QED
        BY <4>1, <4>2, <4>3
  <2>2. CASE k <= Len(o)
    <3>1. k \in 1..(Len(o) + 1) /\ k <= Len(o) + 1
      BY <1>1, <2>2
    <3> QED
      BY <1>3, <2>1, <2>2, <3>1
  <2>3. CASE k = Len(o) + 1
    <3>1. k \in 1..(Len(o) + 1) /\ ~(k <= Len(o)) /\ k - Len(o) = 1 /\ k <= Len(o) + 1
      BY <1>1, <2>3
    <3> QED
      BY <1>2, <1>3, <2>1, <3>1
  <2>4. CASE k > Len(o) + 1
    <3>1. /\ k - (Len(o) + 1) \in 1..(Len(i) - 1) /\ ~(k <= Len(o)) /\ ~(k <= Len(o) + 1)
          /\ (k - (Len(o) + 1)) + 1 = k - Len(o)
      BY <1>1, <2>4
    <3> QED
      BY <1>4, <2>1, <3>1
  <2> QED
    BY <1>1, <2>2, <2>3, <2>4
<1>9. LineOf(p, j) = LineOf(o, i)
  BY <1>6, <1>7, <1>8, LineTyped, SeqEqual
<1> QED
  BY <1>6, <1>9 DEF p, j, m

(* What is read is the first of the line.                                  *)
LEMMA LineRead ==
  ASSUME NEW o, NEW i, Line(o, i), o # <<>>
  PROVE  /\ Line(Tail(o), i) /\ LineOf(o, i) # <<>> /\ LineOf(o, i)[1] = Head(o).call
         /\ LineOf(Tail(o), i) = Tail(LineOf(o, i))
<1> DEFINE p == Tail(o)
           q == LineOf(o, i)
<1>1. o \in Seq(Messages) /\ i \in Seq(Calls) /\ Len(o) \in Nat \ {0} /\ Len(i) \in Nat
        /\ Head(o) = o[1]
  BY EmptySeq DEF Line
<1>2. /\ p \in Seq(Messages) /\ Len(p) = Len(o) - 1 /\ DOMAIN p = 1..(Len(o) - 1)
      /\ \A k \in 1..(Len(o) - 1) : p[k] = o[k + 1]
  BY <1>1, HeadTailProperties
<1> HIDE DEF p
<1>3. ASSUME NEW k \in 1..(Len(o) - 1) PROVE p[k].call \in Calls
  <2>1. k + 1 \in 1..Len(o)
    BY <1>1
  <2> QED
    BY <1>1, <1>2, <2>1 DEF Line
<1>4. Line(p, i)
  BY <1>1, <1>2, <1>3 DEF Line
<1>5. q \in Seq(Calls) /\ Len(q) = Len(o) + Len(i) /\ q[1] = Head(o).call
  <2>1. 1 \in 1..(Len(o) + Len(i)) /\ 1 <= Len(o)
    BY <1>1
  <2> QED
    BY <1>1, <2>1, LineTyped
<1>6. /\ q # <<>> /\ Tail(q) \in Seq(Calls) /\ Len(Tail(q)) = Len(o) + Len(i) - 1
      /\ \A k \in 1..(Len(o) + Len(i) - 1) : Tail(q)[k] = q[k + 1]
  <2> HIDE DEF q
  <2>1. q # <<>>
    BY <1>1, <1>5, EmptySeq
  <2> QED
    BY <1>5, <2>1, HeadTailProperties
<1>7. ASSUME NEW k \in 1..(Len(o) + Len(i) - 1) PROVE LineOf(p, i)[k] = Tail(q)[k]
  <2>0. Len(p) + Len(i) = Len(o) + Len(i) - 1 /\ k + 1 \in 1..(Len(o) + Len(i))
          /\ (k + 1 <= Len(o) <=> k <= Len(o) - 1) /\ (k + 1) - Len(o) = k - (Len(o) - 1)
    BY <1>1, <1>2
  <2>1. LineOf(p, i)[k] = IF k <= Len(o) - 1 THEN p[k].call ELSE i[k - (Len(o) - 1)]
    <3>1. k \in 1..(Len(p) + Len(i)) /\ Len(p) = Len(o) - 1
      BY <1>2, <2>0
    <3>2. LineOf(p, i)[k] = IF k <= Len(p) THEN p[k].call ELSE i[k - Len(p)]
      BY <1>4, <3>1, LineTyped
    <3> QED
      BY <3>1, <3>2
  <2>2. q[k + 1] = IF k <= Len(o) - 1 THEN o[k + 1].call ELSE i[k - (Len(o) - 1)]
    BY <2>0, LineTyped
  <2>3. k <= Len(o) - 1 => p[k] = o[k + 1]
    BY <1>1, <1>2
  <2> HIDE DEF q
  <2> QED
    BY <1>6, <2>1, <2>2, <2>3
<1>8. LineOf(p, i) \in Seq(Calls) /\ Len(LineOf(p, i)) = Len(o) + Len(i) - 1
  BY <1>1, <1>2, <1>4, LineTyped
<1> HIDE DEF q
<1>9. LineOf(p, i) = Tail(q)
  BY <1>6, <1>7, <1>8, SeqEqual
<1> QED
  BY <1>4, <1>5, <1>6, <1>9 DEF p, q

(* What is taken is the last of the line.                                  *)
LEMMA LineTaken ==
  ASSUME NEW o, NEW i, Line(o, i), NEW c \in Calls
  PROVE  Line(o, Append(i, c)) /\ LineOf(o, Append(i, c)) = Append(LineOf(o, i), c)
<1> DEFINE j == Append(i, c)
           q == LineOf(o, i)
           n == Len(o) + Len(i) + 1
<1>1. o \in Seq(Messages) /\ i \in Seq(Calls) /\ Len(o) \in Nat /\ Len(i) \in Nat
  BY DEF Line
<1>2. /\ j \in Seq(Calls) /\ Len(j) = Len(i) + 1
      /\ \A k \in 1..(Len(i) + 1) : j[k] = IF k <= Len(i) THEN i[k] ELSE c
  BY <1>1, AppendProperties
<1> HIDE DEF j
<1>3. Line(o, j)
  BY <1>2 DEF Line
<1>4. q \in Seq(Calls) /\ Len(q) = Len(o) + Len(i)
  BY LineTyped
<1>5. /\ Append(q, c) \in Seq(Calls) /\ Len(Append(q, c)) = n
      /\ \A k \in 1..n : Append(q, c)[k] = IF k <= Len(o) + Len(i) THEN q[k] ELSE c
  <2> HIDE DEF q
  <2> QED
    BY <1>4, AppendProperties
<1>6. LineOf(o, j) \in Seq(Calls) /\ Len(LineOf(o, j)) = n
  BY <1>1, <1>2, <1>3, LineTyped
<1>7. ASSUME NEW k \in 1..n PROVE LineOf(o, j)[k] = Append(q, c)[k]
  <2>0. Len(o) + Len(j) = n
    BY <1>1, <1>2
  <2>1. LineOf(o, j)[k] = IF k <= Len(o) THEN o[k].call ELSE j[k - Len(o)]
    <3> HIDE DEF n
    <3> QED
      BY <1>3, <2>0, LineTyped
  <2>2. k <= Len(o) + Len(i) => q[k] = IF k <= Len(o) THEN o[k].call ELSE i[k - Len(o)]
    <3>1. k <= Len(o) + Len(i) => k \in 1..(Len(o) + Len(i))
      BY <1>1
    <3> QED
      BY <3>1, LineTyped
  <2> HIDE DEF q
  <2>3. CASE k <= Len(o)
    <3>1. k <= Len(o) + Len(i)
      BY <1>1, <2>3
    <3> QED
      BY <1>5, <2>1, <2>2, <2>3, <3>1
  <2>4. CASE ~(k <= Len(o)) /\ k <= Len(o) + Len(i)
    <3>1. k - Len(o) \in 1..(Len(i) + 1) /\ k - Len(o) <= Len(i)
      BY <1>1, <2>4
    <3> QED
      BY <1>2, <1>5, <2>1, <2>2, <2>4, <3>1
  <2>5. CASE ~(k <= Len(o) + Len(i))
    <3>1. k - Len(o) \in 1..(Len(i) + 1) /\ ~(k - Len(o) <= Len(i)) /\ ~(k <= Len(o))
      BY <1>1, <2>5
    <3> QED
      BY <1>2, <1>5, <2>1, <2>5, <3>1
  <2> QED
    BY <1>1, <2>3, <2>4, <2>5
<1> HIDE DEF q, n
<1>8. LineOf(o, j) = Append(q, c)
  BY <1>5, <1>6, <1>7, SeqEqual
<1> QED
  BY <1>3, <1>8 DEF j, q

(* Each line is a sequence of calls.                                      *)
LEMMA LinesTyped ==
  ASSUME BaseInv, Traced
  PROVE  /\ \A s \in Slaves : Line(outbox[s], inbox[s])
         /\ Lines \in [Slaves -> Seq(Calls)]
<1>1. \A s \in Slaves : Line(outbox[s], inbox[s])
  BY DEF BaseInv, Typed, Traced, Line
<1>2. \A s \in Slaves : LineOf(outbox[s], inbox[s]) \in Seq(Calls)
  BY <1>1, LineTyped
<1> QED
  BY <1>1, <1>2 DEF Lines

(* A step of which the drives notice nothing                               *)
LEMMA TracedQuiet ==
  ASSUME BaseInv, Traced, UNCHANGED <<inbox, outbox, taken, call>>,
         Held' \subseteq Held, \A b \in Held' : content'[b] = content[b],
         Sent' => taken[call.slave] = call.id
  PROVE  Traced' /\ Lines' = Lines /\ HeldIds' \subseteq HeldIds
<1>1. Lines' = Lines
  BY DEF Lines
<1>2. HeldIds' \subseteq HeldIds
  BY DEF HeldIds
<1>3. Spread(Lines') /\ Ids(Lines') = Ids(Lines)
  BY <1>1 DEF Traced
<1>4. Ids(Lines') \cap HeldIds' = {}
  BY <1>2, <1>3 DEF Traced
<1>5. \A id \in Ids(Lines') \cup HeldIds' :
        id <= call'.id /\ (id = call'.id => taken'[call'.slave] = call'.id)
  BY <1>2, <1>3 DEF Traced
<1>6. /\ \A b \in Held' : content'[b].type = "answer" /\ content'[b].call \in Calls
      /\ \A b, d \in Held' : content'[b].call.id = content'[d].call.id => b = d
  BY DEF Traced
<1>7. /\ \A s \in Slaves : Len(inbox'[s]) <= 2 /\ Len(outbox'[s]) <= 2
      /\ \A s \in Slaves : \A k \in DOMAIN outbox'[s] :
           outbox'[s][k].type = "answer" /\ outbox'[s][k].call \in Calls
      /\ \A s \in Slaves : taken'[s] <= call'.id
      /\ Sent' => taken'[call'.slave] = call'.id
  BY DEF Traced
<1>8. Spread(Lines)'
  BY <1>3 DEF Spread
<1>9. Traced'
  BY <1>3, <1>4, <1>5, <1>6, <1>7, <1>8 DEF Traced, Ids
<1> QED
  BY <1>1, <1>2, <1>9

(* A step that leaves the request where it is, or brings it further back   *)
LEMMA AskedQuiet ==
  ASSUME MailboxAssumption, BaseInv, Asked, Typed',
         Sent' => /\ Sent /\ UNCHANGED <<content, sdop, call>> /\ Lines' = Lines
                  /\ lost <= lost'
                  /\ \A i \in DOMAIN free : i \in DOMAIN free' /\ free'[i] = free[i],
         Traced
  PROVE  Asked'
<1> SUFFICES ASSUME Sent' PROVE Asked'
  BY DEF Asked
<1>1. content[sdop] = Request(call)
  BY DEF Asked
<1>2. PICK p \in DOMAIN free :
        free[p] = sdop /\ p > Cardinality(Ids(Lines)) + (MaxLost - lost)
  BY DEF Asked
<1>3. p \in Nat /\ lost \in Nat /\ lost' \in Nat /\ MaxLost \in Nat /\ lost <= lost'
  <2>1. free \in Seq(Buffers) /\ lost \in 0..MaxLost /\ lost' \in 0..MaxLost /\ MaxLost \in Nat
    BY DEF BaseInv, Typed, MailboxAssumption
  <2> QED
    BY <2>1
<1>4. Cardinality(Ids(Lines)) \in Nat
  BY LinesTyped, IdsFinite
<1>5. p > Cardinality(Ids(Lines)) + (MaxLost - lost')
  BY <1>2, <1>3, <1>4
<1>6. Ids(Lines') = Ids(Lines)
  OBVIOUS
<1>7. /\ content'[sdop'] = Request(call')
      /\ p \in DOMAIN free' /\ free'[p] = sdop'
      /\ p > Cardinality(Ids(Lines')) + (MaxLost - lost')
  BY <1>1, <1>2, <1>5, <1>6
<1> QED
  BY <1>7 DEF Asked, Request, Ids

(* A step that ends no call                                                *)
LEMMA OwnQuiet ==
  ASSUME Own, UNCHANGED <<call, result, failed>>, Lines' = Lines,
         Held' \subseteq Held, \A b \in Held' : content'[b] = content[b],
         pc' \in {"idle", "get"} => pc' = pc
  PROVE  Own'
<1> SUFFICES ASSUME ~failed' PROVE Own'
  BY DEF Own
<1>1. Ids(Lines') = Ids(Lines)
  OBVIOUS
<1>2. /\ \A s \in Slaves : \A k \in DOMAIN Lines'[s] : Lines'[s][k] = call'
      /\ \A b \in Held' : content'[b].call = call'
      /\ pc' \in {"idle", "get"} => Ids(Lines') = {} /\ Held' = {}
      /\ pc' = "idle" /\ call' # NoCall => result'.answer = Answer(call')
  BY <1>1 DEF Own
<1> QED
  BY <1>2 DEF Own, Ids, Answer, NoCall

(* The calls are numbered.                                                 *)
LEMMA CallNumber ==
  ASSUME call \in Calls \cup {NoCall}
  PROVE  call.id \in Nat /\ (MaxCalls \in Nat => call.id \in 0..MaxCalls)
<1>1. CASE call \in Calls
  <2>1. call.id \in 1..MaxCalls
    BY <1>1 DEF Calls
  <2> QED
    BY <2>1
<1>2. CASE call = NoCall
  BY <1>2 DEF NoCall
<1> QED
  BY <1>1, <1>2

(* No step of the drives or the handler, and no end of a call, adds to     *)
(* what is counted.                                                        *)
LEMMA CountedQuiet ==
  ASSUME BaseInv, Counted, Typed', UNCHANGED call, Len(queue') <= Len(queue),
         pc' = "get" => pc = "get",
         Pool' \cup Queued' \cup Held' = Pool \cup Queued \cup Held
  PROVE  Counted'
<1>1. Len(queue) \in Nat /\ Len(queue') \in Nat /\ call.id \in Nat
  <2>1. call \in Calls \cup {NoCall} /\ queue \in Seq(Entries) /\ queue' \in Seq(Entries)
    BY DEF BaseInv, Typed
  <2> QED
    BY <2>1, CallNumber
<1>2. /\ Pool' \cup Queued' \cup Held' = Buffers
      /\ Len(queue') <= call'.id
      /\ pc' = "get" => Len(queue') < call'.id
  BY <1>1 DEF Counted
<1> QED
  BY <1>2 DEF Counted, Buffers

(* A call begins: its number is new.                                       *)
LEMMA BeginAmple ==
  ASSUME MailboxAssumption, AmpleInv, NEW c \in Calls, Begin(c)
  PROVE  AmpleInv'
<1>1. BaseInv' /\ Held' = Held
  BY BeginBase DEF AmpleInv
<1>2. /\ UNCHANGED <<free, content, queue, inbox, outbox, taken, result, failed, lost>>
      /\ call' = c /\ c.id = call.id + 1 /\ pc' = "get" /\ pc = "idle"
  BY DEF Begin, poolVars, deviceVars
<1>3. call.id \in Nat /\ c.id \in Nat
  BY DEF AmpleInv, BaseInv, Typed, Calls, NoCall
<1>4. Lines' = Lines /\ HeldIds' = HeldIds /\ Pool' = Pool /\ Queued' = Queued
  BY <1>1, <1>2 DEF Lines, HeldIds, Pool, Queued
<1>5. ~Sent'
  BY <1>2 DEF Sent
<1>6. Traced'
  <2>1. Ids(Lines) \subseteq Nat
    BY LinesTyped, IdsFinite DEF AmpleInv
  <2>2. HeldIds \subseteq Nat
    BY DEF AmpleInv, Traced, HeldIds, Calls
  <2>3. \A id \in Ids(Lines) \cup HeldIds : id <= c.id /\ id # c.id
    <3>1. ASSUME NEW id \in Ids(Lines) \cup HeldIds PROVE id <= c.id /\ id # c.id
      <4>1. id \in Nat /\ id <= call.id
        BY <2>1, <2>2 DEF AmpleInv, Traced
      <4> QED
        BY <1>2, <1>3, <4>1
    <3> QED
      BY <3>1
  <2>4. \A s \in Slaves : taken[s] <= c.id
    <3>1. ASSUME NEW s \in Slaves PROVE taken[s] <= c.id
      <4>1. taken[s] \in Nat /\ taken[s] <= call.id
        BY DEF AmpleInv, BaseInv, Typed, Traced
      <4> QED
        BY <1>2, <1>3, <4>1
    <3> QED
      BY <3>1
  <2>5. Spread(Lines') /\ Ids(Lines') \cap HeldIds' = {}
    BY <1>4 DEF AmpleInv, Traced
  <2>6. \A id \in Ids(Lines') \cup HeldIds' :
          id <= call'.id /\ (id = call'.id => taken'[call'.slave] = call'.id)
    BY <1>2, <1>4, <2>3
  <2>7. /\ \A b \in Held' : content'[b].type = "answer" /\ content'[b].call \in Calls
        /\ \A b, d \in Held' : content'[b].call.id = content'[d].call.id => b = d
        /\ \A s \in Slaves : Len(inbox'[s]) <= 2 /\ Len(outbox'[s]) <= 2
        /\ \A s \in Slaves : \A k \in DOMAIN outbox'[s] :
             outbox'[s][k].type = "answer" /\ outbox'[s][k].call \in Calls
        /\ \A s \in Slaves : taken'[s] <= call'.id
    BY <1>1, <1>2, <2>4 DEF AmpleInv, Traced
  <2> QED
    BY <1>5, <2>5, <2>6, <2>7 DEF Traced, Ids, Spread
<1>7. Counted'
  <2>1. Len(queue) \in Nat /\ Len(queue) <= call.id
    BY DEF AmpleInv, BaseInv, Typed, Counted
  <2>2. Len(queue) <= c.id /\ Len(queue) < c.id
    BY <1>2, <1>3, <2>1
  <2>3. Pool \cup Queued \cup Held = Buffers
    BY DEF AmpleInv, Counted
  <2> QED
    BY <1>1, <1>2, <1>4, <2>2, <2>3 DEF Counted, Buffers
<1>8. Asked'
  BY <1>5 DEF Asked
<1>9. Own'
  <2> SUFFICES ASSUME ~failed PROVE Own'
    BY <1>2 DEF Own
  <2>1. Ids(Lines) = {} /\ Held = {}
    BY <1>2 DEF AmpleInv, Own
  <2>2. \A s \in Slaves : \A k \in DOMAIN Lines'[s] : FALSE
    <3>1. ASSUME NEW s \in Slaves, NEW k \in DOMAIN Lines[s] PROVE FALSE
      <4>1. Lines[s][k].id \in Ids(Lines)
        BY DEF Ids
      <4> QED
        BY <2>1, <4>1
    <3> QED
      BY <1>4, <3>1
  <2>3. Held' = {} /\ Ids(Lines') = {}
    BY <1>1, <1>4, <2>1
  <2> QED
    BY <1>2, <2>2, <2>3 DEF Own, Ids
<1> QED
  BY <1>1, <1>6, <1>7, <1>8, <1>9 DEF AmpleInv

(* The request is queued in a buffer that held no answer.                  *)
LEMMA SendAmple ==
  ASSUME MailboxAssumption, AmpleInv, Send
  PROVE  AmpleInv'
<1>1. /\ BaseInv' /\ Queued' = Queued \cup {sdop'} /\ sdop' \in Pool
      /\ Pool' = Pool \ {sdop'} /\ Len(queue') = Len(queue) + 1
      /\ content' = [content EXCEPT ![sdop'] = Request(call)]
      /\ \A i \in DOMAIN queue' : ~queue'[i].remove => queue'[i].state = "REQ"
  BY SendBase DEF AmpleInv
<1>2. /\ UNCHANGED <<coembxin, mbxIn, inbox, outbox, taken, call, result, failed>>
      /\ pc = "get" /\ pc' = "send"
  BY DEF Send, deviceVars
<1>3. Held' = Held
  BY <1>2 DEF Held, Answers
<1>4. ~Sent'
  <2>1. PICK i \in DOMAIN queue' : ~queue'[i].remove
    BY <1>1, <1>2 DEF BaseInv, Ticketed
  <2>2. queue'[i].state # "DONE"
    BY <1>1, <2>1
  <2> QED
    BY <1>2, <2>1, <2>2 DEF Sent
<1>5. \A b \in Held : content'[b] = content[b]
  BY <1>1 DEF AmpleInv, BaseInv, Apart, Typed
<1>6. Traced' /\ Lines' = Lines
  BY <1>2, <1>3, <1>4, <1>5, TracedQuiet DEF AmpleInv
<1>7. Counted'
  <2>1. Len(queue) \in Nat /\ Len(queue) < call.id /\ call.id \in Nat
    BY <1>2 DEF AmpleInv, BaseInv, Typed, Counted, Calls, NoCall
  <2>2. Pool \cup Queued \cup Held = Buffers
    BY DEF AmpleInv, Counted
  <2> QED
    BY <1>1, <1>2, <1>3, <2>1, <2>2 DEF Counted, Buffers
<1>8. Asked'
  BY <1>4 DEF Asked
<1>9. Own'
  BY <1>2, <1>3, <1>5, <1>6, OwnQuiet DEF AmpleInv
<1> QED
  BY <1>1, <1>6, <1>7, <1>8, <1>9 DEF AmpleInv

(* The request waits no longer; written, its buffer stays where it is.     *)
LEMMA SendEndsAmple ==
  ASSUME MailboxAssumption, AmpleInv, SendDone \/ SendExpires
  PROVE  AmpleInv'
<1>1. /\ BaseInv' /\ Pool' = Pool \cup ({mbxIn} \ {NoBuffer}) /\ Held' = Answers
      /\ Queued' = Queued /\ Len(queue') = Len(queue)
      /\ \A i \in DOMAIN free : i \in DOMAIN free' /\ free'[i] = free[i]
  BY SendEndsBase DEF AmpleInv
<1>2. /\ UNCHANGED <<content, inbox, outbox, taken, call, sdop, lost>>
      /\ pc = "send" /\ GiveTicketBack
      /\ \/ pc' = "receive" /\ Written /\ UNCHANGED <<result, failed>>
         \/ pc' = "idle" /\ failed'
  BY DEF SendDone, SendExpires, Return, deviceVars
<1>3. Held' \subseteq Held
  BY <1>1 DEF Held
<1>4. Sent' => Sent
  <2>1. CASE pc' = "receive" /\ Written
    <3>1. Ticket \in DOMAIN queue /\ ~queue[Ticket].remove
      BY <1>2, TicketBack DEF AmpleInv
    <3>2. queue[Ticket].state = "DONE"
      BY <2>1 DEF Written
    <3>3. \A i \in DOMAIN queue : ~queue[i].remove => i = Ticket
      BY <3>1 DEF AmpleInv, BaseInv, Ticketed
    <3> QED
      BY <1>2, <3>2, <3>3 DEF Sent
  <2> QED
    BY <1>2, <2>1 DEF Sent
<1>5. Traced' /\ Lines' = Lines
  BY <1>2, <1>3, <1>4, TracedQuiet DEF AmpleInv, Traced
<1>6. Counted'
  <2>1. Pool' \cup Queued' \cup Held' = Pool \cup Queued \cup Held
    BY <1>1 DEF Held
  <2>2. Len(queue') <= Len(queue)
    BY <1>1 DEF AmpleInv, BaseInv, Typed
  <2> QED
    BY <1>1, <1>2, <2>1, <2>2, CountedQuiet DEF AmpleInv, BaseInv
<1>7. Asked'
  <2>1. lost <= lost' /\ Typed'
    BY <1>1, <1>2 DEF AmpleInv, BaseInv, Typed
  <2> QED
    BY <1>1, <1>2, <1>4, <1>5, <2>1, AskedQuiet DEF AmpleInv
<1>8. Own'
  <2>1. CASE pc' = "receive" /\ UNCHANGED <<result, failed>>
    BY <1>2, <1>3, <1>5, <2>1, OwnQuiet DEF AmpleInv
  <2>2. CASE failed'
    BY <2>2 DEF Own
  <2> QED
    BY <1>2, <2>1, <2>2
<1> QED
  BY <1>1, <1>5, <1>6, <1>7, <1>8 DEF AmpleInv

(* The answer changes hands.                                               *)
LEMMA ReceiveAmple ==
  ASSUME MailboxAssumption, AmpleInv, Receive
  PROVE  AmpleInv'
<1>1. BaseInv' /\ Held' = Held
  BY ReceiveBase DEF AmpleInv
<1>2. /\ UNCHANGED <<free, content, queue, inbox, outbox, taken, call, sdop, result,
                     failed, lost>>
      /\ pc = "receive" /\ pc' = "compare"
  BY DEF Receive, poolVars, deviceVars
<1>3. Pool' = Pool /\ Queued' = Queued /\ Sent
  BY <1>2 DEF Pool, Queued, Sent
<1>4. Traced' /\ Lines' = Lines
  BY <1>1, <1>2, <1>3, TracedQuiet DEF AmpleInv, Traced
<1>5. Counted'
  <2>1. Len(queue') <= Len(queue)
    BY <1>2 DEF AmpleInv, BaseInv, Typed
  <2> QED
    BY <1>1, <1>2, <1>3, <2>1, CountedQuiet DEF AmpleInv, BaseInv
<1>6. Asked'
  <2>1. lost <= lost' /\ Typed'
    BY <1>1, <1>2 DEF AmpleInv, BaseInv, Typed
  <2> QED
    BY <1>1, <1>2, <1>3, <1>4, <2>1, AskedQuiet DEF AmpleInv
<1>7. Own'
  BY <1>1, <1>2, <1>4, OwnQuiet DEF AmpleInv
<1> QED
  BY <1>1, <1>4, <1>5, <1>6, <1>7 DEF AmpleInv

(* Nothing has come: the call fails.                                       *)
LEMMA ReceiveExpiresAmple ==
  ASSUME MailboxAssumption, AmpleInv, ReceiveExpires
  PROVE  AmpleInv'
<1>1. BaseInv' /\ Held' = Held
  BY ReceiveExpiresBase DEF AmpleInv
<1>2. /\ UNCHANGED <<free, content, queue, inbox, outbox, taken, call>>
      /\ pc' = "idle" /\ failed'
  BY DEF ReceiveExpires, Return, poolVars, deviceVars
<1>3. Pool' = Pool /\ Queued' = Queued /\ ~Sent'
  BY <1>2 DEF Pool, Queued, Sent
<1>4. Traced'
  BY <1>1, <1>2, <1>3, TracedQuiet DEF AmpleInv
<1>5. Counted'
  <2>1. Len(queue') <= Len(queue)
    BY <1>2 DEF AmpleInv, BaseInv, Typed
  <2> QED
    BY <1>1, <1>2, <1>3, <2>1, CountedQuiet DEF AmpleInv, BaseInv
<1>6. Asked' /\ Own'
  BY <1>2, <1>3 DEF Asked, Own
<1> QED
  BY <1>1, <1>4, <1>5, <1>6 DEF AmpleInv

(* The answer is the call's own as long as no call has failed.             *)
LEMMA CompareAmple ==
  ASSUME MailboxAssumption, AmpleInv, Compare
  PROVE  AmpleInv'
<1>1. /\ BaseInv' /\ Held' = Answers /\ mbxIn \in Buffers
      /\ Pool' = Pool \cup {mbxIn} /\ mbxIn \in Held /\ mbxIn \notin Answers
  BY CompareBase DEF AmpleInv
<1>2. /\ UNCHANGED <<content, queue, inbox, outbox, taken, call>>
      /\ pc = "compare" /\ pc' = "idle" /\ failed' = (failed \/ ~Matches)
      /\ result'.answer = content[mbxIn]
  BY DEF Compare, Return, deviceVars
<1>3. Queued' = Queued /\ ~Sent' /\ Held' \subseteq Held /\ Held = Answers \cup {mbxIn}
  <2>1. mbxIn # NoBuffer
    BY <1>1 DEF Buffers, NoBuffer
  <2> QED
    BY <1>1, <1>2, <2>1 DEF Queued, Sent, Held
<1>4. Traced' /\ Lines' = Lines
  BY <1>2, <1>3, TracedQuiet DEF AmpleInv
<1>5. Counted'
  <2>1. Len(queue') <= Len(queue)
    BY <1>2 DEF AmpleInv, BaseInv, Typed
  <2>2. Pool' \cup Queued' \cup Held' = Pool \cup Queued \cup Held
    BY <1>1, <1>3
  <2> QED
    BY <1>1, <1>2, <1>3, <2>1, <2>2, CountedQuiet DEF AmpleInv, BaseInv
<1>6. Asked'
  BY <1>3 DEF Asked
<1>7. Own'
  <2> SUFFICES ASSUME ~failed' PROVE Own'
    BY DEF Own
  <2>1. ~failed
    BY <1>2
  <2>2. content[mbxIn].call = call /\ content[mbxIn].type = "answer"
    BY <1>1, <2>1 DEF AmpleInv, Own, Traced
  <2>3. content[mbxIn] = Answer(call)
    <3>1. content[mbxIn] \in Messages
      BY <1>1 DEF AmpleInv, BaseInv, Typed
    <3> QED
      BY <2>2, <3>1 DEF Messages, Answer
  <2>4. Held' = {}
    <3>1. ASSUME NEW b \in Answers PROVE FALSE
      <4>1. content[b].call = call /\ b \in Held
        BY <1>3, <2>1 DEF AmpleInv, Own
      <4>2. b = mbxIn
        BY <1>1, <2>2, <4>1 DEF AmpleInv, Traced
      <4> QED
        BY <1>1, <4>2
    <3> QED
      BY <1>1, <3>1
  <2>5. Ids(Lines) = {}
    <3>1. call.id \in HeldIds
      BY <1>1, <2>2 DEF HeldIds
    <3>2. \A s \in Slaves : \A k \in DOMAIN Lines[s] : Lines[s][k].id = call.id
      BY <2>1 DEF AmpleInv, Own
    <3>3. \A id \in Ids(Lines) : id = call.id
      BY <3>2 DEF Ids
    <3> QED
      BY <3>1, <3>3 DEF AmpleInv, Traced
  <2>6. \A s \in Slaves : \A k \in DOMAIN Lines'[s] : FALSE
    <3>1. ASSUME NEW s \in Slaves, NEW k \in DOMAIN Lines[s] PROVE FALSE
      <4>1. Lines[s][k].id \in Ids(Lines)
        BY DEF Ids
      <4> QED
        BY <2>5, <4>1
    <3> QED
      BY <1>4, <3>1
  <2>7. Ids(Lines') = {} /\ result'.answer = Answer(call')
    BY <1>2, <1>4, <2>3, <2>5
  <2> QED
    BY <2>4, <2>6, <2>7 DEF Own, Ids, Answer, NoCall
<1> QED
  BY <1>1, <1>4, <1>5, <1>6, <1>7 DEF AmpleInv

(* Sets that share nothing                                                 *)
LEMMA Disjoint ==
  ASSUME NEW S, NEW T, IsFiniteSet(S), IsFiniteSet(T), S \cap T = {}
  PROVE  /\ IsFiniteSet(S \cup T) /\ Cardinality(S) \in Nat /\ Cardinality(T) \in Nat
         /\ Cardinality(S \cup T) = Cardinality(S) + Cardinality(T)
<1>1. Cardinality(S \cap T) = 0
  BY FS_EmptySet
<1>2. Cardinality(S) \in Nat /\ Cardinality(T) \in Nat
  BY FS_CardinalityType
<1>3. /\ IsFiniteSet(S \cup T)
      /\ Cardinality(S \cup T) = Cardinality(S) + Cardinality(T) - Cardinality(S \cap T)
  BY FS_Union
<1> QED
  BY <1>1, <1>2, <1>3

(* The pool holds each of its buffers once.                                *)
LEMMA PoolCount ==
  ASSUME MailboxAssumption, BaseInv
  PROVE  IsFiniteSet(Pool) /\ Cardinality(Pool) = Len(free) /\ Len(free) \in Nat
<1>1. Len(free) \in Nat /\ DOMAIN free = 1..Len(free) /\ IsInjective(free)
        /\ free \in [1..Len(free) -> Pool]
  BY DEF BaseInv, Typed, Apart, Pool, Range
<1>2. free \in Bijection(1..Len(free), Pool)
  BY <1>1 DEF Bijection, Injection, Surjection, IsInjective, Pool, Range
<1>3. ExistsBijection(1..Len(free), Pool)
  BY <1>2 DEF ExistsBijection
<1>4. IsFiniteSet(1..Len(free)) /\ Cardinality(1..Len(free)) = Len(free)
  BY <1>1, FS_Interval
<1> QED
  BY <1>1, <1>3, <1>4, FS_Bijection

(* No more buffers than entries are in the queue, and fewer once an entry  *)
(* has none.                                                               *)
LEMMA QueuedCount ==
  ASSUME MailboxAssumption, BaseInv
  PROVE  /\ IsFiniteSet(Queued) /\ Cardinality(Queued) \in Nat
         /\ Len(queue) \in Nat /\ Cardinality(Queued) <= Len(queue)
         /\ (\E i \in DOMAIN queue : queue[i].buffer = NoBuffer)
              => Cardinality(Queued) < Len(queue)
<1> DEFINE K == {i \in DOMAIN queue : queue[i].buffer # NoBuffer}
           f == [i \in K |-> queue[i].buffer]
           n == Len(queue)
<1>1. n \in Nat /\ DOMAIN queue = 1..n
  BY DEF BaseInv, Typed
<1>2. IsFiniteSet(1..n) /\ Cardinality(1..n) = n
  <2>1. n \in Nat
    BY <1>1
  <2> HIDE DEF n
  <2> QED
    BY <2>1, FS_Interval
<1>3. K \in SUBSET (1..n)
  BY <1>1
<1>4. f \in Surjection(K, Queued)
  BY DEF Surjection, Queued
<1>5. IsFiniteSet(K) /\ Cardinality(K) \in Nat /\ Cardinality(K) <= n
        /\ (Cardinality(K) = n => K = 1..n)
  BY <1>2, <1>3, FS_Subset, FS_CardinalityType
<1> HIDE DEF K, f
<1>6. IsFiniteSet(Queued) /\ Cardinality(Queued) <= Cardinality(K)
        /\ Cardinality(Queued) \in Nat
  BY <1>4, <1>5, FS_Surjection, FS_CardinalityType
<1>7. ASSUME NEW i \in DOMAIN queue, queue[i].buffer = NoBuffer PROVE Cardinality(K) # n
  BY <1>1, <1>5, <1>7 DEF K
<1> QED
  BY <1>1, <1>5, <1>6, <1>7

(* The drives and the answers together hold no more calls than were made.  *)
LEMMA HeldCount ==
  ASSUME MailboxAssumption, BaseInv, Traced
  PROVE  /\ IsFiniteSet(Held) /\ Cardinality(Held) \in Nat
         /\ Cardinality(Ids(Lines)) \in Nat /\ call.id \in 0..MaxCalls
         /\ Cardinality(Held) + Cardinality(Ids(Lines)) <= call.id
<1> DEFINE f == [b \in Held |-> content[b].call.id]
           I == Ids(Lines)
           H == HeldIds
<1>1. call.id \in 0..MaxCalls
  BY CallNumber DEF BaseInv, Typed, MailboxAssumption
<1>2. IsFiniteSet(1..call.id) /\ Cardinality(1..call.id) = call.id
  <2>1. \A n \in Nat : IsFiniteSet(1..n) /\ Cardinality(1..n) = n
    BY FS_Interval
  <2> QED
    BY <1>1, <2>1
<1>3. I \subseteq 1..MaxCalls
  BY LinesTyped, IdsFinite
<1>4. H \subseteq 1..MaxCalls
  BY DEF Traced, HeldIds, Calls
<1>5. I \cup H \in SUBSET (1..call.id)
  <2>1. ASSUME NEW id \in I \cup H PROVE id \in 1..call.id
    <3>1. id \in 1..MaxCalls
      BY <1>3, <1>4
    <3>2. id <= call.id
      BY DEF Traced
    <3> HIDE DEF I, H
    <3> QED
      BY <1>1, <3>1, <3>2 DEF MailboxAssumption
  <2> QED
    BY <2>1
<1>6. I \cap H = {}
  BY DEF Traced
<1>7. f \in Injection(Held, H)
  BY DEF Injection, IsInjective, HeldIds, Traced
<1> HIDE DEF I, H, f
<1>8. IsFiniteSet(I \cup H) /\ Cardinality(I \cup H) <= call.id
  BY <1>2, <1>5, FS_Subset
<1>9. IsFiniteSet(I) /\ IsFiniteSet(H)
  <2>1. I \in SUBSET (I \cup H) /\ H \in SUBSET (I \cup H)
    OBVIOUS
  <2> QED
    BY <1>8, <2>1, FS_Subset
<1>10. /\ Cardinality(I) \in Nat /\ Cardinality(H) \in Nat
       /\ Cardinality(I \cup H) = Cardinality(I) + Cardinality(H)
  BY <1>6, <1>9, Disjoint
<1>11. IsFiniteSet(Held) /\ Cardinality(Held) <= Cardinality(H) /\ Cardinality(Held) \in Nat
  BY <1>7, <1>9, FS_Injection, FS_CardinalityType
<1>12. Cardinality(Held) + Cardinality(I) <= call.id
  BY <1>1, <1>8, <1>10, <1>11
<1> QED
  BY <1>1, <1>10, <1>11, <1>12 DEF I

(* What the pool, the queue and the answers hold is all there is.          *)
LEMMA AllCount ==
  ASSUME MailboxAssumption, BaseInv, Traced, Counted
  PROVE  PoolSize = Len(free) + Cardinality(Queued) + Cardinality(Held)
<1>1. /\ IsFiniteSet(Pool) /\ IsFiniteSet(Queued) /\ IsFiniteSet(Held)
      /\ Cardinality(Pool) = Len(free)
  BY PoolCount, QueuedCount, HeldCount
<1>2. Pool \cap Queued = {} /\ (Pool \cup Queued) \cap Held = {}
  BY DEF BaseInv, Apart
<1>3. IsFiniteSet(Pool \cup Queued)
        /\ Cardinality(Pool \cup Queued) = Cardinality(Pool) + Cardinality(Queued)
  BY <1>1, <1>2, Disjoint
<1>4. Cardinality(Pool \cup Queued \cup Held)
        = Cardinality(Pool \cup Queued) + Cardinality(Held)
  BY <1>1, <1>2, <1>3, Disjoint
<1>5. Cardinality(1..PoolSize) = PoolSize
  BY FS_Interval DEF MailboxAssumption
<1>6. Pool \cup Queued \cup Held = 1..PoolSize
  BY DEF Counted, Buffers
<1> QED
  BY <1>1, <1>3, <1>4, <1>5, <1>6

(* A call finds a buffer.                                                  *)
LEMMA MailboxFound ==
  ASSUME MailboxAssumption, PoolIsAmple, AmpleInv, NoMailbox
  PROVE  FALSE
<1>1. pc = "get" /\ Len(free) = 0
  BY DEF NoMailbox
<1>2. PoolSize = Cardinality(Queued) + Cardinality(Held)
  BY <1>1, AllCount, QueuedCount, HeldCount DEF AmpleInv
<1>3. Cardinality(Queued) <= Len(queue) /\ Cardinality(Queued) \in Nat /\ Len(queue) \in Nat
  BY QueuedCount DEF AmpleInv
<1>4. Len(queue) < call.id
  BY <1>1 DEF AmpleInv, Counted
<1>5. Cardinality(Held) <= call.id /\ call.id <= MaxCalls /\ Cardinality(Held) \in Nat
        /\ call.id \in Nat
  BY HeldCount DEF AmpleInv
<1>6. PoolSize >= 2 * MaxCalls + MaxLost /\ MaxCalls \in Nat /\ MaxLost \in Nat
        /\ PoolSize \in Nat
  BY DEF PoolIsAmple, MailboxAssumption
<1> QED
  BY <1>2, <1>3, <1>4, <1>5, <1>6

(* The robust protocol takes a step.                                       *)
LEMMA RepeatAmple ==
  ASSUME MailboxAssumption, AmpleInv, NEW s \in Slaves, Repeat(s), last' \in Slaves,
         UNCHANGED <<queue, workerVars>>
  PROVE  AmpleInv'
<1>1. BaseInv' /\ lost <= lost'
  BY RepeatBase DEF AmpleInv
<1>2. UNCHANGED <<free, content, queue, coembxin, mbxIn, inbox, outbox, taken, call, sdop,
                  pc, result, failed>>
  BY DEF Repeat, poolVars, deviceVars, workerVars
<1>3. Pool' = Pool /\ Queued' = Queued /\ Held' = Held /\ (Sent' <=> Sent)
  BY <1>2 DEF Pool, Queued, Held, Answers, Sent
<1>4. Traced' /\ Lines' = Lines
  BY <1>2, <1>3, TracedQuiet DEF AmpleInv, Traced
<1>5. Counted'
  <2>1. Len(queue') <= Len(queue)
    BY <1>2 DEF AmpleInv, BaseInv, Typed
  <2> QED
    BY <1>1, <1>2, <1>3, <2>1, CountedQuiet DEF AmpleInv, BaseInv
<1>6. Asked'
  <2>1. Typed'
    BY <1>1 DEF BaseInv
  <2> QED
    BY <1>1, <1>2, <1>3, <1>4, <2>1, AskedQuiet DEF AmpleInv
<1>7. Own'
  BY <1>2, <1>3, <1>4, OwnQuiet DEF AmpleInv
<1> QED
  BY <1>1, <1>4, <1>5, <1>6, <1>7 DEF AmpleInv

(* A failed read uses up one of the losses the request was put behind.     *)
LEMMA ReadFailsAmple ==
  ASSUME MailboxAssumption, AmpleInv, NEW s \in Slaves, ReadFails(s), last' \in Slaves,
         free # <<>>, outbox[s] # <<>>, UNCHANGED <<queue, workerVars>>
  PROVE  AmpleInv'
<1>1. /\ BaseInv' /\ Pool' = Pool /\ lost' = lost + 1 /\ lost' <= MaxLost
      /\ \A i \in DOMAIN free : i # 1 => i - 1 \in DOMAIN free' /\ free'[i - 1] = free[i]
  BY ReadFailsBase DEF AmpleInv
<1>2. UNCHANGED <<content, queue, coembxin, mbxIn, inbox, outbox, taken, call, sdop,
                  pc, result, failed>>
  BY DEF ReadFails, poolVars, deviceVars, workerVars
<1>3. Queued' = Queued /\ Held' = Held /\ (Sent' <=> Sent)
  BY <1>2 DEF Queued, Held, Answers, Sent
<1>4. Traced' /\ Lines' = Lines
  BY <1>2, <1>3, TracedQuiet DEF AmpleInv, Traced
<1>5. Counted'
  <2>1. Len(queue') <= Len(queue)
    BY <1>2 DEF AmpleInv, BaseInv, Typed
  <2> QED
    BY <1>1, <1>2, <1>3, <2>1, CountedQuiet DEF AmpleInv, BaseInv
<1>6. Asked'
  <2> SUFFICES ASSUME Sent PROVE Asked'
    BY <1>3 DEF Asked
  <2>1. PICK p \in DOMAIN free :
          free[p] = sdop /\ p > Cardinality(Ids(Lines)) + (MaxLost - lost)
    BY DEF AmpleInv, Asked
  <2>2. Cardinality(Ids(Lines)) \in Nat
    BY HeldCount DEF AmpleInv
  <2>3. p \in Nat /\ lost \in Nat /\ MaxLost \in Nat
    BY DEF AmpleInv, BaseInv, Typed, MailboxAssumption
  <2>4. p # 1 /\ p - 1 > Cardinality(Ids(Lines)) + (MaxLost - lost')
    BY <1>1, <2>1, <2>2, <2>3
  <2>5. p - 1 \in DOMAIN free' /\ free'[p - 1] = sdop'
    BY <1>1, <1>2, <2>1, <2>4
  <2>6. content'[sdop'] = Request(call')
    BY <1>2 DEF AmpleInv, Asked
  <2>7. Ids(Lines') = Ids(Lines)
    BY <1>4
  <2>8. p - 1 > Cardinality(Ids(Lines')) + (MaxLost - lost')
    BY <2>4, <2>7
  <2> QED
    BY <2>5, <2>6, <2>8 DEF Asked, Request, Ids
<1>7. Own'
  BY <1>2, <1>3, <1>4, OwnQuiet DEF AmpleInv
<1> QED
  BY <1>1, <1>4, <1>5, <1>6, <1>7 DEF AmpleInv

(* A read uses up one of the answers the request was put behind.           *)
LEMMA ReadAmple ==
  ASSUME MailboxAssumption, AmpleInv, NEW s \in Slaves, Read(s), last' \in Slaves,
         free # <<>>, outbox[s] # <<>>, UNCHANGED <<queue, workerVars>>
  PROVE  AmpleInv'
<1> DEFINE b == Head(free)
           m == Head(outbox[s])
           x == Lines[s][1].id
<1>1. /\ BaseInv' /\ b \in Pool /\ b = free[1] /\ b \in Buffers
      /\ content' = [content EXCEPT ![b] = m]
      /\ outbox' = [outbox EXCEPT ![s] = Tail(@)]
      /\ \A i \in DOMAIN free : i # 1 => i - 1 \in DOMAIN free' /\ free'[i - 1] = free[i]
      /\ \/ Held' = Held \cup {b} /\ Pool' = Pool \ {b} /\ m.type = "answer"
         \/ Held' = Held /\ Pool' = Pool
  BY ReadBase DEF AmpleInv
<1>2. UNCHANGED <<queue, inbox, taken, call, sdop, pc, mbxIn, result, failed, lost>>
  BY DEF Read, workerVars
<1>3. b \notin Held /\ content \in [Buffers -> Messages] /\ b # NoBuffer
  <2>1. Pool \cap Held = {} /\ content \in [Buffers -> Messages]
    BY DEF AmpleInv, BaseInv, Apart, Typed
  <2>2. \A d \in Buffers : d # NoBuffer
    BY DEF Buffers, NoBuffer
  <2> HIDE DEF b
  <2> QED
    BY <1>1, <2>1, <2>2
<1>4. content'[b] = m /\ \A d \in Buffers : d # b => content'[d] = content[d]
  BY <1>1, <1>3
<1>5. Queued' = Queued /\ (Sent' <=> Sent)
  BY <1>2 DEF Queued, Sent
<1>6. Held \subseteq Buffers
  BY DEF AmpleInv, BaseInv, Typed, Held, Answers
<1>7. /\ Line(outbox[s], inbox[s]) /\ Lines \in [Slaves -> Seq(Calls)]
      /\ outbox \in [Slaves -> Seq(Messages)]
  BY LinesTyped DEF AmpleInv, BaseInv, Typed
<1>8. /\ LineOf(Tail(outbox[s]), inbox[s]) = Tail(Lines[s])
      /\ Lines[s] # <<>> /\ Lines[s][1] = m.call
  BY <1>7, LineRead DEF Lines
<1>9. Lines' = FirstOff(Lines, s)
  <2>1. \A t \in Slaves : Lines'[t] = IF t = s THEN Tail(Lines[s]) ELSE Lines[t]
    <3>1. ASSUME NEW t \in Slaves
          PROVE  Lines'[t] = IF t = s THEN Tail(Lines[s]) ELSE Lines[t]
      <4>1. Lines'[t] = LineOf(outbox'[t], inbox[t]) /\ Lines[t] = LineOf(outbox[t], inbox[t])
        BY <1>2 DEF Lines, LineOf
      <4>2. outbox'[t] = IF t = s THEN Tail(outbox[s]) ELSE outbox[t]
        BY <1>1, <1>7
      <4> QED
        BY <1>8, <4>1, <4>2
    <3> QED
      BY <3>1
  <2>2. DOMAIN Lines' = Slaves /\ DOMAIN Lines = Slaves /\ Lines' = [t \in Slaves |-> Lines'[t]]
    BY DEF Lines
  <2> QED
    BY <1>7, <2>1, <2>2 DEF FirstOff
<1>10. Spread(Lines)
  BY DEF AmpleInv, Traced
<1>11. /\ Lines' \in [Slaves -> Seq(Calls)] /\ Spread(Lines') /\ x \in Ids(Lines)
       /\ Ids(Lines') = Ids(Lines) \ {x} /\ Lines[s][1] \in Calls
       /\ Cardinality(Ids(Lines')) = Cardinality(Ids(Lines)) - 1
       /\ 1 \in DOMAIN Lines[s]
       /\ \A t \in Slaves : \A k \in DOMAIN Lines'[t] :
            \E j \in DOMAIN Lines[t] : Lines'[t][k] = Lines[t][j]
  <2> DEFINE M == FirstOff(Lines, s)
  <2> HIDE DEF b, m, x, M
  <2>0. M = FirstOff(Lines, s)
    BY DEF M
  <2>1. /\ M \in [Slaves -> Seq(Calls)] /\ Spread(M)
        /\ 1 \in DOMAIN Lines[s] /\ Lines[s][1] \in Calls
        /\ Lines[s][1].id \in Ids(Lines)
        /\ Ids(M) = Ids(Lines) \ {Lines[s][1].id}
        /\ Cardinality(Ids(M)) = Cardinality(Ids(Lines)) - 1
        /\ \A t \in Slaves : \A k \in DOMAIN M[t] :
             \E j \in DOMAIN Lines[t] : M[t][k] = Lines[t][j]
    <3>1. MailboxAssumption /\ Lines \in [Slaves -> Seq(Calls)] /\ Spread(Lines)
            /\ s \in Slaves /\ Lines[s] # <<>> /\ M = FirstOff(Lines, s)
      BY <1>7, <1>8, <1>10, <2>0
    <3>2. Spread(M) /\ M \in [Slaves -> Seq(Calls)]
      BY ONLY <3>1, FirstTaken
    <3>3. /\ 1 \in DOMAIN Lines[s] /\ Lines[s][1] \in Calls
          /\ Lines[s][1].id \in Ids(Lines)
      BY ONLY <3>1, FirstTaken
    <3>4. Ids(M) = Ids(Lines) \ {Lines[s][1].id}
      BY ONLY <3>1, FirstTaken
    <3>5. Cardinality(Ids(M)) = Cardinality(Ids(Lines)) - 1
      BY ONLY <3>1, FirstTaken
    <3>6. \A t \in Slaves : \A k \in DOMAIN M[t] :
             \E j \in DOMAIN Lines[t] : M[t][k] = Lines[t][j]
      BY ONLY <3>1, FirstTaken
    <3> QED
      BY <3>2, <3>3, <3>4, <3>5, <3>6
  <2>2. Lines' = M
    BY <1>9, <2>0
  <2> QED
    BY <2>1, <2>2 DEF x
<1>12. m.call.id = x /\ m.call \in Calls
  BY <1>8, <1>11
<1> HIDE DEF b, m, x
<1>13. \A d \in Held : content'[d] = content[d]
  BY <1>3, <1>4, <1>6
<1>14. HeldIds' \subseteq HeldIds \cup {x}
  BY <1>1, <1>4, <1>12, <1>13 DEF HeldIds
<1>15. Traced'
  <2>1. Ids(Lines') \cap HeldIds' = {}
    BY <1>11, <1>14 DEF AmpleInv, Traced
  <2>2. \A id \in Ids(Lines') \cup HeldIds' :
          id <= call'.id /\ (id = call'.id => taken'[call'.slave] = call'.id)
    BY <1>2, <1>11, <1>14 DEF AmpleInv, Traced
  <2>3. \A d \in Held' : content'[d].type = "answer" /\ content'[d].call \in Calls
    BY <1>1, <1>4, <1>12, <1>13 DEF AmpleInv, Traced
  <2>4. ASSUME NEW d \in Held', NEW e \in Held', content'[d].call.id = content'[e].call.id
        PROVE  d = e
    <3>1. \A h \in Held : content[h].call.id # x
      BY <1>11 DEF AmpleInv, Traced, HeldIds
    <3> QED
      BY <1>1, <1>4, <1>12, <1>13, <2>4, <3>1 DEF AmpleInv, Traced
  <2>5. ASSUME NEW t \in Slaves
        PROVE  /\ Len(inbox'[t]) <= 2 /\ Len(outbox'[t]) <= 2
               /\ \A k \in DOMAIN outbox'[t] :
                    outbox'[t][k].type = "answer" /\ outbox'[t][k].call \in Calls
    <3>1. CASE t = s
      <4>1. outbox[s] \in Seq(Messages) /\ Len(outbox[s]) \in Nat \ {0}
        BY <1>7, EmptySeq
      <4>2. /\ outbox'[s] = Tail(outbox[s]) /\ Len(Tail(outbox[s])) = Len(outbox[s]) - 1
            /\ DOMAIN Tail(outbox[s]) = 1..(Len(outbox[s]) - 1)
            /\ \A k \in 1..(Len(outbox[s]) - 1) : Tail(outbox[s])[k] = outbox[s][k + 1]
        BY <1>1, <1>7, <4>1, HeadTailProperties
      <4>3. ASSUME NEW k \in 1..(Len(outbox[s]) - 1)
            PROVE  outbox'[s][k].type = "answer" /\ outbox'[s][k].call \in Calls
        <5>1. k + 1 \in DOMAIN outbox[s]
          BY <4>1
        <5> QED
          BY <4>2, <5>1 DEF AmpleInv, Traced
      <4>4. Len(outbox[s]) <= 2 /\ Len(inbox[s]) <= 2
        BY DEF AmpleInv, Traced
      <4>5. Len(outbox[s]) - 1 <= 2
        BY <4>1, <4>4
      <4> QED
        BY <1>2, <3>1, <4>2, <4>3, <4>4, <4>5
    <3>2. CASE t # s
      <4>1. outbox'[t] = outbox[t]
        BY <1>1, <1>7, <3>2
      <4> QED
        BY <1>2, <4>1 DEF AmpleInv, Traced
    <3> QED
      BY <3>1, <3>2
  <2>6. /\ \A t \in Slaves : taken'[t] <= call'.id
        /\ Sent' => taken'[call'.slave] = call'.id
    BY <1>2, <1>5 DEF AmpleInv, Traced
  <2>7. \A d, e \in Held' : content'[d].call.id = content'[e].call.id => d = e
    BY <2>4
  <2>8. Spread(Lines)'
    BY <1>11 DEF Spread
  <2> QED
    BY <2>1, <2>2, <2>3, <2>5, <2>6, <2>7, <2>8 DEF Traced, Ids
<1>16. Counted'
  <2>1. Len(queue') <= Len(queue)
    BY <1>2 DEF AmpleInv, BaseInv, Typed
  <2>2. Pool' \cup Queued' \cup Held' = Pool \cup Queued \cup Held
    BY <1>1, <1>5
  <2> QED
    BY <1>1, <1>2, <2>1, <2>2, CountedQuiet DEF AmpleInv, BaseInv
<1>17. Asked'
  <2> SUFFICES ASSUME Sent PROVE Asked'
    BY <1>5 DEF Asked
  <2>1. PICK p \in DOMAIN free :
          free[p] = sdop /\ p > Cardinality(Ids(Lines)) + (MaxLost - lost)
    BY DEF AmpleInv, Asked
  <2>2. /\ Cardinality(Ids(Lines)) \in Nat /\ Cardinality(Ids(Lines')) \in Nat
        /\ Cardinality(Ids(Lines')) = Cardinality(Ids(Lines)) - 1
    BY <1>11, IdsFinite, HeldCount DEF AmpleInv
  <2>3. p \in Nat /\ lost \in Nat /\ MaxLost \in Nat /\ lost <= MaxLost
    BY DEF AmpleInv, BaseInv, Typed, MailboxAssumption
  <2>4. p # 1 /\ p - 1 > Cardinality(Ids(Lines')) + (MaxLost - lost')
    BY <1>2, <2>1, <2>2, <2>3
  <2>5. p - 1 \in DOMAIN free' /\ free'[p - 1] = sdop'
    BY <1>1, <1>2, <2>1, <2>4
  <2>6. sdop # b /\ sdop \in Buffers
    <3>1. 1 \in DOMAIN free /\ IsInjective(free) /\ free \in Seq(Buffers)
      BY <2>1 DEF AmpleInv, BaseInv, Apart, Typed
    <3> QED
      BY <1>1, <2>1, <2>4, <3>1 DEF IsInjective
  <2>7. content'[sdop'] = Request(call')
    BY <1>2, <1>4, <2>6 DEF AmpleInv, Asked
  <2> QED
    BY <2>4, <2>5, <2>7 DEF Asked, Request, Ids
<1>18. Own'
  <2> SUFFICES ASSUME ~failed PROVE Own'
    BY <1>2 DEF Own
  <2>1. \A t \in Slaves : \A k \in DOMAIN Lines[t] : Lines[t][k] = call
    BY DEF AmpleInv, Own
  <2>2. \A t \in Slaves : \A k \in DOMAIN Lines'[t] : Lines'[t][k] = call'
    BY <1>2, <1>11, <2>1
  <2>3. m.call = call
    BY <1>8, <1>11, <2>1
  <2>4. \A d \in Held' : content'[d].call = call'
    BY <1>1, <1>2, <1>4, <1>13, <2>3 DEF AmpleInv, Own
  <2>5. pc \notin {"idle", "get"}
    BY <1>11 DEF AmpleInv, Own
  <2> QED
    BY <1>2, <2>2, <2>4, <2>5 DEF Own
<1> QED
  BY <1>1, <1>15, <1>16, <1>17, <1>18 DEF AmpleInv

(* An answer takes the place of its request.                               *)
LEMMA ServeAmple ==
  ASSUME MailboxAssumption, AmpleInv, NEW s \in Slaves, Serve(s)
  PROVE  AmpleInv'
<1> DEFINE a == Answer(Head(inbox[s]))
<1>1. BaseInv'
  BY ServeBase DEF AmpleInv
<1>2. /\ UNCHANGED <<free, content, queue, coembxin, taken, pc, call, sdop, mbxIn, result,
                     failed, lost>>
      /\ inbox[s] # <<>> /\ Len(outbox[s]) < 2
      /\ outbox' = [outbox EXCEPT ![s] = Append(@, a)]
      /\ inbox' = [inbox EXCEPT ![s] = Tail(@)]
  BY DEF Serve, poolVars, workerVars
<1>3. Pool' = Pool /\ Queued' = Queued /\ Held' = Held /\ (Sent' <=> Sent)
        /\ HeldIds' = HeldIds
  BY <1>2 DEF Pool, Queued, Held, Answers, Sent, HeldIds
<1>4. /\ Line(outbox[s], inbox[s]) /\ inbox \in [Slaves -> Seq(Calls)]
      /\ outbox \in [Slaves -> Seq(Messages)]
  BY LinesTyped DEF AmpleInv, BaseInv, Typed
<1>5. LineOf(Append(outbox[s], a), Tail(inbox[s])) = LineOf(outbox[s], inbox[s])
  BY <1>2, <1>4, LineAnswered
<1>6. /\ outbox'[s] = Append(outbox[s], a) /\ inbox'[s] = Tail(inbox[s])
      /\ \A t \in Slaves : t # s => outbox'[t] = outbox[t] /\ inbox'[t] = inbox[t]
  BY <1>2, <1>4
<1>7. Lines' = Lines
  <2>1. ASSUME NEW t \in Slaves
        PROVE  LineOf(outbox'[t], inbox'[t]) = LineOf(outbox[t], inbox[t])
    BY <1>5, <1>6
  <2>2. Lines' = [t \in Slaves |-> LineOf(outbox'[t], inbox'[t])]
    BY DEF Lines, LineOf
  <2> QED
    BY <2>1, <2>2 DEF Lines
<1>8. ASSUME NEW t \in Slaves
      PROVE  /\ Len(inbox'[t]) <= 2 /\ Len(outbox'[t]) <= 2
             /\ \A k \in DOMAIN outbox'[t] :
                  outbox'[t][k].type = "answer" /\ outbox'[t][k].call \in Calls
  <2>1. CASE t = s
    <3>1. /\ outbox[s] \in Seq(Messages) /\ Len(outbox[s]) \in Nat
          /\ inbox[s] \in Seq(Calls) /\ Len(inbox[s]) \in Nat \ {0}
          /\ Head(inbox[s]) \in Calls
      BY <1>2, <1>4, EmptySeq
    <3>2. a \in Messages /\ a.type = "answer" /\ a.call \in Calls
      BY <3>1 DEF Answer, Messages
    <3> HIDE DEF a
    <3>3. /\ Len(Append(outbox[s], a)) = Len(outbox[s]) + 1
          /\ DOMAIN Append(outbox[s], a) = 1..(Len(outbox[s]) + 1)
          /\ \A k \in 1..(Len(outbox[s]) + 1) :
               Append(outbox[s], a)[k] = IF k <= Len(outbox[s]) THEN outbox[s][k] ELSE a
      BY <3>1, <3>2, AppendProperties
    <3>4. Len(Tail(inbox[s])) = Len(inbox[s]) - 1
      BY <1>2, <3>1, HeadTailProperties
    <3>5. Len(inbox[s]) <= 2
      BY DEF AmpleInv, Traced
    <3>6. Len(inbox'[s]) <= 2 /\ Len(outbox'[s]) <= 2
      BY <1>2, <1>6, <3>1, <3>3, <3>4, <3>5
    <3>7. ASSUME NEW k \in 1..(Len(outbox[s]) + 1)
          PROVE  outbox'[s][k].type = "answer" /\ outbox'[s][k].call \in Calls
      <4>1. k <= Len(outbox[s]) => k \in DOMAIN outbox[s]
        BY <3>1
      <4> QED
        BY <1>6, <3>2, <3>3, <4>1 DEF AmpleInv, Traced
    <3> QED
      BY <1>6, <2>1, <3>3, <3>6, <3>7
  <2>2. CASE t # s
    BY <1>6, <2>2 DEF AmpleInv, Traced
  <2> QED
    BY <2>1, <2>2
<1> HIDE DEF a
<1>9. Traced'
  <2>1. Spread(Lines') /\ Ids(Lines') = Ids(Lines)
    BY <1>7 DEF AmpleInv, Traced
  <2>2. Ids(Lines') \cap HeldIds' = {}
    BY <1>3, <2>1 DEF AmpleInv, Traced
  <2>3. \A id \in Ids(Lines') \cup HeldIds' :
          id <= call'.id /\ (id = call'.id => taken'[call'.slave] = call'.id)
    BY <1>2, <1>3, <2>1 DEF AmpleInv, Traced
  <2>4. /\ \A b \in Held' : content'[b].type = "answer" /\ content'[b].call \in Calls
        /\ \A b, d \in Held' : content'[b].call.id = content'[d].call.id => b = d
        /\ \A t \in Slaves : taken'[t] <= call'.id
        /\ Sent' => taken'[call'.slave] = call'.id
    BY <1>2, <1>3 DEF AmpleInv, Traced
  <2>5. Spread(Lines)'
    BY <2>1 DEF Spread
  <2> QED
    BY <1>8, <2>1, <2>2, <2>3, <2>4, <2>5 DEF Traced, Ids
<1>10. Counted'
  <2>1. Len(queue') <= Len(queue)
    BY <1>2 DEF AmpleInv, BaseInv, Typed
  <2> QED
    BY <1>1, <1>2, <1>3, <2>1, CountedQuiet DEF AmpleInv, BaseInv
<1>11. Asked'
  <2>1. Typed' /\ lost <= lost'
    BY <1>1, <1>2 DEF AmpleInv, BaseInv, Typed
  <2> QED
    BY <1>2, <1>3, <1>7, <2>1, AskedQuiet DEF AmpleInv
<1>12. Own'
  BY <1>2, <1>3, <1>7, OwnQuiet DEF AmpleInv
<1> QED
  BY <1>1, <1>9, <1>10, <1>11, <1>12 DEF AmpleInv

(* The request of the call is new to the drive: it is the last of its line.*)
LEMMA TakenTraced ==
  ASSUME MailboxAssumption, BaseInv, Traced, call \in Calls,
         taken[call.slave] # call.id, Len(inbox[call.slave]) < 2,
         inbox' = [inbox EXCEPT ![call.slave] = Append(@, call)],
         taken' = [taken EXCEPT ![call.slave] = call.id],
         UNCHANGED <<content, outbox, call>>, Held' = Held
  PROVE  /\ Traced'
         /\ \A t \in Slaves : \A k \in DOMAIN Lines'[t] :
              Lines'[t][k] = call \/ \E j \in DOMAIN Lines[t] : Lines'[t][k] = Lines[t][j]
<1> DEFINE s == call.slave
<1>1. s \in Slaves /\ call.id \in 1..MaxCalls /\ call.id \in Nat
  BY DEF Calls, MailboxAssumption
<1>2. /\ inbox \in [Slaves -> Seq(Calls)] /\ outbox \in [Slaves -> Seq(Messages)]
      /\ taken \in [Slaves -> 0..MaxCalls]
  BY DEF BaseInv, Typed
<1>3. /\ inbox'[s] = Append(inbox[s], call) /\ taken'[s] = call.id
      /\ \A t \in Slaves : t # s => inbox'[t] = inbox[t] /\ taken'[t] = taken[t]
  BY <1>1, <1>2
<1>4. /\ Line(outbox[s], inbox[s]) /\ Lines \in [Slaves -> Seq(Calls)] /\ Spread(Lines)
  BY <1>1, LinesTyped DEF Traced
<1>5. LineOf(outbox[s], Append(inbox[s], call)) = Append(LineOf(outbox[s], inbox[s]), call)
  BY <1>4, LineTaken
<1> HIDE DEF s
<1>6. Lines' = LastOn(Lines, s, call)
  <2>1. ASSUME NEW t \in Slaves
        PROVE  Lines'[t] = IF t = s THEN Append(Lines[s], call) ELSE Lines[t]
    <3>1. Lines' = [r \in Slaves |-> LineOf(outbox'[r], inbox'[r])]
      BY DEF Lines, LineOf
    <3>2. /\ Lines'[t] = LineOf(outbox'[t], inbox'[t]) /\ Lines[t] = LineOf(outbox[t], inbox[t])
          /\ outbox'[t] = outbox[t]
      BY <3>1 DEF Lines
    <3>3. CASE t = s
      BY <1>3, <1>5, <3>2, <3>3
    <3>4. CASE t # s
      BY <1>3, <3>2, <3>4
    <3> QED
      BY <3>3, <3>4
  <2>2. DOMAIN Lines' = Slaves /\ DOMAIN Lines = Slaves /\ Lines' = [t \in Slaves |-> Lines'[t]]
    BY DEF Lines
  <2> QED
    BY <1>1, <1>4, <2>1, <2>2 DEF LastOn
<1>7. call.id \notin Ids(Lines) \cup HeldIds
  BY DEF Traced
<1> DEFINE M == LastOn(Lines, s, call)
<1> HIDE DEF M
<1>8. MailboxAssumption /\ Lines \in [Slaves -> Seq(Calls)] /\ Spread(Lines)
        /\ s \in Slaves /\ call \in Calls /\ call.id \notin Ids(Lines)
        /\ M = LastOn(Lines, s, call)
  BY <1>1, <1>4, <1>7 DEF M
<1>9. Spread(M) /\ M \in [Slaves -> Seq(Calls)]
  BY ONLY <1>8, LastPut
<1>10. Ids(M) = Ids(Lines) \cup {call.id}
  BY ONLY <1>8, LastPut
<1>11. \A t \in Slaves : \A k \in DOMAIN M[t] :
         M[t][k] = call \/ \E j \in DOMAIN Lines[t] : M[t][k] = Lines[t][j]
  BY ONLY <1>8, LastPut
<1>12. Lines' = M
  BY <1>6 DEF M
<1>13. HeldIds' = HeldIds
  BY DEF HeldIds
<1>14. Ids(Lines') \cap HeldIds' = {}
  BY <1>7, <1>10, <1>12, <1>13 DEF Traced
<1>15. taken'[call.slave] = call.id
  BY <1>3 DEF s
<1>16. \A id \in Ids(Lines') \cup HeldIds' :
         id <= call'.id /\ (id = call'.id => taken'[call'.slave] = call'.id)
  <2>1. call.id <= call.id
    BY <1>1
  <2> QED
    BY <1>10, <1>12, <1>13, <1>15, <2>1 DEF Traced
<1>17. ASSUME NEW t \in Slaves
       PROVE  /\ Len(inbox'[t]) <= 2 /\ Len(outbox'[t]) <= 2 /\ taken'[t] <= call'.id
              /\ \A k \in DOMAIN outbox'[t] :
                   outbox'[t][k].type = "answer" /\ outbox'[t][k].call \in Calls
  <2>1. CASE t = s
    <3>1. inbox[s] \in Seq(Calls) /\ Len(inbox[s]) \in Nat /\ Len(inbox[s]) < 2
      BY <1>1, <1>2 DEF s
    <3>2. Len(Append(inbox[s], call)) = Len(inbox[s]) + 1
      BY <3>1, AppendProperties
    <3>3. Len(inbox'[s]) <= 2 /\ taken'[s] <= call.id
      BY <1>1, <1>3, <3>1, <3>2
    <3> QED
      BY <2>1, <3>3 DEF Traced
  <2>2. CASE t # s
    BY <1>3, <2>2 DEF Traced
  <2> QED
    BY <2>1, <2>2
<1>18. /\ \A b \in Held' : content'[b].type = "answer" /\ content'[b].call \in Calls
       /\ \A b, d \in Held' : content'[b].call.id = content'[d].call.id => b = d
       /\ Sent' => taken'[call'.slave] = call'.id
  BY <1>15 DEF Traced
<1>19. Spread(Lines)'
  BY <1>9, <1>12 DEF Spread
<1>20. Traced'
  BY <1>14, <1>16, <1>17, <1>18, <1>19 DEF Traced, Ids
<1> QED
  BY <1>11, <1>12, <1>20

(* The numbers once the request of the running call was written            *)
Numbers ==
  /\ PoolSize = Len(free) + Cardinality(Queued) + Cardinality(Held)
  /\ Cardinality(Held) \in Nat /\ Cardinality(Ids(Lines)) \in Nat
  /\ call.id \in 0..MaxCalls
  /\ Cardinality(Held) + Cardinality(Ids(Lines)) <= call.id
  /\ Cardinality(Queued) \in Nat /\ Len(queue) \in Nat
  /\ Cardinality(Queued) < Len(queue) /\ Len(queue) <= call.id
  /\ Len(free) \in Nat

(* Once written, the request has left its buffer to the pool.              *)
LEMMA WrittenCount ==
  MailboxAssumption /\ BaseInv /\ Traced /\ Counted /\ Sent /\ pc = "send" => Numbers
<1> SUFFICES ASSUME MailboxAssumption, BaseInv, Traced, Counted, Sent, pc = "send"
             PROVE  Numbers
  OBVIOUS
<1>1. \E i \in DOMAIN queue : queue[i].buffer = NoBuffer
  BY DEF BaseInv, Ticketed, Sent
<1> QED
  BY <1>1, AllCount, HeldCount, QueuedCount, PoolCount DEF Counted, Numbers

(* The buffer of a request that was just written is the last to be used    *)
(* again, after all that can come.                                         *)
LEMMA WrittenLast ==
  ASSUME MailboxAssumption, PoolIsAmple, BaseInv', Traced', Counted', Sent',
         pc' = "send", lost' \in 0..MaxLost
  PROVE  Len(free') > Cardinality(Ids(Lines')) + (MaxLost - lost')
<1>1. MailboxAssumption' /\ BaseInv' /\ Traced' /\ Counted' /\ Sent' /\ (pc = "send")'
        => Numbers'
  BY WrittenCount, PTL
<1>2. Numbers'
  BY <1>1 DEF MailboxAssumption
<1>3. PoolSize >= 2 * MaxCalls + MaxLost /\ MaxCalls \in Nat /\ MaxLost \in Nat
        /\ PoolSize \in Nat
  BY DEF PoolIsAmple, MailboxAssumption
<1>4. /\ PoolSize = Len(free') + Cardinality(Queued') + Cardinality(Held')
      /\ Cardinality(Held') \in Nat /\ Cardinality(Ids(Lines')) \in Nat
      /\ call'.id \in 0..MaxCalls
      /\ Cardinality(Held') + Cardinality(Ids(Lines')) <= call'.id
      /\ Cardinality(Queued') \in Nat /\ Len(queue') \in Nat
      /\ Cardinality(Queued') < Len(queue') /\ Len(queue') <= call'.id
      /\ Len(free') \in Nat
  BY <1>2 DEF Numbers, Ids
<1> DEFINE f == Len(free')
           q == Cardinality(Queued')
           h == Cardinality(Held')
           i == Cardinality(Ids(Lines'))
           l == Len(queue')
           c == call'.id
<1>5. /\ PoolSize = f + q + h /\ h \in Nat /\ i \in Nat /\ c \in 0..MaxCalls /\ h + i <= c
      /\ q \in Nat /\ l \in Nat /\ q < l /\ l <= c /\ f \in Nat
  BY ONLY <1>4, Zenon
<1> HIDE DEF f, q, h, i, l, c
<1>5a. lost' \in 0..MaxLost
  OBVIOUS
<1>6. f > i + (MaxLost - lost')
  <2>1. 2 * MaxCalls = MaxCalls + MaxCalls /\ PoolSize >= MaxCalls + MaxCalls + MaxLost
    BY ONLY <1>3
  <2>2. q < MaxCalls /\ h + i <= MaxCalls
    BY ONLY <1>3, <1>5
  <2>3. q + h + i < MaxCalls + MaxCalls
    BY ONLY <1>3, <1>5, <2>2
  <2>4. f > i + MaxLost
    BY ONLY <1>3, <1>5, <2>1, <2>3
  <2>5. f \in Nat /\ i \in Nat /\ MaxLost \in Nat /\ lost' \in Nat
    BY ONLY <1>3, <1>5, <1>5a
  <2> DEFINE m == lost'
  <2>6. m \in Nat
    BY ONLY <2>5
  <2> HIDE DEF m
  <2>7. f > i + (MaxLost - m)
    BY ONLY <2>4, <2>5, <2>6
  <2> QED
    BY ONLY <2>7 DEF m
<1> QED
  BY ONLY <1>6, Zenon DEF f, i

(* The handler tidies the queue or writes the request of the running call. *)
LEMMA OutHandlerAmple ==
  ASSUME MailboxAssumption, PoolIsAmple, AmpleInv, OutHandler
  PROVE  AmpleInv'
<1>1. /\ BaseInv' /\ Queued' \subseteq Queued /\ Pool' = Pool \cup (Queued \ Queued')
      /\ Held' = Held /\ lost <= lost' /\ lost' \in 0..MaxLost
      /\ Len(queue') <= Len(queue)
      /\ UNCHANGED <<content, coembxin, rmp, last, outbox, workerVars>>
      /\ \A i \in DOMAIN free : i \in DOMAIN free' /\ free'[i] = free[i]
  BY OutHandlerBase DEF AmpleInv
<1>2. UNCHANGED <<content, outbox, pc, call, sdop, mbxIn, result, failed>>
  BY <1>1 DEF workerVars
<1>3. Counted'
  <2>1. Pool' \cup Queued' \cup Held' = Pool \cup Queued \cup Held
    BY <1>1
  <2> QED
    BY <1>1, <1>2, <2>1, CountedQuiet DEF AmpleInv, BaseInv
<1>4. Typed'
  BY <1>1 DEF BaseInv
<1>5. CASE /\ UNCHANGED <<inbox, taken, lost>>
           /\ \A i \in DOMAIN queue : ~Pending(queue[i])
           /\ \A i \in DOMAIN queue' : \E j \in DOMAIN queue : queue'[i] = queue[j]
  <2>1. Sent' => Sent
    BY <1>2, <1>5 DEF Sent, Pending
  <2>2. Traced' /\ Lines' = Lines
    BY <1>1, <1>2, <1>5, <2>1, TracedQuiet DEF AmpleInv, Traced
  <2>3. Asked'
    BY <1>1, <1>2, <1>4, <2>1, <2>2, AskedQuiet DEF AmpleInv
  <2>4. Own'
    BY <1>1, <1>2, <2>2, OwnQuiet DEF AmpleInv
  <2> QED
    BY <1>1, <1>3, <2>2, <2>3, <2>4 DEF AmpleInv
<1>6. ASSUME NEW ok \in BOOLEAN,
             /\ pc = "send" /\ call \in Calls /\ WriteMailbox(call, ok)
             /\ content[sdop] = Request(call) /\ sdop \in Buffers
             /\ ok => Len(free') > 0 /\ free'[Len(free')] = sdop
             /\ ~ok => \A i \in DOMAIN queue' :
                         ~queue'[i].remove => queue'[i].state # "DONE"
      PROVE  AmpleInv'
  <2>1. ~ok => ~Sent'
    <3>1. \E i \in DOMAIN queue' : ~queue'[i].remove
      BY <1>1, <1>2, <1>6 DEF BaseInv, Ticketed
    <3> QED
      BY <1>2, <1>6, <3>1 DEF Sent
  <2>2. \/ ~ok /\ UNCHANGED <<inbox, taken>>
        \/ taken[call.slave] = call.id /\ UNCHANGED <<inbox, taken>>
        \/ /\ taken[call.slave] # call.id /\ Len(inbox[call.slave]) < 2
           /\ inbox' = [inbox EXCEPT ![call.slave] = Append(@, call)]
           /\ taken' = [taken EXCEPT ![call.slave] = call.id]
    BY <1>6, WriteEffect DEF AmpleInv
  <2>3. Traced' /\ \A t \in Slaves : \A k \in DOMAIN Lines'[t] :
          Lines'[t][k] = call \/ \E j \in DOMAIN Lines[t] : Lines'[t][k] = Lines[t][j]
    <3>1. CASE /\ UNCHANGED <<inbox, taken>>
               /\ ~ok \/ taken[call.slave] = call.id
      BY <1>1, <1>2, <2>1, <3>1, TracedQuiet DEF AmpleInv
    <3>2. CASE /\ taken[call.slave] # call.id /\ Len(inbox[call.slave]) < 2
               /\ inbox' = [inbox EXCEPT ![call.slave] = Append(@, call)]
               /\ taken' = [taken EXCEPT ![call.slave] = call.id]
      BY <1>1, <1>2, <1>6, <3>2, TakenTraced DEF AmpleInv
    <3> QED
      BY <2>2, <3>1, <3>2
  <2>4. Asked'
    <3> SUFFICES ASSUME Sent' PROVE Asked'
      BY DEF Asked
    <3>1. Len(free') > 0 /\ free'[Len(free')] = sdop'
      BY <1>2, <1>6, <2>1
    <3>2. Len(free') \in DOMAIN free'
      BY <1>4, <3>1 DEF Typed
    <3>3. Len(free') > Cardinality(Ids(Lines')) + (MaxLost - lost')
      BY <1>1, <1>2, <1>3, <1>6, <2>3, WrittenLast
    <3>4. content'[sdop'] = Request(call')
      BY <1>2, <1>6
    <3> QED
      BY <3>1, <3>2, <3>3, <3>4 DEF Asked, Request, Ids
  <2>5. Own'
    <3> SUFFICES ASSUME ~failed PROVE Own'
      BY <1>2 DEF Own
    <3>1. \A t \in Slaves : \A k \in DOMAIN Lines'[t] : Lines'[t][k] = call'
      BY <1>2, <2>3 DEF AmpleInv, Own
    <3>2. \A b \in Held' : content'[b].call = call'
      BY <1>1, <1>2 DEF AmpleInv, Own
    <3>3. pc' \notin {"idle", "get"}
      BY <1>2, <1>6
    <3> QED
      BY <3>1, <3>2, <3>3 DEF Own
  <2> QED
    BY <1>1, <1>3, <2>3, <2>4, <2>5 DEF AmpleInv
<1>7. \/ /\ UNCHANGED <<inbox, taken, lost>>
         /\ \A i \in DOMAIN queue : ~Pending(queue[i])
         /\ \A i \in DOMAIN queue' : \E j \in DOMAIN queue : queue'[i] = queue[j]
      \/ \E ok \in BOOLEAN :
           /\ pc = "send" /\ call \in Calls /\ WriteMailbox(call, ok)
           /\ content[sdop] = Request(call) /\ sdop \in Buffers
           /\ \A i \in DOMAIN queue : ~queue[i].remove => queue[i].state # "DONE"
           /\ ok => /\ sdop \notin Queued' /\ sdop \in Queued
                    /\ Len(free') > 0 /\ free'[Len(free')] = sdop
           /\ ~ok => \A i \in DOMAIN queue' :
                        ~queue'[i].remove => queue'[i].state # "DONE"
  BY OutHandlerBase DEF AmpleInv
<1> QED
  BY <1>5, <1>6, <1>7

(* Before the first call all buffers are free.                             *)
LEMMA InitAmple == ASSUME MailboxAssumption, Init PROVE AmpleInv
<1>1. BaseInv
  BY InitBase
<1>2. /\ free = [i \in Buffers |-> i] /\ queue = <<>> /\ pc = "idle" /\ call = NoCall
      /\ coembxin = [s \in Slaves |-> NoBuffer] /\ mbxIn = NoBuffer
      /\ inbox = [s \in Slaves |-> <<>>] /\ outbox = [s \in Slaves |-> <<>>]
      /\ taken = [s \in Slaves |-> 0]
  BY DEF Init
<1>3. Held = {} /\ HeldIds = {}
  BY <1>2 DEF Held, HeldIds, Answers
<1>4. \A s \in Slaves : Lines[s] = <<>>
  <2>1. ASSUME NEW s \in Slaves PROVE Lines[s] = <<>>
    <3>1. outbox[s] = <<>> /\ inbox[s] = <<>>
      BY <1>2
    <3>2. Lines[s] = LineOf(<<>>, <<>>)
      BY <3>1 DEF Lines
    <3>3. Line(<<>>, <<>>)
      BY DEF Line
    <3>4. LineOf(<<>>, <<>>) \in Seq(Calls) /\ Len(LineOf(<<>>, <<>>)) = 0
      BY <3>3, LineTyped
    <3> QED
      BY <3>2, <3>4, EmptySeq
  <2> QED
    BY <2>1
<1>5. Ids(Lines) = {} /\ Spread(Lines)
  BY <1>4 DEF Ids, Spread
<1>6. ~Sent
  BY <1>2 DEF Sent
<1>7. Traced
  <2>1. call.id = 0
    BY <1>2 DEF NoCall
  <2>2. \A s \in Slaves : /\ Len(inbox[s]) <= 2 /\ Len(outbox[s]) <= 2
                          /\ DOMAIN outbox[s] = {} /\ taken[s] <= call.id
    BY <1>2, <2>1
  <2> QED
    BY <1>3, <1>5, <1>6, <2>2 DEF Traced
<1>8. Counted
  <2>1. Pool = Buffers
    BY <1>2 DEF Pool, Range
  <2>2. Queued = {}
    BY <1>2 DEF Queued
  <2>3. Len(queue) <= call.id
    BY <1>2 DEF NoCall
  <2> QED
    BY <1>2, <1>3, <2>1, <2>2, <2>3 DEF Counted
<1>9. Asked /\ Own
  BY <1>2, <1>3, <1>4, <1>5, <1>6 DEF Asked, Own
<1> QED
  BY <1>1, <1>7, <1>8, <1>9 DEF AmpleInv

(* Each step keeps the invariant of a pool with buffers enough.            *)
LEMMA AmpleStep ==
  ASSUME MailboxAssumption, PoolIsAmple, AmpleInv, [Next]_vars
  PROVE  AmpleInv'
<1>1. CASE Worker
  <2>1. ASSUME NEW c \in Calls, Begin(c) PROVE AmpleInv'
    BY <2>1, BeginAmple
  <2> QED
    BY <1>1, <2>1, MailboxFound, SendAmple, SendEndsAmple, ReceiveAmple,
       ReceiveExpiresAmple, CompareAmple DEF Worker
<1>2. CASE InHandler
  <2>1. PICK s \in Slaves :
          /\ last' = s /\ UNCHANGED <<queue, workerVars>>
          /\ \/ Repeat(s)
             \/ ReadFails(s) /\ free # <<>> /\ outbox[s] # <<>>
             \/ Read(s) /\ free # <<>> /\ outbox[s] # <<>>
    BY <1>2, InHandlerTurn DEF AmpleInv
  <2> QED
    BY <2>1, RepeatAmple, ReadFailsAmple, ReadAmple
<1>3. CASE OutHandler
  BY <1>3, OutHandlerAmple
<1>4. ASSUME NEW s \in Slaves, Serve(s) \/ Emergency(s) PROVE AmpleInv'
  BY <1>4, ServeAmple DEF Emergency, PoolIsAmple
<1>5. CASE UNCHANGED vars
  <2>1. UNCHANGED <<free, content, queue, coembxin, rmp, last, inbox, taken, outbox,
                    pc, call, sdop, mbxIn, result, failed, lost>>
    BY <1>5 DEF vars, poolVars, deviceVars, workerVars
  <2>2. /\ Pool' = Pool /\ Queued' = Queued /\ Held' = Held /\ (Sent' <=> Sent)
    BY <2>1 DEF Pool, Queued, Answers, Held, Sent
  <2>3. BaseInv'
    BY <1>5, BaseStep DEF AmpleInv
  <2>4. Traced' /\ Lines' = Lines
    BY <2>1, <2>2, TracedQuiet DEF AmpleInv, Traced
  <2>5. Len(queue') <= Len(queue) /\ lost <= lost' /\ Typed'
    BY <2>1, <2>3 DEF AmpleInv, BaseInv, Typed
  <2>6. Counted'
    BY <2>1, <2>2, <2>5, CountedQuiet DEF AmpleInv
  <2>7. Asked'
    BY <2>1, <2>2, <2>4, <2>5, AskedQuiet DEF AmpleInv
  <2>8. Own'
    BY <2>1, <2>2, <2>4, OwnQuiet DEF AmpleInv
  <2> QED
    BY <2>3, <2>4, <2>6, <2>7, <2>8 DEF AmpleInv
<1> QED
  BY <1>1, <1>2, <1>3, <1>4, <1>5 DEF Next, Handler

----------------------------------------------------------------------------
(* What the invariants say                                                 *)

(* No buffer is in two places.                                             *)
LEMMA BaseOnce == ASSUME MailboxAssumption, BaseInv PROVE NoBufferTwice
BY OnePlace DEF NoBufferTwice

(* What a user of the mailbox relies on follows from the invariant.        *)
LEMMA AmpleSafe ==
  ASSUME MailboxAssumption, PoolIsAmple, AmpleInv
  PROVE  MailboxSafe
<1>1. BaseInv /\ Traced /\ Counted /\ Asked /\ Own
  BY DEF AmpleInv
<1>2. TypeOK
  <2>1. Len(free) <= PoolSize /\ Len(queue) <= PoolSize
    <3>1. /\ PoolSize = Len(free) + Cardinality(Queued) + Cardinality(Held)
          /\ Len(free) \in Nat /\ Cardinality(Queued) \in Nat /\ Cardinality(Held) \in Nat
          /\ Len(queue) \in Nat /\ Len(queue) <= call.id /\ call.id \in 0..MaxCalls
      BY <1>1, AllCount, PoolCount, QueuedCount, HeldCount DEF Counted
    <3>2. PoolSize >= 2 * MaxCalls + MaxLost /\ MaxCalls \in Nat /\ MaxLost \in Nat
            /\ PoolSize \in Nat
      BY DEF PoolIsAmple, MailboxAssumption
    <3> QED
      BY <3>1, <3>2
  <2>2. Cardinality({i \in DOMAIN queue : ~queue[i].remove}) = IF pc = "send" THEN 1 ELSE 0
    <3> DEFINE K == {i \in DOMAIN queue : ~queue[i].remove}
    <3>1. CASE pc = "send"
      <4>1. PICK i \in DOMAIN queue : ~queue[i].remove
        BY <1>1, <3>1 DEF BaseInv, Ticketed
      <4>2. K = {i}
        BY <1>1, <4>1 DEF BaseInv, Ticketed
      <4> QED
        BY <3>1, <4>2, FS_Singleton
    <3>2. CASE pc # "send"
      <4>1. K = {}
        BY <1>1, <3>2 DEF BaseInv, Ticketed
      <4> QED
        BY <3>2, <4>1, FS_EmptySet
    <3> QED
      BY <3>1, <3>2
  <2> QED
    BY <1>1, <2>1, <2>2 DEF TypeOK, BaseInv, Typed, Ticketed, Traced
<1>3. BuffersConserved
  BY <1>1, OnePlace DEF BuffersConserved, Counted
<1>4. SentMeansTaken /\ RequestIsKept
  BY <1>1 DEF SentMeansTaken, RequestIsKept, Sent, Traced, Asked
<1>5. OwnUntilFailure
  BY <1>1 DEF OwnUntilFailure, Own
<1> QED
  BY <1>2, <1>3, <1>4, <1>5 DEF MailboxSafe

(* However small the pool is and whatever the drives send, no buffer is    *)
(* ever in two places.                                                     *)
THEOREM BuffersApart == MailboxAssumption => (Spec => []NoBufferTwice)
<1> SUFFICES ASSUME MailboxAssumption PROVE Spec => []NoBufferTwice
  OBVIOUS
<1>1. Init => BaseInv
  BY InitBase
<1>2. BaseInv /\ [Next]_vars => BaseInv'
  BY BaseStep
<1>3. BaseInv => NoBufferTwice
  BY BaseOnce
<1> QED
  BY <1>1, <1>2, <1>3, PTL DEF Spec

(* A request that its call has given up is never written to a drive.       *)
THEOREM GivenUpIsNotWritten == MailboxAssumption => (Spec => NoLateWrite)
<1> SUFFICES ASSUME MailboxAssumption PROVE Spec => NoLateWrite
  OBVIOUS
<1> DEFINE Late == \A s \in Slaves : taken'[s] # taken[s] =>
                     pc = "send" /\ s = call.slave /\ taken'[s] = call.id
<1>1. Init => BaseInv
  BY InitBase
<1>2. BaseInv /\ [Next]_vars => BaseInv'
  BY BaseStep
<1>3. BaseInv /\ [Next]_vars => [Late]_vars
  BY WriteStep
<1> HIDE DEF Late
<1>4. Spec => [][Late]_vars
  BY <1>1, <1>2, <1>3, PTL DEF Spec
<1> QED
  BY <1>4 DEF NoLateWrite, Late

(* With a pool for every call and every lost read, and drives that send    *)
(* answers only, all buffers are conserved, a request counts as sent only  *)
(* when its drive took it, the worker compares with its own request, and   *)
(* gets its own answer until a call has failed.                            *)
THEOREM AmpleIsSafe == MailboxAssumption /\ PoolIsAmple => (Spec => []MailboxSafe)
<1> SUFFICES ASSUME MailboxAssumption, PoolIsAmple PROVE Spec => []MailboxSafe
  OBVIOUS
<1>1. Init => AmpleInv
  BY InitAmple
<1>2. AmpleInv /\ [Next]_vars => AmpleInv'
  BY AmpleStep
<1>3. AmpleInv => MailboxSafe
  BY AmpleSafe
<1> QED
  BY <1>1, <1>2, <1>3, PTL DEF Spec
=============================================================================
