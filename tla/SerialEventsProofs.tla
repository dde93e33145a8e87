------------------------- MODULE SerialEventsProofs -------------------------
(***************************************************************************)
(* Proofs about SerialEvents for any number of ports, polled or not, and    *)
(* counters of any width.                                                   *)
(***************************************************************************)
EXTENDS SerialEvents, FiniteSetTheorems, SequenceTheorems, TLAPS

-----------------------------------------------------------------------------
(* The inductive invariant *)

Struct == [fd : Ports \cup {null}, next : Ports \cup {null}, prev : Ports \cup {null},
           closing : BOOLEAN, output : BOOLEAN, data : BOOLEAN]

Neighbours == [prev : Ports \cup {null}, next : Ports \cup {null}]

Links == /\ master_index \in Ports \cup {null} /\ eis \in [Ports -> Struct]
         /\ at \in [Ports -> Places] /\ index \in [Ports -> Neighbours]

Flags == /\ cts \in [Ports -> BOOLEAN] /\ omflags \in [Ports -> BOOLEAN]
         /\ data \in [Ports -> BOOLEAN] /\ owed \in [Ports -> BOOLEAN]
         /\ lsr \in [Ports -> BOOLEAN] /\ icount \in [Ports -> BOOLEAN]
         /\ heard \in [Ports -> BOOLEAN \cup {null}] /\ wantsCTS \in [Ports -> BOOLEAN]
         /\ raced \in BOOLEAN /\ polled \in Polled \cup {null}

Counter == 0 .. Wrap - 1

Counters == /\ frames \in [Ports -> Counter] /\ osis \in [Ports -> Counter]
            /\ told \in [Ports -> Counter] /\ base \in [Ports -> Counter]
            /\ seen \in [Ports -> Counter]

(* A struct's fd is its own port's once it has been set. *)
Own == \A q \in Ports : at[q] \in Polling \cup {"read", "unlink"} => eis[q].fd = q

(* What the loop remembers of the lines is what the listener has heard, and  *)
(* of the counter, what it has seen.                                         *)
Told == \A q \in Ports :
  /\ ~wantsCTS[q] => heard[q] = null
  /\ at[q] \in Polling =>
       /\ heard[q] # null => heard[q] = omflags[q]
       /\ (base[q] + told[q]) % Wrap = seen[q]
       /\ icount[q] => osis[q] = seen[q]

(* As long as no two changes of the list have overlapped there is at most    *)
(* one at a time, ...                                                        *)
Alone == ~raced => \A p, q \in Ports : at[p] \in Changing /\ at[q] \in Changing => p = q

(* ... and the list is the chain s of n structs, of the loops that have      *)
(* entered and not left it; whoever is about to change it has read its end,  *)
(* or the struct's neighbours, as they are.  Only the last struct can be one *)
(* that has not been filled, or whose pointers have not been set.            *)
Listed == {"set", "fill", "top", "lsr", "count", "lines", "data", "read", "unlink"}

Linked(n, s) ==
  /\ \A i \in 1 .. n : s[i] \in Ports
  /\ \A i, j \in 1 .. n : s[i] = s[j] => i = j
  /\ \A q \in Ports : at[q] \in Listed <=> \E i \in 1 .. n : s[i] = q
  /\ master_index = IF n = 0 THEN null ELSE s[1]
  /\ \A i \in 1 .. n : at[s[i]] \in {"set", "fill"} => i = n
  /\ \A i \in 1 .. n : at[s[i]] # "set" =>
       /\ eis[s[i]].next = IF i = n THEN null ELSE s[i + 1]
       /\ eis[s[i]].prev = IF i = 1 THEN null ELSE s[i - 1]
  /\ \A q \in Ports : at[q] = "link" => index[q].prev = IF n = 0 THEN null ELSE s[n]
  /\ \A q \in Ports : at[q] = "set" => index[q].prev = IF n = 1 THEN null ELSE s[n - 1]
  /\ \A q \in Ports : at[q] = "unlink" => /\ index[q].prev = eis[q].prev
                                          /\ index[q].next = eis[q].next

(* What of it a walk along next sees. *)
Threaded(n, s) ==
  /\ \A i \in 1 .. n : s[i] \in Ports
  /\ \A i, j \in 1 .. n : s[i] = s[j] => i = j
  /\ master_index = IF n = 0 THEN null ELSE s[1]
  /\ \A i \in 1 .. n : at[s[i]] = "set" => i = n
  /\ \A i \in 1 .. n : at[s[i]] # "set" => eis[s[i]].next = IF i = n THEN null ELSE s[i + 1]

Ended(n, s) == n = 0 \/ at[s[n]] # "set"

Chain == ~raced => \E n \in Nat : \E s \in [1 .. n -> Ports] : Linked(n, s)

IInv == Links /\ Flags /\ Counters /\ Own /\ Told /\ Alone /\ Chain
-----------------------------------------------------------------------------
(* Induction, and the recursive function Walk *)

LEMMA Least ==
  ASSUME NEW S \in SUBSET Nat, S # {}
  PROVE  \E m \in S : \A k \in S : m <= k
<1> DEFINE R == OpToRel(<, Nat)
<1>1. IsWellFoundedOn(R, Nat)
  BY NatLessThanWellFounded
<1>2. \A x, y \in Nat : x < y => <<x, y>> \in R
  BY DEF OpToRel
<1> HIDE DEF R
<1>3. PICK m \in S : \A k \in S : ~(<<k, m>> \in R)
  BY <1>1, WFMin
<1>4. ASSUME NEW k \in S PROVE m <= k
  <2>1. k \in Nat /\ m \in Nat
    OBVIOUS
  <2>2. ~(k < m)
    BY <1>2, <1>3, <2>1
  <2>3. QED BY <2>1, <2>2
<1>5. QED BY <1>4

LEMMA Induction ==
  ASSUME NEW S \in SUBSET Nat, 0 \in S, \A n \in S : n + 1 \in S
  PROVE  S = Nat
<1> SUFFICES ASSUME Nat \ S # {} PROVE FALSE
  OBVIOUS
<1>1. PICK m \in Nat \ S : \A k \in Nat \ S : m <= k
  BY Least
<1>2. m # 0 /\ m - 1 \in S
  BY <1>1
<1>3. QED BY <1>1, <1>2

(* g is the walk along next, n steps far. *)
Walks(g, n) == g = [k \in 0 .. n |-> IF k = 0 THEN master_index
                                     ELSE IF g[k - 1] = null THEN null ELSE eis[g[k - 1]].next]

LEMMA WalkExists == \A n \in Nat : \E g : Walks(g, n)
<1> DEFINE S == {n \in Nat : \E g : Walks(g, n)}
<1>1. 0 \in S
  <2> DEFINE g == [k \in 0 .. 0 |-> master_index]
  <2>1. Walks(g, 0)
    BY DEF Walks
  <2>2. QED BY <2>1
<1>2. ASSUME NEW n \in S PROVE n + 1 \in S
  <2>1. PICK g : Walks(g, n)
    OBVIOUS
  <2> DEFINE h == [k \in 0 .. n + 1 |->
                     IF k <= n THEN g[k] ELSE IF g[n] = null THEN null ELSE eis[g[n]].next]
  <2>2. n \in Nat
    OBVIOUS
  <2>3. \A k \in 0 .. n : g[k] = IF k = 0 THEN master_index
                                 ELSE IF g[k - 1] = null THEN null ELSE eis[g[k - 1]].next
    BY <2>1 DEF Walks
  <2>4. /\ \A k \in 0 .. n : h[k] = g[k]
        /\ h[n + 1] = IF g[n] = null THEN null ELSE eis[g[n]].next
    BY <2>2
  <2>5. h = [k \in 0 .. n + 1 |-> h[k]]
    OBVIOUS
  <2> HIDE DEF h
  <2>6. ASSUME NEW k \in 0 .. n + 1
        PROVE  h[k] = IF k = 0 THEN master_index
                      ELSE IF h[k - 1] = null THEN null ELSE eis[h[k - 1]].next
    <3>1. CASE k = 0
      BY <2>2, <2>3, <2>4, <3>1
    <3>2. CASE k \in 1 .. n
      <4>1. k \in 0 .. n /\ k - 1 \in 0 .. n /\ k # 0
        BY <2>2, <3>2
      <4>2. QED BY <2>3, <2>4, <4>1
    <3>3. CASE k = n + 1
      <4>1. k # 0 /\ k - 1 = n /\ n \in 0 .. n
        BY <2>2, <3>3
      <4>2. QED BY <2>4, <3>3, <4>1
    <3>4. QED BY <2>2, <3>1, <3>2, <3>3
  <2>7. Walks(h, n + 1)
    BY <2>5, <2>6, Zenon DEF Walks
  <2>8. QED BY <2>2, <2>7
<1>3. S = Nat
  <2> HIDE DEF S
  <2>1. S \in SUBSET Nat
    BY DEF S
  <2>2. QED BY <1>1, <1>2, <2>1, Induction
<1>4. QED BY <1>3

(* Walk is what its definition says. *)
LEMMA WalkDef ==
  /\ Cardinality(Ports) \in Nat
  /\ DOMAIN Walk = 0 .. Cardinality(Ports)
  /\ Walk[0] = master_index
  /\ \A k \in 1 .. Cardinality(Ports) :
       Walk[k] = IF Walk[k - 1] = null THEN null ELSE eis[Walk[k - 1]].next
<1>1. Cardinality(Ports) \in Nat
  BY FS_CardinalityType, PortsAreFinite
<1>2. PICK g : Walks(g, Cardinality(Ports))
  BY <1>1, WalkExists
<1>3. Walks(Walk, Cardinality(Ports))
  BY <1>2, Zenon DEF Walk, Walks
<1>4. QED BY <1>1, <1>3 DEF Walks

(* It stays among the structs. *)
LEMMA WalkType ==
  ASSUME Links
  PROVE  \A k \in DOMAIN Walk : Walk[k] \in Ports \cup {null}
<1> DEFINE S == {k \in Nat : k \in DOMAIN Walk => Walk[k] \in Ports \cup {null}}
<1>1. 0 \in S
  BY WalkDef DEF Links
<1>2. ASSUME NEW k \in S PROVE k + 1 \in S
  <2> SUFFICES ASSUME k + 1 \in DOMAIN Walk PROVE Walk[k + 1] \in Ports \cup {null}
    OBVIOUS
  <2>1. k \in DOMAIN Walk /\ k + 1 \in 1 .. Cardinality(Ports) /\ (k + 1) - 1 = k
    BY WalkDef
  <2>2. Walk[k + 1] = IF Walk[k] = null THEN null ELSE eis[Walk[k]].next
    BY <2>1, WalkDef
  <2>3. Walk[k] \in Ports \cup {null}
    BY <2>1
  <2>4. QED BY <2>2, <2>3 DEF Links, Struct
<1>3. S = Nat
  <2> HIDE DEF S
  <2>1. S \in SUBSET Nat
    BY DEF S
  <2>2. QED BY <1>1, <1>2, <2>1, Induction
<1>4. QED BY <1>3, WalkDef

(* It follows a chain to its last struct, and ends there if that one's next  *)
(* has been set.                                                             *)
LEMMA WalkFollows ==
  ASSUME NEW n \in Nat, NEW s, Threaded(n, s)
  PROVE  /\ \A i \in 1 .. n : i - 1 \in DOMAIN Walk => Walk[i - 1] = s[i]
         /\ Ended(n, s) => /\ \A k \in DOMAIN Walk : k >= n => Walk[k] = null
                          /\ \A k \in DOMAIN Walk : Walk[k] = null \/ \E i \in 1 .. n : Walk[k] = s[i]
<1> USE DEF Threaded
<1> DEFINE S == {k \in Nat : k \in DOMAIN Walk =>
                   /\ k < n => Walk[k] = s[k + 1]
                   /\ k >= n /\ Ended(n, s) => Walk[k] = null}
<1>1. 0 \in S
  BY WalkDef
<1>2. ASSUME NEW k \in S PROVE k + 1 \in S
  <2> SUFFICES ASSUME k + 1 \in DOMAIN Walk
               PROVE  /\ k + 1 < n => Walk[k + 1] = s[k + 2]
                      /\ k + 1 >= n /\ Ended(n, s) => Walk[k + 1] = null
    OBVIOUS
  <2>0. k \in Nat
    OBVIOUS
  <2>1. k \in DOMAIN Walk /\ k + 1 \in 1 .. Cardinality(Ports) /\ (k + 1) - 1 = k
    BY WalkDef
  <2>2. Walk[k + 1] = IF Walk[k] = null THEN null ELSE eis[Walk[k]].next
    BY <2>1, WalkDef
  <2>3. CASE k < n
    <3>1. Walk[k] = s[k + 1] /\ k + 1 \in 1 .. n
      BY <2>0, <2>1, <2>3
    <3>2. s[k + 1] # null
      BY <3>1, NullIsNoPort
    <3>3. at[s[k + 1]] = "set" => k + 1 = n /\ ~Ended(n, s)
      BY <2>3, <3>1 DEF Ended
    <3>4. at[s[k + 1]] # "set" => eis[s[k + 1]].next = IF k + 1 = n THEN null ELSE s[(k + 1) + 1]
      BY <3>1
    <3>5. QED BY <2>0, <2>2, <3>1, <3>2, <3>3, <3>4
  <2>4. CASE k >= n
    BY <2>0, <2>1, <2>2, <2>4
  <2>5. QED BY <2>0, <2>3, <2>4
<1>3. S = Nat
  <2> HIDE DEF S
  <2>1. S \in SUBSET Nat
    BY DEF S
  <2>2. QED BY <1>1, <1>2, <2>1, Induction
<1>4. QED
  <2>1. ASSUME NEW k \in DOMAIN Walk
        PROVE  /\ k \in Nat /\ (k < n => Walk[k] = s[k + 1])
               /\ k >= n /\ Ended(n, s) => Walk[k] = null
    BY <1>3, WalkDef
  <2>2. ASSUME NEW i \in 1 .. n, i - 1 \in DOMAIN Walk PROVE Walk[i - 1] = s[i]
    <3>1. i - 1 \in Nat /\ i - 1 < n /\ (i - 1) + 1 = i
      OBVIOUS
    <3>2. QED BY <2>1, <2>2, <3>1
  <2>3. ASSUME Ended(n, s), NEW k \in DOMAIN Walk
        PROVE  Walk[k] = null \/ \E i \in 1 .. n : Walk[k] = s[i]
    <3>1. CASE k < n
      <4>1. Walk[k] = s[k + 1] /\ k + 1 \in 1 .. n
        BY <2>1, <3>1
      <4>2. QED BY <4>1
    <3>2. CASE ~(k < n)
      BY <2>1, <2>3, <3>2
    <3>3. QED BY <3>1, <3>2
  <2>4. QED BY <2>1, <2>2, <2>3

LEMMA WalkMeets ==
  ASSUME NEW n \in Nat, NEW s, Threaded(n, s), Ended(n, s), NEW k \in DOMAIN Walk
  PROVE  Walk[k] = null \/ \E i \in 1 .. n : Walk[k] = s[i]
BY WalkFollows

LEMMA LinkedIsThreaded == ASSUME NEW n \in Nat, NEW s, Linked(n, s) PROVE Threaded(n, s)
BY DEF Linked, Threaded

(* There are no more loops than ports. *)
LEMMA ChainFits ==
  ASSUME NEW n \in Nat, NEW s \in [1 .. n -> Ports], \A i, j \in 1 .. n : s[i] = s[j] => i = j
  PROVE  n <= Cardinality(Ports)
<1>1. s \in Injection(1 .. n, Ports)
  BY DEF Injection, IsInjective
<1>2. Cardinality(1 .. n) <= Cardinality(Ports)
  BY <1>1, FS_Injection, PortsAreFinite
<1>3. Cardinality(1 .. n) = n
  BY FS_Interval
<1>4. QED BY <1>2, <1>3

(* A search for a port's fd finds the port, if its struct is in the chain    *)
(* and filled: whatever comes before it is, too.                             *)
LEMMA SearchFinds ==
  ASSUME Links, Own, NEW n \in Nat, NEW s \in [1 .. n -> Ports], Linked(n, s),
         NEW q \in Ports, at[q] \in Polling
  PROVE  Search(q) = q /\ FirstHit(Walk, q) \in Known(Walk)
<1> DEFINE hits == Hits(Walk, q)
<1>1. PICK i \in 1 .. n : s[i] = q
  BY DEF Linked, Polling, Listed
<1>2. \A m \in 1 .. n : m - 1 \in DOMAIN Walk /\ Walk[m - 1] = s[m]
  <2>1. n <= Cardinality(Ports)
    BY ChainFits DEF Linked
  <2>2. \A m \in 1 .. n : m - 1 \in 0 .. Cardinality(Ports)
    BY <2>1, WalkDef
  <2>3. \A m \in 1 .. n : m - 1 \in DOMAIN Walk
    BY <2>2, WalkDef
  <2>4. Threaded(n, s)
    BY LinkedIsThreaded
  <2>5. QED BY <2>3, <2>4, WalkFollows
<1>3. i - 1 \in hits
  <2>1. eis[q].fd = q
    BY DEF Own
  <2>2. QED BY <1>1, <1>2, <2>1, NullIsNoPort DEF Hits
<1>4. \A m \in 1 .. n : m < i => at[s[m]] # "set" /\ eis[s[m]].fd # q
  <2> SUFFICES ASSUME NEW m \in 1 .. n, m < i PROVE at[s[m]] # "set" /\ eis[s[m]].fd # q
    OBVIOUS
  <2>1. m # n /\ s[m] \in Ports /\ s[m] # q
    BY <1>1 DEF Linked
  <2>2. at[s[m]] \in Listed \ {"set", "fill"}
    BY <2>1 DEF Linked
  <2>3. eis[s[m]].fd = s[m]
    BY <2>1, <2>2 DEF Own, Listed, Polling
  <2>4. QED BY <2>1, <2>2, <2>3
<1>5. \A k \in hits : i - 1 <= k
  <2> SUFFICES ASSUME NEW k \in DOMAIN Walk, eis[Walk[k]].fd = q, k < i - 1 PROVE FALSE
    BY WalkDef DEF Hits
  <2>1. k \in Nat /\ k + 1 \in 1 .. n /\ (k + 1) - 1 = k /\ k + 1 < i
    BY WalkDef
  <2>2. Walk[k] = s[k + 1]
    BY <1>2, <2>1
  <2>3. QED BY <1>4, <2>1, <2>2
<1>6. hits \in SUBSET Nat
  BY WalkDef DEF Hits
<1> HIDE DEF hits
<1>7. \A k \in hits : (\A j \in hits : k <= j) => k = i - 1
  <2> SUFFICES ASSUME NEW k \in hits, \A j \in hits : k <= j PROVE k = i - 1
    OBVIOUS
  <2>1. k <= i - 1 /\ i - 1 <= k /\ k \in Nat /\ i - 1 \in Nat
    BY <1>3, <1>5, <1>6
  <2>2. QED BY <2>1
<1>8. (CHOOSE k \in hits : \A j \in hits : k <= j) = i - 1
  BY <1>3, <1>5, <1>7
<1>9. FirstHit(Walk, q) = i - 1
  BY <1>8, Zenon DEF FirstHit, hits
<1>10. Search(q) = q
  <2>1. Hits(Walk, q) # {}
    BY <1>3 DEF hits
  <2>2. Search(q) = Walk[i - 1]
    BY <1>9, <2>1 DEF Search, Found
  <2>3. QED BY <1>1, <1>2, <2>2
<1>11. i - 1 \in Known(Walk)
  <2>1. \A j \in 0 .. (i - 1) - 1 : at[Walk[j]] # "set"
    <3> SUFFICES ASSUME NEW j \in 0 .. (i - 1) - 1 PROVE at[Walk[j]] # "set"
      OBVIOUS
    <3>1. j + 1 \in 1 .. n /\ j + 1 < i /\ (j + 1) - 1 = j
      OBVIOUS
    <3>2. Walk[j] = s[j + 1]
      BY <1>2, <3>1
    <3>3. QED BY <1>4, <3>1, <3>2
  <2>2. i - 1 \in DOMAIN Walk /\ Walk[i - 1] # null
    BY <1>1, <1>2, NullIsNoPort
  <2>3. QED BY <2>1, <2>2 DEF Known
<1>12. QED BY <1>9, <1>10, <1>11
-----------------------------------------------------------------------------
(* The structs *)

LEMMA FlagSet ==
  ASSUME Links, NEW x, NEW b \in BOOLEAN,
         eis' \in {[eis EXCEPT ![x].data = b], [eis EXCEPT ![x].output = b],
                   [eis EXCEPT ![x].closing = b]}
  PROVE  /\ eis' \in [Ports -> Struct]
         /\ \A p \in Ports : /\ eis'[p].fd = eis[p].fd
                             /\ eis'[p].next = eis[p].next /\ eis'[p].prev = eis[p].prev
<1>1. \A e \in Struct : /\ [e EXCEPT !.data = b] \in Struct
                        /\ [e EXCEPT !.data = b].fd = e.fd
                        /\ [e EXCEPT !.data = b].next = e.next /\ [e EXCEPT !.data = b].prev = e.prev
  BY DEF Struct
<1>2. \A e \in Struct : /\ [e EXCEPT !.output = b] \in Struct
                        /\ [e EXCEPT !.output = b].fd = e.fd
                        /\ [e EXCEPT !.output = b].next = e.next /\ [e EXCEPT !.output = b].prev = e.prev
  BY DEF Struct
<1>3. \A e \in Struct : /\ [e EXCEPT !.closing = b] \in Struct
                        /\ [e EXCEPT !.closing = b].fd = e.fd
                        /\ [e EXCEPT !.closing = b].next = e.next /\ [e EXCEPT !.closing = b].prev = e.prev
  BY DEF Struct
<1>4. eis \in [Ports -> Struct]
  BY DEF Links
<1>5. CASE eis' = [eis EXCEPT ![x].data = b]
  <2>1. \A p \in Ports : eis'[p] = IF p = x THEN [eis[p] EXCEPT !.data = b] ELSE eis[p]
    BY <1>4, <1>5
  <2>2. \A p \in Ports : eis[p] \in Struct
    BY <1>4
  <2>3. eis' = [p \in Ports |-> eis'[p]]
    BY <1>4, <1>5
  <2>4. ASSUME NEW p \in Ports
        PROVE  /\ eis'[p] \in Struct /\ eis'[p].fd = eis[p].fd
               /\ eis'[p].next = eis[p].next /\ eis'[p].prev = eis[p].prev
    <3>1. CASE p = x
      BY <1>1, <2>1, <2>2, <3>1
    <3>2. CASE p # x
      BY <2>1, <2>2, <3>2
    <3>3. QED BY <3>1, <3>2
  <2>5. QED BY <2>3, <2>4
<1>6. CASE eis' = [eis EXCEPT ![x].output = b]
  <2>1. \A p \in Ports : eis'[p] = IF p = x THEN [eis[p] EXCEPT !.output = b] ELSE eis[p]
    BY <1>4, <1>6
  <2>2. \A p \in Ports : eis[p] \in Struct
    BY <1>4
  <2>3. eis' = [p \in Ports |-> eis'[p]]
    BY <1>4, <1>6
  <2>4. ASSUME NEW p \in Ports
        PROVE  /\ eis'[p] \in Struct /\ eis'[p].fd = eis[p].fd
               /\ eis'[p].next = eis[p].next /\ eis'[p].prev = eis[p].prev
    <3>1. CASE p = x
      BY <1>2, <2>1, <2>2, <3>1
    <3>2. CASE p # x
      BY <2>1, <2>2, <3>2
    <3>3. QED BY <3>1, <3>2
  <2>5. QED BY <2>3, <2>4
<1>7. CASE eis' = [eis EXCEPT ![x].closing = b]
  <2>1. \A p \in Ports : eis'[p] = IF p = x THEN [eis[p] EXCEPT !.closing = b] ELSE eis[p]
    BY <1>4, <1>7
  <2>2. \A p \in Ports : eis[p] \in Struct
    BY <1>4
  <2>3. eis' = [p \in Ports |-> eis'[p]]
    BY <1>4, <1>7
  <2>4. ASSUME NEW p \in Ports
        PROVE  /\ eis'[p] \in Struct /\ eis'[p].fd = eis[p].fd
               /\ eis'[p].next = eis[p].next /\ eis'[p].prev = eis[p].prev
    <3>1. CASE p = x
      BY <1>3, <2>1, <2>2, <3>1
    <3>2. CASE p # x
      BY <2>1, <2>2, <3>2
    <3>3. QED BY <3>1, <3>2
  <2>5. QED BY <2>3, <2>4
<1>8. QED BY <1>5, <1>6, <1>7

LEMMA Filled ==
  ASSUME Links, NEW q \in Ports, Fill(q)
  PROVE  /\ eis' \in [Ports -> Struct]
         /\ \A p \in Ports : /\ eis'[p].fd = IF p = q THEN q ELSE eis[p].fd
                             /\ eis'[p].next = eis[p].next /\ eis'[p].prev = eis[p].prev
<1>1. eis \in [Ports -> Struct]
  BY DEF Links
<1> DEFINE e1 == [eis EXCEPT ![q].fd = q]
           e2 == [e1 EXCEPT ![q].closing = FALSE]
           e3 == [e2 EXCEPT ![q].output = FALSE]
           e4 == [e3 EXCEPT ![q].data = FALSE]
<1>2. e4 = eis'
  BY DEF Fill
<1>3. e1 \in [Ports -> Struct] /\ \A p \in Ports : /\ e1[p].fd = IF p = q THEN q ELSE eis[p].fd
                             /\ e1[p].next = eis[p].next /\ e1[p].prev = eis[p].prev
  BY <1>1 DEF Struct
<1> HIDE DEF e1
<1>4. e2 \in [Ports -> Struct] /\ \A p \in Ports : /\ e2[p].fd = e1[p].fd
                             /\ e2[p].next = e1[p].next /\ e2[p].prev = e1[p].prev
  BY <1>3 DEF Struct
<1> HIDE DEF e2
<1>5. e3 \in [Ports -> Struct] /\ \A p \in Ports : /\ e3[p].fd = e2[p].fd
                             /\ e3[p].next = e2[p].next /\ e3[p].prev = e2[p].prev
  BY <1>4 DEF Struct
<1> HIDE DEF e3
<1>6. e4 \in [Ports -> Struct] /\ \A p \in Ports : /\ e4[p].fd = e3[p].fd
                             /\ e4[p].next = e3[p].next /\ e4[p].prev = e3[p].prev
  BY <1>5 DEF Struct
<1> HIDE DEF e4
<1>7. QED BY <1>2, <1>3, <1>4, <1>5, <1>6

LEMMA Appended ==
  ASSUME Links, NEW q \in Ports, Link(q)
  PROVE  /\ eis' \in [Ports -> Struct]
         /\ \A p \in Ports \ {q} : /\ eis'[p].fd = eis[p].fd /\ eis'[p].prev = eis[p].prev
                                   /\ eis'[p].next = IF p = index[q].prev THEN q ELSE eis[p].next
<1>1. eis \in [Ports -> Struct]
  BY DEF Links
<1>2. PICK next \in Ports \cup {null}, fd \in Ports \cup {null} :
       eis' = [p \in Ports |->
                 IF p = q THEN [NewStruct EXCEPT !.next = next, !.fd = fd]
                 ELSE IF p = index[q].prev THEN [eis[p] EXCEPT !.next = q]
                 ELSE eis[p]]
  BY DEF Link
<1>3. eis'[q] \in Struct
  <2>1. eis'[q] = [NewStruct EXCEPT !.next = next, !.fd = fd]
    BY <1>2
  <2>2. NewStruct \in Struct
    BY DEF NewStruct, Struct
  <2> DEFINE e == [NewStruct EXCEPT !.next = next]
  <2>3. e \in Struct
    BY <2>2 DEF Struct
  <2> HIDE DEF e
  <2>4. [e EXCEPT !.fd = fd] \in Struct
    BY <2>3 DEF Struct
  <2>5. QED BY <2>1, <2>4 DEF e
<1>7. ASSUME NEW p \in Ports \ {q}
      PROVE  /\ eis'[p] \in Struct /\ eis'[p].fd = eis[p].fd /\ eis'[p].prev = eis[p].prev
             /\ eis'[p].next = IF p = index[q].prev THEN q ELSE eis[p].next
  <2>1. eis[p] \in Struct
    BY <1>1
  <2>2. /\ [eis[p] EXCEPT !.next = q] \in Struct /\ [eis[p] EXCEPT !.next = q].fd = eis[p].fd
        /\ [eis[p] EXCEPT !.next = q].prev = eis[p].prev /\ [eis[p] EXCEPT !.next = q].next = q
    BY <2>1 DEF Struct
  <2>3. eis'[p] = IF p = index[q].prev THEN [eis[p] EXCEPT !.next = q] ELSE eis[p]
    BY <1>2
  <2>4. QED BY <2>1, <2>2, <2>3
<1>8. eis' = [p \in Ports |-> eis'[p]]
  BY <1>2
<1>9. QED BY <1>3, <1>7, <1>8

LEMMA Pointed ==
  ASSUME Links, NEW q \in Ports, SetPointers(q)
  PROVE  /\ eis' \in [Ports -> Struct]
         /\ \A p \in Ports : eis'[p].fd = eis[p].fd
         /\ \A p \in Ports \ {q} : eis'[p] = eis[p]
         /\ eis'[q].next = null /\ eis'[q].prev = index[q].prev
<1>1. eis \in [Ports -> Struct] /\ index[q] \in Neighbours
  BY DEF Links
<1> DEFINE e1 == [eis[q] EXCEPT !.next = null]
           e2 == [e1 EXCEPT !.prev = index[q].prev]
<1>2. eis' = [eis EXCEPT ![q] = e2]
  BY DEF SetPointers
<1>3. e1 \in Struct /\ e1.fd = eis[q].fd /\ e1.next = null
  BY <1>1 DEF Struct
<1> HIDE DEF e1
<1>4. e2 \in Struct /\ e2.fd = e1.fd /\ e2.next = e1.next /\ e2.prev = index[q].prev
  BY <1>1, <1>3 DEF Struct, Neighbours
<1> HIDE DEF e2
<1>5. QED BY <1>1, <1>2, <1>3, <1>4

LEMMA Unlinked ==
  ASSUME Links, NEW q \in Ports, Unlink(q)
  PROVE  /\ eis' \in [Ports -> Struct]
         /\ \A p \in Ports :
              /\ eis'[p].fd = eis[p].fd
              /\ eis'[p].next = IF p = index[q].prev THEN index[q].next ELSE eis[p].next
              /\ eis'[p].prev = IF p # index[q].prev /\ p = index[q].next THEN index[q].prev
                                ELSE eis[p].prev
<1>1. eis \in [Ports -> Struct] /\ index[q] \in Neighbours
  BY DEF Links
<1>2. eis' = [p \in Ports |-> IF p = index[q].prev THEN [eis[p] EXCEPT !.next = index[q].next]
                             ELSE IF p = index[q].next THEN [eis[p] EXCEPT !.prev = index[q].prev]
                             ELSE eis[p]]
  BY DEF Unlink
<1>3. ASSUME NEW p \in Ports
      PROVE  /\ eis'[p] \in Struct /\ eis'[p].fd = eis[p].fd
             /\ eis'[p].next = IF p = index[q].prev THEN index[q].next ELSE eis[p].next
             /\ eis'[p].prev = IF p # index[q].prev /\ p = index[q].next THEN index[q].prev
                               ELSE eis[p].prev
  <2>1. eis[p] \in Struct
    BY <1>1
  <2> DEFINE a == [eis[p] EXCEPT !.next = index[q].next]
             b == [eis[p] EXCEPT !.prev = index[q].prev]
  <2>2. a \in Struct /\ a.fd = eis[p].fd /\ a.prev = eis[p].prev /\ a.next = index[q].next
    BY <1>1, <2>1 DEF Struct, Neighbours
  <2>3. b \in Struct /\ b.fd = eis[p].fd /\ b.next = eis[p].next /\ b.prev = index[q].prev
    BY <1>1, <2>1 DEF Struct, Neighbours
  <2>4. eis'[p] = IF p = index[q].prev THEN a ELSE IF p = index[q].next THEN b ELSE eis[p]
    BY <1>2
  <2> HIDE DEF a, b
  <2>5. QED BY <2>1, <2>2, <2>3, <2>4
<1>4. eis' = [p \in Ports |-> eis'[p]]
  BY <1>2
<1>5. QED BY <1>3, <1>4
-----------------------------------------------------------------------------
(* The counters *)

LEMMA DivMod ==
  ASSUME NEW a \in Int, NEW w \in Nat \ {0}
  PROVE  a = w * (a \div w) + (a % w) /\ a \div w \in Int /\ a % w \in 0 .. w - 1
OBVIOUS

LEMMA ModUnique ==
  ASSUME NEW w \in Nat \ {0}, NEW r \in 0 .. w - 1, NEW z \in Int
  PROVE  (r + w * z) % w = r
OBVIOUS

(* Adding the difference to what was counted gives the new value, also when  *)
(* the counter has wrapped around.                                           *)
LEMMA Sum ==
  ASSUME NEW w \in Nat \ {0}, NEW b \in 0 .. w - 1, NEW t \in 0 .. w - 1, NEW f \in 0 .. w - 1,
         NEW o, o = (b + t) % w
  PROVE  (b + ((t + f - o) % w)) % w = f
<1> DEFINE k == (b + t) \div w
           d == t + f - o
           j == d \div w
<1>1. b + t = w * k + o /\ k \in Int /\ o \in Int
  BY DivMod
<1>2. d \in Int /\ d = t + f - o
  BY <1>1
<1>3. d = w * j + (d % w) /\ j \in Int /\ d % w \in Int
  <2> HIDE DEF d
  <2>1. QED BY <1>2, DivMod
<1>4. ASSUME NEW wk \in Int, NEW wj \in Int, NEW m \in Int, b + t = wk + o, d = wj + m
      PROVE  b + m = f + (wk - wj)
  <2> HIDE DEF d
  <2>1. QED BY <1>1, <1>2, <1>4
<1> HIDE DEF k, j, d
<1>5. w * k \in Int /\ w * j \in Int /\ w * k - w * j = w * (k - j) /\ k - j \in Int
  BY <1>1, <1>3
<1>6. b + (d % w) = f + w * (k - j)
  BY <1>1, <1>3, <1>4, <1>5
<1>7. (f + w * (k - j)) % w = f
  BY <1>5, ModUnique
<1>8. QED BY <1>2, <1>6, <1>7
-----------------------------------------------------------------------------
(* The invariant *)

LEMMA InitInv == Init => IInv
<1> SUFFICES ASSUME Init PROVE IInv
  OBVIOUS
<1>1. Links
  BY DEF Init, Links, Struct, NewStruct, Neighbours, NoNeighbours, Places
<1>2. Flags
  <2>1. /\ cts = [q \in Ports |-> FALSE] /\ omflags = [q \in Ports |-> FALSE]
        /\ data = [q \in Ports |-> FALSE] /\ owed = [q \in Ports |-> FALSE]
        /\ wantsCTS = [q \in Ports |-> FALSE] /\ heard = [q \in Ports |-> null]
        /\ polled \in Polled \cup {null}
        /\ lsr \in [Ports -> BOOLEAN] /\ icount \in [Ports -> BOOLEAN]
    BY DEF Init
  <2>2. raced = FALSE
    BY DEF Init
  <2>3. raced \in BOOLEAN
    BY <2>2
  <2>4. QED BY <2>1, <2>3 DEF Flags
<1>3. Counters
  BY WrapIsPositive DEF Init, Counters, Counter
<1>4. Own /\ Alone
  BY DEF Init, Own, Alone, Polling, Changing
<1>5. Told
  BY DEF Init, Told, Polling
<1>6. Chain
  <2> DEFINE s == [i \in 1 .. 0 |-> null]
  <2>1. s \in [1 .. 0 -> Ports]
    OBVIOUS
  <2>2. Linked(0, s)
    BY DEF Init, Linked, Listed
  <2>3. QED BY <2>1, <2>2 DEF Chain
<1>7. QED BY <1>1, <1>2, <1>3, <1>4, <1>5, <1>6 DEF IInv

LEMMA StepLinks == IInv /\ [Next]_vars => Links'
<1> SUFFICES ASSUME Links, [Next]_vars PROVE Links'
  BY DEF IInv
<1>y. /\ master_index \in Ports \cup {null} /\ eis \in [Ports -> Struct]
      /\ at \in [Ports -> Places] /\ index \in [Ports -> Neighbours]
  BY DEF Links
<1>1. CASE UNCHANGED vars
  BY <1>1 DEF vars, list, Links
<1>2. ASSUME NEW q \in Ports, Start(q) PROVE Links'
  BY <1>2, <1>y DEF Start, Goto, Places, list, Links
<1>3. ASSUME NEW q \in Ports, FindEnd(q) PROVE Links'
  <2>1. PICK last \in Range(Walk) : index' = [index EXCEPT ![q].prev = last]
    BY <1>3 DEF FindEnd
  <2>2. last \in Ports \cup {null}
    BY WalkType DEF Range
  <2>3. index' \in [Ports -> Neighbours]
    BY <1>y, <2>1, <2>2 DEF Neighbours
  <2>4. QED BY <1>3, <1>y, <2>3 DEF FindEnd, Goto, Places, Links
<1>4. ASSUME NEW q \in Ports, Link(q) PROVE Links'
  <2>1. eis' \in [Ports -> Struct]
    BY <1>4, Appended
  <2>2. QED BY <1>4, <1>y, <2>1 DEF Link, Goto, Places, Links
<1>s. ASSUME NEW q \in Ports, SetPointers(q) PROVE Links'
  <2>1. eis' \in [Ports -> Struct]
    BY <1>s, Pointed
  <2>2. index' \in [Ports -> Neighbours]
    BY <1>s, <1>y DEF SetPointers, NoNeighbours, Neighbours
  <2>3. QED BY <1>s, <1>y, <2>1, <2>2 DEF SetPointers, Goto, Places, Links
<1>5. ASSUME NEW q \in Ports, Fill(q) PROVE Links'
  <2>1. eis' \in [Ports -> Struct]
    BY <1>5, Filled
  <2>2. QED BY <1>5, <1>y, <2>1 DEF Fill, Goto, Places, Links
<1>6. ASSUME NEW q \in Ports, ReadNeighbours(q) PROVE Links'
  BY <1>6, <1>y DEF ReadNeighbours, Goto, Places, Links, Neighbours, Struct
<1>7. ASSUME NEW q \in Ports, Unlink(q) PROVE Links'
  <2>1. eis' \in [Ports -> Struct]
    BY <1>7, Unlinked
  <2>2. index' \in [Ports -> Neighbours]
    BY <1>7, <1>y DEF Unlink, NoNeighbours, Neighbours
  <2>3. master_index' \in Ports \cup {null}
    BY <1>7, <1>y DEF Unlink, Neighbours
  <2>4. QED BY <1>7, <1>y, <2>1, <2>2, <2>3 DEF Unlink, Goto, Places, Links
<1>8. ASSUME NEW q \in Ports, SetEventFlag(q) \/ InterruptEventLoop(q) PROVE Links'
  <2>1. \E x : \E b \in BOOLEAN : eis' \in {[eis EXCEPT ![x].data = b], [eis EXCEPT ![x].output = b],
                                        [eis EXCEPT ![x].closing = b]}
    BY <1>8 DEF SetEventFlag, InterruptEventLoop
  <2>2. eis' \in [Ports -> Struct]
    BY <2>1, FlagSet
  <2>3. QED BY <1>8, <1>y, <2>2 DEF SetEventFlag, InterruptEventLoop, Links
<1>9. ASSUME NEW q \in Ports, \/ Top(q) \/ CheckLSR(q) \/ CheckCount(q) \/ CheckLines(q)
                              \/ CheckData(q) \/ NotifyOnCTS(q) \/ Device(q)
      PROVE  Links'
  BY <1>9, <1>y DEF Top, CheckLSR, CheckCount, CheckLines, CheckData, NotifyOnCTS, Device,
                    Goto, Places, list, Links
<1>10. QED
  BY <1>1, <1>2, <1>3, <1>4, <1>s, <1>5, <1>6, <1>7, <1>8, <1>9
     DEF Next, EventLoop, Application, Report

LEMMA StepFlags == IInv /\ [Next]_vars => Flags'
<1> SUFFICES ASSUME Flags, [Next]_vars PROVE Flags'
  BY DEF IInv
<1> USE DEF Flags, device, memory, driver, listener
<1>1. CASE UNCHANGED vars
  BY <1>1 DEF vars
<1>2. ASSUME NEW q \in Ports, FindEnd(q) \/ ReadNeighbours(q) PROVE Flags'
  <2>1. raced' \in BOOLEAN
    BY <1>2 DEF FindEnd, ReadNeighbours
  <2>2. QED BY <1>2, <2>1 DEF FindEnd, ReadNeighbours
<1>3. ASSUME NEW q \in Ports, \/ Start(q) \/ Link(q) \/ SetPointers(q) \/ Unlink(q) \/ Top(q)
                              \/ CheckLSR(q) \/ CheckCount(q) \/ InterruptEventLoop(q)
      PROVE  Flags'
  BY <1>3 DEF Start, Link, SetPointers, Unlink, Top, CheckLSR, CheckCount, InterruptEventLoop
<1>4. ASSUME NEW q \in Ports, Fill(q) PROVE Flags'
  BY <1>4 DEF Fill
<1>5. ASSUME NEW q \in Ports, CheckLines(q) PROVE Flags'
  <2>1. heard' \in [Ports -> BOOLEAN \cup {null}]
    BY <1>5 DEF CheckLines
  <2>2. QED BY <1>5, <2>1 DEF CheckLines
<1>6. ASSUME NEW q \in Ports, CheckData(q) PROVE Flags'
  <2>1. owed' \in [Ports -> BOOLEAN]
    BY <1>6 DEF CheckData
  <2>2. QED BY <1>6, <2>1 DEF CheckData
<1>7. ASSUME NEW q \in Ports, SetEventFlag(q) PROVE Flags'
  <2>1. owed' \in [Ports -> BOOLEAN]
    BY <1>7 DEF SetEventFlag
  <2>2. QED BY <1>7, <2>1 DEF SetEventFlag
<1>8. ASSUME NEW q \in Ports, NotifyOnCTS(q) PROVE Flags'
  <2>1. wantsCTS' \in [Ports -> BOOLEAN]
    BY <1>8 DEF NotifyOnCTS
  <2>2. QED BY <1>8, <2>1 DEF NotifyOnCTS
<1>9. ASSUME NEW q \in Ports, Device(q) PROVE Flags'
  <2>1. cts' \in [Ports -> BOOLEAN]
    BY <1>9 DEF Device
  <2>2. data' \in [Ports -> BOOLEAN]
    BY <1>9 DEF Device
  <2>3. owed' \in [Ports -> BOOLEAN]
    BY <1>9, <2>2 DEF Device
  <2>4. QED BY <1>9, <2>1, <2>2, <2>3 DEF Device
<1> HIDE DEF Flags, device, memory, driver, listener
<1>10. QED
  BY <1>1, <1>2, <1>3, <1>4, <1>5, <1>6, <1>7, <1>8, <1>9
     DEF Next, EventLoop, Application, Report

LEMMA StepCounters == IInv /\ [Next]_vars => Counters'
<1> SUFFICES ASSUME Counters, [Next]_vars PROVE Counters'
  BY DEF IInv
<1>y. /\ frames \in [Ports -> Counter] /\ osis \in [Ports -> Counter]
      /\ told \in [Ports -> Counter] /\ base \in [Ports -> Counter]
      /\ seen \in [Ports -> Counter]
  BY DEF Counters
<1>0. 0 \in Counter /\ \A i \in Int : i % Wrap \in Counter
  BY WrapIsPositive, DivMod DEF Counter
<1>1. CASE UNCHANGED vars
  BY <1>1 DEF vars, device, memory, listener, Counters
<1>2. ASSUME NEW q \in Ports, Fill(q) PROVE Counters'
  BY <1>0, <1>2, <1>y DEF Fill, device, Counters
<1>3. ASSUME NEW q \in Ports, CheckCount(q) PROVE Counters'
  <2>1. told[q] + frames[q] - osis[q] \in Int
    BY <1>y DEF Counter
  <2>2. (told[q] + frames[q] - osis[q]) % Wrap \in Counter
    BY <1>0, <2>1
  <2>3. CASE icount[q]
    BY <1>3, <1>y, <2>2, <2>3 DEF CheckCount, device, Counters
  <2>4. CASE ~icount[q]
    BY <1>3, <1>y, <2>4 DEF CheckCount, device, Counters
  <2>5. QED BY <2>3, <2>4
<1>4. ASSUME NEW q \in Ports, Device(q) PROVE Counters'
  <2>1. (frames[q] + 1) % Wrap \in Counter
    BY <1>0, <1>y DEF Counter
  <2>2. QED BY <1>4, <1>y, <2>1 DEF Device, memory, listener, Counters
<1>5. ASSUME NEW q \in Ports, \/ FindEnd(q) \/ ReadNeighbours(q) \/ Start(q) \/ Link(q)
                              \/ SetPointers(q) \/ Unlink(q) \/ Top(q) \/ CheckLSR(q) \/ CheckLines(q)
                              \/ CheckData(q) \/ SetEventFlag(q) \/ NotifyOnCTS(q)
                              \/ InterruptEventLoop(q)
      PROVE  Counters'
  BY <1>5 DEF FindEnd, ReadNeighbours, Start, Link, SetPointers, Unlink, Top, CheckLSR, CheckLines,
              CheckData, SetEventFlag, NotifyOnCTS, InterruptEventLoop, device, memory,
              listener, Counters
<1>6. QED
  BY <1>1, <1>2, <1>3, <1>4, <1>5 DEF Next, EventLoop, Application, Report

LEMMA StepOwn == IInv /\ [Next]_vars => Own'
<1> SUFFICES ASSUME Links, Own, [Next]_vars PROVE Own'
  BY DEF IInv
<1>y. at \in [Ports -> Places]
  BY DEF Links
<1>r. ASSUME \A p \in Ports : at[p] \in Polling \cup {"read", "unlink"} => eis'[p].fd = eis[p].fd,
             \A p \in Ports : at'[p] \in Polling \cup {"read", "unlink"}
                                => at[p] \in Polling \cup {"read", "unlink"}
      PROVE  Own'
  BY <1>r DEF Own
<1>1. CASE UNCHANGED vars
  BY <1>1 DEF vars, list, Own
<1>2. ASSUME NEW q \in Ports, Link(q) PROVE Own'
  <2>1. \A p \in Ports : p # q => eis'[p].fd = eis[p].fd
    BY <1>2, Appended
  <2>2. at[q] = "link" /\ at' = [at EXCEPT ![q] = "set"]
    BY <1>2 DEF Link, Goto
  <2>3. QED BY <1>r, <1>y, <2>1, <2>2 DEF Polling
<1>s. ASSUME NEW q \in Ports, SetPointers(q) PROVE Own'
  <2>1. \A p \in Ports : eis'[p].fd = eis[p].fd
    BY <1>s, Pointed
  <2>2. at[q] = "set" /\ at' = [at EXCEPT ![q] = "fill"]
    BY <1>s DEF SetPointers, Goto
  <2>3. QED BY <1>r, <1>y, <2>1, <2>2 DEF Polling
<1>3. ASSUME NEW q \in Ports, Fill(q) PROVE Own'
  <2>1. \A p \in Ports : eis'[p].fd = IF p = q THEN q ELSE eis[p].fd
    BY <1>3, Filled
  <2>2. at' = [at EXCEPT ![q] = "top"]
    BY <1>3 DEF Fill, Goto
  <2>3. QED BY <1>y, <2>1, <2>2 DEF Own, Polling
<1>4. ASSUME NEW q \in Ports, Unlink(q) PROVE Own'
  <2>1. \A p \in Ports : eis'[p].fd = eis[p].fd
    BY <1>4, Unlinked
  <2>2. at' = [at EXCEPT ![q] = "off"]
    BY <1>4 DEF Unlink, Goto
  <2>3. QED BY <1>r, <1>y, <2>1, <2>2 DEF Polling
<1>5. ASSUME NEW q \in Ports, SetEventFlag(q) \/ InterruptEventLoop(q) PROVE Own'
  <2>1. \E x : \E b \in BOOLEAN : eis' \in {[eis EXCEPT ![x].data = b], [eis EXCEPT ![x].output = b],
                                        [eis EXCEPT ![x].closing = b]}
    BY <1>5 DEF SetEventFlag, InterruptEventLoop
  <2>2. \A p \in Ports : eis'[p].fd = eis[p].fd
    BY <2>1, FlagSet
  <2>3. QED BY <1>5, <1>r, <2>2 DEF SetEventFlag, InterruptEventLoop
<1>6. ASSUME NEW q \in Ports, \/ Start(q) \/ FindEnd(q) \/ ReadNeighbours(q) \/ Top(q)
                              \/ CheckLSR(q) \/ CheckCount(q) \/ CheckLines(q) \/ CheckData(q)
                              \/ NotifyOnCTS(q) \/ Device(q)
      PROVE  Own'
  <2>1. eis' = eis
    BY <1>6 DEF Start, FindEnd, ReadNeighbours, Top, CheckLSR, CheckCount, CheckLines, CheckData,
                NotifyOnCTS, Device, list
  <2>2. \A p \in Ports : at'[p] \in Polling \cup {"read", "unlink"}
                           => at[p] \in Polling \cup {"read", "unlink"}
    BY <1>6, <1>y DEF Start, FindEnd, ReadNeighbours, Top, CheckLSR, CheckCount, CheckLines,
                      CheckData, NotifyOnCTS, Device, Goto, Polling
  <2>3. QED BY <1>r, <2>1, <2>2
<1>7. QED
  BY <1>1, <1>2, <1>s, <1>3, <1>4, <1>5, <1>6 DEF Next, EventLoop, Application, Report

LEMMA StepTold == IInv /\ [Next]_vars => Told'
<1> SUFFICES ASSUME Links, Flags, Counters, Told, [Next]_vars PROVE Told'
  BY DEF IInv
<1>y. /\ at \in [Ports -> Places]
      /\ cts \in [Ports -> BOOLEAN] /\ omflags \in [Ports -> BOOLEAN]
      /\ icount \in [Ports -> BOOLEAN]
      /\ heard \in [Ports -> BOOLEAN \cup {null}] /\ wantsCTS \in [Ports -> BOOLEAN]
  BY DEF Links, Flags
<1>z. /\ frames \in [Ports -> Counter] /\ osis \in [Ports -> Counter]
      /\ told \in [Ports -> Counter] /\ base \in [Ports -> Counter]
      /\ seen \in [Ports -> Counter]
  BY DEF Counters
<1>r. ASSUME UNCHANGED <<omflags, osis, seen, icount, heard, told, wantsCTS, base>>,
             \A p \in Ports : at'[p] \in Polling => at[p] \in Polling
      PROVE  Told'
  BY <1>r DEF Told
<1>1. CASE UNCHANGED vars
  BY <1>1 DEF vars, memory, driver, listener, Told
<1>2. ASSUME NEW q \in Ports, Fill(q) PROVE Told'
  <2>1. \A p \in Ports \ {q} : /\ at'[p] = at[p] /\ omflags'[p] = omflags[p] /\ osis'[p] = osis[p]
                               /\ seen'[p] = seen[p] /\ heard'[p] = heard[p] /\ told'[p] = told[p]
                               /\ base'[p] = base[p]
    BY <1>2, <1>y, <1>z DEF Fill, Goto
  <2>2. /\ heard'[q] = null /\ base'[q] = frames[q] /\ seen'[q] = frames[q] /\ told'[q] = 0
        /\ icount[q] => osis'[q] = frames[q]
    BY <1>2, <1>y, <1>z DEF Fill
  <2>3. (frames[q] + 0) % Wrap = frames[q]
    BY <1>z, WrapIsPositive DEF Counter
  <2>4. UNCHANGED <<icount, wantsCTS>>
    BY <1>2 DEF Fill, driver
  <2>5. QED BY <2>1, <2>2, <2>3, <2>4 DEF Told
<1>3. ASSUME NEW q \in Ports, CheckCount(q) PROVE Told'
  <2>1. UNCHANGED <<omflags, icount, heard, wantsCTS, base>>
    BY <1>3 DEF CheckCount, driver
  <2>2. at[q] = "count" /\ at' = [at EXCEPT ![q] = "lines"]
    BY <1>3 DEF CheckCount, Goto
  <2>3. CASE ~icount[q]
    <3>1. UNCHANGED <<told, osis, seen>>
      BY <1>3, <2>3 DEF CheckCount
    <3>2. QED BY <1>r, <1>y, <2>1, <2>2, <3>1 DEF Polling
  <2>4. CASE icount[q]
    <3>1. /\ told' = [told EXCEPT ![q] = (told[q] + frames[q] - osis[q]) % Wrap]
          /\ osis' = [osis EXCEPT ![q] = frames[q]]
          /\ seen' = [seen EXCEPT ![q] = frames[q]]
      BY <1>3, <2>4 DEF CheckCount
    <3>2. osis[q] = (base[q] + told[q]) % Wrap
      BY <2>2, <2>4 DEF Told, Polling
    <3>3. (base[q] + ((told[q] + frames[q] - osis[q]) % Wrap)) % Wrap = frames[q]
      <4>1. base[q] \in 0 .. Wrap - 1 /\ told[q] \in 0 .. Wrap - 1 /\ frames[q] \in 0 .. Wrap - 1
        BY <1>z DEF Counter
      <4> DEFINE b == base[q]
                 t == told[q]
                 f == frames[q]
                 o == osis[q]
      <4>2. b \in 0 .. Wrap - 1 /\ t \in 0 .. Wrap - 1 /\ f \in 0 .. Wrap - 1 /\ o = (b + t) % Wrap
        BY <3>2, <4>1
      <4>3. (b + ((t + f - o) % Wrap)) % Wrap = f
        <5> HIDE DEF b, t, f, o
        <5>1. \A x \in Nat \ {0} : \A i, j, k \in 0 .. x - 1 : \A l :
                l = (i + j) % x => (i + ((j + k - l) % x)) % x = k
          BY Sum
        <5>2. \A i, j, k \in 0 .. Wrap - 1 : \A l :
                l = (i + j) % Wrap => (i + ((j + k - l) % Wrap)) % Wrap = k
          BY <5>1, WrapIsPositive, Zenon
        <5>3. \A l : l = (b + t) % Wrap => (b + ((t + f - l) % Wrap)) % Wrap = f
          BY <4>2, <5>2, Zenon
        <5>4. QED BY <4>2, <5>3, Zenon
      <4>4. QED BY <4>3
    <3>4. /\ (base'[q] + told'[q]) % Wrap = seen'[q] /\ osis'[q] = seen'[q]
      BY <1>z, <2>1, <3>1, <3>3
    <3>5. \A p \in Ports \ {q} : /\ osis'[p] = osis[p] /\ seen'[p] = seen[p] /\ told'[p] = told[p]
                                 /\ at'[p] = at[p]
      BY <1>y, <1>z, <2>2, <3>1
    <3>6. \A p \in Ports : at'[p] \in Polling => at[p] \in Polling
      BY <1>y, <2>2 DEF Polling
    <3>7. QED BY <2>1, <3>4, <3>5, <3>6 DEF Told
  <2>5. QED BY <2>3, <2>4
<1>4. ASSUME NEW q \in Ports, CheckLines(q) PROVE Told'
  <2>1. UNCHANGED <<osis, seen, icount, told, wantsCTS, base>>
    BY <1>4 DEF CheckLines, driver
  <2>2. at[q] = "lines" /\ at' = [at EXCEPT ![q] = "data"]
    BY <1>4 DEF CheckLines, Goto
  <2>3. \A p \in Ports \ {q} : /\ at'[p] = at[p] /\ heard'[p] = heard[p] /\ omflags'[p] = omflags[p]
    BY <1>4, <1>y, <2>2 DEF CheckLines
  <2>4. /\ heard'[q] = IF cts[q] # omflags[q] /\ wantsCTS[q] THEN cts[q] ELSE heard[q]
        /\ omflags'[q] = cts[q]
    BY <1>4, <1>y DEF CheckLines
  <2>5. /\ ~wantsCTS[q] => heard[q] = null
        /\ heard[q] # null => heard[q] = omflags[q]
        /\ (base[q] + told[q]) % Wrap = seen[q]
        /\ icount[q] => osis[q] = seen[q]
    BY <2>2 DEF Told, Polling
  <2>6. /\ ~wantsCTS[q] => heard'[q] = null
        /\ heard'[q] # null => heard'[q] = omflags'[q]
    BY <2>4, <2>5
  <2>7. \A p \in Ports : at'[p] \in Polling => at[p] \in Polling
    BY <1>y, <2>2 DEF Polling
  <2>8. QED BY <2>1, <2>3, <2>5, <2>6, <2>7 DEF Told
<1>5. ASSUME NEW q \in Ports, NotifyOnCTS(q) PROVE Told'
  <2>1. UNCHANGED <<at, omflags, osis, seen, icount, told, base>>
    BY <1>5 DEF NotifyOnCTS, memory, driver
  <2>2. heard'[q] = null /\ \A p \in Ports \ {q} : heard'[p] = heard[p] /\ wantsCTS'[p] = wantsCTS[p]
    BY <1>5, <1>y DEF NotifyOnCTS
  <2>3. QED BY <2>1, <2>2 DEF Told
<1>6. ASSUME NEW q \in Ports, \/ Start(q) \/ FindEnd(q) \/ ReadNeighbours(q) \/ Top(q)
                              \/ CheckLSR(q) \/ CheckData(q) \/ Link(q) \/ SetPointers(q) \/ Unlink(q)
                              \/ SetEventFlag(q) \/ InterruptEventLoop(q) \/ Device(q)
      PROVE  Told'
  <2>1. UNCHANGED <<omflags, osis, seen, icount, heard, told, wantsCTS, base>>
    BY <1>6 DEF Start, FindEnd, ReadNeighbours, Top, CheckLSR, CheckData, Link, SetPointers, Unlink,
                SetEventFlag, InterruptEventLoop, Device, memory, driver, listener
  <2>2. \A p \in Ports : at'[p] \in Polling => at[p] \in Polling
    <3>1. CASE Top(q) \/ CheckLSR(q) \/ CheckData(q) \/ Device(q) \/ SetEventFlag(q) \/ InterruptEventLoop(q)
      BY <3>1, <1>y DEF Top, CheckLSR, CheckData, Device, SetEventFlag, InterruptEventLoop, Goto, Polling
    <3>2. CASE Start(q) \/ FindEnd(q) \/ ReadNeighbours(q)
      BY <3>2, <1>y DEF Start, FindEnd, ReadNeighbours, Goto, Polling
    <3>3. CASE Link(q) \/ SetPointers(q) \/ Unlink(q)
      BY <3>3, <1>y DEF Link, SetPointers, Unlink, Goto, Polling
    <3>4. QED BY <1>6, <3>1, <3>2, <3>3
  <2>3. QED BY <1>r, <2>1, <2>2
<1>7. QED
  BY <1>1, <1>2, <1>3, <1>4, <1>5, <1>6 DEF Next, EventLoop, Application, Report

LEMMA StepAlone == IInv /\ [Next]_vars => Alone'
<1> SUFFICES ASSUME Links, Flags, Alone, [Next]_vars PROVE Alone'
  BY DEF IInv
<1>y. at \in [Ports -> Places]
  BY DEF Links
<1>r. ASSUME raced' = raced, \A p \in Ports : at'[p] \in Changing => at[p] \in Changing
      PROVE  Alone'
  BY <1>r DEF Alone
<1>1. CASE UNCHANGED vars
  BY <1>1 DEF vars, Alone
<1>2. ASSUME NEW q \in Ports, FindEnd(q) \/ ReadNeighbours(q) PROVE Alone'
  <2>1. /\ raced' = (raced \/ Overlap(q))
        /\ at' = [at EXCEPT ![q] = "link"] \/ at' = [at EXCEPT ![q] = "unlink"]
    BY <1>2 DEF FindEnd, ReadNeighbours, Goto
  <2>2. CASE raced'
    BY <2>2 DEF Alone
  <2>3. CASE ~raced'
    <3>1. \A p \in Ports \ {q} : at[p] \notin Changing
      BY <2>1, <2>3 DEF Overlap
    <3>2. \A p \in Ports \ {q} : at'[p] = at[p]
      BY <1>y, <2>1
    <3>3. \A p \in Ports : at'[p] \in Changing => p = q
      BY <3>1, <3>2
    <3>4. QED BY <3>3 DEF Alone
  <2>4. QED BY <2>2, <2>3
<1>3. ASSUME NEW q \in Ports, \/ Link(q) \/ SetPointers(q) \/ Fill(q) \/ Unlink(q) \/ Start(q) \/ Top(q)
                              \/ CheckLSR(q) \/ CheckCount(q) \/ CheckLines(q) \/ CheckData(q)
                              \/ NotifyOnCTS(q) \/ SetEventFlag(q) \/ InterruptEventLoop(q)
                              \/ Device(q)
      PROVE  Alone'
  <2>1. raced' = raced
    BY <1>3 DEF Link, SetPointers, Fill, Unlink, Start, Top, CheckLSR, CheckCount, CheckLines, CheckData,
                NotifyOnCTS, SetEventFlag, InterruptEventLoop, Device
  <2>2. \A p \in Ports : at'[p] \in Changing => at[p] \in Changing
    BY <1>3, <1>y DEF Link, SetPointers, Fill, Unlink, Start, Top, CheckLSR, CheckCount, CheckLines, CheckData,
                NotifyOnCTS, SetEventFlag, InterruptEventLoop, Device, Goto, Changing
  <2>3. QED BY <1>r, <2>1, <2>2
<1>4. QED
  BY <1>1, <1>2, <1>3 DEF Next, EventLoop, Application, Report

(* The chain stays a chain if its pointers and its structs stay, no struct's   *)
(* pointers are set and nobody else comes to change it.                       *)
LEMMA ChainStays ==
  ASSUME Chain, raced' = raced, master_index' = master_index,
         \A p \in Ports : eis'[p].next = eis[p].next /\ eis'[p].prev = eis[p].prev,
         \A p \in Ports : at'[p] \in Listed <=> at[p] \in Listed,
         \A p \in Ports : at'[p] \in Changing => at'[p] = at[p] /\ index'[p] = index[p],
         \A p \in Ports : at[p] = "set" => at'[p] = "set"
  PROVE  Chain'
<1> SUFFICES ASSUME ~raced PROVE \E n \in Nat : \E s \in [1 .. n -> Ports] : Linked(n, s)'
  BY DEF Chain
<1>1. PICK n \in Nat : \E s \in [1 .. n -> Ports] : Linked(n, s)
  BY DEF Chain
<1>2. PICK s \in [1 .. n -> Ports] : Linked(n, s)
  BY <1>1
<1>3. \A i \in 1 .. n : s[i] \in Ports
  BY <1>2 DEF Linked
<1>4. /\ \A p \in Ports : at'[p] \in Listed <=> \E i \in 1 .. n : s[i] = p
      /\ master_index' = IF n = 0 THEN null ELSE s[1]
  BY <1>2 DEF Linked
<1>5. \A i \in 1 .. n : at'[s[i]] \in {"set", "fill"} => i = n
  BY <1>2, <1>3 DEF Linked, Changing
<1>6. \A i \in 1 .. n : at'[s[i]] # "set" =>
        /\ eis'[s[i]].next = IF i = n THEN null ELSE s[i + 1]
        /\ eis'[s[i]].prev = IF i = 1 THEN null ELSE s[i - 1]
  BY <1>2, <1>3 DEF Linked
<1>7. \A p \in Ports :
        /\ at'[p] = "link" => index'[p].prev = IF n = 0 THEN null ELSE s[n]
        /\ at'[p] = "set" => index'[p].prev = IF n = 1 THEN null ELSE s[n - 1]
        /\ at'[p] = "unlink" => index'[p].prev = eis'[p].prev /\ index'[p].next = eis'[p].next
  BY <1>2 DEF Linked, Changing
<1>8. Linked(n, s)'
  BY <1>2, <1>3, <1>4, <1>5, <1>6, <1>7 DEF Linked
<1>9. QED BY <1>8

(* A struct that is put behind the end of the chain is its new end.           *)
LEMMA ChainGrows ==
  ASSUME Links, Alone, ~raced, NEW q \in Ports, Link(q),
         NEW n \in Nat, NEW s \in [1 .. n -> Ports], Linked(n, s)
  PROVE  Linked(n + 1, [i \in 1 .. n + 1 |-> IF i <= n THEN s[i] ELSE q])'
<1> DEFINE t == [i \in 1 .. n + 1 |-> IF i <= n THEN s[i] ELSE q]
<1>1. (\A i \in 1 .. n : t[i] = s[i]) /\ t[n + 1] = q
  OBVIOUS
<1> HIDE DEF t
<1>2. at[q] = "link" /\ at' = [at EXCEPT ![q] = "set"] /\ at \in [Ports -> Places]
  BY DEF Link, Goto, Links
<1>3. \A i \in 1 .. n : s[i] # q
  BY <1>2 DEF Linked, Listed
<1>4. index[q].prev = IF n = 0 THEN null ELSE s[n]
  BY <1>2 DEF Linked
<1>5. /\ \A p \in Ports \ {q} : /\ eis'[p].prev = eis[p].prev
                                /\ eis'[p].next = IF p = index[q].prev THEN q ELSE eis[p].next
  BY Appended
<1>6. index' = index /\ at'[q] = "set" /\ \A p \in Ports \ {q} : at'[p] = at[p] /\ at'[p] \notin Changing
  <2>1. \A p \in Ports \ {q} : at[p] \notin Changing
    BY <1>2 DEF Alone, Changing
  <2>2. QED BY <1>2, <2>1 DEF Link
<1>7. \A i \in 1 .. n + 1 : t[i] \in Ports
  BY <1>1
<1>8. \A i, j \in 1 .. n + 1 : t[i] = t[j] => i = j
  <2>1. \A i \in 1 .. n + 1 : i \in 1 .. n \/ i = n + 1
    OBVIOUS
  <2>2. \A i, j \in 1 .. n : s[i] = s[j] => i = j
    BY DEF Linked
  <2>3. QED BY <1>1, <1>3, <2>1, <2>2
<1>9. \A p \in Ports : at'[p] \in Listed <=> \E i \in 1 .. n + 1 : t[i] = p
  <2>1. ASSUME NEW p \in Ports, p # q PROVE at'[p] \in Listed <=> \E i \in 1 .. n + 1 : t[i] = p
    <3>1. at'[p] = at[p]
      BY <1>2, <2>1
    <3>2. (\E i \in 1 .. n + 1 : t[i] = p) <=> (\E i \in 1 .. n : s[i] = p)
      <4>1. \A i \in 1 .. n + 1 : i \in 1 .. n \/ i = n + 1
        OBVIOUS
      <4>2. \A i \in 1 .. n : i \in 1 .. n + 1
        OBVIOUS
      <4>3. QED BY <1>1, <2>1, <4>1, <4>2
    <3>3. QED BY <3>1, <3>2 DEF Linked
  <2>2. at'[q] \in Listed /\ \E i \in 1 .. n + 1 : t[i] = q
    <3>1. n + 1 \in 1 .. n + 1
      OBVIOUS
    <3>2. QED BY <1>1, <1>2, <3>1 DEF Listed
  <2>3. QED BY <2>1, <2>2
<1>10. master_index' = IF n + 1 = 0 THEN null ELSE t[1]
  <2>1. master_index' = IF index[q].prev = null THEN q ELSE master_index
    BY DEF Link
  <2>2. CASE n = 0
    BY <1>1, <1>4, <2>1, <2>2
  <2>3. CASE n # 0
    <3>1. 1 \in 1 .. n /\ n \in 1 .. n /\ n + 1 # 0
      BY <2>3
    <3>2. s[n] # null /\ master_index = s[1]
      BY <2>3, <3>1, NullIsNoPort DEF Linked
    <3>3. QED BY <1>1, <1>4, <2>1, <2>3, <3>1, <3>2
  <2>4. QED BY <2>2, <2>3
<1>11. \A i \in 1 .. n + 1 : at'[t[i]] \in Changing => i = n + 1
  <2>1. \A i \in 1 .. n : at'[t[i]] \notin Changing
    BY <1>1, <1>3, <1>6 DEF Linked
  <2>2. \A i \in 1 .. n + 1 : i \in 1 .. n \/ i = n + 1
    OBVIOUS
  <2>3. QED BY <2>1, <2>2
<1>12. ASSUME NEW i \in 1 .. n + 1, at'[t[i]] # "set"
       PROVE  /\ eis'[t[i]].next = IF i = n + 1 THEN null ELSE t[i + 1]
              /\ eis'[t[i]].prev = IF i = 1 THEN null ELSE t[i - 1]
  <2>0. i # n + 1
    BY <1>1, <1>6, <1>12
  <2>1. i \in 1 .. n
    BY <2>0
  <2>2. t[i] = s[i] /\ s[i] \in Ports \ {q} /\ at[s[i]] # "set"
    BY <1>1, <1>3, <1>6, <1>12, <2>1 DEF Linked
  <2>3. /\ eis[s[i]].next = IF i = n THEN null ELSE s[i + 1]
        /\ eis[s[i]].prev = IF i = 1 THEN null ELSE s[i - 1]
    BY <2>1, <2>2 DEF Linked
  <2>4. eis'[t[i]].prev = IF i = 1 THEN null ELSE t[i - 1]
    <3>1. i # 1 => i - 1 \in 1 .. n
      BY <2>1
    <3>2. QED BY <1>1, <1>5, <2>2, <2>3, <3>1
  <2>5. eis'[t[i]].next = t[i + 1]
    <3>1. n # 0 /\ n \in 1 .. n
      BY <2>1
    <3>2. CASE i = n
      <4>1. s[i] = index[q].prev /\ t[i + 1] = q
        BY <1>1, <1>4, <3>1, <3>2
      <4>2. QED BY <1>5, <2>2, <4>1
    <3>3. CASE i # n
      <4>1. i + 1 \in 1 .. n
        BY <2>1, <3>3
      <4>2. s[i] # s[n]
        BY <2>1, <3>1, <3>3 DEF Linked
      <4>3. QED BY <1>1, <1>4, <1>5, <2>2, <2>3, <3>1, <3>3, <4>1, <4>2
    <3>4. QED BY <3>2, <3>3
  <2>6. QED BY <2>0, <2>4, <2>5
<1>13. index'[q].prev = IF n + 1 = 1 THEN null ELSE t[(n + 1) - 1]
  <2>1. n # 0 => n \in 1 .. n /\ (n + 1) - 1 = n /\ n + 1 # 1
    OBVIOUS
  <2>2. QED BY <1>1, <1>4, <1>6, <2>1
<1>14. \A p \in Ports : at'[p] \in Changing => p = q
  BY <1>6
<1>15. Linked(n + 1, t)'
  <2>1. \A i \in 1 .. n + 1 : at'[t[i]] \in {"set", "fill"} => i = n + 1
    BY <1>11 DEF Changing
  <2>2. \A p \in Ports : at'[p] # "link" /\ at'[p] # "unlink"
    BY <1>6, <1>14 DEF Changing
  <2>3. \A p \in Ports : at'[p] = "set" => index'[p].prev = IF n + 1 = 1 THEN null ELSE t[(n + 1) - 1]
    BY <1>13, <1>14 DEF Changing
  <2>4. QED BY <1>7, <1>8, <1>9, <1>10, <1>12, <2>1, <2>2, <2>3, Zenon DEF Linked
<1>16. QED BY <1>15 DEF t

(* It is the end of the chain with its pointers set, too.                     *)
LEMMA ChainSets ==
  ASSUME Links, Alone, ~raced, NEW q \in Ports, SetPointers(q),
         NEW n \in Nat, NEW s \in [1 .. n -> Ports], Linked(n, s)
  PROVE  n \in 1 .. n /\ s[n] = q /\ Linked(n, s)'
<1>1. /\ at[q] = "set" /\ at' = [at EXCEPT ![q] = "fill"] /\ at \in [Ports -> Places]
      /\ master_index' = master_index
  BY DEF SetPointers, Goto, Links
<1>2. \A p \in Ports \ {q} : at'[p] = at[p] /\ at[p] \notin Changing
  BY <1>1 DEF Alone, Changing
<1>3. at'[q] = "fill"
  BY <1>1
<1>4. n \in 1 .. n /\ s[n] = q
  <2>1. PICK i \in 1 .. n : s[i] = q
    BY <1>1 DEF Linked, Listed
  <2>2. i = n
    BY <1>1, <2>1 DEF Linked
  <2>3. QED BY <2>1, <2>2
<1>5. /\ \A p \in Ports \ {q} : eis'[p] = eis[p]
      /\ eis'[q].next = null /\ eis'[q].prev = index[q].prev
  BY Pointed
<1>6. index[q].prev = IF n = 1 THEN null ELSE s[n - 1]
  BY <1>1 DEF Linked
<1>7. \A i \in 1 .. n : s[i] \in Ports /\ (s[i] = q => i = n)
  BY <1>4 DEF Linked
<1>8. \A p \in Ports : at'[p] \in Listed <=> \E i \in 1 .. n : s[i] = p
  <2>1. \A p \in Ports : at'[p] \in Listed <=> at[p] \in Listed
    BY <1>1, <1>2, <1>3 DEF Listed
  <2>2. QED BY <2>1 DEF Linked
<1>9. \A i \in 1 .. n : at'[s[i]] \in {"set", "fill"} => i = n
  BY <1>2, <1>7 DEF Changing
<1>10. ASSUME NEW i \in 1 .. n
       PROVE  /\ eis'[s[i]].next = IF i = n THEN null ELSE s[i + 1]
              /\ eis'[s[i]].prev = IF i = 1 THEN null ELSE s[i - 1]
  <2>1. CASE i = n
    BY <1>4, <1>5, <1>6, <2>1
  <2>2. CASE i # n
    <3>1. s[i] \in Ports \ {q}
      BY <1>7, <2>2
    <3>2. at[s[i]] # "set"
      BY <1>2, <3>1 DEF Changing
    <3>3. QED BY <1>5, <3>1, <3>2 DEF Linked
  <2>3. QED BY <2>1, <2>2
<1>11. \A p \in Ports : at'[p] # "link" /\ at'[p] # "set" /\ at'[p] # "unlink"
  BY <1>2, <1>3 DEF Changing
<1>12. Linked(n, s)'
  <2>1. \A i, j \in 1 .. n : s[i] = s[j] => i = j
    BY DEF Linked
  <2>2. master_index' = IF n = 0 THEN null ELSE s[1]
    BY <1>1 DEF Linked
  <2>3. QED BY <1>7, <1>8, <1>9, <1>10, <1>11, <2>1, <2>2, Zenon DEF Linked
<1>13. QED BY <1>4, <1>12

(* A chain without one of its structs, whose neighbours have been joined.     *)
LEMMA ChainShrinks ==
  ASSUME Links, Alone, ~raced, NEW q \in Ports, Unlink(q),
         NEW n \in Nat, NEW s \in [1 .. n -> Ports], Linked(n, s),
         NEW i \in 1 .. n, s[i] = q
  PROVE  Linked(n - 1, [j \in 1 .. n - 1 |-> IF j < i THEN s[j] ELSE s[j + 1]])'
<1> DEFINE t == [j \in 1 .. n - 1 |-> IF j < i THEN s[j] ELSE s[j + 1]]
<1>1. \A j \in 1 .. n - 1 : t[j] = IF j < i THEN s[j] ELSE s[j + 1]
  OBVIOUS
<1> HIDE DEF t
<1>2. at[q] = "unlink" /\ at' = [at EXCEPT ![q] = "off"] /\ at \in [Ports -> Places]
  BY DEF Unlink, Goto, Links
<1>3. /\ \A j \in 1 .. n : s[j] \in Ports /\ s[j] # null
      /\ \A j, k \in 1 .. n : s[j] = s[k] => j = k
  BY NullIsNoPort DEF Linked
<1>4. /\ index[q].prev = IF i = 1 THEN null ELSE s[i - 1]
      /\ index[q].next = IF i = n THEN null ELSE s[i + 1]
  <2>1. at[s[i]] # "set"
    BY <1>2
  <2>2. QED BY <1>2, <2>1 DEF Linked
<1>5. \A p \in Ports :
        /\ eis'[p].next = IF p = index[q].prev THEN index[q].next ELSE eis[p].next
        /\ eis'[p].prev = IF p # index[q].prev /\ p = index[q].next THEN index[q].prev
                          ELSE eis[p].prev
  BY Unlinked
<1>6. /\ \A p \in Ports \ {q} : at[p] \notin Changing
      /\ \A p \in Ports : at'[p] \notin Changing
  <2>1. \A p \in Ports \ {q} : at[p] \notin Changing
    BY <1>2 DEF Alone, Changing
  <2>2. QED BY <1>2, <2>1 DEF Changing
<1>7. n - 1 \in Nat /\ i \in Nat /\ i >= 1 /\ i <= n
  OBVIOUS
<1>8. ASSUME NEW j \in 1 .. n - 1
      PROVE  \/ j < i /\ j \in 1 .. n /\ t[j] = s[j]
             \/ j >= i /\ j + 1 \in 1 .. n /\ t[j] = s[j + 1]
  BY <1>1, <1>7
<1>9. \A j \in 1 .. n - 1 : t[j] \in Ports /\ t[j] # q
  <2> SUFFICES ASSUME NEW j \in 1 .. n - 1 PROVE t[j] \in Ports /\ t[j] # q
    OBVIOUS
  <2>1. CASE j < i /\ j \in 1 .. n /\ t[j] = s[j]
    BY <1>3, <1>7, <2>1
  <2>2. CASE j >= i /\ j + 1 \in 1 .. n /\ t[j] = s[j + 1]
    <3>1. j + 1 # i
      BY <1>7, <2>2
    <3>2. QED BY <1>3, <2>2, <3>1
  <2>3. QED BY <1>8, <2>1, <2>2
<1>10. \A j, k \in 1 .. n - 1 : t[j] = t[k] => j = k
  <2> SUFFICES ASSUME NEW j \in 1 .. n - 1, NEW k \in 1 .. n - 1, t[j] = t[k] PROVE j = k
    OBVIOUS
  <2>1. \/ j < i /\ j \in 1 .. n /\ t[j] = s[j]
        \/ j >= i /\ j + 1 \in 1 .. n /\ t[j] = s[j + 1]
    BY <1>8
  <2>2. \/ k < i /\ k \in 1 .. n /\ t[k] = s[k]
        \/ k >= i /\ k + 1 \in 1 .. n /\ t[k] = s[k + 1]
    BY <1>8
  <2>3. QED BY <1>3, <1>7, <2>1, <2>2
<1>11. \A p \in Ports : at'[p] \in Listed <=> \E j \in 1 .. n - 1 : t[j] = p
  <2>1. at'[q] \notin Listed /\ \A j \in 1 .. n - 1 : t[j] # q
    BY <1>2, <1>9 DEF Listed
  <2>2. ASSUME NEW p \in Ports, p # q, NEW j \in 1 .. n - 1, t[j] = p PROVE at'[p] \in Listed
    <3>1. at'[p] = at[p]
      BY <1>2, <2>2
    <3>2. \E k \in 1 .. n : s[k] = p
      BY <1>8, <2>2
    <3>3. QED BY <3>1, <3>2 DEF Linked
  <2>3. ASSUME NEW p \in Ports, p # q, at'[p] \in Listed PROVE \E j \in 1 .. n - 1 : t[j] = p
    <3>1. at'[p] = at[p]
      BY <1>2, <2>3
    <3>2. PICK k \in 1 .. n : s[k] = p
      BY <2>3, <3>1 DEF Linked
    <3>3. CASE k < i
      <4>1. k \in 1 .. n - 1
        BY <1>7, <3>3
      <4>2. QED BY <1>1, <3>2, <3>3, <4>1
    <3>4. CASE k > i
      <4>1. k - 1 \in 1 .. n - 1 /\ ~(k - 1 < i) /\ (k - 1) + 1 = k
        BY <1>7, <3>4
      <4>2. QED BY <1>1, <3>2, <4>1
    <3>5. k # i
      BY <2>3, <3>2
    <3>6. QED BY <1>7, <3>3, <3>4, <3>5
  <2>4. QED BY <2>1, <2>2, <2>3
<1>12. master_index' = IF n - 1 = 0 THEN null ELSE t[1]
  <2>1. master_index' = IF index[q].prev = null THEN index[q].next ELSE master_index
    BY DEF Unlink
  <2>2. CASE i = 1
    <3>1. master_index' = IF n = 1 THEN null ELSE s[2]
      BY <1>4, <2>1, <2>2
    <3>2. n # 1 => 1 \in 1 .. n - 1 /\ ~(1 < i) /\ 1 + 1 = 2
      BY <1>7, <2>2
    <3>3. n # 1 => t[1] = s[2]
      BY <1>1, <3>2
    <3>4. QED BY <1>7, <3>1, <3>3
  <2>3. CASE i # 1
    <3>1. i - 1 \in 1 .. n /\ 1 \in 1 .. n - 1 /\ 1 < i /\ n # 0 /\ n - 1 # 0
      BY <1>7, <2>3
    <3>2. index[q].prev # null
      BY <1>3, <1>4, <2>3, <3>1
    <3>3. master_index = s[1]
      BY <3>1 DEF Linked
    <3>4. QED BY <1>1, <2>1, <3>1, <3>2, <3>3
  <2>4. QED BY <2>2, <2>3
<1>13. ASSUME NEW k \in 1 .. n, k # i
       PROVE  /\ eis'[s[k]].next = IF k = i - 1 THEN (IF i = n THEN null ELSE s[i + 1])
                                   ELSE IF k = n THEN null ELSE s[k + 1]
              /\ eis'[s[k]].prev = IF k = i + 1 THEN (IF i = 1 THEN null ELSE s[i - 1])
                                   ELSE IF k = 1 THEN null ELSE s[k - 1]
  <2>1. /\ eis[s[k]].next = IF k = n THEN null ELSE s[k + 1]
        /\ eis[s[k]].prev = IF k = 1 THEN null ELSE s[k - 1]
    <3>1. s[k] \in Ports \ {q}
      BY <1>3, <1>13
    <3>2. at[s[k]] # "set"
      BY <1>6, <3>1 DEF Changing
    <3>3. QED BY <3>2 DEF Linked
  <2>2. s[k] = index[q].prev <=> k = i - 1
    <3>1. i # 1 => i - 1 \in 1 .. n
      BY <1>7
    <3>2. k = i - 1 => i # 1
      BY <1>7
    <3>3. QED BY <1>3, <1>4, <3>1, <3>2
  <2>3. s[k] = index[q].next <=> k = i + 1
    <3>1. i # n => i + 1 \in 1 .. n
      BY <1>7
    <3>2. k = i + 1 => i # n
      BY <1>7
    <3>3. QED BY <1>3, <1>4, <3>1, <3>2
  <2>4. ~(k = i - 1 /\ k = i + 1)
    BY <1>7
  <2>5. QED BY <1>3, <1>4, <1>5, <2>1, <2>2, <2>3, <2>4
<1>14. ASSUME NEW j \in 1 .. n - 1
       PROVE  /\ eis'[t[j]].next = IF j = n - 1 THEN null ELSE t[j + 1]
              /\ eis'[t[j]].prev = IF j = 1 THEN null ELSE t[j - 1]
  <2>0. j \in Nat /\ j >= 1 /\ j <= n - 1
    BY <1>7
  <2>1. CASE j < i
    <3>1. j \in 1 .. n /\ j # i /\ j # i + 1 /\ j # n /\ t[j] = s[j]
      BY <1>1, <1>7, <2>0, <2>1
    <3>2. eis'[t[j]].prev = IF j = 1 THEN null ELSE t[j - 1]
      <4>1. j # 1 => j - 1 \in 1 .. n - 1 /\ j - 1 < i
        BY <1>7, <2>0, <2>1
      <4>2. j # 1 => t[j - 1] = s[j - 1]
        BY <1>1, <4>1
      <4>3. QED BY <1>13, <3>1, <4>2
    <3>3. CASE j = i - 1
      <4>1. eis'[t[j]].next = IF i = n THEN null ELSE s[i + 1]
        BY <1>13, <3>1, <3>3
      <4>2. i # n => j + 1 \in 1 .. n - 1 /\ ~(j + 1 < i) /\ (j + 1) + 1 = i + 1
        BY <1>7, <3>3
      <4>3. i # n => t[j + 1] = s[i + 1]
        BY <1>1, <4>2
      <4>4. i = n <=> j = n - 1
        BY <1>7, <3>3
      <4>5. QED BY <3>2, <4>1, <4>3, <4>4
    <3>4. CASE j # i - 1
      <4>1. eis'[t[j]].next = s[j + 1]
        BY <1>13, <3>1, <3>4
      <4>2. j + 1 \in 1 .. n - 1 /\ j + 1 < i /\ j # n - 1
        BY <1>7, <2>0, <2>1, <3>4
      <4>3. t[j + 1] = s[j + 1]
        BY <1>1, <4>2
      <4>4. QED BY <3>2, <4>1, <4>2, <4>3
    <3>5. QED BY <3>3, <3>4
  <2>2. CASE ~(j < i)
    <3>1. /\ j + 1 \in 1 .. n /\ j + 1 # i /\ j + 1 # i - 1 /\ j + 1 # 1
          /\ t[j] = s[j + 1]
      BY <1>1, <1>7, <2>0, <2>2
    <3>2. eis'[t[j]].next = IF j = n - 1 THEN null ELSE t[j + 1]
      <4>1. eis'[t[j]].next = IF j + 1 = n THEN null ELSE s[(j + 1) + 1]
        BY <1>13, <3>1
      <4>2. j # n - 1 => j + 1 \in 1 .. n - 1 /\ ~(j + 1 < i)
        BY <1>7, <2>0, <2>2
      <4>3. j # n - 1 => t[j + 1] = s[(j + 1) + 1]
        BY <1>1, <4>2
      <4>4. j + 1 = n <=> j = n - 1
        BY <1>7, <2>0
      <4>5. QED BY <4>1, <4>3, <4>4
    <3>3. CASE j = i
      <4>1. eis'[t[j]].prev = IF i = 1 THEN null ELSE s[i - 1]
        BY <1>13, <3>1, <3>3
      <4>2. i # 1 => j - 1 \in 1 .. n - 1 /\ j - 1 < i /\ j - 1 = i - 1
        BY <1>7, <2>0, <3>3
      <4>3. i # 1 => t[j - 1] = s[i - 1]
        BY <1>1, <4>2
      <4>4. QED BY <3>2, <3>3, <4>1, <4>3
    <3>4. CASE j # i
      <4>1. eis'[t[j]].prev = s[(j + 1) - 1]
        <5>1. j + 1 # i + 1
          BY <1>7, <2>0, <3>4
        <5>2. QED BY <1>13, <3>1, <5>1
      <4>2. j # 1 /\ j - 1 \in 1 .. n - 1 /\ ~(j - 1 < i) /\ (j - 1) + 1 = (j + 1) - 1
        BY <1>7, <2>0, <2>2, <3>4
      <4>3. t[j - 1] = s[(j + 1) - 1]
        BY <1>1, <4>2
      <4>4. QED BY <3>2, <4>1, <4>2, <4>3
    <3>5. QED BY <3>3, <3>4
  <2>3. QED BY <2>1, <2>2
<1>15. Linked(n - 1, t)'
  <2>1. \A j \in 1 .. n - 1 : at'[t[j]] \notin {"set", "fill"}
    BY <1>6, <1>9 DEF Changing
  <2>2. \A p \in Ports : at'[p] # "link" /\ at'[p] # "set" /\ at'[p] # "unlink"
    BY <1>6 DEF Changing
  <2>3. QED BY <1>9, <1>10, <1>11, <1>12, <1>14, <2>1, <2>2, Zenon DEF Linked
<1>16. QED BY <1>15 DEF t

LEMMA StepChain == IInv /\ [Next]_vars => Chain'
<1> SUFFICES ASSUME Links, Flags, Own, Alone, Chain, [Next]_vars PROVE Chain'
  BY DEF IInv
<1>y. /\ at \in [Ports -> Places] /\ index \in [Ports -> Neighbours]
  BY DEF Links
<1>c. ASSUME ~raced PROVE \E n \in Nat : \E s \in [1 .. n -> Ports] : Linked(n, s)
  BY <1>c DEF Chain
<1>1. CASE UNCHANGED vars
  BY <1>1, ChainStays DEF vars, list
<1>2. ASSUME NEW q \in Ports, FindEnd(q) PROVE Chain'
  <2> SUFFICES ASSUME ~raced' PROVE \E n \in Nat : \E s \in [1 .. n -> Ports] : Linked(n, s)'
    BY DEF Chain
  <2>1. ~raced /\ ~Overlap(q)
    BY <1>2 DEF FindEnd
  <2>2. PICK n \in Nat : \E s \in [1 .. n -> Ports] : Linked(n, s)
    BY <1>c, <2>1
  <2>3. PICK s \in [1 .. n -> Ports] : Linked(n, s)
    BY <2>2
  <2>4. PICK last \in Range(Walk) :
          /\ IF master_index = null THEN last = null ELSE last # null /\ eis[last].next = null
          /\ index' = [index EXCEPT ![q].prev = last]
    BY <1>2 DEF FindEnd
  <2>0. /\ \A i \in 1 .. n : at[s[i]] \notin {"set", "fill"}
        /\ Ended(n, s)
    <3>1. at[q] = "walk" /\ \A p \in Ports \ {q} : at[p] \notin Changing
      BY <1>2, <2>1 DEF FindEnd, Overlap
    <3>2. \A p \in Ports : at[p] \notin {"set", "fill"}
      BY <3>1 DEF Changing
    <3>3. n # 0 => n \in 1 .. n
      OBVIOUS
    <3>4. QED BY <2>3, <3>2, <3>3 DEF Linked, Ended
  <2>5. last = IF n = 0 THEN null ELSE s[n]
    <3>1. CASE n = 0
      BY <2>3, <2>4, <3>1 DEF Linked
    <3>2. CASE n # 0
      <4>1. master_index # null
        BY <2>3, <3>2, NullIsNoPort DEF Linked
      <4>2. PICK i \in 1 .. n : last = s[i]
        <5>1. Threaded(n, s)
          BY <2>3, LinkedIsThreaded
        <5>2. PICK k \in DOMAIN Walk : last = Walk[k]
          BY <2>4 DEF Range
        <5>3. last # null
          BY <2>4, <4>1
        <5>4. Walk[k] = null \/ \E i \in 1 .. n : Walk[k] = s[i]
          BY <2>0, <5>1, WalkMeets
        <5>5. QED BY <5>2, <5>3, <5>4
      <4>3. i = n
        <5>1. i # n => i + 1 \in 1 .. n
          OBVIOUS
        <5>2. at[s[i]] # "set"
          BY <2>0
        <5>3. QED BY <2>3, <2>4, <4>1, <4>2, <5>1, <5>2, NullIsNoPort DEF Linked
      <4>4. QED BY <3>2, <4>2, <4>3
    <3>3. QED BY <3>1, <3>2
  <2>6. at[q] = "walk" /\ at' = [at EXCEPT ![q] = "link"] /\ UNCHANGED <<master_index, eis>>
    BY <1>2 DEF FindEnd, Goto
  <2>7. index'[q].prev = last /\ \A p \in Ports \ {q} : index'[p] = index[p] /\ at'[p] = at[p]
    BY <1>y, <2>4, <2>6 DEF Neighbours
  <2>8. \A p \in Ports : at'[p] \in Listed <=> at[p] \in Listed
    BY <1>y, <2>6 DEF Listed
  <2>9. \A p \in Ports : at'[p] = "link" => index'[p].prev = IF n = 0 THEN null ELSE s[n]
    BY <2>3, <2>5, <2>7 DEF Linked
  <2>10. \A p \in Ports : at'[p] = "unlink" => index'[p].prev = eis[p].prev /\ index'[p].next = eis[p].next
    <3>1. at'[q] # "unlink"
      BY <1>y, <2>6
    <3>2. QED BY <2>3, <2>7, <3>1 DEF Linked
  <2>11. Linked(n, s)'
    <3>1. \A p \in Ports : at'[p] \notin {"set", "fill"}
      <4>1. \A p \in Ports \ {q} : at[p] \notin {"set", "fill"}
        BY <2>1 DEF Overlap, Changing
      <4>2. QED BY <1>y, <2>6, <2>7, <4>1
    <3>2. \A i \in 1 .. n : s[i] \in Ports /\ at[s[i]] # "set"
      BY <2>0, <2>3 DEF Linked
    <3>3. QED BY <2>3, <2>6, <2>8, <2>9, <2>10, <3>1, <3>2 DEF Linked
  <2>12. QED BY <2>11
<1>3. ASSUME NEW q \in Ports, Link(q) PROVE Chain'
  <2> SUFFICES ASSUME ~raced' PROVE \E n \in Nat : \E s \in [1 .. n -> Ports] : Linked(n, s)'
    BY DEF Chain
  <2>1. ~raced
    BY <1>3 DEF Link
  <2>2. PICK n \in Nat : \E s \in [1 .. n -> Ports] : Linked(n, s)
    BY <1>c, <2>1
  <2>3. PICK s \in [1 .. n -> Ports] : Linked(n, s)
    BY <2>2
  <2> DEFINE t == [i \in 1 .. n + 1 |-> IF i <= n THEN s[i] ELSE q]
  <2>4. Linked(n + 1, t)'
    BY <1>3, <2>1, <2>3, ChainGrows
  <2>5. t \in [1 .. n + 1 -> Ports]
    OBVIOUS
  <2>6. QED BY <2>4, <2>5
<1>s. ASSUME NEW q \in Ports, SetPointers(q) PROVE Chain'
  <2> SUFFICES ASSUME ~raced' PROVE \E n \in Nat : \E s \in [1 .. n -> Ports] : Linked(n, s)'
    BY DEF Chain
  <2>1. ~raced
    BY <1>s DEF SetPointers
  <2>2. PICK n \in Nat : \E s \in [1 .. n -> Ports] : Linked(n, s)
    BY <1>c, <2>1
  <2>3. PICK s \in [1 .. n -> Ports] : Linked(n, s)
    BY <2>2
  <2>4. Linked(n, s)'
    BY <1>s, <2>1, <2>3, ChainSets
  <2>5. QED BY <2>4
<1>4. ASSUME NEW q \in Ports, Unlink(q) PROVE Chain'
  <2> SUFFICES ASSUME ~raced' PROVE \E n \in Nat : \E s \in [1 .. n -> Ports] : Linked(n, s)'
    BY DEF Chain
  <2>1. ~raced /\ at[q] = "unlink"
    BY <1>4 DEF Unlink
  <2>2. PICK n \in Nat : \E s \in [1 .. n -> Ports] : Linked(n, s)
    BY <1>c, <2>1
  <2>3. PICK s \in [1 .. n -> Ports] : Linked(n, s)
    BY <2>2
  <2>4. PICK i \in 1 .. n : s[i] = q
    BY <2>1, <2>3 DEF Linked, Listed
  <2> DEFINE t == [j \in 1 .. n - 1 |-> IF j < i THEN s[j] ELSE s[j + 1]]
  <2>5. Linked(n - 1, t)'
    BY <1>4, <2>1, <2>3, <2>4, ChainShrinks
  <2>6. n - 1 \in Nat
    OBVIOUS
  <2>7. t \in [1 .. n - 1 -> Ports]
    OBVIOUS
  <2>8. QED BY <2>5, <2>6, <2>7
<1>5. ASSUME NEW q \in Ports, ReadNeighbours(q) PROVE Chain'
  <2> SUFFICES ASSUME ~raced' PROVE \E n \in Nat : \E s \in [1 .. n -> Ports] : Linked(n, s)'
    BY DEF Chain
  <2>1. ~raced
    BY <1>5 DEF ReadNeighbours
  <2>2. PICK n \in Nat : \E s \in [1 .. n -> Ports] : Linked(n, s)
    BY <1>c, <2>1
  <2>3. PICK s \in [1 .. n -> Ports] : Linked(n, s)
    BY <2>2
  <2>4. /\ at[q] = "read" /\ at' = [at EXCEPT ![q] = "unlink"] /\ UNCHANGED <<master_index, eis>>
        /\ index' = [index EXCEPT ![q] = [prev |-> eis[q].prev, next |-> eis[q].next]]
    BY <1>5 DEF ReadNeighbours, Goto
  <2>5. /\ index'[q].prev = eis[q].prev /\ index'[q].next = eis[q].next
        /\ \A p \in Ports \ {q} : index'[p] = index[p] /\ at'[p] = at[p]
    BY <1>y, <2>4
  <2>6. at'[q] = "unlink"
    BY <1>y, <2>4
  <2>7. \A p \in Ports : at'[p] \in Listed <=> at[p] \in Listed
    BY <1>y, <2>4 DEF Listed
  <2>8. \A p \in Ports : at'[p] = "link" => index'[p].prev = IF n = 0 THEN null ELSE s[n]
    BY <2>3, <2>5, <2>6 DEF Linked
  <2>9. \A p \in Ports : at'[p] = "unlink" => index'[p].prev = eis[p].prev /\ index'[p].next = eis[p].next
    BY <2>3, <2>5 DEF Linked
  <2>10. Linked(n, s)'
    <3>1. \A i \in 1 .. n : s[i] \in Ports
      BY <2>3 DEF Linked
    <3>2. \A p \in Ports : at'[p] \in {"set", "fill"} => p # q /\ at'[p] = at[p] /\ index'[p] = index[p]
      BY <2>5, <2>6
    <3>3. \A p \in Ports : at[p] = "set" => at'[p] = "set"
      BY <2>4, <2>5
    <3>4. \A i \in 1 .. n : at'[s[i]] \in {"set", "fill"} => i = n
      BY <2>3, <3>1, <3>2 DEF Linked
    <3>5. \A i \in 1 .. n : at'[s[i]] # "set" =>
            /\ eis'[s[i]].next = IF i = n THEN null ELSE s[i + 1]
            /\ eis'[s[i]].prev = IF i = 1 THEN null ELSE s[i - 1]
      BY <2>3, <2>4, <3>1, <3>3 DEF Linked
    <3>6. \A p \in Ports : at'[p] = "set" => index'[p].prev = IF n = 1 THEN null ELSE s[n - 1]
      BY <2>3, <3>2 DEF Linked
    <3>7. QED BY <2>3, <2>4, <2>7, <2>8, <2>9, <3>4, <3>5, <3>6 DEF Linked
  <2>11. QED BY <2>10
<1>6. ASSUME NEW q \in Ports, Fill(q) PROVE Chain'
  <2>1. \A p \in Ports : eis'[p].next = eis[p].next /\ eis'[p].prev = eis[p].prev
    BY <1>6, Filled
  <2>2. UNCHANGED <<master_index, index, raced>> /\ at[q] = "fill" /\ at' = [at EXCEPT ![q] = "top"]
    BY <1>6 DEF Fill, Goto
  <2>3. /\ \A p \in Ports : at'[p] \in Listed <=> at[p] \in Listed
        /\ \A p \in Ports : at'[p] \in Changing => at'[p] = at[p]
        /\ \A p \in Ports : at[p] = "set" => at'[p] = "set"
    BY <1>y, <2>2 DEF Listed, Changing
  <2>4. QED BY <2>1, <2>2, <2>3, ChainStays
<1>7. ASSUME NEW q \in Ports, SetEventFlag(q) \/ InterruptEventLoop(q) PROVE Chain'
  <2>1. \E x : \E b \in BOOLEAN : eis' \in {[eis EXCEPT ![x].data = b], [eis EXCEPT ![x].output = b],
                                        [eis EXCEPT ![x].closing = b]}
    BY <1>7 DEF SetEventFlag, InterruptEventLoop
  <2>2. \A p \in Ports : eis'[p].next = eis[p].next /\ eis'[p].prev = eis[p].prev
    BY <2>1, FlagSet
  <2>3. UNCHANGED <<master_index, index, raced, at>>
    BY <1>7 DEF SetEventFlag, InterruptEventLoop
  <2>4. QED BY <2>2, <2>3, ChainStays
<1>8. ASSUME NEW q \in Ports, \/ Start(q) \/ Top(q) \/ CheckLSR(q) \/ CheckCount(q) \/ CheckLines(q)
                              \/ CheckData(q) \/ NotifyOnCTS(q) \/ Device(q)
      PROVE  Chain'
  <2>1. UNCHANGED <<master_index, eis, index, raced>>
    BY <1>8 DEF Start, Top, CheckLSR, CheckCount, CheckLines, CheckData, NotifyOnCTS, Device, list
  <2>2. /\ \A p \in Ports : at'[p] \in Listed <=> at[p] \in Listed
        /\ \A p \in Ports : at'[p] \in Changing => at'[p] = at[p]
        /\ \A p \in Ports : at[p] = "set" => at'[p] = "set"
    BY <1>8, <1>y DEF Start, Top, CheckLSR, CheckCount, CheckLines, CheckData, NotifyOnCTS, Device,
                      Goto, Listed, Changing
  <2>3. QED BY <2>1, <2>2, ChainStays
<1>9. QED
  BY <1>1, <1>2, <1>3, <1>s, <1>4, <1>5, <1>6, <1>7, <1>8 DEF Next, EventLoop, Application, Report

LEMMA InvHolds == Spec => []IInv
<1>1. IInv /\ [Next]_vars => IInv'
  <2> SUFFICES ASSUME IInv, [Next]_vars PROVE IInv'
    OBVIOUS
  <2>1. Links' /\ Flags' /\ Counters' /\ Own' /\ Told' /\ Alone' /\ Chain'
    BY StepLinks, StepFlags, StepCounters, StepOwn, StepTold, StepAlone, StepChain
  <2>2. QED BY <2>1 DEF IInv
<1>2. QED BY <1>1, InitInv, PTL DEF Spec
-----------------------------------------------------------------------------
(* The list as a queue *)

(* A chain is the sequence that a walk along next finds.                      *)
LEMMA OrderIs ==
  \A n \in Nat : \A s \in [1 .. n -> Ports] : Threaded(n, s) => Order = s
<1> SUFFICES ASSUME NEW n \in Nat, NEW s \in [1 .. n -> Ports], Threaded(n, s) PROVE Order = s
  OBVIOUS
<1>1. n <= Cardinality(Ports)
  BY ChainFits DEF Threaded
<1>2. \A i \in 1 .. n : i - 1 \in DOMAIN Walk /\ Walk[i - 1] = s[i] /\ s[i] # null
  <2>1. \A i \in 1 .. n : i - 1 \in 0 .. Cardinality(Ports)
    BY <1>1, WalkDef
  <2>2. \A i \in 1 .. n : i - 1 \in DOMAIN Walk
    BY <2>1, WalkDef
  <2>3. QED BY <2>2, WalkFollows, NullIsNoPort
<1>3. Known(Walk) = 0 .. n - 1
  <2>1. ASSUME NEW k \in Known(Walk) PROVE k \in 0 .. n - 1
    <3>1. /\ k \in DOMAIN Walk /\ Walk[k] # null
          /\ \A j \in 0 .. k - 1 : Walk[j] # null => at[Walk[j]] # "set"
      BY DEF Known
    <3>2. k \in Nat
      BY <3>1, WalkDef
    <3>3. ASSUME k >= n PROVE FALSE
      <4>1. ~Ended(n, s)
        BY <3>1, <3>3, WalkFollows
      <4>2. n \in 1 .. n /\ n - 1 \in 0 .. k - 1 /\ at[s[n]] = "set"
        BY <3>2, <3>3, <4>1 DEF Ended
      <4>3. Walk[n - 1] = s[n] /\ s[n] # null
        BY <1>2, <4>2
      <4>4. QED BY <3>1, <4>2, <4>3
    <3>4. QED BY <3>2, <3>3
  <2>2. ASSUME NEW k \in 0 .. n - 1 PROVE k \in Known(Walk)
    <3>1. k + 1 \in 1 .. n /\ (k + 1) - 1 = k
      OBVIOUS
    <3>2. k \in DOMAIN Walk /\ Walk[k] # null
      BY <1>2, <3>1
    <3>3. ASSUME NEW j \in 0 .. k - 1 PROVE at[Walk[j]] # "set"
      <4>1. j + 1 \in 1 .. n /\ (j + 1) - 1 = j /\ j + 1 # n
        OBVIOUS
      <4>2. Walk[j] = s[j + 1]
        BY <1>2, <4>1
      <4>3. QED BY <4>1, <4>2 DEF Threaded
    <3>4. QED BY <3>2, <3>3 DEF Known
  <2>3. QED BY <2>1, <2>2
<1>4. Cardinality(0 .. n - 1) = n
  BY FS_Interval
<1>5. Order = [i \in 1 .. n |-> Walk[i - 1]]
  BY <1>3, <1>4 DEF Order, Along
<1>6. QED BY <1>2, <1>5

LEMMA OrderWillBe ==
  \A n \in Nat : \A s \in [1 .. n -> Ports] : Threaded(n, s)' => Order' = s
<1>1. (\A n \in Nat : \A s \in [1 .. n -> Ports] : Threaded(n, s) => Order = s)'
  BY OrderIs, PTL
<1>2. QED BY <1>1

LEMMA ChainIsSeq ==
  ASSUME NEW n \in Nat, NEW s \in [1 .. n -> Ports]
  PROVE  s \in Seq(Ports) /\ Len(s) = n
<1>1. s \in Seq(Ports)
  BY SeqDef
<1>2. Len(s) \in Nat /\ DOMAIN s = 1 .. Len(s) /\ DOMAIN s = 1 .. n
  BY <1>1, LenProperties
<1>3. QED BY <1>1, <1>2

(* Entering at the end and leaving from the middle, as a chain has it.        *)
LEMMA QueueEnters ==
  ASSUME NEW n \in Nat, NEW s \in [1 .. n -> Ports], NEW q \in Ports
  PROVE  Append(s, q) = [i \in 1 .. n + 1 |-> IF i <= n THEN s[i] ELSE q]
<1> DEFINE t == [i \in 1 .. n + 1 |-> IF i <= n THEN s[i] ELSE q]
<1>1. s \in Seq(Ports) /\ Len(s) = n
  BY ChainIsSeq
<1>2. t \in [1 .. n + 1 -> Ports] /\ (\A i \in 1 .. n : t[i] = s[i]) /\ t[n + 1] = q
  OBVIOUS
<1> HIDE DEF t
<1>3. t \in Seq(Ports) /\ Len(t) = n + 1
  BY <1>2, ChainIsSeq
<1>4. /\ Append(s, q) \in Seq(Ports) /\ Len(Append(s, q)) = n + 1
      /\ \A i \in 1 .. n : Append(s, q)[i] = s[i]
      /\ Append(s, q)[n + 1] = q
  BY <1>1, AppendProperties
<1>5. \A i \in 1 .. n + 1 : Append(s, q)[i] = t[i]
  <2>1. \A i \in 1 .. n + 1 : i \in 1 .. n \/ i = n + 1
    OBVIOUS
  <2>2. QED BY <1>2, <1>4, <2>1
<1>6. Append(s, q) = t
  BY <1>3, <1>4, <1>5, SeqEqual
<1>7. QED BY <1>6 DEF t

LEMMA QueueLeaves ==
  ASSUME NEW n \in Nat, NEW s \in [1 .. n -> Ports], NEW i \in 1 .. n
  PROVE  SubSeq(s, 1, i - 1) \o SubSeq(s, i + 1, n)
           = [j \in 1 .. n - 1 |-> IF j < i THEN s[j] ELSE s[j + 1]]
<1> DEFINE t == [j \in 1 .. n - 1 |-> IF j < i THEN s[j] ELSE s[j + 1]]
           a == SubSeq(s, 1, i - 1)
           b == SubSeq(s, i + 1, n)
<1>1. i \in Int /\ 1 <= i /\ i <= n
  OBVIOUS
<1>2. t \in [1 .. n - 1 -> Ports] /\ \A j \in 1 .. n - 1 : t[j] = IF j < i THEN s[j] ELSE s[j + 1]
  BY <1>1
<1>3. a \in Seq(Ports) /\ Len(a) = i - 1 /\ \A j \in 1 .. i - 1 : a[j] = s[j]
  <2>1. \A j \in 1 .. i - 1 : s[j] \in Ports
    BY <1>1
  <2>2. /\ a \in Seq(Ports) /\ Len(a) = IF 1 <= i - 1 THEN (i - 1) - 1 + 1 ELSE 0
        /\ \A j \in 1 .. (i - 1) - 1 + 1 : a[j] = s[1 + j - 1]
    BY <1>1, <2>1, SubSeqProperties
  <2>3. (i - 1) - 1 + 1 = i - 1 /\ \A j \in Int : 1 + j - 1 = j
    BY <1>1
  <2> HIDE DEF a
  <2>4. QED BY <1>1, <2>2, <2>3
<1>4. b \in Seq(Ports) /\ Len(b) = n - i /\ \A j \in 1 .. n - i : b[j] = s[i + j]
  <2>1. \A j \in i + 1 .. n : s[j] \in Ports
    BY <1>1
  <2>2. /\ b \in Seq(Ports) /\ Len(b) = IF i + 1 <= n THEN n - (i + 1) + 1 ELSE 0
        /\ \A j \in 1 .. n - (i + 1) + 1 : b[j] = s[(i + 1) + j - 1]
    BY <1>1, <2>1, SubSeqProperties
  <2>3. n - (i + 1) + 1 = n - i /\ \A j \in Int : (i + 1) + j - 1 = i + j
    BY <1>1
  <2> HIDE DEF b
  <2>4. QED BY <1>1, <2>2, <2>3
<1> HIDE DEF t, a, b
<1>5. /\ a \o b \in Seq(Ports) /\ Len(a \o b) = n - 1
      /\ \A j \in 1 .. n - 1 : (a \o b)[j] = IF j <= i - 1 THEN a[j] ELSE b[j - (i - 1)]
  <2>1. Len(a) + Len(b) = n - 1
    BY <1>1, <1>3, <1>4
  <2>2. /\ a \o b \in Seq(Ports) /\ Len(a \o b) = Len(a) + Len(b)
        /\ \A j \in 1 .. Len(a) + Len(b) :
             (a \o b)[j] = IF j <= Len(a) THEN a[j] ELSE b[j - Len(a)]
    <3>1. a \in Seq(Ports) /\ b \in Seq(Ports)
      BY <1>3, <1>4
    <3>2. QED BY ONLY <3>1, ConcatProperties
  <2>3. Len(a) = i - 1
    BY <1>3
  <2>4. QED BY ONLY <2>1, <2>2, <2>3
<1>6. \A j \in 1 .. n - 1 : (a \o b)[j] = t[j]
  <2> SUFFICES ASSUME NEW j \in 1 .. n - 1 PROVE (a \o b)[j] = t[j]
    OBVIOUS
  <2>1. CASE j < i
    <3>1. j <= i - 1 /\ j \in 1 .. i - 1
      BY <1>1, <2>1
    <3>2. QED BY <1>2, <1>3, <1>5, <2>1, <3>1
  <2>2. CASE ~(j < i)
    <3>1. ~(j <= i - 1) /\ j - (i - 1) \in 1 .. n - i /\ i + (j - (i - 1)) = j + 1
      BY <1>1, <2>2
    <3>2. b[j - (i - 1)] = s[j + 1]
      BY <1>4, <3>1
    <3>3. QED BY <1>2, <1>5, <2>2, <3>1, <3>2
  <2>3. QED BY <2>1, <2>2
<1>7. t \in Seq(Ports) /\ Len(t) = n - 1
  <2>1. n - 1 \in Nat
    BY <1>1
  <2>2. QED BY <1>2, <2>1, ChainIsSeq
<1>8. a \o b = t
  BY <1>5, <1>6, <1>7, SeqEqual
<1>9. QED BY <1>8 DEF a, b, t

(* A step that changes neither the head nor a pointer, and after which as much*)
(* of the pointers is set, changes no order.                                  *)
LEMMA OrderStays ==
  ASSUME NEW n \in Nat, NEW s \in [1 .. n -> Ports], Threaded(n, s),
         master_index' = master_index, \A p \in Ports : eis'[p].next = eis[p].next,
         \A p \in Ports : at'[p] = "set" <=> at[p] = "set"
  PROVE  Order' = Order
<1>1. Threaded(n, s)'
  BY DEF Threaded
<1>2. QED BY <1>1, OrderIs, OrderWillBe

LEMMA StepQueue == IInv /\ [Next]_vars /\ ~raced' => [Queue!Next]_Order
<1> SUFFICES ASSUME Links, Alone, Chain, [Next]_vars, ~raced' PROVE [Queue!Next]_Order
  BY DEF IInv
<1>0. ~raced
  <2>1. CASE UNCHANGED vars
    BY <2>1 DEF vars, list
  <2>2. ASSUME NEW p \in Ports, \/ Start(p) \/ FindEnd(p) \/ Link(p) \/ SetPointers(p) \/ Fill(p)
                                \/ ReadNeighbours(p) \/ Unlink(p)
        PROVE  ~raced
    BY <2>2 DEF list, Start, FindEnd, Link, SetPointers, Fill, ReadNeighbours, Unlink
  <2>3. ASSUME NEW p \in Ports, SetEventFlag(p) \/ NotifyOnCTS(p) \/ InterruptEventLoop(p) \/ Top(p)
        PROVE  ~raced
    BY <2>3 DEF list, SetEventFlag, NotifyOnCTS, InterruptEventLoop, Top
  <2>4. ASSUME NEW p \in Ports, CheckLSR(p) \/ CheckCount(p) \/ CheckLines(p) \/ CheckData(p) \/ Device(p)
        PROVE  ~raced
    BY <2>4 DEF list, CheckLSR, CheckCount, CheckLines, CheckData, Device
  <2>5. QED BY <2>1, <2>2, <2>3, <2>4 DEF Next, EventLoop, Application, Report
<1>n. PICK n \in Nat : \E s \in [1 .. n -> Ports] : Linked(n, s)
  BY <1>0 DEF Chain
<1>s. PICK s \in [1 .. n -> Ports] : Linked(n, s)
  BY <1>n
<1>t. Threaded(n, s)
  BY <1>s, LinkedIsThreaded
<1>o. Order = s /\ Len(Order) = n
  BY <1>t, OrderIs, ChainIsSeq
<1>y. at \in [Ports -> Places]
  BY DEF Links
<1>k. ASSUME master_index' = master_index, \A p \in Ports : eis'[p].next = eis[p].next,
             \A p \in Ports : at'[p] = "set" <=> at[p] = "set"
      PROVE  Order' = Order
  BY <1>k, <1>t, OrderStays
<1>1. CASE UNCHANGED vars
  BY <1>1, <1>k DEF vars, list
<1>2. ASSUME NEW q \in Ports, FindEnd(q) \/ ReadNeighbours(q) PROVE Order' = Order
  BY <1>2, <1>k, <1>y DEF FindEnd, ReadNeighbours, Goto
<1>3. ASSUME NEW q \in Ports, Link(q) PROVE Queue!Next
  <2> DEFINE t == [i \in 1 .. n + 1 |-> IF i <= n THEN s[i] ELSE q]
  <2>1. Linked(n + 1, t)'
    BY <1>0, <1>3, <1>s, ChainGrows
  <2>2. n + 1 \in Nat /\ t \in [1 .. n + 1 -> Ports]
    OBVIOUS
  <2>3. t = Append(s, q)
    BY QueueEnters
  <2> HIDE DEF t
  <2>4. Threaded(n + 1, t)'
    BY <2>1 DEF Linked, Threaded
  <2>5. Order' = Append(Order, q)
    BY <1>o, <2>2, <2>3, <2>4, OrderWillBe
  <2>6. \A i \in 1 .. n : s[i] # q
    <3>1. at[q] = "link"
      BY <1>3 DEF Link
    <3>2. QED BY <1>s, <3>1 DEF Linked, Listed
  <2>7. Queue!Enter(q)
    BY <1>o, <2>5, <2>6 DEF Queue!Enter, Queue!Running
  <2>8. QED BY <2>7 DEF Queue!Next
<1>4. ASSUME NEW q \in Ports, Unlink(q) PROVE Queue!Next
  <2>1. PICK i \in 1 .. n : s[i] = q
    <3>1. at[q] = "unlink"
      BY <1>4 DEF Unlink
    <3>2. QED BY <1>s, <3>1 DEF Linked, Listed
  <2> DEFINE t == [j \in 1 .. n - 1 |-> IF j < i THEN s[j] ELSE s[j + 1]]
  <2>2. Linked(n - 1, t)'
    BY <1>0, <1>4, <1>s, <2>1, ChainShrinks
  <2>3. n - 1 \in Nat /\ t \in [1 .. n - 1 -> Ports]
    OBVIOUS
  <2>4. t = SubSeq(s, 1, i - 1) \o SubSeq(s, i + 1, n)
    BY QueueLeaves
  <2> HIDE DEF t
  <2>5. Threaded(n - 1, t)'
    BY <2>2 DEF Linked, Threaded
  <2>6. Order' = SubSeq(Order, 1, i - 1) \o SubSeq(Order, i + 1, Len(Order))
    BY <1>o, <2>3, <2>4, <2>5, OrderWillBe
  <2>7. Queue!Leave(q)
    BY <1>o, <2>1, <2>6 DEF Queue!Leave
  <2>8. QED BY <2>7 DEF Queue!Next
<1>p. ASSUME NEW q \in Ports, SetPointers(q) PROVE Order' = Order
  <2>1. Threaded(n, s)'
    <3>1. Linked(n, s)'
      BY <1>0, <1>p, <1>s, ChainSets
    <3>2. QED BY <3>1 DEF Linked, Threaded
  <2>2. QED BY <1>o, <2>1, OrderWillBe
<1>5. ASSUME NEW q \in Ports, Fill(q) PROVE Order' = Order
  <2>1. \A p \in Ports : eis'[p].next = eis[p].next
    BY <1>5, Filled
  <2>2. QED BY <1>5, <1>k, <1>y, <2>1 DEF Fill, Goto
<1>6. ASSUME NEW q \in Ports, SetEventFlag(q) \/ InterruptEventLoop(q) PROVE Order' = Order
  <2>1. \E x : \E b \in BOOLEAN : eis' \in {[eis EXCEPT ![x].data = b], [eis EXCEPT ![x].output = b],
                                        [eis EXCEPT ![x].closing = b]}
    BY <1>6 DEF SetEventFlag, InterruptEventLoop
  <2>2. \A p \in Ports : eis'[p].next = eis[p].next
    BY <2>1, FlagSet
  <2>3. QED BY <1>6, <2>2, <1>k DEF SetEventFlag, InterruptEventLoop
<1>7. ASSUME NEW q \in Ports, \/ Start(q) \/ Top(q) \/ CheckLSR(q) \/ CheckCount(q) \/ CheckLines(q)
                              \/ CheckData(q) \/ NotifyOnCTS(q) \/ Device(q)
      PROVE  Order' = Order
  <2>1. UNCHANGED <<master_index, eis>>
    BY <1>7 DEF Start, Top, CheckLSR, CheckCount, CheckLines, CheckData, NotifyOnCTS, Device, list
  <2>2. \A p \in Ports : at'[p] = "set" <=> at[p] = "set"
    BY <1>7, <1>y DEF Start, Top, CheckLSR, CheckCount, CheckLines, CheckData, NotifyOnCTS, Device, Goto
  <2>3. QED BY <1>k, <2>1, <2>2
<1>8. QED
  BY <1>1, <1>2, <1>3, <1>4, <1>p, <1>5, <1>6, <1>7 DEF Next, EventLoop, Application, Report
-----------------------------------------------------------------------------
(* The theorems *)

(* Every variable has its type: among others the walk for the list's end     *)
(* ends at a struct or at none, and no counter reaches Wrap.                 *)
THEOREM TypeCorrect == Spec => []TypeOK
<1>1. IInv => TypeOK
  <2> SUFFICES ASSUME IInv PROVE TypeOK
    OBVIOUS
  <2>1. Links /\ Flags /\ Counters
    BY DEF IInv
  <2>2. {frames, osis, told, base, seen} \subseteq [Ports -> 0 .. Wrap - 1]
    BY <2>1 DEF Counters, Counter
  <2>3. /\ master_index \in Ports \cup {null}
        /\ eis \in [Ports -> [fd : Ports \cup {null}, next : Ports \cup {null},
                              prev : Ports \cup {null},
                              closing : BOOLEAN, output : BOOLEAN, data : BOOLEAN]]
        /\ at \in [Ports -> Places]
        /\ index \in [Ports -> [prev : Ports \cup {null}, next : Ports \cup {null}]]
    BY <2>1 DEF Links, Struct, Neighbours
  <2>4. QED BY <2>1, <2>2, <2>3, Zenon DEF TypeOK, Flags
<1>2. QED BY <1>1, InvHolds, PTL

(* As long as no two loops have changed the list at once, the search for a   *)
(* port's struct (in nativeSetEventFlag and interruptEventLoop) finds that   *)
(* port's and no other, for any number of loops that come and go, and        *)
(* whatever the struct of one that is just entering holds.                   *)
THEOREM LoopIsFound == Spec => []LoopFound
<1>1. IInv => LoopFound
  <2> SUFFICES ASSUME IInv, ~raced, NEW q \in Ports, at[q] \in Polling
               PROVE  Search(q) = q /\ FirstHit(Walk, q) \in Known(Walk)
    BY DEF LoopFound
  <2>1. Links /\ Own /\ Chain
    BY DEF IInv
  <2>2. PICK n \in Nat : \E s \in [1 .. n -> Ports] : Linked(n, s)
    BY <2>1 DEF Chain
  <2>3. PICK s \in [1 .. n -> Ports] : Linked(n, s)
    BY <2>2
  <2>4. QED BY <2>1, <2>3, SearchFinds
<1>2. QED BY <1>1, InvHolds, PTL

(* The listener has been told of every framing error that the loop has       *)
(* counted and of no other, also when the kernel's counter has wrapped       *)
(* around, and of CTS what the loop has last seen.                           *)
THEOREM EventsAreExact == Spec => []EventsExact
<1>1. IInv => EventsExact
  BY DEF IInv, Told, EventsExact
<1>2. QED BY <1>1, InvHolds, PTL

(* The doubly linked list is the sequence that PortMonitor has in its place,  *)
(* for any number of ports, as long as no two loops change it at once.        *)
THEOREM ListIsAQueue == Spec => ListIsQueue
<1>1. IInv /\ [Next]_vars => [~raced' => [Queue!Next]_Order]_vars
  BY StepQueue
<1>2. QED BY <1>1, InvHolds, PTL DEF Spec, ListIsQueue
=============================================================================
