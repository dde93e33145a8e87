-------------------------- MODULE PortRegistryProofs --------------------------
(***************************************************************************)
(* Proofs about PortRegistry for any number of threads, names, candidates   *)
(* and identifiers: the lock file keeps a device to one open port, and a    *)
(* rescan leaves a list that ends and has each name once.                   *)
(***************************************************************************)
EXTENDS PortRegistry, FiniteSetTheorems, TLAPS

-----------------------------------------------------------------------------
(* Induction, and the recursive function Walk *)

LEMMA Least ==
  ASSUME NEW S \in SUBSET Nat, S # {}
  PROVE  \E m \in S : \A k \in S : m <= k
<1> DEFINE R == OpToRel(<, Nat)
<1>1. IsWellFoundedOn(R, Nat)
  BY NatLessThanWellFounded
<1>2. \A x, y \in Nat : x < y => <<x, y>> \in R
  BY DEF OpToRel
<1> HIDE DEF R
<1>3. PICK m \in S : \A k \in S : ~(<<k, m>> \in R)
  BY <1>1, WFMin
<1>4. ASSUME NEW k \in S PROVE m <= k
  <2>1. k \in Nat /\ m \in Nat
    OBVIOUS
  <2>2. ~(k < m)
    BY <1>2, <1>3, <2>1
  <2>3. QED BY <2>1, <2>2
<1>5. QED BY <1>4

LEMMA Greatest ==
  ASSUME NEW N \in Nat, NEW S \in SUBSET (0 .. N), S # {}
  PROVE  \E m \in S : \A k \in S : k <= m
<1> DEFINE T == {N - k : k \in S}
<1>1. T \in SUBSET Nat /\ T # {}
  <2>1. \A k \in S : N - k \in Nat
    OBVIOUS
  <2>2. QED BY <2>1
<1>2. PICK d \in T : \A k \in T : d <= k
  <2> HIDE DEF T
  <2>1. QED BY <1>1, Least
<1>3. PICK m \in S : d = N - m
  OBVIOUS
<1>4. ASSUME NEW k \in S PROVE k <= m
  <2>1. N - k \in T
    OBVIOUS
  <2>2. N - m <= N - k /\ k \in Nat /\ m \in Nat
    BY <1>2, <1>3, <2>1
  <2>3. QED BY <2>2
<1>5. QED BY <1>4

LEMMA Induction ==
  ASSUME NEW S \in SUBSET Nat, 0 \in S, \A n \in S : n + 1 \in S
  PROVE  S = Nat
<1> SUFFICES ASSUME Nat \ S # {} PROVE FALSE
  OBVIOUS
<1>1. PICK m \in Nat \ S : \A k \in Nat \ S : m <= k
  BY Least
<1>2. m # 0 /\ m - 1 \in S
  BY <1>1
<1>3. QED BY <1>1, <1>2

(* g is the walk along next, n steps far. *)
Walks(g, n) == g = [k \in 0 .. n |-> IF k = 0 THEN CommPortIndex
                                     ELSE IF g[k - 1] = null THEN null ELSE next[g[k - 1]]]

LEMMA WalkExists == \A n \in Nat : \E g : Walks(g, n)
<1> DEFINE S == {n \in Nat : \E g : Walks(g, n)}
<1>1. 0 \in S
  <2> DEFINE g == [k \in 0 .. 0 |-> CommPortIndex]
  <2>1. Walks(g, 0)
    BY DEF Walks
  <2>2. QED BY <2>1
<1>2. ASSUME NEW n \in S PROVE n + 1 \in S
  <2>1. PICK g : Walks(g, n)
    OBVIOUS
  <2> DEFINE h == [k \in 0 .. n + 1 |->
                     IF k <= n THEN g[k] ELSE IF g[n] = null THEN null ELSE next[g[n]]]
  <2>2. n \in Nat
    OBVIOUS
  <2>3. \A k \in 0 .. n : g[k] = IF k = 0 THEN CommPortIndex
                                 ELSE IF g[k - 1] = null THEN null ELSE next[g[k - 1]]
    BY <2>1 DEF Walks
  <2>4. /\ \A k \in 0 .. n : h[k] = g[k]
        /\ h[n + 1] = IF g[n] = null THEN null ELSE next[g[n]]
    BY <2>2
  <2>5. h = [k \in 0 .. n + 1 |-> h[k]]
    OBVIOUS
  <2> HIDE DEF h
  <2>6. ASSUME NEW k \in 0 .. n + 1
        PROVE  h[k] = IF k = 0 THEN CommPortIndex
                      ELSE IF h[k - 1] = null THEN null ELSE next[h[k - 1]]
    <3>1. CASE k = 0
      BY <2>2, <2>3, <2>4, <3>1
    <3>2. CASE k \in 1 .. n
      <4>1. k \in 0 .. n /\ k - 1 \in 0 .. n /\ k # 0
        BY <2>2, <3>2
      <4>2. QED BY <2>3, <2>4, <4>1
    <3>3. CASE k = n + 1
      <4>1. k # 0 /\ k - 1 = n /\ n \in 0 .. n
        BY <2>2, <3>3
      <4>2. QED BY <2>4, <3>3, <4>1
    <3>4. QED BY <2>2, <3>1, <3>2, <3>3
  <2>7. Walks(h, n + 1)
    BY <2>5, <2>6, Zenon DEF Walks
  <2>8. QED BY <2>2, <2>7
<1>3. S = Nat
  <2> HIDE DEF S
  <2>1. S \in SUBSET Nat
    BY DEF S
  <2>2. QED BY <1>1, <1>2, <2>1, Induction
<1>4. QED BY <1>3

(* Walk is what its definition says. *)
LEMMA WalkDef ==
  /\ Cardinality(Identifiers) \in Nat
  /\ DOMAIN Walk = 0 .. Cardinality(Identifiers)
  /\ Walk[0] = CommPortIndex
  /\ \A k \in 1 .. Cardinality(Identifiers) :
       Walk[k] = IF Walk[k - 1] = null THEN null ELSE next[Walk[k - 1]]
<1>1. Cardinality(Identifiers) \in Nat
  BY FS_CardinalityType, IdentifiersAreFinite
<1>2. PICK g : Walks(g, Cardinality(Identifiers))
  BY <1>1, WalkExists
<1>3. Walks(Walk, Cardinality(Identifiers))
  BY <1>2, Zenon DEF Walk, Walks
<1>4. QED BY <1>1, <1>3 DEF Walks

(* Past the end it stays past the end. *)
LEMMA WalkEnds ==
  ASSUME NEW i \in DOMAIN Walk, Walk[i] = null, NEW j \in DOMAIN Walk, i <= j
  PROVE  Walk[j] = null
<1> DEFINE S == {k \in Nat : i + k \in DOMAIN Walk => Walk[i + k] = null}
<1>0. i \in Nat /\ j \in Nat
  BY WalkDef
<1>1. 0 \in S
  BY <1>0
<1>2. ASSUME NEW k \in S PROVE k + 1 \in S
  <2> SUFFICES ASSUME i + (k + 1) \in DOMAIN Walk PROVE Walk[i + (k + 1)] = null
    OBVIOUS
  <2>1. /\ i + k \in DOMAIN Walk /\ i + (k + 1) \in 1 .. Cardinality(Identifiers)
        /\ (i + (k + 1)) - 1 = i + k
    BY <1>0, WalkDef
  <2>2. Walk[i + k] = null
    BY <2>1
  <2>3. Walk[i + (k + 1)] = IF Walk[(i + (k + 1)) - 1] = null THEN null
                            ELSE next[Walk[(i + (k + 1)) - 1]]
    BY <2>1, WalkDef
  <2>4. QED BY <2>1, <2>2, <2>3
<1>3. S = Nat
  <2> HIDE DEF S
  <2>1. S \in SUBSET Nat
    BY DEF S
  <2>2. QED BY <1>1, <1>2, <2>1, Induction
<1>4. j - i \in Nat /\ i + (j - i) = j
  BY <1>0
<1>5. QED BY <1>3, <1>4

(* From a pointer that it meets twice it goes on in the same way. *)
LEMMA WalkRepeats ==
  ASSUME NEW i \in DOMAIN Walk, NEW j \in DOMAIN Walk, Walk[i] = Walk[j], i <= j
  PROVE  \A k \in Nat : j + k \in DOMAIN Walk => Walk[i + k] = Walk[j + k]
<1> DEFINE S == {k \in Nat : j + k \in DOMAIN Walk => Walk[i + k] = Walk[j + k]}
<1>0. i \in Nat /\ j \in Nat
  BY WalkDef
<1>1. 0 \in S
  BY <1>0
<1>2. ASSUME NEW k \in S PROVE k + 1 \in S
  <2> SUFFICES ASSUME j + (k + 1) \in DOMAIN Walk PROVE Walk[i + (k + 1)] = Walk[j + (k + 1)]
    OBVIOUS
  <2>1. /\ j + k \in DOMAIN Walk /\ j + (k + 1) \in 1 .. Cardinality(Identifiers)
        /\ (j + (k + 1)) - 1 = j + k /\ (i + (k + 1)) - 1 = i + k
        /\ i + (k + 1) \in 1 .. Cardinality(Identifiers)
    <3> DEFINE N == Cardinality(Identifiers)
    <3>1. N \in Nat /\ DOMAIN Walk = 0 .. N
      BY WalkDef
    <3> HIDE DEF N
    <3>2. k \in Nat /\ j + (k + 1) <= N
      BY <3>1
    <3>3. QED BY <1>0, <3>1, <3>2 DEF N
  <2>2. Walk[i + k] = Walk[j + k]
    BY <2>1
  <2>3. /\ Walk[j + (k + 1)] = IF Walk[(j + (k + 1)) - 1] = null THEN null
                               ELSE next[Walk[(j + (k + 1)) - 1]]
        /\ Walk[i + (k + 1)] = IF Walk[(i + (k + 1)) - 1] = null THEN null
                               ELSE next[Walk[(i + (k + 1)) - 1]]
    BY <2>1, WalkDef
  <2>4. QED BY <2>1, <2>2, <2>3
<1>3. S = Nat
  <2> HIDE DEF S
  <2>1. S \in SUBSET Nat
    BY DEF S
  <2>2. QED BY <1>1, <1>2, <2>1, Induction
<1>4. QED BY <1>3

Pointers == /\ CommPortIndex \in Identifiers \cup {null}
            /\ next \in [Identifiers -> Identifiers \cup {null}]

(* It stays among the identifiers. *)
LEMMA WalkType ==
  ASSUME Pointers
  PROVE  \A k \in DOMAIN Walk : Walk[k] \in Identifiers \cup {null}
<1> DEFINE S == {k \in Nat : k \in DOMAIN Walk => Walk[k] \in Identifiers \cup {null}}
<1>1. 0 \in S
  BY WalkDef DEF Pointers
<1>2. ASSUME NEW k \in S PROVE k + 1 \in S
  <2> SUFFICES ASSUME k + 1 \in DOMAIN Walk PROVE Walk[k + 1] \in Identifiers \cup {null}
    OBVIOUS
  <2>1. k \in DOMAIN Walk /\ k + 1 \in 1 .. Cardinality(Identifiers) /\ (k + 1) - 1 = k
    BY WalkDef
  <2>2. Walk[k + 1] = IF Walk[k] = null THEN null ELSE next[Walk[k]]
    BY <2>1, WalkDef
  <2>3. Walk[k] \in Identifiers \cup {null}
    BY <2>1
  <2>4. QED BY <2>2, <2>3 DEF Pointers
<1>3. S = Nat
  <2> HIDE DEF S
  <2>1. S \in SUBSET Nat
    BY DEF S
  <2>2. QED BY <1>1, <1>2, <2>1, Induction
<1>4. QED BY <1>3, WalkDef

(* Whatever the pointers are, an identifier that a walk reaches leads to one *)
(* that it reaches.                                                          *)
LEMMA RegisteredClosed ==
  ASSUME Pointers
  PROVE  /\ Registered \subseteq Identifiers
         /\ \A o \in Registered : next[o] \in Registered \cup {null}
<1> DEFINE N == Cardinality(Identifiers)
<1>1. /\ N \in Nat /\ DOMAIN Walk = 0 .. N
      /\ \A k \in 1 .. N : Walk[k] = IF Walk[k - 1] = null THEN null ELSE next[Walk[k - 1]]
      /\ \A k \in 0 .. N : Walk[k] \in Identifiers \cup {null}
  BY WalkDef, WalkType
<1>2. Registered \subseteq Identifiers
  BY <1>1 DEF Registered
<1>3. ASSUME NEW i \in 0 .. N, i < N, Walk[i] # null
      PROVE  next[Walk[i]] \in Registered \cup {null}
  <2> HIDE DEF N
  <2>1. i + 1 \in 1 .. N /\ (i + 1) - 1 = i /\ i + 1 \in DOMAIN Walk
    BY <1>1, <1>3
  <2>2. Walk[i + 1] = next[Walk[i]]
    BY <1>1, <1>3, <2>1
  <2>3. QED BY <2>1, <2>2 DEF Registered
<1>4. ASSUME Walk[N] # null PROVE next[Walk[N]] \in Registered \cup {null}
  <2>1. \A k \in 0 .. N : Walk[k] # null
    <3> SUFFICES ASSUME NEW k \in 0 .. N, Walk[k] = null PROVE FALSE
      OBVIOUS
    <3>1. k \in DOMAIN Walk /\ N \in DOMAIN Walk /\ k <= N
      <4> HIDE DEF N
      <4>1. QED BY <1>1
    <3>2. QED BY <1>4, <3>1, WalkEnds
  <2>2. \E i, j \in 0 .. N : i # j /\ Walk[i] = Walk[j]
    <3> SUFFICES ASSUME \A i, j \in 0 .. N : Walk[i] = Walk[j] => i = j PROVE FALSE
      OBVIOUS
    <3> DEFINE f == [k \in 0 .. N |-> Walk[k]]
    <3>1. f \in Injection(0 .. N, Identifiers)
      BY <1>1, <2>1 DEF Injection, IsInjective
    <3> HIDE DEF f
    <3>2. Cardinality(0 .. N) <= N
      BY <3>1, FS_Injection, IdentifiersAreFinite
    <3>3. Cardinality(0 .. N) = N + 1
      <4> HIDE DEF N
      <4>1. Cardinality(0 .. N) = IF 0 > N THEN 0 ELSE N - 0 + 1
        BY <1>1, FS_Interval
      <4>2. QED BY <1>1, <4>1
    <3> HIDE DEF N
    <3>4. QED BY <1>1, <3>2, <3>3
  <2>3. PICK i \in 0 .. N, j \in 0 .. N : i < j /\ Walk[i] = Walk[j]
    <3>1. PICK i \in 0 .. N, j \in 0 .. N : i # j /\ Walk[i] = Walk[j]
      BY <2>2
    <3>2. CASE i < j
      BY <3>1, <3>2
    <3>3. CASE j < i
      BY <3>1, <3>3
    <3>4. i < j \/ j < i
      <4> HIDE DEF N
      <4>1. QED BY <1>1, <3>1
    <3>5. QED BY <3>2, <3>3, <3>4
  <2> HIDE DEF N
  <2> DEFINE k == N - j
             m == i + k
  <2>4. k \in Nat /\ j + k = N /\ j + k \in DOMAIN Walk /\ m \in 0 .. N /\ m < N /\ i <= j
    BY <1>1, <2>3
  <2>5. Walk[m] = Walk[N]
    <3>1. i \in DOMAIN Walk /\ j \in DOMAIN Walk
      BY <1>1
    <3> HIDE DEF k
    <3>2. Walk[i + k] = Walk[j + k]
      BY <2>3, <2>4, <3>1, WalkRepeats
    <3>3. QED BY <2>4, <3>2
  <2> HIDE DEF m
  <2>6. QED BY <1>3, <1>4, <2>4, <2>5
<1>5. ASSUME NEW o \in Registered PROVE next[o] \in Registered \cup {null}
  <2>1. PICK i \in 0 .. N : Walk[i] = o /\ o # null
    BY <1>1 DEF Registered
  <2> HIDE DEF N
  <2>2. i < N \/ i = N
    BY <1>1
  <2>3. QED BY <1>3, <1>4, <2>1, <2>2
<1>6. QED BY <1>2, <1>5

(* A search by name finds an identifier of that name. *)
LEMMA ByNameFinds ==
  ASSUME NEW n
  PROVE  IF \E o \in Registered : PortName[o] = n
         THEN ByName(n) \in Registered /\ PortName[ByName(n)] = n
         ELSE ByName(n) = null
<1>1. CASE ~ \E o \in Registered : PortName[o] = n
  BY <1>1, Zenon DEF ByName, Found
<1>2. CASE \E o \in Registered : PortName[o] = n
  <2> DEFINE First(o) == \E i \in DOMAIN Walk : /\ Walk[i] = o
                                                /\ PortName[o] = n
                                                /\ \A j \in 0 .. i - 1 : ~(PortName[Walk[j]] = n)
             hits == {i \in DOMAIN Walk : Walk[i] # null /\ PortName[Walk[i]] = n}
  <2>1. hits # {} /\ hits \in SUBSET Nat
    BY <1>2, WalkDef DEF Registered
  <2>2. PICK i \in hits : \A j \in hits : i <= j
    <3> HIDE DEF hits
    <3>1. QED BY <2>1, Least
  <2>3. ASSUME NEW j \in 0 .. i - 1 PROVE ~(PortName[Walk[j]] = n)
    <3>1. j \in DOMAIN Walk /\ j < i /\ j <= i /\ i \in DOMAIN Walk /\ ~(i <= j)
      BY WalkDef
    <3>2. Walk[j] # null
      BY <3>1, WalkEnds
    <3>3. QED BY <2>2, <3>1, <3>2
  <2>4. Walk[i] \in Registered /\ First(Walk[i])
    BY <2>3 DEF Registered
  <2>5. ByName(n) = CHOOSE o \in Registered : First(o)
    BY <1>2, Zenon DEF ByName, Found, IsFirst
  <2>6. ByName(n) \in Registered /\ First(ByName(n))
    <3> HIDE DEF First
    <3>1. QED BY <2>4, <2>5
  <2>7. QED BY <1>2, <2>6
<1>3. QED BY <1>1, <1>2

(* The identifier that BeginRescan remembers of a name. *)
LatestOf(n) == CHOOSE o \in Registered : \E i \in DOMAIN Walk :
                 /\ Walk[i] = o /\ PortName[o] = n
                 /\ \A j \in DOMAIN Walk : j > i /\ Walk[j] # null => PortName[Walk[j]] # n

LEMMA LatestFinds ==
  ASSUME NEW n, \E o \in Registered : PortName[o] = n
  PROVE  LatestOf(n) \in Registered /\ PortName[LatestOf(n)] = n
<1> DEFINE hits == {i \in DOMAIN Walk : Walk[i] # null /\ PortName[Walk[i]] = n}
           Last(o) == \E i \in DOMAIN Walk :
                 /\ Walk[i] = o /\ PortName[o] = n
                 /\ \A j \in DOMAIN Walk : j > i /\ Walk[j] # null => PortName[Walk[j]] # n
<1>1. hits # {} /\ hits \in SUBSET (0 .. Cardinality(Identifiers))
  BY WalkDef DEF Registered
<1>2. PICK i \in hits : \A j \in hits : j <= i
  <2> HIDE DEF hits
  <2>1. QED BY <1>1, WalkDef, Greatest
<1>3. \A j \in DOMAIN Walk : j > i /\ Walk[j] # null => PortName[Walk[j]] # n
  BY <1>2, WalkDef
<1>4. Walk[i] \in Registered /\ Last(Walk[i])
  BY <1>3 DEF Registered
<1>5. LatestOf(n) \in Registered /\ Last(LatestOf(n))
  <2>1. LatestOf(n) = CHOOSE o \in Registered : Last(o)
    BY DEF LatestOf
  <2> HIDE DEF Last
  <2>2. QED BY <1>4, <2>1
<1>6. QED BY <1>5
-----------------------------------------------------------------------------
(* Types *)

Maybe == Identifiers \cup {null}

(* An identifier that a reference leads to has been constructed.             *)
Named == {o \in Identifiers : PortName[o] \in Names} \cup {null}

References ==
  /\ Pointers
  /\ PortName \in [Identifiers -> Names \cup {null}]
  /\ oldPorts \in [Names -> Maybe] /\ curPort \in Maybe /\ prevPort \in Maybe
  /\ ident \in [Threads -> Maybe]
  /\ CommPortIndex \in Named /\ curPort \in Named
  /\ \A o \in Named \ {null} : next[o] \in Named
  /\ \A n \in Names : oldPorts[n] \in Named
  /\ \A t \in Threads : ident[t] \in Named

Owned == Available \in [Identifiers -> BOOLEAN] /\ commport \in [Identifiers -> BOOLEAN]

Control ==
  /\ Sync \in Threads \cup {null}
  /\ lockfile \in [Names -> Identifiers \cup Threads \cup {null}]
  /\ present \in SUBSET Names
  /\ pc \in [Threads -> Places]
  /\ sought \in [Threads -> Names \cup {null}]
  /\ at \in [Threads -> 1 .. Len(Candidates) + 1]
  /\ \A t \in Threads : pc[t] \in {"probe", "add"} => at[t] <= Len(Candidates)

(* A rescan holds Sync from its beginning to its end, and is alone then.     *)
Rescanning == {"rescan", "restore", "rescanned"}

Turns == /\ \A t \in Threads : pc[t] \in Rescanning => Sync = t
         /\ \A t \in Threads : Sync = t => pc[t] \in Rescanning \cup {"test", "probe", "add"}
         /\ (\A t \in Threads : pc[t] # "restore") => curPort = null

Types == References /\ Owned /\ Control /\ Turns

LEMMA CandidateNames == /\ Len(Candidates) \in Nat
                        /\ \A i \in 1 .. Len(Candidates) : Candidates[i] \in Names
BY CandidatesAreNames

LEMMA SomeName ==
  ASSUME Types, NEW t \in Threads, pc[t] \in {"probe", "add"}
  PROVE  Candidates[at[t]] \in Names /\ at[t] \in 1 .. Len(Candidates)
<1>1. at[t] \in 1 .. Len(Candidates)
  BY CandidateNames DEF Types, Control
<1>2. QED BY <1>1, CandidateNames

LEMMA OwnName ==
  ASSUME Types, NEW t \in Threads, ident[t] # null
  PROVE  ident[t] \in Identifiers /\ PortName[ident[t]] \in Names
BY DEF Types, References, Named

LEMMA InitTypes == Init => Types
<1> SUFFICES ASSUME Init PROVE Types
  OBVIOUS
<1>1. References
  BY NullIsNew DEF Init, References, Pointers, Maybe, Named
<1>2. Owned
  BY DEF Init, Owned
<1>3. Control
  BY CandidateNames DEF Init, Control, Places
<1>4. Turns
  BY NullIsNew DEF Init, Turns, Rescanning
<1>5. QED BY <1>1, <1>2, <1>3, <1>4 DEF Types

(* What an identifier's constructor and AddIdentifierToList do.              *)
LEMMA Added ==
  ASSUME Pointers, PortName \in [Identifiers -> Names \cup {null}], NEW n \in Names, AddPortName(n)
  PROVE  \E new \in Identifiers :
           /\ new \notin Registered
           /\ \A t \in Threads : ident[t] # new
           /\ \A m \in Names : oldPorts[m] # new
           /\ PortName' = [PortName EXCEPT ![new] = n]
           /\ Available' = [Available EXCEPT ![new] = TRUE]
           /\ commport' = [commport EXCEPT ![new] = FALSE]
           /\ next' \in [Identifiers -> Identifiers \cup {null}]
           /\ next'[new] = null
           /\ \/ /\ CommPortIndex = null /\ CommPortIndex' = new
                 /\ \A o \in Identifiers \ {new} : next'[o] = next[o]
              \/ /\ CommPortIndex # null /\ CommPortIndex' = CommPortIndex
                 /\ \E last \in Registered :
                      /\ next[last] = null /\ next'[last] = new
                      /\ \A o \in Identifiers \ {new, last} : next'[o] = next[o]
<1>1. PICK new \in Identifiers \ (Registered \cup {ident[t] : t \in Threads}
                                              \cup {oldPorts[m] : m \in Names}) :
        /\ PortName' = Set(PortName, new, n)
        /\ Available' = Set(Available, new, TRUE)
        /\ commport' = Set(commport, new, FALSE)
        /\ \/ /\ CommPortIndex = null
              /\ CommPortIndex' = new
              /\ next' = Set(next, new, null)
           \/ /\ CommPortIndex # null
              /\ \E o \in Registered : /\ next[o] = null
                                       /\ next' = Set(Set(next, new, null), o, new)
              /\ UNCHANGED CommPortIndex
  BY DEF AddPortName
<1>2. Registered \subseteq Identifiers
  BY RegisteredClosed
<1>3. CASE CommPortIndex = null
  <2>1. CommPortIndex' = new /\ next' = [next EXCEPT ![new] = null]
    BY <1>1, <1>3 DEF Set
  <2>2. /\ next' \in [Identifiers -> Identifiers \cup {null}] /\ next'[new] = null
        /\ \A o \in Identifiers \ {new} : next'[o] = next[o]
    BY <2>1 DEF Pointers
  <2>3. QED BY <1>1, <1>3, <2>1, <2>2 DEF Set
<1>4. CASE CommPortIndex # null
  <2>1. PICK last \in Registered : next[last] = null /\ next' = Set(Set(next, new, null), last, new)
    BY <1>1, <1>4
  <2>2. last # new /\ last \in Identifiers
    BY <1>1, <1>2
  <2>3. /\ next' \in [Identifiers -> Identifiers \cup {null}] /\ next'[new] = null
        /\ next'[last] = new /\ \A o \in Identifiers \ {new, last} : next'[o] = next[o]
    BY <2>1, <2>2 DEF Set, Pointers
  <2>4. QED BY <1>1, <1>4, <2>1, <2>3, ZenonT(40) DEF Set
<1>5. QED BY <1>3, <1>4

(* One turn of the restoration.                                              *)
LEMMA Restored ==
  ASSUME Types, NEW t \in Threads, Restore(t)
  PROVE  /\ curPort \in Identifiers /\ PortName[curPort] \in Names
         /\ next' \in [Identifiers -> Identifiers \cup {null}]
         /\ curPort' = next'[curPort]
         /\ LET old == oldPorts[PortName[curPort]] IN
              IF old = null
              THEN prevPort' = curPort /\ UNCHANGED <<CommPortIndex, next>>
              ELSE /\ old \in Identifiers
                   /\ prevPort' = old
                   /\ CommPortIndex' = IF prevPort = null THEN old ELSE CommPortIndex
                   /\ \A o \in Identifiers :
                        next'[o] = IF o = prevPort THEN old
                                   ELSE IF o = old THEN next[curPort] ELSE next[o]
<1>1. curPort \in Identifiers /\ PortName[curPort] \in Names
  BY DEF Types, References, Named, Restore
<1>2. oldPorts[PortName[curPort]] \in Maybe /\ prevPort \in Maybe
  BY <1>1 DEF Types, References
<1> DEFINE old == oldPorts[PortName[curPort]]
<1>3. CASE old = null
  BY <1>1, <1>3 DEF Restore, Types, References, Pointers
<1>4. CASE old # null
  <2>1. old \in Identifiers
    BY <1>2, <1>4 DEF Maybe
  <2>2. next[curPort] \in Identifiers \cup {null} /\ next \in [Identifiers -> Identifiers \cup {null}]
    BY <1>1 DEF Types, References, Pointers
  <2>3. /\ prevPort' = old /\ curPort' = next'[curPort]
        /\ \/ /\ prevPort = null /\ CommPortIndex' = old
              /\ next' = [next EXCEPT ![old] = next[curPort]]
           \/ /\ prevPort # null /\ CommPortIndex' = CommPortIndex
              /\ next' = [[next EXCEPT ![old] = next[curPort]] EXCEPT ![prevPort] = old]
    BY <1>4 DEF Restore, Set
  <2> HIDE DEF old
  <2>4. CASE prevPort = null
    BY <2>1, <2>2, <2>3, <2>4, NullIsNew, <1>1, <1>4 DEF old
  <2>5. CASE prevPort # null
    <3>1. prevPort \in Identifiers
      BY <1>2, <2>5 DEF Maybe
    <3> DEFINE f == [next EXCEPT ![old] = next[curPort]]
    <3>2. /\ f \in [Identifiers -> Identifiers \cup {null}]
          /\ \A o \in Identifiers : f[o] = IF o = old THEN next[curPort] ELSE next[o]
      BY <2>1, <2>2
    <3>3. next' = [f EXCEPT ![prevPort] = old]
      BY <2>3, <2>5
    <3> HIDE DEF f
    <3>4. /\ next' \in [Identifiers -> Identifiers \cup {null}]
          /\ \A o \in Identifiers : next'[o] = IF o = prevPort THEN old ELSE f[o]
      BY <2>1, <3>1, <3>2, <3>3
    <3>5. QED BY <1>1, <1>4, <2>1, <2>3, <2>5, <3>2, <3>4 DEF old
  <2>6. QED BY <2>4, <2>5
<1>5. QED BY <1>3, <1>4

LEMMA StepReferences == Types /\ [Next]_vars => References'
<1> SUFFICES ASSUME Types, [Next]_vars PROVE References'
  OBVIOUS
<1>y. References
  BY DEF Types
<1>r. ASSUME UNCHANGED <<listVars, oldPorts>>, curPort' \in {curPort, CommPortIndex, null},
             prevPort' \in {prevPort, null},
             ident' \in [Threads -> Maybe],
             \A t \in Threads : ident'[t] \in Named
      PROVE  References'
  BY <1>r, <1>y DEF References, Pointers, Named, Maybe, listVars
<1>1. CASE UNCHANGED vars
  BY <1>1, <1>y DEF vars, listVars, scanVars, locVars, References, Pointers, Named, Maybe
<1>2. ASSUME NEW t \in Threads, NEW n \in Wanted, LookUp(t, n) PROVE References'
  <2>1. CASE ByName(n) # null
    <3>1. ByName(n) \in Registered /\ PortName[ByName(n)] = n
      BY <2>1, ByNameFinds
    <3>2. ByName(n) \in Named
      BY <1>y, <3>1, WantedNames, RegisteredClosed DEF Named, References
    <3>3. ident' = [ident EXCEPT ![t] = ByName(n)]
      BY <1>2, <2>1 DEF LookUp, Set
    <3>4. ident' \in [Threads -> Maybe] /\ \A u \in Threads : ident'[u] \in Named
      BY <1>y, <3>2, <3>3 DEF References, Named, Maybe
    <3>5. QED BY <1>2, <1>r, <3>4 DEF LookUp, scanVars
  <2>2. CASE ByName(n) = null
    BY <1>2, <1>r, <1>y, <2>2 DEF LookUp, scanVars, References
  <2>3. QED BY <2>1, <2>2
<1>3. ASSUME NEW t \in Threads,
             \/ Enumerate(t) \/ DriverScan(t) \/ DriverRescan(t) \/ TestRead(t) \/ Probe(t)
             \/ BeginRestore(t) \/ EndRestore(t) \/ Open(t) \/ Lock(t) \/ Configure(t)
             \/ Unreserve(t) \/ Close(t) \/ FindSelf(t) \/ Release(t)
      PROVE  References'
  <2>1. /\ UNCHANGED <<listVars, oldPorts, ident>>
        /\ curPort' \in {curPort, CommPortIndex, null} /\ prevPort' \in {prevPort, null}
    BY <1>3 DEF Enumerate, DriverScan, DriverRescan, TestRead, Probe, BeginRestore, EndRestore,
                Open, Lock, Configure, Unreserve, Close, FindSelf, Release, scanVars, locVars, listVars
  <2>2. QED BY <1>r, <1>y, <2>1 DEF References
<1>4. ASSUME NEW t \in Threads, BeginRescan(t) PROVE References'
  <2>1. /\ UNCHANGED <<next, PortName, curPort, prevPort, ident>> /\ CommPortIndex' = null
        /\ oldPorts' = [n \in Names |-> IF ByName(n) = null THEN null ELSE LatestOf(n)]
    BY <1>4, Zenon DEF BeginRescan, locVars, LatestOf
  <2>2. ASSUME NEW n \in Names PROVE oldPorts'[n] \in Named
    <3>1. CASE ByName(n) = null
      BY <2>1, <3>1 DEF Named
    <3>2. CASE ByName(n) # null
      <4>1. \E o \in Registered : PortName[o] = n
        BY <3>2, ByNameFinds
      <4>2. LatestOf(n) \in Registered /\ PortName[LatestOf(n)] = n
        BY <4>1, LatestFinds
      <4>3. oldPorts'[n] = LatestOf(n)
        BY <2>1, <3>2
      <4>4. QED BY <1>y, <4>2, <4>3, RegisteredClosed DEF Named, References
    <3>3. QED BY <3>1, <3>2
  <2>3. oldPorts' \in [Names -> Maybe]
    BY <2>1, <2>2 DEF Named, Maybe
  <2>4. QED BY <1>y, <2>1, <2>2, <2>3 DEF References, Pointers, Named, Maybe
<1>5. ASSUME NEW t \in Threads, Add(t) PROVE References'
  <2> DEFINE n == Candidates[at[t]]
  <2>1. n \in Names /\ AddPortName(n) /\ UNCHANGED <<scanVars, ident>>
    BY <1>5, SomeName DEF Add
  <2> HIDE DEF n
  <2>2. PICK new \in Identifiers :
           /\ new \notin Registered
           /\ PortName' = [PortName EXCEPT ![new] = n]
           /\ next' \in [Identifiers -> Identifiers \cup {null}]
           /\ next'[new] = null
           /\ \/ /\ CommPortIndex = null /\ CommPortIndex' = new
                 /\ \A o \in Identifiers \ {new} : next'[o] = next[o]
              \/ /\ CommPortIndex # null /\ CommPortIndex' = CommPortIndex
                 /\ \E last \in Registered :
                      /\ next[last] = null /\ next'[last] = new
                      /\ \A o \in Identifiers \ {new, last} : next'[o] = next[o]
    BY <1>y, <2>1, Added DEF References
  <2>3. Named \cup {new} = Named'
    BY <1>y, <2>1, <2>2 DEF Named, References
  <2>4. PortName' \in [Identifiers -> Names \cup {null}]
    BY <1>y, <2>1, <2>2 DEF References
  <2>5. \A o \in Named' \ {null} : next'[o] \in Named'
    <3>1. \A o \in Identifiers : next'[o] \in {next[o], new, null}
      BY <2>2
    <3>2. null \in Named
      BY DEF Named
    <3>3. ASSUME NEW o \in Named' \ {null} PROVE next'[o] \in Named'
      <4>1. CASE o = new
        BY <2>2, <2>3, <3>2, <4>1
      <4>2. CASE o # new
        <5>1. o \in Named \ {null} /\ o \in Identifiers
          BY <2>3, <4>2 DEF Named
        <5>2. next[o] \in Named
          BY <1>y, <5>1 DEF References
        <5>3. QED BY <2>3, <3>1, <3>2, <5>1, <5>2
      <4>3. QED BY <4>1, <4>2
    <3>4. QED BY <3>3
  <2>6. CommPortIndex' \in Named' /\ CommPortIndex' \in Maybe
    BY <1>y, <2>2, <2>3 DEF References, Pointers, Maybe
  <2>7. QED
    BY <1>y, <2>1, <2>2, <2>3, <2>4, <2>5, <2>6 DEF References, Pointers, Maybe, scanVars
<1>6. ASSUME NEW t \in Threads, Restore(t) PROVE References'
  <2> DEFINE old == oldPorts[PortName[curPort]]
  <2>1. /\ curPort \in Identifiers /\ PortName[curPort] \in Names
        /\ next' \in [Identifiers -> Identifiers \cup {null}]
        /\ curPort' = next'[curPort]
        /\ IF old = null
           THEN prevPort' = curPort /\ UNCHANGED <<CommPortIndex, next>>
           ELSE /\ old \in Identifiers
                /\ prevPort' = old
                /\ CommPortIndex' = IF prevPort = null THEN old ELSE CommPortIndex
                /\ \A o \in Identifiers :
                     next'[o] = IF o = prevPort THEN old
                                ELSE IF o = old THEN next[curPort] ELSE next[o]
    BY <1>6, Restored
  <2>2. old \in Named /\ curPort \in Named \ {null}
    BY <1>y, <2>1, NullIsNew DEF References
  <2> HIDE DEF old
  <2>3. UNCHANGED <<PortName, oldPorts, ident>>
    BY <1>6 DEF Restore, locVars
  <2>4. Named' = Named
    BY <2>3 DEF Named
  <2>5. \A o \in Named \ {null} : next'[o] \in Named
    <3>1. \A o \in Named \ {null} : o \in Identifiers /\ next[o] \in Named
      BY <1>y DEF References, Named
    <3>2. QED BY <2>1, <2>2, <3>1
  <2>6. curPort' \in Named /\ CommPortIndex' \in Named /\ CommPortIndex' \in Maybe /\ prevPort' \in Maybe
    BY <1>y, <2>1, <2>2, <2>5 DEF References, Pointers, Maybe
  <2>7. Named \subseteq Maybe
    BY DEF Named, Maybe
  <2>8. QED BY <1>y, <2>1, <2>3, <2>4, <2>5, <2>6, <2>7 DEF References, Pointers, Maybe
<1>7. ASSUME NEW t \in Threads, EndRescan(t) PROVE References'
  <2>1. curPort = null
    <3>1. pc[t] = "rescanned" /\ Sync = t
      BY <1>7 DEF EndRescan, Types, Turns, Rescanning
    <3>2. \A u \in Threads : pc[u] # "restore"
      BY <3>1 DEF Types, Turns, Rescanning
    <3>3. QED BY <3>2 DEF Types, Turns
  <2>2. /\ ident' = IF sought[t] # null /\ ByName(sought[t]) # null
                      THEN [ident EXCEPT ![t] = ByName(sought[t])] ELSE ident
        /\ oldPorts' = [n \in Names |-> null] /\ prevPort' = null
        /\ UNCHANGED <<CommPortIndex, curPort>>
    BY <1>7 DEF EndRescan, Set
  <2>3. sought[t] \in Names \cup {null}
    BY DEF Types, Control
  <2>4. ident' \in [Threads -> Maybe] /\ \A u \in Threads : ident'[u] \in Named
    <3>1. CASE sought[t] # null /\ ByName(sought[t]) # null
      <4>1. ByName(sought[t]) \in Registered /\ PortName[ByName(sought[t])] \in Names
        BY <2>3, <3>1, ByNameFinds
      <4>2. ByName(sought[t]) \in Named
        BY <1>y, <4>1, RegisteredClosed DEF Named, References
      <4>3. QED BY <1>y, <2>2, <3>1, <4>2 DEF References, Named, Maybe
    <3>2. CASE ~(sought[t] # null /\ ByName(sought[t]) # null)
      BY <1>y, <2>2, <3>2 DEF References
    <3>3. QED BY <3>1, <3>2
  <2> DEFINE Kept == Registered \cup {ident'[u] : u \in Threads}
  <2>5. /\ next' = [o \in Identifiers |-> IF o \in Registered THEN next[o] ELSE null]
        /\ PortName' = [o \in Identifiers |-> IF o \in Kept THEN PortName[o] ELSE null]
    BY <1>7, Zenon DEF EndRescan
  <2>6. \A o \in Kept : o \in Named => o \in Named'
    BY <2>5 DEF Named
  <2> HIDE DEF Kept
  <2>7. /\ next' \in [Identifiers -> Identifiers \cup {null}]
        /\ PortName' \in [Identifiers -> Names \cup {null}]
    BY <1>y, <2>5 DEF References, Pointers
  <2>8. \A u \in Threads : ident'[u] \in Named'
    BY <2>4, <2>6 DEF Kept
  <2>9. null \in Named'
    BY DEF Named
  <2>10. \A o \in Registered : o \in Named /\ o \in Named'
    <3>1. Walk[0] \in Named /\ \A k \in DOMAIN Walk : Walk[k] \in Named
      <4> DEFINE S == {k \in Nat : k \in DOMAIN Walk => Walk[k] \in Named}
      <4>1. 0 \in S
        BY <1>y, WalkDef DEF References
      <4>2. ASSUME NEW k \in S PROVE k + 1 \in S
        <5> SUFFICES ASSUME k + 1 \in DOMAIN Walk PROVE Walk[k + 1] \in Named
          OBVIOUS
        <5>1. k \in DOMAIN Walk /\ k + 1 \in 1 .. Cardinality(Identifiers) /\ (k + 1) - 1 = k
          BY WalkDef
        <5>2. Walk[k + 1] = IF Walk[k] = null THEN null ELSE next[Walk[k]]
          BY <5>1, WalkDef
        <5>3. Walk[k] \in Named
          BY <5>1
        <5>4. null \in Named
          BY DEF Named
        <5>5. QED BY <1>y, <5>2, <5>3, <5>4 DEF References
      <4>3. S = Nat
        <5> HIDE DEF S
        <5>1. S \in SUBSET Nat
          BY DEF S
        <5>2. QED BY <4>1, <4>2, <5>1, Induction
      <4>4. QED BY <4>3, WalkDef
    <3>2. QED BY <2>6, <3>1 DEF Registered, Kept
  <2>11. CommPortIndex' \in Named'
    <3>1. CommPortIndex # null => CommPortIndex \in Registered
      BY WalkDef DEF Registered
    <3>2. QED BY <2>2, <2>9, <2>10, <3>1
  <2>12. ASSUME NEW o \in Named' \ {null} PROVE next'[o] \in Named'
    <3>1. o \in Identifiers
      BY DEF Named
    <3>2. CASE o \in Registered
      <4>1. next'[o] \in Registered \cup {null}
        BY <1>y, <2>5, <3>1, <3>2, RegisteredClosed DEF References
      <4>2. QED BY <2>9, <2>10, <4>1
    <3>3. CASE o \notin Registered
      BY <2>5, <2>9, <3>1, <3>3
    <3>4. QED BY <3>2, <3>3
  <2>13. QED
    BY <1>y, <2>1, <2>2, <2>4, <2>7, <2>8, <2>9, <2>11, <2>12 DEF References, Pointers, Maybe
<1>8. ASSUME NEW n \in Pluggable, Plug(n) PROVE References'
  BY <1>8, <1>r, <1>y DEF Plug, scanVars, locVars, References
<1>9. QED
  BY <1>1, <1>2, <1>3, <1>4, <1>5, <1>6, <1>7, <1>8 DEF Next, Continue

LEMMA StepOwned == Types /\ [Next]_vars => Owned'
<1> SUFFICES ASSUME Types, [Next]_vars PROVE Owned'
  OBVIOUS
<1>y. Owned
  BY DEF Types
<1>1. CASE UNCHANGED vars
  BY <1>1, <1>y DEF vars, ownVars, Owned
<1>2. ASSUME NEW t \in Threads,
             \/ Enumerate(t) \/ DriverScan(t) \/ DriverRescan(t) \/ BeginRescan(t) \/ TestRead(t)
             \/ Probe(t) \/ BeginRestore(t) \/ Restore(t) \/ EndRestore(t) \/ Lock(t) \/ Close(t)
             \/ FindSelf(t) \/ (\E n \in Wanted : LookUp(t, n))
      PROVE  Owned'
  <2>1. UNCHANGED ownVars
    BY <1>2 DEF Enumerate, DriverScan, DriverRescan, BeginRescan, TestRead, Probe, BeginRestore,
                Restore, EndRestore, Lock, Close, FindSelf, LookUp
  <2>2. QED BY <1>y, <2>1 DEF ownVars, Owned
<1>3. ASSUME NEW t \in Threads, Add(t) PROVE Owned'
  <2>1. AddPortName(Candidates[at[t]]) /\ Candidates[at[t]] \in Names
    BY <1>3, SomeName DEF Add
  <2>2. \E new : /\ Available' = [Available EXCEPT ![new] = TRUE]
                 /\ commport' = [commport EXCEPT ![new] = FALSE]
    BY <2>1, Added DEF Types, References
  <2>3. QED BY <1>y, <2>2 DEF Owned
<1>4. ASSUME NEW t \in Threads, EndRescan(t) PROVE Owned'
  <2>1. PICK Kept : /\ Available' = [o \in Identifiers |-> o \in Kept => Available[o]]
                    /\ commport' = [o \in Identifiers |-> o \in Kept /\ commport[o]]
    BY <1>4, Zenon DEF EndRescan
  <2>2. QED BY <1>y, <2>1 DEF Owned
<1>5. ASSUME NEW t \in Threads, Open(t) \/ Configure(t) \/ Unreserve(t) \/ Release(t) PROVE Owned'
  <2>1. \E x : \E b \in BOOLEAN : Available' = [Available EXCEPT ![x] = b] \/ Available' = Available
    BY <1>5 DEF Open, Configure, Unreserve, Release, Set, ownVars
  <2>2. \E x : \E b \in BOOLEAN : commport' = [commport EXCEPT ![x] = b] \/ commport' = commport
    BY <1>5 DEF Open, Configure, Unreserve, Release, Set, ownVars
  <2>3. Available' \in [Identifiers -> BOOLEAN]
    BY <1>y, <2>1 DEF Owned
  <2>4. commport' \in [Identifiers -> BOOLEAN]
    BY <1>y, <2>2 DEF Owned
  <2>5. QED BY <2>3, <2>4 DEF Owned
<1>6. ASSUME NEW n \in Pluggable, Plug(n) PROVE Owned'
  BY <1>6, <1>y DEF Plug, ownVars, Owned
<1>7. QED
  BY <1>1, <1>2, <1>3, <1>4, <1>5, <1>6 DEF Next, Continue

LEMMA StepControl == Types /\ [Next]_vars => Control'
<1> SUFFICES ASSUME Types, [Next]_vars PROVE Control'
  OBVIOUS
<1>y. Control
  BY DEF Types
<1>i. ident \in [Threads -> Maybe]
  BY DEF Types, References
<1>c. Len(Candidates) \in Nat
  BY CandidateNames
<1> USE DEF Control, Places, Goto, Set, locVars
<1>1. CASE UNCHANGED vars
  BY <1>1, <1>y DEF vars
<1>2. ASSUME NEW t \in Threads, NEW n \in Wanted, LookUp(t, n) PROVE Control'
  BY <1>2, <1>y, WantedNames DEF LookUp
<1>3. ASSUME NEW t \in Threads, Enumerate(t) \/ BeginRescan(t) \/ EndRestore(t) \/ Open(t)
                                \/ Configure(t) \/ Unreserve(t) \/ FindSelf(t) \/ Release(t)
                                \/ Restore(t)
      PROVE  Control'
  BY <1>3, <1>y DEF Enumerate, BeginRescan, EndRestore, Open, Configure, Unreserve, FindSelf,
                    Release, Restore
<1>4. ASSUME NEW t \in Threads, DriverScan(t) \/ DriverRescan(t) \/ BeginRestore(t) PROVE Control'
  BY <1>4, <1>y, <1>c DEF DriverScan, DriverRescan, BeginRestore
<1>5. ASSUME NEW t \in Threads, TestRead(t) PROVE Control'
  <2> DEFINE n == Candidates[at[t]]
  <2>1. at[t] \in 1 .. Len(Candidates) + 1 /\ at[t] <= Len(Candidates) /\ pc[t] = "test"
    BY <1>5, <1>y DEF TestRead
  <2>2. \/ lockfile' = [lockfile EXCEPT ![n] = t] /\ pc' = [pc EXCEPT ![t] = "probe"] /\ at' = at
        \/ UNCHANGED <<lockfile, pc>> /\ at' = [at EXCEPT ![t] = at[t] + 1]
    BY <1>5, Zenon DEF TestRead
  <2> HIDE DEF n
  <2>3. UNCHANGED <<Sync, present, sought>>
    BY <1>5 DEF TestRead
  <2>4. CASE lockfile' = [lockfile EXCEPT ![n] = t] /\ pc' = [pc EXCEPT ![t] = "probe"] /\ at' = at
    BY <1>y, <2>1, <2>3, <2>4
  <2>5. CASE UNCHANGED <<lockfile, pc>> /\ at' = [at EXCEPT ![t] = at[t] + 1]
    BY <1>c, <1>y, <2>1, <2>3, <2>5
  <2>6. QED BY <2>2, <2>4, <2>5
<1>6. ASSUME NEW t \in Threads, Probe(t) PROVE Control'
  <2> DEFINE n == Candidates[at[t]]
  <2>1. at[t] \in 1 .. Len(Candidates) + 1 /\ at[t] <= Len(Candidates) /\ pc[t] = "probe"
    BY <1>6, <1>y DEF Probe
  <2>2. /\ lockfile' = [lockfile EXCEPT ![n] = null]
        /\ \/ pc' = [pc EXCEPT ![t] = "add"] /\ at' = at
           \/ pc' = [pc EXCEPT ![t] = "test"] /\ at' = [at EXCEPT ![t] = at[t] + 1]
    BY <1>6, Zenon DEF Probe
  <2> HIDE DEF n
  <2>3. UNCHANGED <<Sync, present, sought>>
    BY <1>6 DEF Probe
  <2>4. lockfile' \in [Names -> Identifiers \cup Threads \cup {null}]
    BY <1>y, <2>2
  <2>5. pc' \in [Threads -> Places] /\ at' \in [Threads -> 1 .. Len(Candidates) + 1]
    BY <1>c, <1>y, <2>1, <2>2, SMTT(30)
  <2>6. \A u \in Threads : pc'[u] \in {"probe", "add"} => at'[u] <= Len(Candidates)
    BY <1>y, <2>1, <2>2
  <2>7. QED BY <1>y, <2>3, <2>4, <2>5, <2>6
<1>7. ASSUME NEW t \in Threads, Add(t) PROVE Control'
  <2>1. at[t] \in 1 .. Len(Candidates) + 1 /\ at[t] <= Len(Candidates) /\ pc[t] = "add"
    BY <1>7, <1>y DEF Add
  <2>2. /\ at' = [at EXCEPT ![t] = at[t] + 1] /\ pc' = [pc EXCEPT ![t] = "test"]
        /\ UNCHANGED <<Sync, lockfile, present, sought>>
    BY <1>7 DEF Add
  <2>3. QED BY <1>c, <1>y, <2>1, <2>2
<1>8. ASSUME NEW t \in Threads, EndRescan(t) PROVE Control'
  <2>1. /\ Sync' = null /\ sought' = [sought EXCEPT ![t] = null] /\ pc' = [pc EXCEPT ![t] = "idle"]
        /\ UNCHANGED <<lockfile, present, at>>
    BY <1>8 DEF EndRescan
  <2>2. QED BY <1>y, <2>1
<1>9. ASSUME NEW t \in Threads, Lock(t) PROVE Control'
  <2>1. ident[t] \in Maybe
    BY <1>i
  <2>2. \/ /\ lockfile[PortName[ident[t]]] = null
           /\ lockfile' = [lockfile EXCEPT ![PortName[ident[t]]] = ident[t]]
           /\ pc' = [pc EXCEPT ![t] = "locked"]
        \/ lockfile' = lockfile /\ pc' = [pc EXCEPT ![t] = "failed"]
    BY <1>9, Zenon DEF Lock
  <2>3. UNCHANGED <<Sync, present, sought, at>>
    BY <1>9 DEF Lock
  <2>4. QED BY <1>y, <2>1, <2>2, <2>3 DEF Maybe
<1>10. ASSUME NEW t \in Threads, Close(t) PROVE Control'
  <2>1. /\ lockfile' = [lockfile EXCEPT ![PortName[ident[t]]] = null]
        /\ pc' = [pc EXCEPT ![t] = "close1"] /\ UNCHANGED <<Sync, present, sought, at>>
    BY <1>10 DEF Close
  <2>2. QED BY <1>y, <2>1
<1>11. ASSUME NEW n \in Pluggable, Plug(n) PROVE Control'
  BY <1>11, <1>y, PluggableNames DEF Plug
<1> HIDE DEF Control, Places, Goto, Set, locVars
<1>12. QED
  BY <1>1, <1>2, <1>3, <1>4, <1>5, <1>6, <1>7, <1>8, <1>9, <1>10, <1>11 DEF Next, Continue

LEMMA StepTurns == Types /\ [Next]_vars => Turns'
<1> SUFFICES ASSUME Types, [Next]_vars PROVE Turns'
  OBVIOUS
<1>y. Turns /\ pc \in [Threads -> Places]
  BY DEF Types, Control
<1>1. CASE UNCHANGED vars
  BY <1>1, <1>y DEF vars, scanVars, Turns
<1> USE NullIsNew DEF Turns, Goto, Rescanning, scanVars
<1>2. ASSUME NEW t \in Threads,
             \/ (\E n \in Wanted : LookUp(t, n)) \/ Enumerate(t) \/ DriverScan(t) \/ DriverRescan(t)
             \/ BeginRescan(t) \/ TestRead(t) \/ Probe(t) \/ Add(t) \/ EndRescan(t)
             \/ EndRestore(t)
      PROVE  Turns'
  BY <1>2, <1>y DEF LookUp, Enumerate, DriverScan, DriverRescan, BeginRescan, TestRead, Probe,
                    Add, EndRescan, EndRestore, MayCall
<1>3. ASSUME NEW t \in Threads, BeginRestore(t) \/ Restore(t) PROVE Turns'
  <2>1. Sync = t /\ Sync' = Sync /\ pc'[t] = "restore" /\ \A u \in Threads \ {t} : pc'[u] = pc[u]
    BY <1>3, <1>y DEF BeginRestore, Restore
  <2>2. QED BY <1>y, <2>1
<1>4. ASSUME NEW t \in Threads, \/ Open(t) \/ Lock(t) \/ Configure(t) \/ Unreserve(t) \/ Close(t)
                                \/ FindSelf(t) \/ Release(t)
      PROVE  Turns'
  BY <1>4, <1>y DEF Open, Lock, Configure, Unreserve, Close, FindSelf, Release, MayCall
<1>5. ASSUME NEW n \in Pluggable, Plug(n) PROVE Turns'
  BY <1>5, <1>y DEF Plug
<1> HIDE DEF Turns, Goto, Rescanning, scanVars
<1>6. QED
  BY <1>1, <1>2, <1>3, <1>4, <1>5 DEF Next, Continue

LEMMA TypesHold == Spec => []Types
<1>1. Types /\ [Next]_vars => Types'
  BY StepReferences, StepOwned, StepControl, StepTurns DEF Types
<1>2. QED BY <1>1, InitTypes, PTL DEF Spec

(* Every variable has its type: among others no reference leads to an        *)
(* identifier that has not been constructed, and no scan leaves its list.    *)
THEOREM TypeCorrect == Spec => []TypeOK
<1>1. Types => TypeOK
  <2> SUFFICES ASSUME Types PROVE TypeOK
    OBVIOUS
  <2>1. References /\ Owned /\ Control
    BY DEF Types
  <2>2. QED BY <2>1, Zenon DEF References, Owned, Control, Pointers, Maybe, TypeOK
<1>2. QED BY <1>1, TypesHold, PTL
-----------------------------------------------------------------------------
(* The lock files *)

Owning == {"reserved", "locked", "failed", "using", "close1", "close2", "release"}

(* An identifier is reserved for one thread at most, whether or not it is    *)
(* still in the list.                                                        *)
Reserved ==
  /\ \A t \in Threads : pc[t] \in Owning => ident[t] # null /\ ~Available[ident[t]]
  /\ \A t, u \in Threads : pc[t] \in Owning /\ pc[u] \in Owning /\ ident[t] = ident[u] => t = u

(* A lock file is that of the port that is open, or of the test under way.   *)
Locked ==
  /\ \A t \in Threads : pc[t] \in {"locked", "using"} => lockfile[PortName[ident[t]]] = ident[t]
  /\ \A t \in Threads : pc[t] = "probe" => lockfile[Candidates[at[t]]] = t

LEMMA StepReserved == Types /\ Reserved /\ [Next]_vars => Reserved'
<1> SUFFICES ASSUME Types, Reserved, [Next]_vars PROVE Reserved'
  OBVIOUS
<1>y. /\ pc \in [Threads -> Places] /\ ident \in [Threads -> Maybe]
      /\ Available \in [Identifiers -> BOOLEAN]
  BY DEF Types, Control, References, Owned
<1>r. ASSUME \A t \in Threads : pc'[t] \in Owning =>
               /\ pc[t] \in Owning /\ ident'[t] = ident[t] /\ Available'[ident[t]] = Available[ident[t]]
      PROVE  Reserved'
  BY <1>r DEF Reserved
<1>1. CASE UNCHANGED vars
  BY <1>1, <1>r DEF vars, locVars, ownVars
<1>2. ASSUME NEW t \in Threads, NEW n \in Wanted, LookUp(t, n) PROVE Reserved'
  <2>1. /\ pc[t] = "idle" /\ pc'[t] \in {"idle", "rescan"} /\ Available' = Available
        /\ \A u \in Threads \ {t} : pc'[u] = pc[u] /\ ident'[u] = ident[u]
    BY <1>2, <1>y DEF LookUp, MayCall, Goto, Set, ownVars
  <2>2. QED BY <1>r, <2>1 DEF Owning
<1>3. ASSUME NEW t \in Threads,
             \/ Enumerate(t) \/ DriverScan(t) \/ DriverRescan(t) \/ BeginRescan(t) \/ TestRead(t)
             \/ Probe(t) \/ BeginRestore(t) \/ Restore(t) \/ EndRestore(t)
      PROVE  Reserved'
  <2>1. UNCHANGED <<ident, Available>>
    BY <1>3 DEF Enumerate, DriverScan, DriverRescan, BeginRescan, TestRead, Probe, BeginRestore,
                Restore, EndRestore, locVars, ownVars
  <2>2. pc'[t] \notin Owning /\ \A u \in Threads \ {t} : pc'[u] = pc[u]
    BY <1>3, <1>y DEF Enumerate, DriverScan, DriverRescan, BeginRescan, TestRead, Probe, BeginRestore,
                      Restore, EndRestore, Goto, Owning
  <2>3. QED BY <1>r, <2>1, <2>2
<1>4. ASSUME NEW t \in Threads, Add(t) PROVE Reserved'
  <2>1. AddPortName(Candidates[at[t]]) /\ Candidates[at[t]] \in Names
    BY <1>4, SomeName DEF Add
  <2>2. PICK new \in Identifiers : /\ Available' = [Available EXCEPT ![new] = TRUE]
                                   /\ \A u \in Threads : ident[u] # new
    BY <2>1, Added DEF Types, References
  <2>3. /\ pc' = [pc EXCEPT ![t] = "test"] /\ ident' = ident
    BY <1>4 DEF Add, Goto
  <2>4. \A u \in Threads : pc'[u] \in Owning => pc[u] \in Owning
    BY <1>y, <2>3 DEF Owning
  <2>5. ASSUME NEW u \in Threads, pc[u] \in Owning PROVE Available'[ident[u]] = Available[ident[u]]
    <3>1. ident[u] \in Identifiers
      BY <1>y, <2>5 DEF Reserved, Maybe
    <3>2. QED BY <1>y, <2>2, <3>1
  <2>6. QED BY <1>r, <2>3, <2>4, <2>5
<1>5. ASSUME NEW t \in Threads, EndRescan(t) PROVE Reserved'
  <2>1. /\ pc[t] = "rescanned" /\ pc' = [pc EXCEPT ![t] = "idle"]
        /\ ident' = IF sought[t] # null /\ ByName(sought[t]) # null
                      THEN [ident EXCEPT ![t] = ByName(sought[t])] ELSE ident
    BY <1>5 DEF EndRescan, Goto, Set
  <2>2. \A u \in Threads \ {t} : pc'[u] = pc[u] /\ ident'[u] = ident[u]
    BY <1>y, <2>1
  <2>3. pc'[t] \notin Owning
    BY <1>y, <2>1 DEF Owning
  <2> DEFINE Kept == Registered \cup {ident'[u] : u \in Threads}
  <2>4. /\ Available' = [o \in Identifiers |-> o \in Kept => Available[o]]
        /\ \A u \in Threads : ident'[u] \in Kept
    BY <1>5, Zenon DEF EndRescan
  <2> HIDE DEF Kept
  <2>5. ASSUME NEW u \in Threads, pc'[u] \in Owning
        PROVE  Available'[ident[u]] = Available[ident[u]]
    <3>1. u # t /\ pc[u] \in Owning
      BY <2>2, <2>3, <2>5
    <3>2. ident[u] \in Identifiers /\ ident[u] \in Kept
      BY <1>y, <2>2, <2>4, <3>1 DEF Reserved, Maybe
    <3>3. Available'[ident[u]] = (ident[u] \in Kept => Available[ident[u]])
      BY <2>4, <3>2
    <3>4. Available[ident[u]] \in BOOLEAN
      BY <1>y, <3>2
    <3>5. QED BY <3>2, <3>3, <3>4
  <2>6. QED BY <1>r, <2>2, <2>3, <2>5
<1>6. ASSUME NEW t \in Threads, Open(t) PROVE Reserved'
  <2>1. /\ ident[t] # null /\ Available[ident[t]] /\ ident' = ident
        /\ Available' = [Available EXCEPT ![ident[t]] = FALSE]
        /\ pc' = [pc EXCEPT ![t] = "reserved"]
    BY <1>6 DEF Open, Goto, Set, locVars
  <2>2. ident[t] \in Identifiers
    BY <1>y, <2>1 DEF Maybe
  <2>3. \A u \in Threads : pc[u] \in Owning => ident[u] # ident[t]
    BY <2>1 DEF Reserved
  <2>4. ~Available'[ident[t]]
    BY <1>y, <2>1, <2>2
  <2>5. \A u \in Threads \ {t} : pc[u] \in Owning => ~Available'[ident[u]] /\ ident[u] # null
    <3> SUFFICES ASSUME NEW u \in Threads \ {t}, pc[u] \in Owning
                 PROVE  ~Available'[ident[u]] /\ ident[u] # null
      OBVIOUS
    <3>1. ident[u] \in Identifiers /\ ident[u] # ident[t] /\ ~Available[ident[u]]
      BY <1>y, <2>3 DEF Reserved, Maybe
    <3>2. Available'[ident[u]] = Available[ident[u]]
      BY <1>y, <2>1, <3>1
    <3>3. QED BY <3>1, <3>2, NullIsNew
  <2>6. \A u \in Threads \ {t} : pc'[u] = pc[u]
    BY <1>y, <2>1
  <2>7. QED BY <2>1, <2>3, <2>4, <2>5, <2>6 DEF Reserved
<1>7. ASSUME NEW t \in Threads, Lock(t) \/ Configure(t) \/ Close(t) PROVE Reserved'
  <2>1. UNCHANGED <<ident, Available>> /\ pc[t] \in Owning
    BY <1>7 DEF Lock, Configure, Close, locVars, ownVars, Owning
  <2>2. \A u \in Threads : pc'[u] \in Owning => pc[u] \in Owning
    BY <1>7, <1>y DEF Lock, Configure, Close, Goto, Owning
  <2>3. QED BY <1>r, <2>1, <2>2
<1>8. ASSUME NEW t \in Threads, FindSelf(t) PROVE Reserved'
  <2>1. UNCHANGED <<ident, Available>> /\ pc[t] \in Owning
    BY <1>8 DEF FindSelf, locVars, ownVars, Owning
  <2>2. \A u \in Threads \ {t} : pc'[u] = pc[u]
    BY <1>8, <1>y DEF FindSelf, Goto
  <2>3. QED BY <1>r, <2>1, <2>2
<1>9. ASSUME NEW t \in Threads, Unreserve(t) \/ Release(t) PROVE Reserved'
  <2>1. /\ pc[t] \in Owning /\ ident' = ident
        /\ Available' = [Available EXCEPT ![ident[t]] = TRUE]
        /\ pc' = [pc EXCEPT ![t] = "idle"]
    BY <1>9 DEF Unreserve, Release, Goto, Set, locVars, Owning
  <2>2. ASSUME NEW u \in Threads, pc'[u] \in Owning
        PROVE  pc[u] \in Owning /\ Available'[ident[u]] = Available[ident[u]]
    <3>1. u # t /\ pc[u] \in Owning
      BY <1>y, <2>1, <2>2 DEF Owning
    <3>2. ident[u] \in Identifiers /\ ident[u] # ident[t]
      BY <1>y, <2>1, <3>1 DEF Reserved, Maybe
    <3>3. QED BY <1>y, <2>1, <3>1, <3>2
  <2>3. QED BY <1>r, <2>1, <2>2
<1>10. ASSUME NEW n \in Pluggable, Plug(n) PROVE Reserved'
  BY <1>10, <1>r DEF Plug, locVars, ownVars
<1>11. QED
  BY <1>1, <1>2, <1>3, <1>4, <1>5, <1>6, <1>7, <1>8, <1>9, <1>10 DEF Next, Continue

LEMMA StepLocked == Types /\ Reserved /\ Locked /\ [Next]_vars => Locked'
<1> SUFFICES ASSUME Types, Reserved, Locked, [Next]_vars PROVE Locked'
  OBVIOUS
<1>y. /\ pc \in [Threads -> Places] /\ ident \in [Threads -> Maybe]
      /\ lockfile \in [Names -> Identifiers \cup Threads \cup {null}]
      /\ at \in [Threads -> 1 .. Len(Candidates) + 1]
      /\ PortName \in [Identifiers -> Names \cup {null}]
  BY DEF Types, Control, References
<1>o. \A t \in Threads : pc[t] \in {"locked", "using"}
        => ident[t] \in Identifiers /\ PortName[ident[t]] \in Names
  BY OwnName DEF Reserved, Owning
<1>p. \A t \in Threads : pc[t] = "probe" => Candidates[at[t]] \in Names
  BY SomeName
<1>r. ASSUME UNCHANGED lockfile,
             \A t \in Threads : pc'[t] \in {"locked", "using"} =>
               /\ pc[t] \in {"locked", "using"} /\ ident'[t] = ident[t]
               /\ PortName'[ident[t]] = PortName[ident[t]],
             \A t \in Threads : pc'[t] = "probe" => pc[t] = "probe" /\ at'[t] = at[t]
      PROVE  Locked'
  BY <1>r DEF Locked
<1>1. CASE UNCHANGED vars
  BY <1>1, <1>r DEF vars, locVars, listVars
<1>2. ASSUME NEW t \in Threads, NEW n \in Wanted, LookUp(t, n) PROVE Locked'
  <2>1. /\ pc[t] = "idle" /\ pc'[t] \in {"idle", "rescan"} /\ UNCHANGED <<lockfile, PortName, at>>
        /\ \A u \in Threads \ {t} : pc'[u] = pc[u] /\ ident'[u] = ident[u]
    BY <1>2, <1>y DEF LookUp, MayCall, Goto, Set, listVars
  <2>2. QED BY <1>r, <2>1
<1>3. ASSUME NEW t \in Threads,
             \/ Enumerate(t) \/ DriverScan(t) \/ DriverRescan(t) \/ BeginRescan(t)
             \/ BeginRestore(t) \/ Restore(t) \/ EndRestore(t) \/ Open(t) \/ Configure(t)
             \/ Unreserve(t) \/ FindSelf(t) \/ Release(t)
      PROVE  Locked'
  <2>1. UNCHANGED <<ident, PortName, lockfile>>
    BY <1>3 DEF Enumerate, DriverScan, DriverRescan, BeginRescan, BeginRestore, Restore, EndRestore,
                Open, Configure, Unreserve, FindSelf, Release, locVars, listVars
  <2>2. \A u \in Threads \ {t} : pc'[u] = pc[u] /\ at'[u] = at[u]
    BY <1>3, <1>y DEF Enumerate, DriverScan, DriverRescan, BeginRescan, BeginRestore, Restore,
                      EndRestore, Open, Configure, Unreserve, FindSelf, Release, Goto, Set, locVars
  <2>3. pc'[t] # "probe" /\ (pc'[t] \in {"locked", "using"} => pc[t] \in {"locked", "using"})
    BY <1>3, <1>y DEF Enumerate, DriverScan, DriverRescan, BeginRescan, BeginRestore, Restore,
                      EndRestore, Open, Configure, Unreserve, FindSelf, Release, Goto, MayCall
  <2>4. QED BY <1>r, <2>1, <2>2, <2>3
<1>4. ASSUME NEW t \in Threads, TestRead(t) PROVE Locked'
  <2> DEFINE n == Candidates[at[t]]
  <2>1. /\ pc[t] = "test" /\ UNCHANGED <<ident, PortName>>
        /\ \/ /\ lockfile[n] = null /\ lockfile' = [lockfile EXCEPT ![n] = t]
              /\ pc' = [pc EXCEPT ![t] = "probe"] /\ at' = at
           \/ UNCHANGED <<lockfile, pc>> /\ at' = [at EXCEPT ![t] = at[t] + 1]
    BY <1>4, Zenon DEF TestRead, Goto, Set, listVars
  <2>2. CASE UNCHANGED <<lockfile, pc>> /\ at' = [at EXCEPT ![t] = at[t] + 1]
    <3>1. \A u \in Threads : pc'[u] = "probe" => at'[u] = at[u]
      BY <1>y, <2>1, <2>2
    <3>2. QED BY <1>r, <2>1, <2>2, <3>1
  <2>3. CASE /\ lockfile[n] = null /\ lockfile' = [lockfile EXCEPT ![n] = t]
             /\ pc' = [pc EXCEPT ![t] = "probe"] /\ at' = at
    <3>1. n \in Names
      <4>1. at[t] \in 1 .. Len(Candidates)
        BY <1>4, <1>y, CandidateNames DEF TestRead
      <4>2. QED BY <4>1, CandidateNames
    <3> HIDE DEF n
    <3>2. lockfile'[n] = t /\ \A m \in Names \ {n} : lockfile'[m] = lockfile[m]
      BY <1>y, <2>3, <3>1
    <3>3. pc'[t] = "probe" /\ \A u \in Threads \ {t} : pc'[u] = pc[u]
      BY <1>y, <2>3
    <3>4. ASSUME NEW u \in Threads, pc'[u] \in {"locked", "using"}
          PROVE  lockfile'[PortName[ident[u]]] = ident[u]
      <4>1. pc[u] \in {"locked", "using"}
        BY <3>3, <3>4
      <4>2. lockfile[PortName[ident[u]]] = ident[u] /\ PortName[ident[u]] \in Names /\ ident[u] # null
        BY <1>o, <4>1, NullIsNew DEF Locked
      <4>3. QED BY <2>3, <3>2, <4>2
    <3>5. ASSUME NEW u \in Threads, pc'[u] = "probe"
          PROVE  lockfile'[Candidates[at[u]]] = u
      <4>1. CASE u = t
        BY <3>2, <4>1 DEF n
      <4>2. CASE u # t
        <5>1. lockfile[Candidates[at[u]]] = u /\ Candidates[at[u]] \in Names
          BY <1>p, <3>3, <3>5, <4>2 DEF Locked
        <5>2. QED BY <2>3, <3>2, <5>1, NullIsNew
      <4>3. QED BY <4>1, <4>2
    <3>6. QED BY <2>1, <2>3, <3>4, <3>5 DEF Locked
  <2>4. QED BY <2>1, <2>2, <2>3
<1>5. ASSUME NEW t \in Threads, Probe(t) PROVE Locked'
  <2> DEFINE n == Candidates[at[t]]
  <2>1. /\ pc[t] = "probe" /\ UNCHANGED <<ident, PortName>>
        /\ lockfile' = [lockfile EXCEPT ![n] = null]
        /\ \/ pc' = [pc EXCEPT ![t] = "add"] /\ at' = at
           \/ pc' = [pc EXCEPT ![t] = "test"] /\ at' = [at EXCEPT ![t] = at[t] + 1]
    BY <1>5, Zenon DEF Probe, Goto, Set, listVars
  <2>2. n \in Names /\ lockfile[n] = t
    BY <1>p, <2>1 DEF Locked
  <2> HIDE DEF n
  <2>3. \A m \in Names : m # n => lockfile'[m] = lockfile[m]
    BY <1>y, <2>1
  <2>4. pc'[t] \notin {"locked", "using", "probe"}
    BY <1>y, <2>1
  <2>5. \A u \in Threads \ {t} : pc'[u] = pc[u] /\ at'[u] = at[u]
    BY <1>y, <2>1
  <2>6. ASSUME NEW u \in Threads, pc'[u] \in {"locked", "using"}
        PROVE  lockfile'[PortName[ident[u]]] = ident[u]
    <3>1. pc[u] \in {"locked", "using"}
      BY <2>4, <2>5, <2>6
    <3>2. lockfile[PortName[ident[u]]] = ident[u] /\ PortName[ident[u]] \in Names
          /\ ident[u] \in Identifiers
      BY <1>o, <3>1 DEF Locked
    <3>3. PortName[ident[u]] # n
      BY <2>2, <3>2, LockersDiffer
    <3>4. QED BY <2>3, <3>2, <3>3
  <2>7. ASSUME NEW u \in Threads, pc'[u] = "probe"
        PROVE  lockfile'[Candidates[at'[u]]] = u
    <3>1. u # t /\ pc[u] = "probe" /\ at'[u] = at[u]
      BY <2>4, <2>5, <2>7
    <3>2. lockfile[Candidates[at[u]]] = u /\ Candidates[at[u]] \in Names
      BY <1>p, <3>1 DEF Locked
    <3>3. QED BY <2>2, <2>3, <3>1, <3>2
  <2>8. QED BY <2>1, <2>6, <2>7 DEF Locked
<1>6. ASSUME NEW t \in Threads, Add(t) PROVE Locked'
  <2>1. AddPortName(Candidates[at[t]]) /\ Candidates[at[t]] \in Names
    BY <1>6, SomeName DEF Add
  <2>2. PICK new \in Identifiers : /\ PortName' = [PortName EXCEPT ![new] = Candidates[at[t]]]
                                   /\ \A u \in Threads : ident[u] # new
    BY <2>1, Added DEF Types, References
  <2>3. /\ pc[t] = "add" /\ pc' = [pc EXCEPT ![t] = "test"] /\ UNCHANGED <<ident, lockfile>>
        /\ at' = [at EXCEPT ![t] = at[t] + 1]
    BY <1>6 DEF Add, Goto, Set
  <2>4. \A u \in Threads : pc'[u] \in {"locked", "using", "probe"}
                             => pc'[u] = pc[u] /\ at'[u] = at[u]
    BY <1>y, <2>3
  <2>5. \A u \in Threads : PortName'[ident[u]] = PortName[ident[u]]
    BY <1>y, <2>2
  <2>6. QED BY <1>r, <2>3, <2>4, <2>5
<1>7. ASSUME NEW t \in Threads, EndRescan(t) PROVE Locked'
  <2>1. /\ pc[t] = "rescanned" /\ pc' = [pc EXCEPT ![t] = "idle"] /\ UNCHANGED <<lockfile, at>>
        /\ ident' = IF sought[t] # null /\ ByName(sought[t]) # null
                      THEN [ident EXCEPT ![t] = ByName(sought[t])] ELSE ident
    BY <1>7 DEF EndRescan, Goto, Set
  <2>2. \A u \in Threads \ {t} : pc'[u] = pc[u] /\ ident'[u] = ident[u]
    BY <1>y, <2>1
  <2>3. pc'[t] = "idle"
    BY <1>y, <2>1
  <2>4. PortName' = [o \in Identifiers |-> IF o \in Registered \cup {ident'[u] : u \in Threads}
                                           THEN PortName[o] ELSE null]
    BY <1>7, Zenon DEF EndRescan
  <2>5. ASSUME NEW u \in Threads, pc'[u] \in {"locked", "using"}
        PROVE  PortName'[ident[u]] = PortName[ident[u]]
    <3>1. u # t /\ ident'[u] = ident[u] /\ ident[u] \in Identifiers
      BY <1>o, <2>2, <2>3, <2>5
    <3>2. QED BY <2>4, <3>1
  <2>6. QED BY <1>r, <2>1, <2>2, <2>3, <2>5
<1>8. ASSUME NEW t \in Threads, Lock(t) PROVE Locked'
  <2> DEFINE n == PortName[ident[t]]
  <2>1. /\ pc[t] = "reserved" /\ UNCHANGED <<ident, PortName, at>>
        /\ \/ /\ lockfile[n] = null /\ lockfile' = [lockfile EXCEPT ![n] = ident[t]]
              /\ pc' = [pc EXCEPT ![t] = "locked"]
           \/ lockfile' = lockfile /\ pc' = [pc EXCEPT ![t] = "failed"]
    BY <1>8, Zenon DEF Lock, Goto, Set, listVars, locVars
  <2>2. CASE lockfile' = lockfile /\ pc' = [pc EXCEPT ![t] = "failed"]
    <3>1. \A u \in Threads : pc'[u] \in {"locked", "using", "probe"} => pc'[u] = pc[u]
      BY <1>y, <2>2
    <3>2. QED BY <1>r, <2>1, <2>2, <3>1
  <2>3. CASE /\ lockfile[n] = null /\ lockfile' = [lockfile EXCEPT ![n] = ident[t]]
             /\ pc' = [pc EXCEPT ![t] = "locked"]
    <3>1. n \in Names
      BY <2>1, OwnName DEF Reserved, Owning
    <3> HIDE DEF n
    <3>2. lockfile'[n] = ident[t] /\ \A m \in Names \ {n} : lockfile'[m] = lockfile[m]
      BY <1>y, <2>3, <3>1
    <3>3. pc'[t] = "locked" /\ \A u \in Threads \ {t} : pc'[u] = pc[u]
      BY <1>y, <2>3
    <3>4. ASSUME NEW u \in Threads, pc'[u] \in {"locked", "using"}
          PROVE  lockfile'[PortName[ident[u]]] = ident[u]
      <4>1. CASE u = t
        BY <3>2, <4>1 DEF n
      <4>2. CASE u # t
        <5>1. pc[u] \in {"locked", "using"}
          BY <3>3, <3>4, <4>2
        <5>2. lockfile[PortName[ident[u]]] = ident[u] /\ PortName[ident[u]] \in Names
              /\ ident[u] # null
          BY <1>o, <5>1, NullIsNew DEF Locked
        <5>3. QED BY <2>3, <3>2, <5>2
      <4>3. QED BY <4>1, <4>2
    <3>5. ASSUME NEW u \in Threads, pc'[u] = "probe" PROVE lockfile'[Candidates[at[u]]] = u
      <4>1. pc[u] = "probe"
        BY <3>3, <3>5
      <4>2. lockfile[Candidates[at[u]]] = u /\ Candidates[at[u]] \in Names
        BY <1>p, <4>1 DEF Locked
      <4>3. QED BY <2>3, <3>2, <4>2, NullIsNew
    <3>6. QED BY <2>1, <3>4, <3>5 DEF Locked
  <2>4. QED BY <2>1, <2>2, <2>3
<1>9. ASSUME NEW t \in Threads, Close(t) PROVE Locked'
  <2> DEFINE n == PortName[ident[t]]
  <2>1. /\ pc[t] = "using" /\ UNCHANGED <<ident, PortName, at>>
        /\ lockfile' = [lockfile EXCEPT ![n] = null] /\ pc' = [pc EXCEPT ![t] = "close1"]
    BY <1>9, Zenon DEF Close, Goto, Set, listVars, locVars
  <2>2. n \in Names /\ lockfile[n] = ident[t] /\ ident[t] \in Identifiers
    BY <1>o, <2>1 DEF Locked
  <2> HIDE DEF n
  <2>3. \A m \in Names : m # n => lockfile'[m] = lockfile[m]
    BY <1>y, <2>1
  <2>4. pc'[t] = "close1" /\ \A u \in Threads \ {t} : pc'[u] = pc[u]
    BY <1>y, <2>1
  <2>5. ASSUME NEW u \in Threads, pc'[u] \in {"locked", "using"}
        PROVE  lockfile'[PortName[ident[u]]] = ident[u]
    <3>1. u # t /\ pc[u] \in {"locked", "using"}
      BY <2>4, <2>5
    <3>2. lockfile[PortName[ident[u]]] = ident[u] /\ PortName[ident[u]] \in Names
      BY <1>o, <3>1 DEF Locked
    <3>3. ident[u] # ident[t]
      BY <2>1, <3>1 DEF Reserved, Owning
    <3>4. QED BY <2>2, <2>3, <3>2, <3>3
  <2>6. ASSUME NEW u \in Threads, pc'[u] = "probe" PROVE lockfile'[Candidates[at[u]]] = u
    <3>1. pc[u] = "probe"
      BY <2>4, <2>6
    <3>2. lockfile[Candidates[at[u]]] = u /\ Candidates[at[u]] \in Names
      BY <1>p, <3>1 DEF Locked
    <3>3. QED BY <2>2, <2>3, <3>2, LockersDiffer
  <2>7. QED BY <2>1, <2>5, <2>6 DEF Locked
<1>10. ASSUME NEW n \in Pluggable, Plug(n) PROVE Locked'
  BY <1>10, <1>r DEF Plug, locVars, listVars
<1>11. QED
  BY <1>1, <1>2, <1>3, <1>4, <1>5, <1>6, <1>7, <1>8, <1>9, <1>10 DEF Next, Continue

(* Two open ports are never two of one device, even when a rescan has left a *)
(* client with an identifier that has gone from the list and the list has    *)
(* another one of the same name, and whatever the tests of a scan lock and   *)
(* unlock meanwhile.                                                         *)
THEOREM OneOpen == Spec => []OneOpenPerDevice
<1>1. Init => Reserved /\ Locked
  BY DEF Init, Reserved, Locked, Owning
<1>2. Types /\ Reserved /\ Locked /\ [Next]_vars => (Reserved /\ Locked)'
  BY StepReserved, StepLocked
<1>3. Reserved /\ Locked => OneOpenPerDevice
  BY DEF Reserved, Locked, Owning, OneOpenPerDevice
<1>4. QED BY <1>1, <1>2, <1>3, TypesHold, PTL DEF Spec
-----------------------------------------------------------------------------
(* The list *)

(* s is the list: n identifiers, none twice. *)
Linked(n, s) ==
  /\ \A i, j \in 1 .. n : s[i] = s[j] => i = j
  /\ CommPortIndex = IF n = 0 THEN null ELSE s[1]
  /\ \A i \in 1 .. n : next[s[i]] = IF i = n THEN null ELSE s[i + 1]

LEMMA ListEnds ==
  ASSUME NEW n \in Nat, NEW s \in [1 .. n -> Identifiers], Linked(n, s)
  PROVE  Registered = {s[i] : i \in 1 .. n} /\ Ends
<1> DEFINE N == Cardinality(Identifiers)
           S == {k \in Nat : k \in 0 .. N => Walk[k] = IF k < n THEN s[k + 1] ELSE null}
<1>1. /\ N \in Nat /\ DOMAIN Walk = 0 .. N /\ Walk[0] = CommPortIndex
      /\ \A k \in 1 .. N : Walk[k] = IF Walk[k - 1] = null THEN null ELSE next[Walk[k - 1]]
  BY WalkDef
<1>2. n <= N
  <2>1. s \in Injection(1 .. n, Identifiers)
    BY DEF Linked, Injection, IsInjective
  <2>2. Cardinality(1 .. n) <= Cardinality(Identifiers)
    BY <2>1, FS_Injection, IdentifiersAreFinite
  <2>3. Cardinality(1 .. n) = IF 1 > n THEN 0 ELSE n - 1 + 1
    BY FS_Interval
  <2> HIDE DEF N
  <2>4. QED BY <1>1, <2>2, <2>3 DEF N
<1>3. \A i \in 1 .. n : s[i] # null
  BY NullIsNew
<1> HIDE DEF N
<1>4. 0 \in S
  BY <1>1 DEF Linked
<1>5. ASSUME NEW k \in S PROVE k + 1 \in S
  <2> SUFFICES ASSUME k + 1 \in 0 .. N
               PROVE  Walk[k + 1] = IF k + 1 < n THEN s[(k + 1) + 1] ELSE null
    OBVIOUS
  <2>1. k \in Nat /\ k \in 0 .. N /\ k + 1 \in 1 .. N /\ (k + 1) - 1 = k
    BY <1>1
  <2>2. Walk[k + 1] = IF Walk[k] = null THEN null ELSE next[Walk[k]]
    BY <1>1, <2>1
  <2>3. Walk[k] = IF k < n THEN s[k + 1] ELSE null
    BY <2>1
  <2>4. CASE k < n
    <3>1. k + 1 \in 1 .. n
      BY <2>1, <2>4
    <3>2. Walk[k + 1] = next[s[k + 1]]
      BY <1>3, <2>2, <2>3, <2>4, <3>1
    <3>3. next[s[k + 1]] = IF k + 1 = n THEN null ELSE s[(k + 1) + 1]
      BY <3>1 DEF Linked
    <3>4. (k + 1 = n) <=> ~(k + 1 < n)
      BY <2>1, <2>4
    <3>5. QED BY <3>2, <3>3, <3>4
  <2>5. CASE ~(k < n)
    <3>1. ~(k + 1 < n)
      BY <2>1, <2>5
    <3>2. QED BY <2>2, <2>3, <2>5, <3>1
  <2>6. QED BY <2>4, <2>5
<1>6. S = Nat
  <2> HIDE DEF S
  <2>1. S \in SUBSET Nat
    BY DEF S
  <2>2. QED BY <1>4, <1>5, <2>1, Induction
<1>7. \A k \in 0 .. N : Walk[k] = IF k < n THEN s[k + 1] ELSE null
  BY <1>1, <1>6
<1>8. Ends
  <2>1. N \in 0 .. N /\ ~(N < n)
    BY <1>1, <1>2
  <2>2. QED BY <1>7, <2>1 DEF Ends, N
<1>9. Registered = {s[i] : i \in 1 .. n}
  <2>1. ASSUME NEW k \in 0 .. N, Walk[k] # null PROVE \E i \in 1 .. n : Walk[k] = s[i]
    <3>1. k < n /\ k + 1 \in 1 .. n
      BY <1>1, <1>7, <2>1
    <3>2. QED BY <1>7, <3>1
  <2>2. ASSUME NEW i \in 1 .. n PROVE \E k \in 0 .. N : Walk[k] = s[i] /\ s[i] # null
    <3>1. i - 1 \in 0 .. N /\ i - 1 < n /\ (i - 1) + 1 = i
      BY <1>1, <1>2
    <3>2. QED BY <1>3, <1>7, <3>1
  <2>3. QED BY <1>1, <2>1, <2>2 DEF Registered
<1>10. QED BY <1>8, <1>9

(* While a rescan builds the new list it has the names of the candidates     *)
(* tried so far and none of the old identifiers.  While it is walked, the    *)
(* part behind curPort is settled: each identifier there is the one that     *)
(* clients know, if they know one of its name.                               *)
Differ(n, s) == \A i, j \in 1 .. n : PortName[s[i]] = PortName[s[j]] => i = j

New(o) == \A m \in Names : oldPorts[m] # o

Settled(o) == oldPorts[PortName[o]] \in {o, null}

Trying == {"test", "probe", "add"}

Built(t, n, s) ==
  /\ Differ(n, s)
  /\ \A i \in 1 .. n : New(s[i]) /\ \E j \in 1 .. Len(Candidates) :
                                      j < at[t] /\ PortName[s[i]] = Candidates[j]

Walked(n, s) ==
  /\ Differ(n, s)
  /\ \E k \in 1 .. n + 1 :
       /\ curPort = IF k = n + 1 THEN null ELSE s[k]
       /\ prevPort = IF k = 1 THEN null ELSE s[k - 1]
       /\ \A i \in 1 .. n : IF i < k THEN Settled(s[i]) ELSE New(s[i])

Restoration(n, s) == \A t \in Threads : Sync = t =>
  /\ pc[t] \in Trying => Built(t, n, s)
  /\ pc[t] = "restore" => Walked(n, s)
  /\ pc[t] = "rescanned" => Differ(n, s) /\ \A i \in 1 .. n : Settled(s[i])

Listed == \E n \in Nat : \E s \in [1 .. n -> Identifiers] : Linked(n, s) /\ Restoration(n, s)

OldNamed == \A m \in Names : oldPorts[m] # null => PortName[oldPorts[m]] = m

LEMMA StepOldNamed == Types /\ OldNamed /\ [Next]_vars => OldNamed'
<1> SUFFICES ASSUME Types, OldNamed, [Next]_vars PROVE OldNamed'
  OBVIOUS
<1>y. /\ PortName \in [Identifiers -> Names \cup {null}] /\ oldPorts \in [Names -> Maybe]
      /\ Pointers
  BY DEF Types, References
<1>1. CASE UNCHANGED vars
  BY <1>1 DEF vars, listVars, scanVars, OldNamed
<1>2. ASSUME NEW t \in Threads,
             \/ (\E n \in Wanted : LookUp(t, n))
             \/ Enumerate(t) \/ DriverScan(t) \/ DriverRescan(t) \/ TestRead(t) \/ Probe(t)
             \/ BeginRestore(t) \/ Restore(t) \/ EndRestore(t) \/ Open(t) \/ Lock(t) \/ Configure(t)
             \/ Unreserve(t) \/ Close(t) \/ FindSelf(t) \/ Release(t)
      PROVE  OldNamed'
  <2>1. UNCHANGED <<PortName, oldPorts>>
    BY <1>2 DEF LookUp, Enumerate, DriverScan, DriverRescan, TestRead, Probe, BeginRestore, Restore,
                EndRestore, Open, Lock, Configure, Unreserve, Close, FindSelf, Release,
                scanVars, listVars
  <2>2. QED BY <2>1 DEF OldNamed
<1>3. ASSUME NEW t \in Threads, BeginRescan(t) PROVE OldNamed'
  <2>1. /\ PortName' = PortName
        /\ oldPorts' = [n \in Names |-> IF ByName(n) = null THEN null ELSE LatestOf(n)]
    BY <1>3, Zenon DEF BeginRescan, LatestOf
  <2>2. ASSUME NEW m \in Names, oldPorts'[m] # null PROVE PortName[oldPorts'[m]] = m
    <3>1. ByName(m) # null /\ oldPorts'[m] = LatestOf(m)
      BY <2>1, <2>2
    <3>2. \E o \in Registered : PortName[o] = m
      BY <3>1, ByNameFinds
    <3>3. QED BY <3>1, <3>2, LatestFinds
  <2>3. QED BY <2>1, <2>2 DEF OldNamed
<1>4. ASSUME NEW t \in Threads, Add(t) PROVE OldNamed'
  <2>1. AddPortName(Candidates[at[t]]) /\ Candidates[at[t]] \in Names /\ oldPorts' = oldPorts
    BY <1>4, SomeName DEF Add, scanVars
  <2>2. PICK new \in Identifiers : /\ PortName' = [PortName EXCEPT ![new] = Candidates[at[t]]]
                                   /\ \A m \in Names : oldPorts[m] # new
    BY <1>y, <2>1, Added
  <2>3. \A m \in Names : PortName'[oldPorts[m]] = PortName[oldPorts[m]]
    BY <1>y, <2>2
  <2>4. QED BY <2>1, <2>3 DEF OldNamed
<1>5. ASSUME NEW t \in Threads, EndRescan(t) PROVE OldNamed'
  <2>1. oldPorts' = [n \in Names |-> null]
    BY <1>5 DEF EndRescan
  <2>2. QED BY <2>1 DEF OldNamed
<1>6. ASSUME NEW n \in Pluggable, Plug(n) PROVE OldNamed'
  BY <1>6 DEF Plug, listVars, scanVars, OldNamed
<1>7. QED
  BY <1>1, <1>2, <1>3, <1>4, <1>5, <1>6 DEF Next, Continue

(* initialize() tries each name once, as the listing of /dev gives them; the *)
(* property ac.bali.serial.SerialPorts could name a port twice, and then the *)
(* restored list does not end.                                               *)
NoNameTwice == \A i, j \in 1 .. Len(Candidates) : Candidates[i] = Candidates[j] => i = j

LEMMA StepListed == NoNameTwice /\ Types /\ OldNamed /\ Listed /\ [Next]_vars => Listed'
<1> SUFFICES ASSUME NoNameTwice, Types, OldNamed, Listed, [Next]_vars PROVE Listed'
  OBVIOUS
<1>0. PICK n \in Nat : \E s \in [1 .. n -> Identifiers] : Linked(n, s) /\ Restoration(n, s)
  BY DEF Listed
<1>s. PICK s \in [1 .. n -> Identifiers] : Linked(n, s) /\ Restoration(n, s)
  BY <1>0
<1>y. /\ PortName \in [Identifiers -> Names \cup {null}] /\ oldPorts \in [Names -> Maybe]
      /\ pc \in [Threads -> Places] /\ at \in [Threads -> 1 .. Len(Candidates) + 1]
      /\ Pointers /\ Turns
  BY DEF Types, References, Control
<1>l. Registered = {s[i] : i \in 1 .. n} /\ Ends
  BY <1>s, ListEnds
<1>k. ASSUME UNCHANGED <<CommPortIndex, next>> PROVE Linked(n, s)'
  BY <1>s, <1>k DEF Linked
<1>w. ASSUME Linked(n, s)', Restoration(n, s)' PROVE Listed'
  BY <1>w DEF Listed
<1>r. ASSUME UNCHANGED <<listVars, scanVars>>,
             \A t \in Threads : Sync' = t =>
               /\ pc'[t] \in Trying \cup {"restore", "rescanned"} => Sync = t /\ pc'[t] \in Trying
               /\ pc'[t] \in Trying => pc[t] \in Trying /\ at[t] <= at'[t] /\ at'[t] \in Nat
      PROVE  Listed'
  <2>1. Linked(n, s)'
    BY <1>k, <1>r DEF listVars
  <2>2. ASSUME NEW t \in Threads, Sync' = t, pc'[t] \in Trying PROVE Built(t, n, s)'
    <3>1. Built(t, n, s) /\ at[t] <= at'[t] /\ at'[t] \in Nat /\ at[t] \in Nat
      BY <1>s, <1>r, <1>y, <2>2 DEF Restoration
    <3>2. Differ(n, s)'
      BY <1>r, <3>1 DEF Built, Differ, listVars
    <3>3. ASSUME NEW i \in 1 .. n
          PROVE  /\ New(s[i])'
                 /\ \E j \in 1 .. Len(Candidates) : j < at'[t] /\ PortName'[s[i]] = Candidates[j]
      <4>1. PICK j \in 1 .. Len(Candidates) : j < at[t] /\ PortName[s[i]] = Candidates[j]
        BY <3>1 DEF Built
      <4>2. j < at'[t]
        BY <3>1, <4>1
      <4>3. QED BY <1>r, <3>1, <4>1, <4>2 DEF Built, New, listVars, scanVars
    <3>4. QED BY <3>2, <3>3 DEF Built
  <2>3. Restoration(n, s)'
    BY <1>r, <2>2 DEF Restoration, Trying
  <2>4. QED BY <1>w, <2>1, <2>3
<1>q. ASSUME UNCHANGED <<listVars, scanVars, Sync, at>>,
             \A t \in Threads : Sync = t => pc'[t] = pc[t]
      PROVE  Listed'
  <2>1. Linked(n, s)'
    BY <1>k, <1>q DEF listVars
  <2>2. \A t \in Threads : (Built(t, n, s) => Built(t, n, s)') /\ (Walked(n, s) => Walked(n, s)')
                           /\ (Differ(n, s) => Differ(n, s)')
    BY <1>q DEF Built, Walked, Differ, New, Settled, listVars, scanVars
  <2>3. \A i \in 1 .. n : Settled(s[i]) => Settled(s[i])'
    BY <1>q DEF Settled, listVars, scanVars
  <2>4. Restoration(n, s)'
    BY <1>s, <1>q, <2>2, <2>3 DEF Restoration
  <2>5. QED BY <1>w, <2>1, <2>4
<1>1. CASE UNCHANGED vars
  BY <1>1, <1>q DEF vars, locVars
<1>2. ASSUME NEW t \in Threads, (\E m \in Wanted : LookUp(t, m)) \/ Enumerate(t) \/ DriverRescan(t)
      PROVE  Listed'
  <2>1. UNCHANGED <<listVars, scanVars>>
    BY <1>2 DEF LookUp, Enumerate, DriverRescan
  <2>2. Sync = null /\ (Sync' = null \/ (Sync' = t /\ pc'[t] = "rescan"))
    <3>1. CASE \E m \in Wanted : LookUp(t, m)
      <4>0. PICK m \in Wanted : LookUp(t, m)
        BY <3>1
      <4>1. Sync = null /\ (Sync' = Sync \/ (Sync' = t /\ Goto(t, "rescan")))
        BY <4>0 DEF LookUp
      <4>2. QED BY <1>y, <4>1 DEF Goto
    <3>2. CASE Enumerate(t)
      BY <1>y, <3>2 DEF Enumerate, Goto
    <3>3. CASE DriverRescan(t)
      BY <1>y, <3>3 DEF DriverRescan, Goto
    <3>4. QED BY <1>2, <3>1, <3>2, <3>3
  <2>3. QED BY <1>r, <2>1, <2>2, NullIsNew DEF Trying
<1>3. ASSUME NEW t \in Threads, \/ DriverScan(t) \/ Open(t) \/ Lock(t) \/ Configure(t) \/ Unreserve(t)
                                \/ Close(t) \/ FindSelf(t) \/ Release(t)
      PROVE  Listed'
  <2>1. UNCHANGED <<listVars, scanVars, Sync, at>>
    BY <1>3 DEF DriverScan, Open, Lock, Configure, Unreserve, Close, FindSelf, Release, locVars
  <2>2. pc[t] \notin Rescanning \cup Trying /\ \A u \in Threads \ {t} : pc'[u] = pc[u]
    BY <1>3, <1>y DEF DriverScan, Open, Lock, Configure, Unreserve, Close, FindSelf, Release,
                      MayCall, Goto, Rescanning, Trying
  <2>3. Sync # t
    BY <1>y, <2>2 DEF Turns, Trying
  <2>4. QED BY <1>q, <2>1, <2>2, <2>3
<1>4. ASSUME NEW t \in Threads, BeginRescan(t) PROVE Listed'
  <2> DEFINE e == [i \in 1 .. 0 |-> null]
  <2>1. CommPortIndex' = null /\ pc'[t] = "test" /\ Sync = t /\ Sync' = t
    BY <1>4, <1>y DEF BeginRescan, Goto, Turns, Rescanning
  <2>2. e \in [1 .. 0 -> Identifiers] /\ \A i \in 1 .. 0 : FALSE
    OBVIOUS
  <2> HIDE DEF e
  <2>3. Linked(0, e)'
    BY <2>1, <2>2 DEF Linked
  <2>4. Restoration(0, e)'
    <3>1. \A u \in Threads : Built(u, 0, e)'
      BY <2>2 DEF Built, Differ
    <3>2. QED BY <2>1, <3>1 DEF Restoration
  <2>5. QED BY <2>2, <2>3, <2>4 DEF Listed
<1>5. ASSUME NEW t \in Threads, TestRead(t) \/ Probe(t) PROVE Listed'
  <2>1. UNCHANGED <<listVars, scanVars, Sync>> /\ pc[t] \in Trying /\ pc'[t] \in Trying
    BY <1>5, <1>y DEF TestRead, Probe, Goto, Trying
  <2>2. \A u \in Threads \ {t} : pc'[u] = pc[u] /\ at'[u] = at[u]
    BY <1>5, <1>y DEF TestRead, Probe, Goto, Set
  <2>3. at[t] \in Nat /\ (at' = at \/ at' = [at EXCEPT ![t] = at[t] + 1])
    BY <1>5, <1>y DEF TestRead, Probe, Set
  <2>4. at[t] <= at'[t] /\ at'[t] \in Nat
    BY <1>y, <2>3
  <2>5. CASE Sync = t
    <3>1. \A u \in Threads : Sync' = u => u = t
      BY <2>1, <2>5
    <3>2. QED BY <1>r, <2>1, <2>4, <2>5, <3>1 DEF Trying
  <2>6. CASE Sync # t
    <3>1. Linked(n, s)'
      BY <1>k, <2>1 DEF listVars
    <3>2. ASSUME NEW u \in Threads, Sync' = u
          PROVE  /\ pc'[u] = pc[u] /\ (Built(u, n, s) => Built(u, n, s)') /\ Sync = u
                 /\ (Walked(n, s) => Walked(n, s)') /\ (Differ(n, s) => Differ(n, s)')
      <4>1. Sync = u /\ pc'[u] = pc[u] /\ at'[u] = at[u]
        BY <2>1, <2>2, <2>6, <3>2
      <4>2. QED BY <2>1, <4>1 DEF Built, Walked, Differ, New, Settled, listVars, scanVars
    <3>3. \A i \in 1 .. n : Settled(s[i]) => Settled(s[i])'
      BY <2>1 DEF Settled, listVars, scanVars
    <3>4. Restoration(n, s)'
      BY <1>s, <3>2, <3>3 DEF Restoration
    <3>5. QED BY <1>w, <3>1, <3>4
  <2>7. QED BY <2>5, <2>6
<1>6. ASSUME NEW t \in Threads, Add(t) PROVE Listed'
  <2> DEFINE name == Candidates[at[t]]
  <2>1. /\ name \in Names /\ at[t] \in 1 .. Len(Candidates) /\ AddPortName(name)
        /\ pc[t] = "add" /\ pc'[t] = "test" /\ Sync \in {t, null} /\ Sync' = Sync
        /\ at'[t] = at[t] + 1 /\ UNCHANGED scanVars
    BY <1>6, <1>y, SomeName DEF Add, Goto, Set
  <2> HIDE DEF name
  <2>2. PICK new \in Identifiers :
           /\ new \notin Registered
           /\ \A m \in Names : oldPorts[m] # new
           /\ PortName' = [PortName EXCEPT ![new] = name]
           /\ next'[new] = null
           /\ \/ /\ CommPortIndex = null /\ CommPortIndex' = new
                 /\ \A o \in Identifiers \ {new} : next'[o] = next[o]
              \/ /\ CommPortIndex # null /\ CommPortIndex' = CommPortIndex
                 /\ \E last \in Registered :
                      /\ next[last] = null /\ next'[last] = new
                      /\ \A o \in Identifiers \ {new, last} : next'[o] = next[o]
    BY <1>y, <2>1, Added
  <2> DEFINE s2 == [i \in 1 .. n + 1 |-> IF i = n + 1 THEN new ELSE s[i]]
  <2>3. /\ s2 \in [1 .. n + 1 -> Identifiers] /\ s2[n + 1] = new
        /\ \A i \in 1 .. n : s2[i] = s[i] /\ i \in 1 .. n + 1 /\ i # n + 1
        /\ \A i \in 1 .. n + 1 : i \in 1 .. n \/ i = n + 1
        /\ n + 1 \in Nat /\ n + 1 # 0 /\ 1 \in 1 .. n + 1
    OBVIOUS
  <2>4. \A i \in 1 .. n : s[i] # new /\ s[i] \in Identifiers
    BY <1>l, <2>2
  <2>5. PortName'[new] = name /\ \A i \in 1 .. n : PortName'[s[i]] = PortName[s[i]]
    BY <1>y, <2>2, <2>4
  <2> HIDE DEF s2
  <2>6. /\ CommPortIndex' = s2[1]
        /\ \A i \in 1 .. n : next'[s[i]] = IF i = n THEN new ELSE s[i + 1]
    <3>1. CASE n = 0
      <4>1. CommPortIndex = null
        BY <1>s, <3>1 DEF Linked
      <4>2. QED BY <2>2, <2>3, <3>1, <4>1
    <3>2. CASE n # 0
      <4>1. 1 \in 1 .. n /\ CommPortIndex = s[1] /\ s[1] # null
        BY <1>s, <2>4, <3>2, NullIsNew DEF Linked
      <4>2. CommPortIndex' = s2[1]
        BY <2>2, <2>3, <4>1
      <4>3. PICK last \in Registered : /\ next[last] = null /\ next'[last] = new
                                       /\ \A o \in Identifiers \ {new, last} : next'[o] = next[o]
        BY <2>2, <4>1
      <4>4. PICK l \in 1 .. n : last = s[l]
        BY <1>l
      <4>5. l = n
        <5>1. CASE l # n
          <6>1. l + 1 \in 1 .. n
            BY <5>1
          <6>2. next[s[l]] = s[l + 1] /\ s[l + 1] # null
            BY <1>s, <2>4, <5>1, <6>1, NullIsNew DEF Linked
          <6>3. QED BY <4>3, <4>4, <6>2
        <5>2. QED BY <5>1
      <4>6. ASSUME NEW i \in 1 .. n PROVE next'[s[i]] = IF i = n THEN new ELSE s[i + 1]
        <5>1. CASE i = n
          BY <4>3, <4>4, <4>5, <5>1
        <5>2. CASE i # n
          <6>1. s[i] # last
            BY <1>s, <4>4, <4>5, <5>2 DEF Linked
          <6>2. next'[s[i]] = next[s[i]]
            BY <2>4, <4>3, <6>1
          <6>3. QED BY <1>s, <5>2, <6>2 DEF Linked
        <5>3. QED BY <5>1, <5>2
      <4>7. QED BY <4>2, <4>6
    <3>3. QED BY <3>1, <3>2
  <2>7. Linked(n + 1, s2)'
    <3>1. \A i, j \in 1 .. n + 1 : s2[i] = s2[j] => i = j
      BY <1>s, <2>3, <2>4 DEF Linked
    <3>2. ASSUME NEW i \in 1 .. n + 1
          PROVE  next'[s2[i]] = IF i = n + 1 THEN null ELSE s2[i + 1]
      <4>1. CASE i = n + 1
        BY <2>2, <2>3, <4>1
      <4>2. CASE i \in 1 .. n
        <5>1. next'[s2[i]] = IF i = n THEN new ELSE s[i + 1]
          BY <2>3, <2>6, <4>2
        <5>2. i # n => i + 1 \in 1 .. n
          BY <4>2
        <5>3. QED BY <2>3, <4>2, <5>1, <5>2
      <4>3. QED BY <2>3, <4>1, <4>2
    <3>3. QED BY <2>3, <2>6, <3>1, <3>2 DEF Linked
  <2>8. ASSUME NEW u \in Threads, Sync' = u PROVE u = t /\ Built(t, n + 1, s2)'
    <3>1. u = t /\ Sync = t
      BY <2>1, <2>8, NullIsNew
    <3>2. Built(t, n, s)
      BY <1>s, <2>1, <3>1 DEF Restoration, Trying
    <3>3. /\ PortName'[s2[n + 1]] = Candidates[at[t]]
          /\ \A i \in 1 .. n : \E j \in 1 .. Len(Candidates) :
               j < at[t] /\ PortName'[s2[i]] = Candidates[j]
      BY <2>3, <2>5, <3>2 DEF Built, name
    <3>4. Differ(n + 1, s2)'
      <4>1. \A i \in 1 .. n : PortName'[s2[i]] # PortName'[s2[n + 1]]
        <5> SUFFICES ASSUME NEW i \in 1 .. n PROVE PortName'[s2[i]] # PortName'[s2[n + 1]]
          OBVIOUS
        <5>1. PICK j \in 1 .. Len(Candidates) : j < at[t] /\ PortName'[s2[i]] = Candidates[j]
          BY <3>3
        <5>2. j # at[t]
          BY <2>1, <5>1
        <5>3. QED BY <2>1, <3>3, <5>1, <5>2 DEF NoNameTwice
      <4>2. \A i, j \in 1 .. n : PortName'[s2[i]] = PortName'[s2[j]] => i = j
        <5> SUFFICES ASSUME NEW i \in 1 .. n, NEW j \in 1 .. n, PortName'[s2[i]] = PortName'[s2[j]]
                     PROVE  i = j
          OBVIOUS
        <5>1. PortName[s[i]] = PortName[s[j]]
          BY <2>3, <2>5
        <5>2. QED BY <3>2, <5>1 DEF Built, Differ
      <4>3. QED BY <2>3, <4>1, <4>2 DEF Differ
    <3>5. \A i \in 1 .. n + 1 : New(s2[i])'
      BY <2>1, <2>2, <2>3, <3>2, SMTT(30) DEF Built, New, scanVars
    <3>6. ASSUME NEW i \in 1 .. n + 1
          PROVE  \E j \in 1 .. Len(Candidates) : j < at'[t] /\ PortName'[s2[i]] = Candidates[j]
      <4>1. CASE i = n + 1
        BY <2>1, <3>3, <4>1
      <4>2. CASE i \in 1 .. n
        <5>1. PICK j \in 1 .. Len(Candidates) : j < at[t] /\ PortName'[s2[i]] = Candidates[j]
          BY <3>3, <4>2
        <5>2. j < at'[t]
          BY <2>1, <5>1
        <5>3. QED BY <5>1, <5>2
      <4>3. QED BY <2>3, <4>1, <4>2
    <3>7. QED BY <3>1, <3>4, <3>5, <3>6 DEF Built
  <2>9. Restoration(n + 1, s2)'
    BY <2>1, <2>8 DEF Restoration
  <2>10. QED BY <2>3, <2>7, <2>9 DEF Listed
<1>7. ASSUME NEW t \in Threads, BeginRestore(t) PROVE Listed'
  <2>1. /\ pc[t] = "test" /\ Sync = t /\ Sync' = t /\ UNCHANGED <<listVars, oldPorts>>
        /\ curPort' = CommPortIndex /\ prevPort' = null /\ pc'[t] = "restore"
    BY <1>7, <1>y DEF BeginRestore, Goto
  <2>2. Linked(n, s)'
    BY <1>k, <2>1 DEF listVars
  <2>3. Built(t, n, s)
    BY <1>s, <2>1 DEF Restoration, Trying
  <2>4. Walked(n, s)'
    <3>1. Differ(n, s)'
      BY <2>1, <2>3 DEF Built, Differ, listVars
    <3>2. /\ curPort' = IF 1 = n + 1 THEN null ELSE s[1]
          /\ 1 \in 1 .. n + 1
      BY <1>s, <2>1 DEF Linked
    <3>3. \A i \in 1 .. n : ~(i < 1) /\ New(s[i])'
      BY <2>1, <2>3 DEF Built, New
    <3>4. QED BY <2>1, <3>1, <3>2, <3>3 DEF Walked
  <2>5. Restoration(n, s)'
    BY <2>1, <2>4 DEF Restoration, Trying
  <2>6. QED BY <1>w, <2>2, <2>5
<1>8. ASSUME NEW t \in Threads, Restore(t) PROVE Listed'
  <2> DEFINE old == oldPorts[PortName[curPort]]
  <2>1. /\ curPort \in Identifiers /\ PortName[curPort] \in Names
        /\ curPort' = next'[curPort]
        /\ IF old = null
           THEN prevPort' = curPort /\ UNCHANGED <<CommPortIndex, next>>
           ELSE /\ old \in Identifiers
                /\ prevPort' = old
                /\ CommPortIndex' = IF prevPort = null THEN old ELSE CommPortIndex
                /\ \A o \in Identifiers :
                     next'[o] = IF o = prevPort THEN old
                                ELSE IF o = old THEN next[curPort] ELSE next[o]
    BY <1>8, Restored
  <2>2. /\ pc[t] = "restore" /\ Sync = t /\ Sync' = t /\ pc' = pc
        /\ UNCHANGED <<PortName, oldPorts>>
    BY <1>8, <1>y DEF Restore, Turns, Rescanning
  <2>3. PICK k \in 1 .. n + 1 :
          /\ curPort = IF k = n + 1 THEN null ELSE s[k]
          /\ prevPort = IF k = 1 THEN null ELSE s[k - 1]
          /\ \A i \in 1 .. n : IF i < k THEN Settled(s[i]) ELSE New(s[i])
    BY <1>s, <2>2 DEF Restoration, Walked
  <2>4. Differ(n, s)
    BY <1>s, <2>2 DEF Restoration, Walked
  <2>5. k \in 1 .. n /\ curPort = s[k]
    BY <2>1, <2>3, NullIsNew
  <2>6. next[s[k]] = IF k = n THEN null ELSE s[k + 1]
    BY <1>s, <2>5 DEF Linked
  <2> HIDE DEF old
  <2>7. ASSUME NEW r \in [1 .. n -> Identifiers],
               r[k] = prevPort', \A i \in 1 .. n : i # k => r[i] = s[i],
               PortName[r[k]] = PortName[s[k]], Settled(r[k]),
               curPort' = IF k = n THEN null ELSE s[k + 1],
               Linked(n, r)'
        PROVE  Listed'
    <3>1. \A i \in 1 .. n : PortName[r[i]] = PortName[s[i]]
      BY <2>7
    <3>2. Differ(n, r)'
      BY <2>2, <2>4, <3>1 DEF Differ
    <3>3. /\ k + 1 \in 1 .. n + 1 /\ k + 1 # 1 /\ (k + 1) - 1 = k /\ (k + 1 = n + 1 <=> k = n)
          /\ k # n => k + 1 \in 1 .. n /\ k + 1 # k
      BY <2>5
    <3>4. /\ curPort' = IF k + 1 = n + 1 THEN null ELSE r[k + 1]
          /\ prevPort' = IF k + 1 = 1 THEN null ELSE r[(k + 1) - 1]
      BY <2>7, <3>3
    <3>5. ASSUME NEW i \in 1 .. n PROVE IF i < k + 1 THEN Settled(r[i])' ELSE New(r[i])'
      <4>1. CASE i = k
        <5>1. i < k + 1 /\ Settled(r[i])'
          BY <2>2, <2>5, <2>7, <4>1 DEF Settled
        <5>2. QED BY <5>1
      <4>2. CASE i # k
        <5>1. r[i] = s[i] /\ (i < k + 1 <=> i < k)
          BY <2>5, <2>7, <4>2
        <5>2. QED BY <2>2, <2>3, <5>1 DEF Settled, New
      <4>3. QED BY <4>1, <4>2
    <3>6. Walked(n, r)'
      BY <3>2, <3>3, <3>4, <3>5 DEF Walked
    <3>7. Restoration(n, r)'
      BY <2>2, <3>6 DEF Restoration, Trying
    <3>8. QED BY <2>7, <3>7 DEF Listed
  <2>8. CASE old = null
    <3>1. Linked(n, s)' /\ prevPort' = s[k] /\ curPort' = IF k = n THEN null ELSE s[k + 1]
      BY <1>k, <2>1, <2>5, <2>6, <2>8
    <3>2. Settled(s[k])
      BY <2>5, <2>8 DEF Settled, old
    <3>3. QED BY <2>7, <3>1, <3>2
  <2>9. CASE old # null
    <3>1. old \in Identifiers /\ PortName[old] = PortName[s[k]]
      BY <2>1, <2>5, <2>9 DEF old, OldNamed
    <3>2. Settled(old)
      BY <2>5, <3>1 DEF Settled, old
    <3>3. \A i \in 1 .. n : s[i] # old
      <4> SUFFICES ASSUME NEW i \in 1 .. n, s[i] = old PROVE FALSE
        OBVIOUS
      <4>1. i = k
        BY <2>4, <2>5, <3>1 DEF Differ
      <4>2. ~New(s[k])
        BY <2>1, <4>1 DEF New, old
      <4>3. QED BY <2>3, <2>5, <4>2
    <3>4. PICK r \in [1 .. n -> Identifiers] : r[k] = old /\ \A i \in 1 .. n : i # k => r[i] = s[i]
      <4> DEFINE f == [i \in 1 .. n |-> IF i = k THEN old ELSE s[i]]
      <4>1. f \in [1 .. n -> Identifiers] /\ f[k] = old /\ \A i \in 1 .. n : i # k => f[i] = s[i]
        BY <2>5, <3>1
      <4> HIDE DEF f
      <4>2. QED BY <4>1
    <3>5. \A i, j \in 1 .. n : r[i] = r[j] => i = j
      BY <1>s, <3>3, <3>4 DEF Linked
    <3>6. CommPortIndex' = r[1] /\ n # 0
      <4>1. 1 \in 1 .. n /\ n # 0
        BY <2>5
      <4>2. CASE k = 1
        BY <2>1, <2>3, <2>9, <3>4, <4>1, <4>2
      <4>3. CASE k # 1
        <5>1. k - 1 \in 1 .. n /\ prevPort = s[k - 1]
          BY <2>3, <2>5, <4>3
        <5>2. prevPort # null
          BY <5>1, NullIsNew
        <5>3. CommPortIndex' = CommPortIndex
          BY <2>1, <2>9, <5>2
        <5>4. CommPortIndex = s[1] /\ r[1] = s[1]
          BY <1>s, <3>4, <4>1, <4>3 DEF Linked
        <5>5. QED BY <4>1, <5>3, <5>4
      <4>4. QED BY <4>2, <4>3
    <3>7. curPort' = IF k = n THEN null ELSE s[k + 1]
      <4>1. curPort # old /\ curPort # prevPort
        <5>1. CASE k = 1
          BY <2>1, <2>3, <2>5, <3>3, <5>1, NullIsNew
        <5>2. CASE k # 1
          <6>1. k - 1 \in 1 .. n /\ k - 1 # k /\ prevPort = s[k - 1]
            BY <2>3, <2>5, <5>2
          <6>2. QED BY <1>s, <2>5, <3>3, <6>1 DEF Linked
        <5>3. QED BY <5>1, <5>2
      <4>2. next'[curPort] = next[curPort]
        BY <2>1, <2>9, <4>1
      <4>3. QED BY <2>1, <2>5, <2>6, <4>2
    <3>8. ASSUME NEW i \in 1 .. n PROVE next'[r[i]] = IF i = n THEN null ELSE r[i + 1]
      <4>0. next'[r[i]] = IF r[i] = prevPort THEN old
                          ELSE IF r[i] = old THEN next[curPort] ELSE next[r[i]]
        BY <2>1, <2>9, <3>4
      <4>1. CASE i = k
        <5>1. r[i] = old
          BY <3>4, <4>1
        <5>2. old # prevPort
          <6>1. CASE k = 1
            BY <2>3, <2>9, <6>1
          <6>2. CASE k # 1
            <7>1. k - 1 \in 1 .. n /\ prevPort = s[k - 1]
              BY <2>3, <2>5, <6>2
            <7>2. QED BY <3>3, <7>1
          <6>3. QED BY <6>1, <6>2
        <5>3. next'[r[i]] = IF k = n THEN null ELSE s[k + 1]
          BY <2>5, <2>6, <4>0, <5>1, <5>2
        <5>4. k # n => k + 1 \in 1 .. n /\ k + 1 # k
          BY <2>5
        <5>5. k # n => r[k + 1] = s[k + 1]
          BY <3>4, <5>4
        <5>6. QED BY <4>1, <5>3, <5>5
      <4>2. CASE i # k /\ i + 1 = k
        <5>1. k # 1 /\ k - 1 = i
          BY <2>5, <4>2
        <5>2. r[i] = s[i] /\ prevPort = s[i]
          BY <2>3, <3>4, <4>2, <5>1
        <5>3. i # n
          BY <2>5, <4>2
        <5>4. QED BY <3>4, <4>0, <4>2, <5>2, <5>3
      <4>3. CASE i # k /\ i + 1 # k
        <5>1. r[i] = s[i] /\ r[i] # old
          BY <3>3, <3>4, <4>3
        <5>2. r[i] # prevPort
          <6>1. CASE k = 1
            BY <2>3, <3>4, <6>1, NullIsNew
          <6>2. CASE k # 1
            <7>1. k - 1 \in 1 .. n /\ prevPort = s[k - 1] /\ k - 1 # i
              BY <2>3, <2>5, <4>3, <6>2
            <7>2. QED BY <1>s, <5>1, <7>1 DEF Linked
          <6>3. QED BY <6>1, <6>2
        <5>3. next'[r[i]] = IF i = n THEN null ELSE s[i + 1]
          BY <1>s, <4>0, <5>1, <5>2 DEF Linked
        <5>4. i # n => i + 1 \in 1 .. n
          OBVIOUS
        <5>5. QED BY <3>4, <4>3, <5>3, <5>4
      <4>4. QED BY <4>1, <4>2, <4>3
    <3>9. Linked(n, r)'
      BY <3>5, <3>6, <3>8 DEF Linked
    <3>10. r[k] = prevPort' /\ PortName[r[k]] = PortName[s[k]] /\ Settled(r[k])
      BY <2>1, <2>9, <3>1, <3>2, <3>4
    <3>11. QED BY <2>7, <3>4, <3>7, <3>9, <3>10
  <2>10. QED BY <2>8, <2>9
<1>9. ASSUME NEW t \in Threads, EndRestore(t) PROVE Listed'
  <2>1. /\ pc[t] = "restore" /\ Sync = t /\ Sync' = t /\ UNCHANGED <<listVars, scanVars>>
        /\ curPort = null /\ pc'[t] = "rescanned"
    BY <1>9, <1>y DEF EndRestore, Goto, Turns, Rescanning
  <2>2. Linked(n, s)'
    BY <1>k, <2>1 DEF listVars
  <2>3. PICK k \in 1 .. n + 1 :
          /\ curPort = IF k = n + 1 THEN null ELSE s[k]
          /\ \A i \in 1 .. n : IF i < k THEN Settled(s[i]) ELSE New(s[i])
    BY <1>s, <2>1 DEF Restoration, Walked
  <2>4. k = n + 1
    <3>1. CASE k # n + 1
      <4>1. k \in 1 .. n /\ s[k] = null
        BY <2>1, <2>3, <3>1
      <4>2. QED BY <4>1, NullIsNew
    <3>2. QED BY <3>1
  <2>5. \A i \in 1 .. n : Settled(s[i])
    BY <2>3, <2>4
  <2>6. Differ(n, s)
    BY <1>s, <2>1 DEF Restoration, Walked
  <2>7. Differ(n, s)' /\ \A i \in 1 .. n : Settled(s[i])'
    BY <2>1, <2>5, <2>6 DEF Differ, Settled, listVars, scanVars
  <2>8. Restoration(n, s)'
    BY <2>1, <2>7 DEF Restoration, Trying
  <2>9. QED BY <1>w, <2>2, <2>8
<1>10. ASSUME NEW t \in Threads, EndRescan(t) PROVE Listed'
  <2>1. Sync' = null /\ CommPortIndex' = CommPortIndex
    BY <1>10 DEF EndRescan
  <2>2. next' = [o \in Identifiers |-> IF o \in Registered THEN next[o] ELSE null]
    BY <1>10 DEF EndRescan
  <2>3. \A i \in 1 .. n : next'[s[i]] = next[s[i]]
    BY <1>l, <2>2
  <2>4. Linked(n, s)'
    BY <1>s, <2>1, <2>3 DEF Linked
  <2>5. Restoration(n, s)'
    BY <2>1, NullIsNew DEF Restoration
  <2>6. QED BY <1>w, <2>4, <2>5
<1>11. ASSUME NEW m \in Pluggable, Plug(m) PROVE Listed'
  BY <1>11, <1>q DEF Plug, locVars
<1>12. QED
  BY <1>1, <1>2, <1>3, <1>4, <1>5, <1>6, <1>7, <1>8, <1>9, <1>10, <1>11 DEF Next, Continue

(* A rescan that tries each name once never leaves a list that does not end, *)
(* and it leaves each name once, with the identifier that clients know if    *)
(* they know one: whatever other threads open, close, test and look up       *)
(* meanwhile, and whatever a scan without the lock added to the list before. *)
THEOREM RescanKeepsIdentifiers == ASSUME NoNameTwice PROVE Spec => []RescanRestores
<1>1. Init => OldNamed /\ Listed
  <2> SUFFICES ASSUME Init PROVE OldNamed /\ Listed
    OBVIOUS
  <2>1. OldNamed
    BY DEF Init, OldNamed
  <2> DEFINE e == [i \in 1 .. 0 |-> null]
  <2>2. e \in [1 .. 0 -> Identifiers] /\ \A i \in 1 .. 0 : FALSE
    OBVIOUS
  <2> HIDE DEF e
  <2>3. Linked(0, e)
    BY <2>2 DEF Linked, Init
  <2>4. Restoration(0, e)
    BY NullIsNew DEF Restoration, Init
  <2>5. QED BY <2>1, <2>2, <2>3, <2>4 DEF Listed
<1>2. Types /\ OldNamed /\ Listed /\ [Next]_vars => (OldNamed /\ Listed)'
  BY StepOldNamed, StepListed
<1>3. Types /\ Listed => RescanRestores
  <2> SUFFICES ASSUME Types, Listed PROVE RescanRestores
    OBVIOUS
  <2>1. PICK n \in Nat : \E s \in [1 .. n -> Identifiers] : Linked(n, s) /\ Restoration(n, s)
    BY DEF Listed
  <2>2. PICK s \in [1 .. n -> Identifiers] : Linked(n, s) /\ Restoration(n, s)
    BY <2>1
  <2>3. Registered = {s[i] : i \in 1 .. n} /\ Ends
    BY <2>2, ListEnds
  <2>4. ASSUME NEW t \in Threads, pc[t] = "rescanned"
        PROVE  \A o \in Registered :
                 /\ oldPorts[PortName[o]] \in {o, null}
                 /\ \A p \in Registered : PortName[o] = PortName[p] => o = p
    <3>1. Sync = t
      BY <2>4 DEF Types, Turns, Rescanning
    <3>2. Differ(n, s) /\ \A i \in 1 .. n : Settled(s[i])
      BY <2>2, <2>4, <3>1 DEF Restoration
    <3>3. QED BY <2>3, <3>2 DEF Differ, Settled
  <2>5. QED BY <2>3, <2>4 DEF RescanRestores
<1>4. QED BY <1>1, <1>2, <1>3, TypesHold, PTL DEF Spec
===============================================================================
