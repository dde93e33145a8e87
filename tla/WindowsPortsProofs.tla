------------------------- MODULE WindowsPortsProofs -------------------------
(***************************************************************************)
(* Proofs about WindowsPorts for any number of threads, ports, parameters   *)
(* and flow modes.                                                         *)
(***************************************************************************)
EXTENDS WindowsPorts, FiniteSetTheorems, SequenceTheorems, TLAPS

-----------------------------------------------------------------------------
(* Least numbers and induction *)

LEMMA Least ==
  ASSUME NEW S \in SUBSET Nat, S # {}
  PROVE  Min(S) \in S /\ \A k \in S : Min(S) <= k
<1> DEFINE R == OpToRel(<, Nat)
<1>1. IsWellFoundedOn(R, Nat)
  BY NatLessThanWellFounded
<1>2. \A x, y \in Nat : x < y => <<x, y>> \in R
  BY DEF OpToRel
<1> HIDE DEF R
<1>3. PICK m \in S : \A k \in S : ~(<<k, m>> \in R)
  BY <1>1, WFMin
<1>4. \A k \in S : m <= k
  <2>1. \A k \in S : ~(k < m)
    BY <1>2, <1>3
  <2>2. QED BY <2>1
<1>5. QED BY <1>4, Zenon DEF Min

LEMMA Induction ==
  ASSUME NEW S \in SUBSET Nat, 0 \in S, \A n \in S : n + 1 \in S
  PROVE  S = Nat
<1> SUFFICES ASSUME Nat \ S # {} PROVE FALSE
  OBVIOUS
<1>1. PICK m \in Nat \ S : \A k \in Nat \ S : m <= k
  BY Least, Nat \ S \in SUBSET Nat
<1>2. m # 0 /\ m - 1 \in S
  BY <1>1
<1>3. QED BY <1>1, <1>2
-----------------------------------------------------------------------------
(* Operations on the list, which has every port once *)

Lists == {s \in Seq(Names) : IsInjective(s)}

LEMMA ListTypes ==
  ASSUME NEW s \in Lists
  PROVE  /\ Len(s) \in Nat /\ DOMAIN s = 1 .. Len(s) /\ s \in Seq(Names)
         /\ \A i \in 1 .. Len(s) : s[i] \in Names
         /\ \A i, j \in 1 .. Len(s) : s[i] = s[j] => i = j
         /\ ToSet(s) \subseteq Names
         /\ \A n : n \in ToSet(s) <=> \E i \in 1 .. Len(s) : s[i] = n
         /\ s = <<>> <=> Len(s) = 0
<1>1. s \in Seq(Names) /\ IsInjective(s)
  BY DEF Lists
<1>2. Len(s) \in Nat /\ DOMAIN s = 1 .. Len(s) /\ \A i \in 1 .. Len(s) : s[i] \in Names
  BY <1>1, LenProperties, ElementOfSeq
<1>3. s = <<>> <=> Len(s) = 0
  BY <1>1, EmptySeq
<1>4. QED BY <1>1, <1>2, <1>3 DEF IsInjective, ToSet

LEMMA IsList ==
  ASSUME NEW s \in Seq(Names), \A i, j \in 1 .. Len(s) : s[i] = s[j] => i = j
  PROVE  s \in Lists
BY LenProperties DEF Lists, IsInjective

(* A list that does not have all ports is shorter than the set of ports.    *)
LEMMA Shorter ==
  ASSUME NEW s \in Lists, NEW n \in Names \ ToSet(s)
  PROVE  Len(s) + 1 <= Cardinality(Names)
<1> DEFINE f == [i \in 1 .. Len(s) + 1 |-> IF i = Len(s) + 1 THEN n ELSE s[i]]
<1>1. f \in [1 .. Len(s) + 1 -> Names]
  BY ListTypes
<1>2. ASSUME NEW i \in 1 .. Len(s) + 1, NEW j \in 1 .. Len(s) + 1, f[i] = f[j] PROVE i = j
  BY <1>2, ListTypes
<1>3. f \in Injection(1 .. Len(s) + 1, Names)
  <2> HIDE DEF f
  <2>1. QED BY <1>1, <1>2 DEF Injection, IsInjective
<1>4. Cardinality(1 .. Len(s) + 1) = Len(s) + 1
  BY ListTypes, FS_Interval
<1>5. QED BY <1>3, <1>4, PortsFinite, FS_Injection

LEMMA ListInserted ==
  ASSUME NEW s \in Lists, NEW n \in Names \ ToSet(s), NEW i \in 1 .. Len(s) + 1
  PROVE  /\ InsertAt(s, i, n) \in Lists
         /\ Len(InsertAt(s, i, n)) = Len(s) + 1
         /\ \A j \in 1 .. Len(s) + 1 :
              InsertAt(s, i, n)[j] = IF j < i THEN s[j] ELSE IF j = i THEN n ELSE s[j - 1]
<1> DEFINE a == SubSeq(s, 1, i - 1)
           b == SubSeq(s, i, Len(s))
           r == InsertAt(s, i, n)
<1>0. Len(s) \in Nat /\ \A j \in 1 .. Len(s) : s[j] \in Names
  BY ListTypes
<1>1. a \in Seq(Names) /\ Len(a) = i - 1 /\ \A j \in 1 .. i - 1 : a[j] = s[j]
  <2>1. \A j \in 1 .. i - 1 : s[j] \in Names
    BY <1>0
  <2>2. /\ SubSeq(s, 1, i - 1) \in Seq(Names)
        /\ Len(SubSeq(s, 1, i - 1)) = IF 1 <= i - 1 THEN (i - 1) - 1 + 1 ELSE 0
        /\ \A j \in 1 .. (i - 1) - 1 + 1 : SubSeq(s, 1, i - 1)[j] = s[1 + j - 1]
    BY <2>1, SubSeqProperties
  <2>3. QED BY <2>2
<1>2. b \in Seq(Names) /\ Len(b) = Len(s) - i + 1 /\ \A j \in 1 .. Len(s) - i + 1 : b[j] = s[i + j - 1]
  <2>1. \A j \in i .. Len(s) : s[j] \in Names
    BY <1>0
  <2>2. /\ SubSeq(s, i, Len(s)) \in Seq(Names)
        /\ Len(SubSeq(s, i, Len(s))) = IF i <= Len(s) THEN Len(s) - i + 1 ELSE 0
        /\ \A j \in 1 .. Len(s) - i + 1 : SubSeq(s, i, Len(s))[j] = s[i + j - 1]
    BY <1>0, <2>1, SubSeqProperties
  <2>3. QED BY <1>0, <2>2
<1>3. <<n>> \in Seq(Names) /\ Len(<<n>>) = 1 /\ <<n>>[1] = n
  OBVIOUS
<1> HIDE DEF a, b
<1>4. /\ a \o <<n>> \in Seq(Names) /\ Len(a \o <<n>>) = i
      /\ \A j \in 1 .. i : (a \o <<n>>)[j] = IF j < i THEN s[j] ELSE n
  <2>1. /\ a \o <<n>> \in Seq(Names) /\ Len(a \o <<n>>) = Len(a) + Len(<<n>>)
        /\ \A j \in 1 .. Len(a) + Len(<<n>>) :
             (a \o <<n>>)[j] = IF j <= Len(a) THEN a[j] ELSE <<n>>[j - Len(a)]
    BY <1>1, <1>3, ConcatProperties
  <2>2. QED BY <1>1, <1>3, <2>1
<1>5. /\ r \in Seq(Names) /\ Len(r) = Len(s) + 1
      /\ \A j \in 1 .. Len(s) + 1 : r[j] = IF j < i THEN s[j] ELSE IF j = i THEN n ELSE s[j - 1]
  <2> DEFINE c == a \o <<n>>
  <2>1. r = c \o b
    BY DEF InsertAt, a, b
  <2> HIDE DEF c, r
  <2>2. c \in Seq(Names) /\ Len(c) = i /\ \A j \in 1 .. i : c[j] = IF j < i THEN s[j] ELSE n
    BY <1>4 DEF c
  <2>3. /\ c \o b \in Seq(Names) /\ Len(c \o b) = Len(c) + Len(b)
        /\ \A j \in 1 .. Len(c) + Len(b) : (c \o b)[j] = IF j <= Len(c) THEN c[j] ELSE b[j - Len(c)]
    BY <1>2, <2>2, ConcatProperties
  <2>4. QED BY <1>0, <1>2, <2>1, <2>2, <2>3
<1> HIDE DEF r
<1>6. ASSUME NEW j \in 1 .. Len(s) + 1, NEW k \in 1 .. Len(s) + 1, r[j] = r[k] PROVE j = k
  <2>1. \A x \in 1 .. Len(s) : s[x] # n
    BY ListTypes
  <2>2. \A x, y \in 1 .. Len(s) : s[x] = s[y] => x = y
    BY ListTypes
  <2> DEFINE old(x) == IF x < i THEN x ELSE x - 1
  <2>3. \A x \in 1 .. Len(s) + 1 : x # i => old(x) \in 1 .. Len(s) /\ r[x] = s[old(x)]
    BY <1>0, <1>5
  <2>4. CASE j = i \/ k = i
    BY <1>0, <1>5, <1>6, <2>1, <2>3, <2>4
  <2>5. CASE j # i /\ k # i
    <3>1. old(j) = old(k)
      <4> HIDE DEF old
      <4>1. QED BY <1>6, <2>2, <2>3, <2>5
    <3>2. QED BY <1>0, <2>5, <3>1
  <2>6. QED BY <2>4, <2>5
<1>7. r \in Lists
  BY <1>5, <1>6, IsList
<1>8. QED BY <1>5, <1>7 DEF r

(* What add_port leaves if an entry has the new one's descriptor already.    *)
LEMMA ListCut ==
  ASSUME NEW s \in Lists, NEW n \in Names \ ToSet(s), NEW i \in 1 .. Len(s)
  PROVE  /\ Append(SubSeq(s, 1, i), n) \in Lists
         /\ Len(Append(SubSeq(s, 1, i), n)) = i + 1
         /\ \A j \in 1 .. i + 1 : Append(SubSeq(s, 1, i), n)[j] = IF j <= i THEN s[j] ELSE n
<1> DEFINE a == SubSeq(s, 1, i)
           r == Append(a, n)
<1>0. Len(s) \in Nat /\ \A j \in 1 .. Len(s) : s[j] \in Names /\ s[j] # n
  BY ListTypes
<1>1. a \in Seq(Names) /\ Len(a) = i /\ \A j \in 1 .. i : a[j] = s[j]
  <2>1. \A j \in 1 .. i : s[j] \in Names
    BY <1>0
  <2>2. /\ SubSeq(s, 1, i) \in Seq(Names)
        /\ Len(SubSeq(s, 1, i)) = IF 1 <= i THEN i - 1 + 1 ELSE 0
        /\ \A j \in 1 .. i - 1 + 1 : SubSeq(s, 1, i)[j] = s[1 + j - 1]
    BY <2>1, SubSeqProperties
  <2>3. QED BY <2>2
<1> HIDE DEF a
<1>2. /\ r \in Seq(Names) /\ Len(r) = i + 1 /\ r[i + 1] = n
      /\ \A j \in 1 .. i : r[j] = s[j]
  BY <1>1, AppendProperties
<1> HIDE DEF r
<1>3. \A j, k \in 1 .. Len(s) : s[j] = s[k] => j = k
  BY ListTypes
<1>4. ASSUME NEW j \in 1 .. i + 1, NEW k \in 1 .. i + 1, r[j] = r[k] PROVE j = k
  <2>1. CASE j = i + 1 \/ k = i + 1
    BY <1>0, <1>2, <1>4, <2>1
  <2>2. CASE j \in 1 .. i /\ k \in 1 .. i
    BY <1>0, <1>2, <1>3, <1>4, <2>2
  <2>3. QED BY <2>1, <2>2
<1>5. r \in Lists
  BY <1>2, <1>4, IsList
<1>6. QED BY <1>2, <1>5 DEF r, a

LEMMA ListRemoved ==
  ASSUME NEW s \in Lists, NEW n \in ToSet(s)
  PROVE  \E i \in 1 .. Len(s) :
           /\ s[i] = n
           /\ RemoveFirst(s, n) \in Lists
           /\ Len(RemoveFirst(s, n)) = Len(s) - 1
           /\ \A j \in 1 .. Len(s) - 1 : RemoveFirst(s, n)[j] = IF j < i THEN s[j] ELSE s[j + 1]
<1> DEFINE I == {j \in 1 .. Len(s) : s[j] = n}
           i == Min(I)
           a == SubSeq(s, 1, i - 1)
           b == SubSeq(s, i + 1, Len(s))
           r == a \o b
<1>0. Len(s) \in Nat /\ \A j \in 1 .. Len(s) : s[j] \in Names
  BY ListTypes
<1>1. \E j \in 1 .. Len(s) : s[j] = n
  BY ListTypes
<1>2. i \in 1 .. Len(s) /\ s[i] = n
  <2>1. I \in SUBSET Nat /\ I # {}
    BY <1>0, <1>1
  <2>2. Min(I) \in I
    BY <2>1, Least
  <2>3. QED BY <2>2
<1>3. RemoveFirst(s, n) = r
  <2>1. RemoveFirst(s, n) = RemoveAt(s, IF I # {} THEN Min(I) ELSE 0)
    BY <1>1 DEF RemoveFirst, SelectInSeq
  <2>2. I # {}
    BY <1>1
  <2>3. RemoveFirst(s, n) = RemoveAt(s, i)
    BY <2>1, <2>2
  <2>4. QED BY <2>3 DEF RemoveAt
<1> HIDE DEF I, i
<1>4. a \in Seq(Names) /\ Len(a) = i - 1 /\ \A j \in 1 .. i - 1 : a[j] = s[j]
  <2>1. \A j \in 1 .. i - 1 : s[j] \in Names
    BY <1>0, <1>2
  <2>2. /\ SubSeq(s, 1, i - 1) \in Seq(Names)
        /\ Len(SubSeq(s, 1, i - 1)) = IF 1 <= i - 1 THEN (i - 1) - 1 + 1 ELSE 0
        /\ \A j \in 1 .. (i - 1) - 1 + 1 : SubSeq(s, 1, i - 1)[j] = s[1 + j - 1]
    BY <1>2, <2>1, SubSeqProperties
  <2>3. QED BY <1>2, <2>2
<1>5. b \in Seq(Names) /\ Len(b) = Len(s) - i /\ \A j \in 1 .. Len(s) - i : b[j] = s[i + j]
  <2>1. \A j \in i + 1 .. Len(s) : s[j] \in Names
    BY <1>0, <1>2
  <2>2. /\ SubSeq(s, i + 1, Len(s)) \in Seq(Names)
        /\ Len(SubSeq(s, i + 1, Len(s))) = IF i + 1 <= Len(s) THEN Len(s) - (i + 1) + 1 ELSE 0
        /\ \A j \in 1 .. Len(s) - (i + 1) + 1 : SubSeq(s, i + 1, Len(s))[j] = s[i + 1 + j - 1]
    BY <1>0, <1>2, <2>1, SubSeqProperties
  <2>3. QED BY <1>0, <1>2, <2>2
<1> HIDE DEF a, b
<1>6. /\ r \in Seq(Names) /\ Len(r) = Len(s) - 1
      /\ \A j \in 1 .. Len(s) - 1 : r[j] = IF j < i THEN s[j] ELSE s[j + 1]
  <2>1. /\ a \o b \in Seq(Names) /\ Len(a \o b) = Len(a) + Len(b)
        /\ \A j \in 1 .. Len(a) + Len(b) : (a \o b)[j] = IF j <= Len(a) THEN a[j] ELSE b[j - Len(a)]
    BY <1>4, <1>5, ConcatProperties
  <2> HIDE DEF r
  <2>2. r = a \o b
    BY DEF r
  <2>3. /\ r \in Seq(Names) /\ Len(r) = Len(s) - 1
        /\ \A j \in 1 .. Len(s) - 1 : r[j] = IF j <= i - 1 THEN a[j] ELSE b[j - (i - 1)]
    <3>1. Len(a) + Len(b) = Len(s) - 1
      BY <1>0, <1>2, <1>4, <1>5
    <3>2. QED BY <1>4, <2>1, <2>2, <3>1
  <2>4. ASSUME NEW j \in 1 .. Len(s) - 1 PROVE r[j] = IF j < i THEN s[j] ELSE s[j + 1]
    <3>1. CASE j < i
      BY <1>0, <1>2, <1>4, <2>3, <3>1
    <3>2. CASE ~(j < i)
      <4>1. r[j] = b[j - (i - 1)] /\ j - (i - 1) \in 1 .. Len(s) - i
        BY <1>0, <1>2, <2>3, <3>2
      <4>2. b[j - (i - 1)] = s[i + (j - (i - 1))] /\ i + (j - (i - 1)) = j + 1
        BY <1>0, <1>2, <1>5, <4>1
      <4>3. QED BY <3>2, <4>1, <4>2
    <3>3. QED BY <3>1, <3>2
  <2>5. QED BY <2>3, <2>4
<1> HIDE DEF r
<1>7. \A j, k \in 1 .. Len(s) : s[j] = s[k] => j = k
  BY ListTypes
<1>8. ASSUME NEW j \in 1 .. Len(s) - 1, NEW k \in 1 .. Len(s) - 1, r[j] = r[k] PROVE j = k
  <2> DEFINE old(x) == IF x < i THEN x ELSE x + 1
  <2>1. \A x \in 1 .. Len(s) - 1 : old(x) \in 1 .. Len(s) /\ r[x] = s[old(x)]
    BY <1>0, <1>2, <1>6
  <2>2. old(j) = old(k)
    <3> HIDE DEF old
    <3>1. QED BY <1>7, <1>8, <2>1
  <2>3. QED BY <1>0, <1>2, <2>2
<1>9. r \in Lists
  BY <1>6, <1>8, IsList
<1>10. QED BY <1>2, <1>3, <1>6, <1>9
-----------------------------------------------------------------------------
(* The inductive invariant *)

Cap == Cardinality(Names)

Types ==
  /\ first_tl \in Lists
  /\ fd \in [Names -> 0 .. Cap] /\ port \in [Names -> 0 .. Cap]
  /\ hComm \in [Names -> {"NULL", "INVALID", "handle"}]
  /\ handles \subseteq Names /\ skipped \subseteq Names /\ failed \subseteq Names
  /\ at \in [Threads -> Places] /\ name \in [Threads -> Names \cup {null}]
  /\ index \in [Threads -> Names \cup {null}]
  /\ raced \in BOOLEAN

(* Each port is opened by one thread at a time, and has no other user then.  *)
Adding == {"number", "insert"}

Calls ==
  /\ \A t \in Threads : at[t] = "idle" <=> name[t] = null
  /\ \A t, u \in Threads : name[t] = name[u] /\ name[t] # null => t = u
  /\ \A t \in Threads : name[t] # null => port[name[t]] = 0
  /\ \A t \in Threads : at[t] \in Adding => name[t] \notin ToSet(first_tl)
  /\ \A t \in Threads : at[t] = "insert" => fd[name[t]] >= 1
  /\ \A n \in ToSet(first_tl) : fd[n] >= 1

(* The list is sorted, and the one descriptor that has been chosen but is not *)
(* in the list yet is in no entry either.  The entry from which the one call  *)
(* of add_port will walk is still the first one, or in the list no more.      *)
Sorted == \A i, j \in 1 .. Len(first_tl) : i < j => fd[first_tl[i]] < fd[first_tl[j]]

Chosen ==
  /\ \A t, u \in Threads : at[t] \in Adding /\ at[u] \in Adding => t = u
  /\ \A t \in Threads : at[t] = "insert" => \A n \in ToSet(first_tl) : fd[n] # fd[name[t]]
  /\ \A t \in Threads : at[t] \in Adding =>
       /\ index[t] = null => first_tl = <<>>
       /\ index[t] \in ToSet(first_tl) => index[t] = first_tl[1]

(* What is being opened and what is open has an entry, and nothing else has  *)
(* one or a handle, but for what skipped and failed name.                    *)
Entries ==
  /\ \A t \in Threads : at[t] \in {"create", "undo", "configure"} => name[t] \in ToSet(first_tl)
  /\ \A t \in Threads : at[t] = "configure" => name[t] \in handles
  /\ \A n \in Names : port[n] # 0 => port[n] = fd[n] /\ n \in ToSet(first_tl) /\ n \in handles
  /\ handles \subseteq ToSet(first_tl)
  /\ \A n \in ToSet(first_tl) : port[n] # 0 \/ ~Free(n) \/ n \in skipped \cup failed

ListInv == ~raced => Sorted /\ Chosen /\ Entries

(* The words of every port, and what its DCB is made of.                     *)
ParityFlags == {"PARENB", "PARODD", "CMSPAR"}

Wide == [baud : Int, ispeed : Nat, csize : 5 .. 8,
         cflag : SUBSET {"CSTOPB", "PARENB", "PARODD", "CMSPAR", "CRTSCTS"},
         iflag : SUBSET {"IXON", "IXOFF"}, eof : {4}]

(* A rate goes to the DCB and back unchanged, and adding up the speed codes  *)
(* of the termios and of the DCB does not change what tcsetattr makes of them.*)
RateBack(w) ==
  /\ WithinCBAUD(w.baud) /\ w.ispeed > 0
  /\ B_to_CBR(w.ispeed) > 0 /\ CBR_to_B(B_to_CBR(w.ispeed)) = w.ispeed
  /\ ~Bit(w.baud, CBAUDEX) => w.ispeed = w.baud

ParityKnown(w) == \E p \in DOMAIN Parities : Parities[p] = w.cflag \cap ParityFlags

Good(w) == w \in Wide /\ RateBack(w) /\ ParityKnown(w)

(* tcsetattr made each port's DCB of a word, which is not the termios that   *)
(* it keeps if it failed then.                                               *)
Settings ==
  /\ DOMAIN ttyset = Names /\ DOMAIN dcb = Names /\ DOMAIN params = Names /\ DOMAIN flow = Names
  /\ half \in [Names -> SUBSET {"params", "flow"}]
  /\ \A n \in Names : Good(ttyset[n]) /\ \E v : Good(v) /\ dcb[n] = termios_to_DCB(v)

(* The settings of an open port are those that were asked for last, unless   *)
(* the last call of their kind failed after it had changed the DCB.          *)
Bits(q) == IF q.stopBits = "1.5" THEN 5 ELSE q.dataBits

Flags(f, q) == ((IF q.stopBits = "1" THEN f \ {"CSTOPB"} ELSE f \cup {"CSTOPB"}) \ ParityFlags)
               \cup Parities[q.parity]

Hardware(mode) == mode \cap {"RTSCTS_IN", "RTSCTS_OUT"} # {}

Xon(f, mode) == With(With(f, "IXOFF", "XONXOFF_IN" \in mode), "IXON", "XONXOFF_OUT" \in mode)

AgreesParams(w, v, q) ==
  /\ q.dataBits = Bits(q) /\ w.csize = q.dataBits /\ v.csize = q.dataBits
  /\ v.cflag = Flags(v.cflag, q)
  /\ B_to_CBR(v.ispeed) = RateFor(q.speed) /\ w.ispeed = v.ispeed

AgreesFlow(v, mode) ==
  v.cflag = With(v.cflag, "CRTSCTS", Hardware(mode)) /\ v.iflag = Xon(v.iflag, mode)

(* A termios and a DCB of a port with these fields, and of what half says.   *)
Agree(w, d, q, mode, h) ==
  \E v : /\ Good(v) /\ d = termios_to_DCB(v)
         /\ "params" \notin h => AgreesParams(w, v, q)
         /\ "flow" \notin h => AgreesFlow(v, mode)

Fields == [speed : Nat, dataBits : 5 .. 8, stopBits : {"1", "1.5", "2"}, parity : DOMAIN Parities]

Kept == ~raced => \A n \in Names : port[n] # 0 =>
                    /\ params[n] \in Fields
                    /\ Agree(ttyset[n], dcb[n], params[n], flow[n], half[n])

IInv == Types /\ Calls /\ ListInv /\ Settings /\ Kept
-----------------------------------------------------------------------------
(* The operators that read the list *)

LEMMA CapIsNat == Cap \in Nat
BY PortsFinite, FS_CardinalityType DEF Cap

LEMMA Numbers ==
  ASSUME Types
  PROVE  \A n \in Names : fd[n] \in Nat /\ port[n] \in Nat /\ fd[n] <= Cap /\ port[n] <= Cap
BY CapIsNat DEF Types

(* find_port gives an entry with the descriptor, ... *)
LEMMA FindPort ==
  ASSUME Types, NEW d
  PROVE  \/ find_port(d) = null /\ \A n \in ToSet(first_tl) : fd[n] # d
         \/ find_port(d) \in ToSet(first_tl) /\ fd[find_port(d)] = d
<1> DEFINE hits == {i \in DOMAIN first_tl : fd[first_tl[i]] = d}
<1>0. first_tl \in Lists
  BY DEF Types
<1>1. Len(first_tl) \in Nat /\ DOMAIN first_tl = 1 .. Len(first_tl)
  BY <1>0, ListTypes
<1>2. find_port(d) = IF hits = {} THEN null ELSE first_tl[Min(hits)]
  BY DEF find_port
<1>3. \A n : n \in ToSet(first_tl) <=> \E i \in 1 .. Len(first_tl) : first_tl[i] = n
  BY <1>0, ListTypes
<1>4. CASE hits = {}
  BY <1>1, <1>2, <1>3, <1>4
<1>5. CASE hits # {}
  <2>1. hits \in SUBSET Nat
    BY <1>1
  <2>2. Min(hits) \in hits
    BY <1>5, <2>1, Least
  <2>3. Min(hits) \in 1 .. Len(first_tl) /\ fd[first_tl[Min(hits)]] = d
    BY <1>1, <2>2
  <2> HIDE DEF hits
  <2>4. QED BY <1>2, <1>3, <1>5, <2>3
<1>6. QED BY <1>4, <1>5

(* ... and the only one in a sorted list. *)
LEMMA OneOfEach ==
  ASSUME Types, Sorted, NEW m \in ToSet(first_tl), NEW n \in ToSet(first_tl), fd[m] = fd[n]
  PROVE  m = n
<1>0. first_tl \in Lists
  BY DEF Types
<1>1. PICK i \in 1 .. Len(first_tl) : first_tl[i] = m
  BY <1>0, ListTypes
<1>2. PICK j \in 1 .. Len(first_tl) : first_tl[j] = n
  BY <1>0, ListTypes
<1>3. m \in Names /\ n \in Names /\ Len(first_tl) \in Nat
  BY <1>0, ListTypes
<1>4. fd[m] \in Nat /\ fd[n] \in Nat
  BY <1>3, Numbers
<1>5. ~(i < j) /\ ~(j < i)
  BY <1>1, <1>2, <1>4 DEF Sorted
<1>6. i = j
  BY <1>3, <1>5
<1>7. QED BY <1>1, <1>2, <1>6

LEMMA FindEntry ==
  ASSUME Types, Sorted, NEW n \in ToSet(first_tl)
  PROVE  find_port(fd[n]) = n
BY FindPort, OneOfEach

(* get_free_fd is within the number of ports, ... *)
LEMMA FreeFd ==
  ASSUME Types, \A n \in ToSet(first_tl) : fd[n] >= 1
  PROVE  get_free_fd \in 1 .. Len(first_tl) + 1
<1> DEFINE s == first_tl
           gaps == {i \in DOMAIN s : i = Len(s) \/ fd[s[i + 1]] # fd[s[i]] + 1}
<1>0. s \in Lists
  BY DEF Types
<1>1. /\ Len(s) \in Nat /\ DOMAIN s = 1 .. Len(s) /\ (s = <<>> <=> Len(s) = 0)
      /\ \A i \in 1 .. Len(s) : s[i] \in Names /\ s[i] \in ToSet(s)
  BY <1>0, ListTypes
<1>2. \A i \in 1 .. Len(s) : fd[s[i]] \in Nat /\ fd[s[i]] >= 1
  BY <1>1, Numbers
<1>3. CASE s = <<>> \/ fd[s[1]] > 1
  <2>1. get_free_fd = 1
    BY <1>3 DEF get_free_fd
  <2>2. QED BY <1>1, <2>1
<1>4. CASE s # <<>> /\ ~(fd[s[1]] > 1)
  <2>1. get_free_fd = fd[s[Min(gaps)]] + 1
    BY <1>4, Zenon DEF get_free_fd
  <2>2. gaps \in SUBSET Nat /\ gaps # {}
    BY <1>1, <1>4
  <2>3. Min(gaps) \in gaps /\ \A k \in gaps : Min(gaps) <= k
    BY <2>2, Least
  <2> DEFINE g == Min(gaps)
  <2>4. g \in 1 .. Len(s) /\ \A k \in 1 .. Len(s) : k < g => fd[s[k + 1]] = fd[s[k]] + 1
    <3>1. g \in 1 .. Len(s)
      BY <1>1, <2>3
    <3>2. ASSUME NEW k \in 1 .. Len(s), k < g PROVE fd[s[k + 1]] = fd[s[k]] + 1
      <4>1. k \notin gaps
        <5>1. ~(g <= k)
          BY <3>1, <3>2
        <5> HIDE DEF gaps
        <5>2. QED BY <2>3, <5>1
      <4>2. QED BY <1>1, <4>1
    <3>3. QED BY <3>1, <3>2
  <2> HIDE DEF g, gaps
  <2> DEFINE S == {k \in Nat : k + 1 <= g => fd[s[k + 1]] = k + 1}
  <2>5. 0 \in S
    <3>1. fd[s[1]] = 1
      BY <1>1, <1>2, <1>4
    <3>2. QED BY <3>1
  <2>6. ASSUME NEW k \in S PROVE k + 1 \in S
    <3>1. CASE k + 2 <= g
      <4>1. fd[s[k + 1]] = k + 1
        BY <2>4, <3>1
      <4>2. fd[s[(k + 1) + 1]] = fd[s[k + 1]] + 1
        BY <1>1, <2>4, <3>1
      <4>3. QED BY <4>1, <4>2
    <3>2. CASE ~(k + 2 <= g)
      BY <1>1, <2>4, <3>2
    <3>3. QED BY <3>1, <3>2
  <2>7. S = Nat
    <3>1. S \in SUBSET Nat
      OBVIOUS
    <3> HIDE DEF S
    <3>2. QED BY <2>5, <2>6, <3>1, Induction
  <2>8. fd[s[g]] = g
    <3>1. g - 1 \in S
      <4>1. g - 1 \in Nat
        BY <1>1, <2>4
      <4> HIDE DEF S
      <4>2. QED BY <2>7, <4>1
    <3>2. g \in Int /\ (g - 1) + 1 = g
      BY <1>1, <2>4
    <3>3. QED BY <3>1, <3>2
  <2>9. QED BY <1>1, <2>1, <2>4, <2>8 DEF g
<1>5. QED BY <1>3, <1>4

(* ... and free, in a sorted list. *)
LEMMA FreshFd ==
  ASSUME Types, Sorted, \A n \in ToSet(first_tl) : fd[n] >= 1, NEW n \in ToSet(first_tl)
  PROVE  fd[n] # get_free_fd
<1> DEFINE s == first_tl
           gaps == {i \in DOMAIN s : i = Len(s) \/ fd[s[i + 1]] # fd[s[i]] + 1}
<1>0. s \in Lists
  BY DEF Types
<1>1. /\ Len(s) \in Nat /\ DOMAIN s = 1 .. Len(s) /\ (s = <<>> <=> Len(s) = 0)
      /\ \A i \in 1 .. Len(s) : s[i] \in Names
  BY <1>0, ListTypes
<1>2. \A i \in 1 .. Len(s) : fd[s[i]] \in Nat
  BY <1>1, Numbers
<1>3. PICK k \in 1 .. Len(s) : s[k] = n
  BY <1>0, ListTypes
<1>4. \A i, j \in 1 .. Len(s) : i < j => fd[s[i]] < fd[s[j]]
  BY DEF Sorted
<1>5. CASE fd[s[1]] > 1
  <2>1. get_free_fd = 1
    BY <1>5 DEF get_free_fd
  <2>2. fd[s[k]] >= fd[s[1]]
    BY <1>1, <1>2, <1>4
  <2>3. QED BY <1>1, <1>2, <1>3, <1>5, <2>1, <2>2
<1>6. CASE ~(fd[s[1]] > 1)
  <2>0. s # <<>>
    BY <1>1
  <2>1. get_free_fd = fd[s[Min(gaps)]] + 1
    BY <1>6, <2>0, Zenon DEF get_free_fd
  <2>2. gaps \in SUBSET Nat /\ gaps # {}
    BY <1>1
  <2>3. Min(gaps) \in gaps
    BY <2>2, Least
  <2> DEFINE g == Min(gaps)
  <2>4. g \in 1 .. Len(s) /\ (g = Len(s) \/ fd[s[g + 1]] # fd[s[g]] + 1)
    BY <1>1, <2>3
  <2> HIDE DEF g, gaps
  <2>5. g \in Nat /\ k \in Nat /\ Len(s) \in Nat /\ k <= Len(s) /\ g <= Len(s) /\ 1 <= g
    <3>1. Len(s) \in Nat
      BY <1>1
    <3>2. g \in 1 .. Len(s)
      BY <2>4
    <3>3. QED BY <3>1, <3>2
  <2>6. CASE k <= g
    <3>1. fd[s[k]] <= fd[s[g]]
      <4>1. CASE k = g
        BY <1>2, <4>1
      <4>2. CASE k < g
        BY <1>2, <1>4, <2>4, <4>2
      <4>3. QED BY <2>5, <2>6, <4>1, <4>2
    <3>2. QED BY <1>2, <1>3, <2>1, <2>4, <3>1 DEF g
  <2>7. CASE ~(k <= g)
    <3>1. g + 1 \in 1 .. Len(s) /\ fd[s[g + 1]] # fd[s[g]] + 1
      <4>1. g < Len(s)
        BY <2>5, <2>7
      <4>2. g # Len(s) /\ g + 1 \in 1 .. Len(s)
        BY <2>5, <4>1
      <4>3. QED BY <2>4, <4>2
    <3>2. fd[s[g]] < fd[s[g + 1]]
      BY <1>4, <2>4, <3>1
    <3>3. fd[s[g + 1]] <= fd[s[k]]
      <4>1. CASE k = g + 1
        BY <1>2, <4>1
      <4>2. CASE g + 1 < k
        BY <1>2, <1>4, <3>1, <4>2
      <4>3. QED BY <2>5, <2>7, <4>1, <4>2
    <3>4. fd[s[k]] > fd[s[g]] + 1
      BY <1>2, <2>4, <3>1, <3>2, <3>3
    <3>5. QED BY <1>2, <1>3, <2>1, <2>4, <3>4 DEF g
  <2>8. QED BY <2>6, <2>7
<1>7. QED BY <1>5, <1>6

(* add_port: what it leaves is a list, ... *)
LEMMA Single == ASSUME NEW n \in Names PROVE <<n>> \in Lists /\ ToSet(<<n>>) = {n}
BY SMT DEF Lists, IsInjective, ToSet

LEMMA InsertedType ==
  ASSUME Types, NEW n \in Names \ ToSet(first_tl), NEW from
  PROVE  /\ Inserted(n, from) \in Lists
         /\ ToSet(Inserted(n, from)) \subseteq ToSet(first_tl) \cup {n}
<1> DEFINE s == first_tl
           later == {j \in DOMAIN s : /\ \E k \in 1 .. j : s[k] = from
                                      /\ fd[s[j]] >= fd[n]}
           J == later \cup {Len(s)}
           i == Min(J)
           r == Inserted(n, from)
<1>0. s \in Lists
  BY DEF Types
<1>1. /\ Len(s) \in Nat /\ DOMAIN s = 1 .. Len(s) /\ (s = <<>> <=> Len(s) = 0)
      /\ \A x : x \in ToSet(s) <=> \E j \in 1 .. Len(s) : s[j] = x
  BY <1>0, ListTypes
<1>2. CASE s = <<>>
  <2>1. r = <<n>>
    BY <1>2 DEF Inserted
  <2>2. QED BY <2>1, Single
<1>3. CASE s # <<>>
  <2>1. r = IF fd[s[i]] > fd[n] THEN InsertAt(s, i, n) ELSE Append(SubSeq(s, 1, i), n)
    BY <1>3 DEF Inserted
  <2>2. J \in SUBSET Nat /\ J # {} /\ J \subseteq 1 .. Len(s)
    BY <1>1, <1>3
  <2>3. i \in 1 .. Len(s)
    BY <2>2, Least
  <2> HIDE DEF i, r
  <2>4. CASE r = InsertAt(s, i, n)
    <3>1. /\ r \in Lists /\ Len(r) = Len(s) + 1
          /\ \A j \in 1 .. Len(s) + 1 : r[j] = IF j < i THEN s[j] ELSE IF j = i THEN n ELSE s[j - 1]
      BY <1>0, <1>1, <2>3, <2>4, ListInserted
    <3>2. \A j \in 1 .. Len(s) + 1 : r[j] = n \/ \E k \in 1 .. Len(s) : r[j] = s[k]
      BY <1>1, <2>3, <3>1
    <3>3. \A x : x \in ToSet(r) <=> \E j \in 1 .. Len(s) + 1 : r[j] = x
      BY <3>1, ListTypes
    <3>4. QED BY <1>1, <3>1, <3>2, <3>3 DEF r
  <2>5. CASE r = Append(SubSeq(s, 1, i), n)
    <3>1. /\ r \in Lists /\ Len(r) = i + 1
          /\ \A j \in 1 .. i + 1 : r[j] = IF j <= i THEN s[j] ELSE n
      BY <1>0, <2>3, <2>5, ListCut
    <3>2. \A j \in 1 .. i + 1 : r[j] = n \/ \E k \in 1 .. Len(s) : r[j] = s[k]
      BY <1>1, <2>3, <3>1
    <3>3. \A x : x \in ToSet(r) <=> \E j \in 1 .. i + 1 : r[j] = x
      BY <3>1, ListTypes
    <3>4. QED BY <1>1, <3>1, <3>2, <3>3 DEF r
  <2>6. QED BY <2>1, <2>4, <2>5
<1>4. QED BY <1>2, <1>3

(* ... and sorted with the new entry, if its descriptor was free. *)
LEMMA InsertedSorted ==
  ASSUME Types, Sorted, NEW n \in Names \ ToSet(first_tl), NEW from,
         first_tl # <<>> => from = first_tl[1],
         \A m \in ToSet(first_tl) : fd[m] # fd[n]
  PROVE  LET r == Inserted(n, from) IN
         /\ ToSet(r) = ToSet(first_tl) \cup {n}
         /\ \A j, k \in 1 .. Len(r) : j < k => fd[r[j]] < fd[r[k]]
<1> DEFINE s == first_tl
           later == {j \in DOMAIN s : /\ \E k \in 1 .. j : s[k] = from
                                      /\ fd[s[j]] >= fd[n]}
           J == later \cup {Len(s)}
           i == Min(J)
           r == Inserted(n, from)
<1>0. s \in Lists
  BY DEF Types
<1>1. /\ Len(s) \in Nat /\ DOMAIN s = 1 .. Len(s) /\ (s = <<>> <=> Len(s) = 0)
      /\ \A x : x \in ToSet(s) <=> \E j \in 1 .. Len(s) : s[j] = x
      /\ \A j \in 1 .. Len(s) : s[j] \in Names /\ s[j] \in ToSet(s)
  BY <1>0, ListTypes
<1>2. /\ fd[n] \in Nat /\ \A j \in 1 .. Len(s) : fd[s[j]] \in Nat /\ fd[s[j]] # fd[n]
      /\ \A j, k \in 1 .. Len(s) : j < k => fd[s[j]] < fd[s[k]]
  BY <1>1, Numbers DEF Sorted
<1>3. CASE s = <<>>
  <2>1. r = <<n>>
    BY <1>3 DEF Inserted
  <2>2. ToSet(<<n>>) = {n} /\ ToSet(s) = {} /\ Len(<<n>>) = 1
    BY <1>3, SMT DEF ToSet
  <2>3. \A j, k \in 1 .. 1 : ~(j < k)
    OBVIOUS
  <2>4. QED BY <2>1, <2>2, <2>3
<1>4. CASE s # <<>>
  <2>1. r = IF fd[s[i]] > fd[n] THEN InsertAt(s, i, n) ELSE Append(SubSeq(s, 1, i), n)
    BY <1>4 DEF Inserted
  <2>2. J \in SUBSET Nat /\ J # {} /\ J \subseteq 1 .. Len(s)
    BY <1>1, <1>4
  <2>3. i \in J /\ i \in 1 .. Len(s) /\ \A j \in J : i <= j
    BY <2>2, Least
  <2>4. \A j \in 1 .. Len(s) : j < i => fd[s[j]] < fd[n]
    <3> SUFFICES ASSUME NEW j \in 1 .. Len(s), j < i PROVE fd[s[j]] < fd[n]
      OBVIOUS
    <3>1. j \notin J
      <4>1. ~(i <= j)
        BY <2>3
      <4> HIDE DEF J
      <4>2. QED BY <2>3, <4>1
    <3>2. 1 \in 1 .. j /\ s[1] = from
      BY <1>1, <1>4
    <3>3. ~(fd[s[j]] >= fd[n])
      BY <1>1, <3>1, <3>2
    <3>4. QED BY <1>2, <3>3
  <2>5. fd[s[i]] > fd[n] \/ (i = Len(s) /\ fd[s[i]] < fd[n])
    <3>1. fd[s[i]] >= fd[n] \/ i = Len(s)
      BY <1>1, <2>3
    <3> HIDE DEF i
    <3>2. fd[s[i]] \in Nat /\ fd[s[i]] # fd[n] /\ fd[n] \in Nat
      BY <1>2, <2>3
    <3>3. QED BY <3>1, <3>2
  <2> HIDE DEF i, r, J
  <2>6. CASE fd[s[i]] > fd[n]
    <3>1. /\ r \in Lists /\ Len(r) = Len(s) + 1
          /\ \A j \in 1 .. Len(s) + 1 : r[j] = IF j < i THEN s[j] ELSE IF j = i THEN n ELSE s[j - 1]
      BY <1>0, <1>1, <2>1, <2>3, <2>6, ListInserted
    <3>2. \A x : x \in ToSet(r) <=> \E j \in 1 .. Len(s) + 1 : r[j] = x
      BY <3>1, ListTypes
    <3>3. \A j \in 1 .. Len(s) + 1 : r[j] = n \/ \E k \in 1 .. Len(s) : r[j] = s[k]
      BY <1>1, <2>3, <3>1
    <3>4. r[i] = n /\ \A k \in 1 .. Len(s) : \E j \in 1 .. Len(s) + 1 : r[j] = s[k]
      <4>1. r[i] = n
        BY <1>1, <2>3, <3>1
      <4>2. ASSUME NEW k \in 1 .. Len(s) PROVE \E j \in 1 .. Len(s) + 1 : r[j] = s[k]
        <5>1. CASE k < i
          BY <1>1, <2>3, <3>1, <5>1
        <5>2. CASE ~(k < i)
          <6>1. k + 1 \in 1 .. Len(s) + 1 /\ r[k + 1] = s[(k + 1) - 1] /\ (k + 1) - 1 = k
            BY <1>1, <2>3, <3>1, <5>2
          <6>2. QED BY <6>1
        <5>3. QED BY <5>1, <5>2
      <4>3. QED BY <4>1, <4>2
    <3>5. ToSet(r) = ToSet(s) \cup {n}
      <4>1. i \in 1 .. Len(s) + 1
        BY <1>1, <2>3
      <4>2. n \in ToSet(r) /\ ToSet(s) \subseteq ToSet(r)
        BY <1>1, <3>2, <3>4, <4>1
      <4>3. ToSet(r) \subseteq ToSet(s) \cup {n}
        BY <1>1, <3>2, <3>3
      <4>4. QED BY <4>2, <4>3, Zenon
    <3>6. \A k \in 1 .. Len(s) : ~(k < i) => fd[s[k]] > fd[n]
      BY <1>1, <1>2, <2>3, <2>6
    <3>7. ASSUME NEW j \in 1 .. Len(s) + 1, NEW k \in 1 .. Len(s) + 1, j < k
          PROVE  fd[r[j]] < fd[r[k]]
      <4>1. CASE k < i
        BY <1>1, <1>2, <2>3, <3>1, <3>7, <4>1
      <4>2. CASE k = i
        BY <1>1, <2>3, <2>4, <3>1, <3>7, <4>2
      <4>3. CASE k > i
        <5>1. r[k] = s[k - 1] /\ k - 1 \in 1 .. Len(s) /\ ~(k - 1 < i)
          BY <1>1, <2>3, <3>1, <4>3
        <5>2. CASE j < i
          <6>1. r[j] = s[j] /\ j \in 1 .. Len(s) /\ j < k - 1
            BY <1>1, <2>3, <3>1, <4>3, <5>2
          <6>2. QED BY <1>2, <5>1, <6>1
        <5>3. CASE j = i
          BY <1>2, <3>4, <3>6, <5>1, <5>3
        <5>4. CASE j > i
          <6>1. r[j] = s[j - 1] /\ j - 1 \in 1 .. Len(s) /\ j - 1 < k - 1
            BY <1>1, <2>3, <3>1, <3>7, <5>4
          <6>2. QED BY <1>2, <5>1, <6>1
        <5>5. QED BY <2>3, <5>2, <5>3, <5>4
      <4>4. QED BY <2>3, <4>1, <4>2, <4>3
    <3>8. QED BY <3>1, <3>5, <3>7 DEF r
  <2>7. CASE i = Len(s) /\ fd[s[i]] < fd[n]
    <3>0. r = Append(SubSeq(s, 1, i), n)
      BY <1>2, <2>1, <2>3, <2>7
    <3>1. /\ r \in Lists /\ Len(r) = Len(s) + 1
          /\ \A j \in 1 .. Len(s) + 1 : r[j] = IF j <= Len(s) THEN s[j] ELSE n
      BY <1>0, <2>3, <2>7, <3>0, ListCut
    <3>2. \A x : x \in ToSet(r) <=> \E j \in 1 .. Len(s) + 1 : r[j] = x
      BY <3>1, ListTypes
    <3>3. r[Len(s) + 1] = n /\ \A j \in 1 .. Len(s) : r[j] = s[j]
      BY <1>1, <3>1
    <3>4. \A j \in 1 .. Len(s) + 1 : j = Len(s) + 1 \/ j \in 1 .. Len(s)
      BY <1>1
    <3>5. ToSet(r) = ToSet(s) \cup {n}
      BY <1>1, <3>2, <3>3, <3>4
    <3>6. \A j \in 1 .. Len(s) : fd[s[j]] < fd[n]
      BY <1>1, <1>2, <2>3, <2>7
    <3>7. ASSUME NEW j \in 1 .. Len(s) + 1, NEW k \in 1 .. Len(s) + 1, j < k
          PROVE  fd[r[j]] < fd[r[k]]
      <4>1. j \in 1 .. Len(s)
        BY <1>1, <3>7
      <4>2. CASE k = Len(s) + 1
        BY <3>3, <3>6, <4>1, <4>2
      <4>3. CASE k \in 1 .. Len(s)
        BY <1>2, <3>3, <3>7, <4>1, <4>3
      <4>4. QED BY <3>4, <4>2, <4>3
    <3>8. QED BY <3>1, <3>5, <3>7 DEF r
  <2>8. QED BY <2>5, <2>6, <2>7
<1>5. QED BY <1>3, <1>4

(* serial_close *)
LEMMA RemovedList ==
  ASSUME Types, NEW n \in ToSet(first_tl)
  PROVE  /\ RemoveFirst(first_tl, n) \in Lists
         /\ ToSet(RemoveFirst(first_tl, n)) = ToSet(first_tl) \ {n}
         /\ Sorted => \A j, k \in 1 .. Len(RemoveFirst(first_tl, n)) : j < k =>
              fd[RemoveFirst(first_tl, n)[j]] < fd[RemoveFirst(first_tl, n)[k]]
         /\ first_tl[1] # n => RemoveFirst(first_tl, n)[1] = first_tl[1]
<1> DEFINE s == first_tl
           r == RemoveFirst(first_tl, n)
<1>0. s \in Lists
  BY DEF Types
<1>1. /\ Len(s) \in Nat
      /\ \A x : x \in ToSet(s) <=> \E j \in 1 .. Len(s) : s[j] = x
      /\ \A j, k \in 1 .. Len(s) : s[j] = s[k] => j = k
  BY <1>0, ListTypes
<1>2. PICK i \in 1 .. Len(s) :
        /\ s[i] = n /\ r \in Lists /\ Len(r) = Len(s) - 1
        /\ \A j \in 1 .. Len(s) - 1 : r[j] = IF j < i THEN s[j] ELSE s[j + 1]
  BY <1>0, ListRemoved
<1> HIDE DEF r
<1>3. \A x : x \in ToSet(r) <=> \E j \in 1 .. Len(s) - 1 : r[j] = x
  BY <1>2, ListTypes
<1>4. ASSUME NEW j \in 1 .. Len(s) - 1 PROVE \E k \in 1 .. Len(s) : k # i /\ r[j] = s[k]
  <2>1. CASE j < i
    BY <1>1, <1>2, <2>1
  <2>2. CASE ~(j < i)
    <3>1. j + 1 \in 1 .. Len(s) /\ j + 1 # i /\ r[j] = s[j + 1]
      BY <1>1, <1>2, <2>2
    <3>2. QED BY <3>1
  <2>3. QED BY <2>1, <2>2
<1>5. ASSUME NEW k \in 1 .. Len(s), k # i PROVE \E j \in 1 .. Len(s) - 1 : r[j] = s[k]
  <2>1. CASE k < i
    BY <1>1, <1>2, <2>1
  <2>2. CASE k > i
    <3>1. k - 1 \in 1 .. Len(s) - 1 /\ r[k - 1] = s[(k - 1) + 1] /\ (k - 1) + 1 = k
      BY <1>1, <1>2, <2>2
    <3>2. QED BY <3>1
  <2>3. QED BY <1>5, <2>1, <2>2
<1>6. ToSet(r) = ToSet(s) \ {n}
  <2>1. ASSUME NEW x \in ToSet(r) PROVE x \in ToSet(s) /\ x # n
    <3>1. PICK k \in 1 .. Len(s) : k # i /\ x = s[k]
      BY <1>3, <1>4
    <3>2. QED BY <1>1, <1>2, <3>1
  <2>2. ASSUME NEW x \in ToSet(s), x # n PROVE x \in ToSet(r)
    <3>1. PICK k \in 1 .. Len(s) : k # i /\ x = s[k]
      BY <1>1, <1>2, <2>2
    <3>2. QED BY <1>3, <1>5, <3>1
  <2>3. QED BY <2>1, <2>2
<1>7. ASSUME Sorted, NEW j \in 1 .. Len(s) - 1, NEW k \in 1 .. Len(s) - 1, j < k
      PROVE  fd[r[j]] < fd[r[k]]
  <2> DEFINE old(x) == IF x < i THEN x ELSE x + 1
  <2>1. \A x \in 1 .. Len(s) - 1 : old(x) \in 1 .. Len(s) /\ r[x] = s[old(x)]
    BY <1>1, <1>2
  <2>2. old(j) < old(k)
    BY <1>1, <1>7
  <2> HIDE DEF old
  <2>3. QED BY <1>7, <2>1, <2>2 DEF Sorted
<1>8. ASSUME s[1] # n PROVE r[1] = s[1]
  <2>1. 1 < i /\ 1 \in 1 .. Len(s) - 1
    BY <1>1, <1>2, <1>8
  <2>2. QED BY <1>2, <2>1
<1>9. QED BY <1>2, <1>6, <1>7, <1>8 DEF r

LEMMA SerialClose ==
  ASSUME Types, NEW d, serial_close(d)
  PROVE  /\ first_tl' \in Lists /\ ToSet(first_tl') \subseteq ToSet(first_tl)
         /\ handles' \subseteq handles /\ skipped' \subseteq Names
<1> DEFINE n == find_port(d)
<1>1. CASE UNCHANGED <<first_tl, handles>> /\ skipped' = skipped
  BY <1>1 DEF Types
<1>2. n = null \/ n \in ToSet(first_tl)
  BY FindPort
<1>3. ToSet(first_tl) \subseteq Names
  BY ListTypes DEF Types
<1> HIDE DEF n
<1>4. CASE n # null /\ UNCHANGED <<first_tl, handles>> /\ skipped' = skipped \cup {n}
  BY <1>2, <1>3, <1>4 DEF Types
<1>5. CASE n # null /\ first_tl' = RemoveFirst(first_tl, n) /\ handles' = handles \ {n} /\ skipped' = skipped
  BY <1>2, <1>5, RemovedList DEF Types
<1>6. QED BY <1>1, <1>4, <1>5 DEF serial_close, n

LEMMA SerialCloseSorted ==
  ASSUME Types, Sorted, NEW n \in ToSet(first_tl), serial_close(fd[n])
  PROVE  /\ \/ ToSet(first_tl') = ToSet(first_tl) \ {n} /\ handles' = handles \ {n} /\ skipped' = skipped
            \/ first_tl' = first_tl /\ handles' = handles /\ skipped' = skipped \cup {n}
         /\ \A j, k \in 1 .. Len(first_tl') : j < k => fd[first_tl'[j]] < fd[first_tl'[k]]
         /\ first_tl[1] \in ToSet(first_tl') => first_tl'[1] = first_tl[1]
<1>1. find_port(fd[n]) = n
  BY FindEntry
<1>2. n # null
  BY ListTypes, NullIsNoPort DEF Types
<1>3. CASE UNCHANGED <<first_tl, handles>> /\ skipped' = skipped \cup {n}
  BY <1>3 DEF Sorted
<1>4. CASE first_tl' = RemoveFirst(first_tl, n) /\ handles' = handles \ {n} /\ skipped' = skipped
  BY <1>4, RemovedList
<1>5. QED BY <1>1, <1>2, <1>3, <1>4, Zenon DEF serial_close
-----------------------------------------------------------------------------
(* The list is kept *)

LEMMA NameOf ==
  ASSUME Types, Calls, NEW t \in Threads, at[t] # "idle"
  PROVE  name[t] \in Names /\ name[t] # null
BY DEF Types, Calls

LEMMA StepTypes == IInv /\ [Next]_vars => Types'
<1> SUFFICES ASSUME Types, Calls, [Next]_vars PROVE Types'
  BY DEF IInv
<1>1. first_tl \in Lists /\ ToSet(first_tl) \subseteq Names
  BY ListTypes DEF Types
<1>2. ASSUME NEW t \in Threads, Open(t) PROVE Types'
  <2>1. PICK n \in Names : name' = [name EXCEPT ![t] = n]
    BY <1>2 DEF Open
  <2>2. at' \in [Threads -> Places] /\ raced' \in BOOLEAN
    BY <1>2 DEF Open, Goto, Types, Places
  <2>3. name' \in [Threads -> Names \cup {null}]
    BY <2>1 DEF Types
  <2>4. index' \in [Threads -> Names \cup {null}]
    <3>1. first_tl # <<>> => Head(first_tl) \in Names
      BY <1>1, HeadTailProperties DEF Lists
    <3>2. QED BY <1>2, <3>1 DEF Open, Types
  <2>5. UNCHANGED <<first_tl, fd, hComm, port, handles, skipped, failed>>
    BY <1>2 DEF Open, list
  <2>6. QED BY <2>2, <2>3, <2>4, <2>5, CapIsNat DEF Types, Lists, Cap
<1>3. ASSUME NEW t \in Threads, Number(t) PROVE Types'
  <2>1. name[t] \in Names \ ToSet(first_tl)
    BY <1>3, NameOf DEF Number, Calls, Adding
  <2>2. get_free_fd \in 0 .. Cap
    <3>1. get_free_fd \in 1 .. Len(first_tl) + 1
      BY FreeFd DEF Calls
    <3>2. Len(first_tl) + 1 <= Cap
      BY <1>1, <2>1, Shorter DEF Cap
    <3>3. Len(first_tl) \in Nat
      BY <1>1, ListTypes
    <3>4. QED BY <3>1, <3>2, <3>3, CapIsNat
  <2>3. at' \in [Threads -> Places]
    BY <1>3 DEF Number, Goto, Types, Places
  <2>4. hComm' \in [Names -> {"NULL", "INVALID", "handle"}] /\ fd' \in [Names -> 0 .. Cap]
    BY <1>3, <2>2 DEF Number, Types
  <2>5. UNCHANGED <<first_tl, port, handles, name, index, raced, skipped, failed>>
    BY <1>3 DEF Number, history
  <2>6. QED BY <2>3, <2>4, <2>5, CapIsNat DEF Types, Lists, Cap
<1>4. ASSUME NEW t \in Threads, Insert(t) PROVE Types'
  <2>1. name[t] \in Names \ ToSet(first_tl)
    BY <1>4, NameOf DEF Insert, Calls, Adding
  <2>2. first_tl' \in Lists
    BY <1>1, <1>4, <2>1, InsertedType, Single DEF Insert
  <2>3. at' \in [Threads -> Places] /\ index' \in [Threads -> Names \cup {null}]
    BY <1>4 DEF Insert, Goto, Types, Places
  <2>4. raced' \in BOOLEAN
    BY <1>4 DEF Insert, Stale, Types
  <2>5. UNCHANGED <<fd, hComm, handles, port, name, skipped, failed>>
    BY <1>4 DEF Insert
  <2>6. QED BY <2>2, <2>3, <2>4, <2>5 DEF Types, Lists, Cap
<1>5. ASSUME NEW t \in Threads, Create(t) PROVE Types'
  <2>1. name[t] \in Names
    BY <1>5, NameOf DEF Create
  <2>2. at' \in [Threads -> Places]
    BY <1>5 DEF Create, Goto, Types, Places
  <2>3. hComm' \in [Names -> {"NULL", "INVALID", "handle"}] /\ handles' \subseteq Names
    BY <1>5, <2>1 DEF Create, Types
  <2>4. UNCHANGED <<first_tl, fd, port, name, index, raced, skipped, failed>>
    BY <1>5 DEF Create, history
  <2>5. QED BY <2>2, <2>3, <2>4 DEF Types, Lists, Cap
<1>6. ASSUME NEW t \in Threads, Undo(t) PROVE Types'
  <2>1. /\ first_tl' \in Lists /\ handles' \subseteq handles /\ skipped' \subseteq Names
    BY <1>6, SerialClose DEF Undo
  <2>2. at' \in [Threads -> Places] /\ name' \in [Threads -> Names \cup {null}]
    BY <1>6 DEF Undo, Return, Goto, Types, Places
  <2>3. UNCHANGED <<fd, hComm, port, index, raced, failed>>
    BY <1>6 DEF Undo
  <2>4. QED BY <2>1, <2>2, <2>3 DEF Types, Lists, Cap
<1>7. ASSUME NEW t \in Threads, Configure(t) PROVE Types'
  <2>1. name[t] \in Names
    BY <1>7, NameOf DEF Configure
  <2>2. at' \in [Threads -> Places] /\ name' \in [Threads -> Names \cup {null}]
    BY <1>7 DEF Configure, Return, Goto, Types, Places
  <2>3. port' = [port EXCEPT ![name[t]] = fd[name[t]]] \/ port' = port
    BY <1>7 DEF Configure, settings
  <2>4. port' \in [Names -> 0 .. Cap]
    BY <2>1, <2>3 DEF Types
  <2>5. failed' \subseteq Names
    BY <1>7, <2>1 DEF Configure, Types
  <2>6. UNCHANGED <<first_tl, fd, hComm, handles, index, raced, skipped>>
    BY <1>7 DEF Configure, list
  <2>7. QED BY <2>2, <2>4, <2>5, <2>6 DEF Types, Lists, Cap
<1>8. ASSUME NEW n \in Names, Close(n) PROVE Types'
  <2>1. /\ first_tl' \in Lists /\ handles' \subseteq handles /\ skipped' \subseteq Names
    BY <1>8, SerialClose DEF Close
  <2>2. port' \in [Names -> 0 .. Cap]
    BY <1>8, CapIsNat DEF Close, Types
  <2>3. UNCHANGED <<fd, hComm, at, name, index, raced, failed>>
    BY <1>8 DEF Close, threads
  <2>4. QED BY <2>1, <2>2, <2>3 DEF Types, Lists, Cap
<1>9. CASE UNCHANGED <<list, handles, port, threads, raced, skipped, failed>>
  BY <1>9 DEF Types, list, threads, Lists, Cap
<1>10. QED
  BY <1>2, <1>3, <1>5, <1>6, <1>7, <1>8, <1>9, <1>4
  DEF Next, vars, SetParams, SetFlow, list, history

LEMMA StepCalls == IInv /\ [Next]_vars => Calls'
<1> SUFFICES ASSUME Types, Calls, [Next]_vars PROVE Calls'
  BY DEF IInv
<1>1. ToSet(first_tl) \subseteq Names
  BY ListTypes DEF Types
<1>2. ASSUME NEW t \in Threads, Open(t) PROVE Calls'
  <2>1. PICK n \in Names : /\ port[n] = 0 /\ Free(n) /\ n \notin ToSet(first_tl)
                           /\ name' = [name EXCEPT ![t] = n]
    BY <1>2 DEF Open
  <2>2. at' = [at EXCEPT ![t] = "number"] /\ UNCHANGED <<first_tl, fd, port>> /\ n # null
    BY <1>2, NullIsNoPort DEF Open, Goto, list
  <2>3. /\ \A u \in Threads : u # t => name'[u] = name[u] /\ at'[u] = at[u] /\ name[u] # n
        /\ name'[t] = n /\ at'[t] = "number"
    BY <2>1, <2>2 DEF Types, Free
  <2>4. \A u \in Threads : at'[u] \in Adding => name'[u] \notin ToSet(first_tl)
    BY <2>1, <2>3 DEF Calls
  <2>5. \A u \in Threads : at'[u] = "insert" => fd[name'[u]] >= 1
    BY <2>3 DEF Calls
  <2>6. \A u \in Threads : at'[u] = "idle" <=> name'[u] = null
    BY <2>2, <2>3 DEF Calls
  <2>7. \A u, v \in Threads : name'[u] = name'[v] /\ name'[u] # null => u = v
    BY <2>3 DEF Calls
  <2>8. \A u \in Threads : name'[u] # null => port[name'[u]] = 0
    BY <2>1, <2>3 DEF Calls
  <2>9. QED BY <2>2, <2>4, <2>5, <2>6, <2>7, <2>8 DEF Calls
<1>3. ASSUME NEW t \in Threads, Number(t) PROVE Calls'
  <2> DEFINE n == name[t]
  <2>1. at[t] = "number" /\ n \in Names \ ToSet(first_tl) /\ n # null
    BY <1>3, NameOf DEF Number, Calls, Adding
  <2>2. get_free_fd >= 1
    <3>1. get_free_fd \in 1 .. Len(first_tl) + 1
      BY FreeFd DEF Calls
    <3>2. QED BY <3>1
  <2>3. /\ at' = [at EXCEPT ![t] = "insert"] /\ fd' = [fd EXCEPT ![n] = get_free_fd]
        /\ UNCHANGED <<first_tl, port, name>>
    BY <1>3 DEF Number, Goto
  <2>4. \A u \in Threads : at'[u] = IF u = t THEN "insert" ELSE at[u]
    BY <2>3 DEF Types
  <2>5. fd'[n] >= 1 /\ \A m \in Names : m # n => fd'[m] = fd[m]
    BY <2>1, <2>2, <2>3 DEF Types
  <2>6. \A u \in Threads : at'[u] = "insert" => fd'[name[u]] >= 1
    <3> SUFFICES ASSUME NEW u \in Threads, at'[u] = "insert" PROVE fd'[name[u]] >= 1
      OBVIOUS
    <3>1. CASE u = t
      BY <2>5, <3>1
    <3>2. CASE u # t
      <4>1. at[u] = "insert" /\ name[u] \in Names /\ name[u] # n
        BY <2>1, <2>4, <3>2, NameOf DEF Calls
      <4>2. QED BY <2>5, <4>1 DEF Calls
    <3>3. QED BY <3>1, <3>2
  <2>7. \A m \in ToSet(first_tl) : fd'[m] >= 1
    BY <1>1, <2>1, <2>5 DEF Calls
  <2>8. \A u \in Threads : /\ at'[u] = "idle" <=> at[u] = "idle"
                           /\ at'[u] \in Adding => at[u] \in Adding
    BY <2>1, <2>4 DEF Adding
  <2>9. QED BY <2>3, <2>6, <2>7, <2>8 DEF Calls
<1>4. ASSUME NEW t \in Threads, Insert(t) PROVE Calls'
  <2>1. /\ name[t] \in Names \ ToSet(first_tl) /\ fd[name[t]] >= 1
        /\ at[t] = "insert" /\ name[t] # null
    BY <1>4, NameOf DEF Insert, Calls, Adding
  <2>2. ToSet(first_tl') \subseteq ToSet(first_tl) \cup {name[t]}
    BY <1>4, <2>1, InsertedType, Single DEF Insert
  <2>3. at' = [at EXCEPT ![t] = "create"] /\ UNCHANGED <<fd, port, name>>
    BY <1>4 DEF Insert, Goto
  <2>4. \A u \in Threads : at'[u] = IF u = t THEN "create" ELSE at[u]
    BY <2>3 DEF Types
  <2>5. \A u \in Threads : at'[u] \in Adding => name[u] \notin ToSet(first_tl')
    BY <2>1, <2>2, <2>4, "create" \notin Adding DEF Calls, Adding
  <2>6. \A u \in Threads : at'[u] = "insert" => fd[name[u]] >= 1
    BY <2>4 DEF Calls
  <2>7. \A n \in ToSet(first_tl') : fd[n] >= 1
    BY <2>1, <2>2 DEF Calls
  <2>8. QED BY <2>1, <2>3, <2>4, <2>5, <2>6, <2>7 DEF Calls
<1>5. ASSUME NEW t \in Threads, Create(t) PROVE Calls'
  <2>1. UNCHANGED <<first_tl, fd, port, name>> /\ at[t] = "create"
    BY <1>5 DEF Create
  <2>2. at' = [at EXCEPT ![t] = "undo"] \/ at' = [at EXCEPT ![t] = "configure"]
    BY <1>5 DEF Create, Goto
  <2>3. \A u \in Threads : /\ at'[u] = "insert" <=> at[u] = "insert"
                           /\ at'[u] = "idle" <=> at[u] = "idle"
                           /\ at'[u] \in Adding <=> at[u] \in Adding
    BY <2>1, <2>2 DEF Types, Adding
  <2>4. QED BY <2>1, <2>3 DEF Calls
<1>6. ASSUME NEW t \in Threads, Return(t), UNCHANGED fd, ToSet(first_tl') \subseteq ToSet(first_tl),
             \A n \in Names : n = name[t] \/ port'[n] = port[n]
      PROVE  Calls'
  <2>1. \A u \in Threads : /\ at'[u] = IF u = t THEN "idle" ELSE at[u]
                           /\ name'[u] = IF u = t THEN null ELSE name[u]
    BY <1>6 DEF Return, Goto, Types
  <2>2. \A u \in Threads : name'[u] # null => port'[name'[u]] = 0
    <3> SUFFICES ASSUME NEW u \in Threads, name'[u] # null PROVE port'[name'[u]] = 0
      OBVIOUS
    <3>1. u # t /\ name'[u] = name[u] /\ name[u] \in Names /\ name[u] # name[t]
      BY <2>1 DEF Types, Calls
    <3>2. QED BY <1>6, <3>1 DEF Calls
  <2>3. \A u \in Threads : /\ at'[u] \in Adding => name'[u] \notin ToSet(first_tl')
                           /\ at'[u] = "insert" => fd[name'[u]] >= 1
    BY <1>6, <2>1 DEF Calls, Adding
  <2>4. \A u, v \in Threads : name'[u] = name'[v] /\ name'[u] # null => u = v
    BY <2>1 DEF Calls
  <2>5. \A u \in Threads : at'[u] = "idle" <=> name'[u] = null
    BY <2>1 DEF Calls
  <2>6. \A n \in ToSet(first_tl') : fd[n] >= 1
    BY <1>6 DEF Calls
  <2>7. QED BY <1>6, <2>2, <2>3, <2>4, <2>5, <2>6 DEF Calls
<1>7. ASSUME NEW t \in Threads, Undo(t) PROVE Calls'
  BY <1>6, <1>7, SerialClose DEF Undo
<1>8. ASSUME NEW t \in Threads, Configure(t) PROVE Calls'
  <2>1. \A n \in Names : n = name[t] \/ port'[n] = port[n]
    BY <1>8 DEF Configure, Types
  <2>2. Return(t) /\ UNCHANGED <<fd, first_tl>>
    BY <1>8 DEF Configure, list
  <2>3. QED BY <1>6, <2>1, <2>2
<1>9. ASSUME NEW n \in Names, Close(n) PROVE Calls'
  <2>1. ToSet(first_tl') \subseteq ToSet(first_tl) /\ UNCHANGED <<fd, at, name>>
    BY <1>9, SerialClose DEF Close, threads
  <2>2. \A m \in Names : port'[m] = IF m = n THEN 0 ELSE port[m]
    BY <1>9 DEF Close, Types
  <2>3. QED BY <2>1, <2>2 DEF Calls, Types
<1>10. CASE UNCHANGED <<list, port, threads>>
  BY <1>10 DEF Calls, list, threads
<1>11. QED
  BY <1>2, <1>3, <1>4, <1>5, <1>7, <1>8, <1>9, <1>10
  DEF Next, vars, SetParams, SetFlow, list

LEMMA StepList == IInv /\ [Next]_vars => ListInv'
<1> SUFFICES ASSUME Types, Calls, ListInv, [Next]_vars, ~raced' PROVE (Sorted /\ Chosen /\ Entries)'
  BY DEF IInv, ListInv
<1>1. Sorted /\ Chosen /\ Entries
  BY DEF ListInv, Next, Open, Number, Insert, Create, Undo, Configure, Close, SetParams, SetFlow, vars, history
<1>2. /\ first_tl \in Lists /\ ToSet(first_tl) \subseteq Names
      /\ \A i \in 1 .. Len(first_tl) : first_tl[i] \in ToSet(first_tl)
  BY ListTypes DEF Types
<1>3. ASSUME NEW t \in Threads, Open(t) PROVE (Sorted /\ Chosen /\ Entries)'
  <2>1. PICK n \in Names : port[n] = 0 /\ Free(n) /\ name' = [name EXCEPT ![t] = n]
    BY <1>3 DEF Open
  <2>2. /\ at' = [at EXCEPT ![t] = "number"] /\ at[t] = "idle"
        /\ UNCHANGED <<first_tl, fd, port, handles, skipped, failed>>
    BY <1>3 DEF Open, Goto, list
  <2>3. \A u \in Threads : at[u] \notin Adding
    BY <1>3 DEF Open, Adding
  <2>4. /\ \A u \in Threads : u # t => name'[u] = name[u] /\ at'[u] = at[u] /\ name[u] # n
        /\ name'[t] = n /\ at'[t] = "number"
    BY <2>1, <2>2 DEF Types, Free
  <2>5. Sorted'
    BY <1>1, <2>2 DEF Sorted
  <2>6. /\ index'[t] = null => first_tl = <<>>
        /\ index'[t] \in ToSet(first_tl) => index'[t] = first_tl[1]
    <3>1. index'[t] = IF first_tl = <<>> THEN null ELSE Head(first_tl)
      BY <1>3 DEF Open, Types
    <3>2. first_tl # <<>> => Head(first_tl) \in Names /\ Head(first_tl) = first_tl[1]
      BY <1>2, HeadTailProperties DEF Lists
    <3>3. QED BY <1>2, <3>1, <3>2, NullIsNoPort
  <2>7. Chosen'
    <3>1. \A u \in Threads : at'[u] \in Adding => u = t
      BY <2>3, <2>4
    <3>2. \A u \in Threads : at'[u] # "insert"
      BY <2>3, <2>4 DEF Adding
    <3>3. QED BY <2>2, <2>6, <3>1, <3>2 DEF Chosen
  <2>8. \A m \in ToSet(first_tl) : ~Free(m) => ~Free(m)'
    <3> SUFFICES ASSUME NEW m \in ToSet(first_tl), NEW u \in Threads, name[u] = m
                 PROVE  \E v \in Threads : name'[v] = m
      BY DEF Free
    <3>1. m # null
      BY <1>2, NullIsNoPort
    <3>2. u # t
      BY <2>2, <3>1 DEF Calls
    <3>3. QED BY <2>4, <3>2
  <2>9. \A u \in Threads : at'[u] \in {"create", "undo", "configure"} => u # t
    BY <2>4
  <2>10. Entries'
    BY <1>1, <2>2, <2>4, <2>8, <2>9 DEF Entries
  <2>11. QED BY <2>5, <2>7, <2>10
<1>4. ASSUME NEW t \in Threads, Number(t) PROVE (Sorted /\ Chosen /\ Entries)'
  <2> DEFINE n == name[t]
  <2>1. at[t] = "number" /\ n \in Names \ ToSet(first_tl) /\ n # null /\ port[n] = 0
    BY <1>4, NameOf DEF Number, Calls, Adding
  <2>2. /\ at' = [at EXCEPT ![t] = "insert"] /\ fd' = [fd EXCEPT ![n] = get_free_fd]
        /\ UNCHANGED <<first_tl, port, handles, name, index, skipped, failed>>
    BY <1>4 DEF Number, Goto, history
  <2>3. \A u \in Threads : at'[u] = IF u = t THEN "insert" ELSE at[u]
    BY <2>2 DEF Types
  <2>4. fd'[n] = get_free_fd /\ \A m \in Names : m # n => fd'[m] = fd[m]
    BY <2>1, <2>2 DEF Types
  <2>5. \A m \in ToSet(first_tl) : fd[m] # get_free_fd /\ fd'[m] = fd[m]
    BY <1>1, <1>2, <2>1, <2>4, FreshFd DEF Calls
  <2>6. Sorted'
    BY <1>1, <1>2, <2>2, <2>5 DEF Sorted
  <2>7. Chosen'
    <3>1. \A u \in Threads : at'[u] \in Adding => u = t
      BY <1>1, <2>1, <2>3 DEF Chosen, Adding
    <3>2. at[t] \in Adding
      BY <2>1 DEF Adding
    <3>3. QED BY <1>1, <2>2, <2>4, <2>5, <3>1, <3>2, "insert" \in Adding DEF Chosen, Adding
  <2>8. Entries'
    <3>1. \A m : Free(m)' = Free(m)
      BY <2>2 DEF Free
    <3>2. \A u \in Threads : at'[u] \in {"create", "undo", "configure"} => at'[u] = at[u]
      BY <2>3
    <3>3. \A m \in Names : port[m] # 0 => fd'[m] = fd[m]
      BY <2>1, <2>4
    <3>4. QED BY <1>1, <2>2, <3>1, <3>2, <3>3 DEF Entries
  <2>9. QED BY <2>6, <2>7, <2>8
<1>5. ASSUME NEW t \in Threads, Insert(t) PROVE (Sorted /\ Chosen /\ Entries)'
  <2> DEFINE n == name[t]
  <2>1. /\ n \in Names \ ToSet(first_tl) /\ n # null
        /\ at[t] = "insert" /\ at[t] \in Adding
    BY <1>5, NameOf DEF Insert, Calls, Adding
  <2>2. \A m \in ToSet(first_tl) : fd[m] # fd[n]
    BY <1>1, <2>1 DEF Chosen
  <2>3. /\ ~Stale(t) /\ first_tl' = Inserted(n, index[t]) /\ at' = [at EXCEPT ![t] = "create"]
        /\ UNCHANGED <<fd, hComm, handles, port, name, skipped, failed>>
    BY <1>5 DEF Insert, Goto
  <2>4. /\ ToSet(first_tl') = ToSet(first_tl) \cup {n}
        /\ \A j, k \in 1 .. Len(first_tl') : j < k => fd[first_tl'[j]] < fd[first_tl'[k]]
    <3>1. first_tl # <<>> => index[t] = first_tl[1]
      BY <1>1, <2>1, <2>3 DEF Stale, Chosen
    <3>2. QED BY <1>1, <2>1, <2>2, <2>3, <3>1, InsertedSorted
  <2>5. \A u \in Threads : at'[u] = IF u = t THEN "create" ELSE at[u]
    BY <2>3 DEF Types
  <2>6. Sorted'
    BY <2>3, <2>4 DEF Sorted
  <2>7. \A u \in Threads : at'[u] \notin Adding
    BY <1>1, <2>1, <2>5, "create" \notin Adding DEF Chosen, Adding
  <2>8. Chosen'
    BY <2>7, "insert" \in Adding DEF Chosen, Adding
  <2>9. ~Free(n)
    BY DEF Free
  <2>10. Entries'
    <3> HIDE DEF n
    <3>1. \A m : Free(m)' = Free(m)
      BY <2>3 DEF Free
    <3>2. \A u \in Threads : at'[u] \in {"create", "undo", "configure"} => name[u] \in ToSet(first_tl')
      BY <1>1, <2>4, <2>5 DEF Entries, n
    <3>3. \A u \in Threads : at'[u] = "configure" => name[u] \in handles
      BY <1>1, <2>5 DEF Entries
    <3>4. QED BY <1>1, <2>3, <2>4, <2>9, <3>1, <3>2, <3>3 DEF Entries
  <2>11. QED BY <2>6, <2>8, <2>10
<1>6. ASSUME NEW t \in Threads, Create(t) PROVE (Sorted /\ Chosen /\ Entries)'
  <2> DEFINE n == name[t]
  <2>1. at[t] = "create" /\ n \in ToSet(first_tl) /\ UNCHANGED <<first_tl, fd, port, name, index, history>>
    BY <1>1, <1>6 DEF Create, Entries
  <2>2. \/ handles' = handles /\ at' = [at EXCEPT ![t] = "undo"]
        \/ /\ handles' = handles \cup {n}
           /\ at' = [at EXCEPT ![t] = "undo"] \/ at' = [at EXCEPT ![t] = "configure"]
    BY <1>6 DEF Create, Goto
  <2>3. /\ \A u \in Threads : u # t => at'[u] = at[u]
        /\ at'[t] = "undo" \/ (at'[t] = "configure" /\ n \in handles')
    BY <2>2 DEF Types
  <2>4. Sorted'
    BY <1>1, <2>1 DEF Sorted
  <2>5. Chosen'
    <3>1. \A u \in Threads : /\ at'[u] = "insert" => at[u] = "insert"
                             /\ at'[u] \in Adding => at[u] \in Adding
      BY <2>3 DEF Adding
    <3>2. QED BY <1>1, <2>1, <3>1 DEF Chosen
  <2>6. Entries'
    <3>1. handles \subseteq handles' /\ handles' \subseteq handles \cup {n}
      BY <2>2
    <3>2. UNCHANGED <<skipped, failed>> /\ \A m : Free(m)' = Free(m)
      BY <2>1 DEF history, Free
    <3>3. \A u \in Threads : at'[u] \in {"create", "undo", "configure"} => name[u] \in ToSet(first_tl)
      BY <1>1, <2>1, <2>3 DEF Entries
    <3>4. \A u \in Threads : at'[u] = "configure" => name[u] \in handles'
      BY <1>1, <2>1, <2>3, <3>1 DEF Entries
    <3> HIDE DEF n
    <3>5. QED BY <1>1, <2>1, <3>1, <3>2, <3>3, <3>4 DEF Entries
  <2>7. QED BY <2>4, <2>5, <2>6
<1>7. ASSUME NEW t \in Threads, Undo(t) PROVE (Sorted /\ Chosen /\ Entries)'
  <2> DEFINE n == name[t]
  <2>1. at[t] = "undo" /\ n \in ToSet(first_tl) /\ n # null /\ port[n] = 0
    BY <1>1, <1>2, <1>7, NullIsNoPort DEF Undo, Entries, Calls
  <2>2. serial_close(fd[n]) /\ UNCHANGED <<fd, hComm, port, index, raced, failed>>
    BY <1>7 DEF Undo
  <2>3. \A u \in Threads : /\ at'[u] = IF u = t THEN "idle" ELSE at[u]
                           /\ name'[u] = IF u = t THEN null ELSE name[u]
    BY <1>7 DEF Undo, Return, Goto, Types
  <2>4. \A u \in Threads : u # t => name[u] # n
    BY <2>1 DEF Calls
  <2>5. /\ \/ ToSet(first_tl') = ToSet(first_tl) \ {n} /\ handles' = handles \ {n} /\ skipped' = skipped
           \/ first_tl' = first_tl /\ handles' = handles /\ skipped' = skipped \cup {n}
        /\ \A j, k \in 1 .. Len(first_tl') : j < k => fd[first_tl'[j]] < fd[first_tl'[k]]
        /\ first_tl[1] \in ToSet(first_tl') => first_tl'[1] = first_tl[1]
    BY <1>1, <2>1, <2>2, SerialCloseSorted
  <2> HIDE DEF n
  <2>6. Sorted'
    BY <2>2, <2>5 DEF Sorted
  <2>7. ToSet(first_tl') \subseteq ToSet(first_tl) /\ ToSet(first_tl) \subseteq ToSet(first_tl') \cup {n}
    BY <2>5
  <2>8. Chosen'
    <3>1. \A u \in Threads : at'[u] \in Adding => u # t /\ at'[u] = at[u] /\ name'[u] = name[u]
      BY <2>3 DEF Adding
    <3>2. first_tl # <<>>
      BY <1>2, <2>1, ListTypes
    <3>3. QED BY <1>1, <2>2, <2>5, <2>7, <3>1, <3>2, "insert" \in Adding DEF Chosen, Adding
  <2>9. \A m : m # n /\ m # null /\ ~Free(m) => ~Free(m)'
    BY <2>3 DEF Free, n
  <2>10. Entries'
    <3>1. \A u \in Threads : at'[u] \in {"create", "undo", "configure"} =>
            name'[u] \in ToSet(first_tl') /\ (at'[u] = "configure" => name'[u] \in handles')
      <4> SUFFICES ASSUME NEW u \in Threads, at'[u] \in {"create", "undo", "configure"}
                   PROVE  name'[u] \in ToSet(first_tl') /\ (at'[u] = "configure" => name'[u] \in handles')
        OBVIOUS
      <4>1. u # t /\ at'[u] = at[u] /\ name'[u] = name[u] /\ name[u] # n
        BY <2>3, <2>4
      <4>2. name[u] \in ToSet(first_tl) /\ (at[u] = "configure" => name[u] \in handles)
        BY <1>1, <4>1 DEF Entries
      <4>3. QED BY <2>5, <4>1, <4>2
    <3>2. \A m \in Names : port[m] # 0 => port[m] = fd[m] /\ m \in ToSet(first_tl') /\ m \in handles'
      BY <1>1, <2>1, <2>5 DEF Entries
    <3>3. handles' \subseteq ToSet(first_tl')
      BY <1>1, <2>5 DEF Entries
    <3>4. \A m \in ToSet(first_tl') : port[m] # 0 \/ ~Free(m)' \/ m \in skipped' \cup failed
      <4> SUFFICES ASSUME NEW m \in ToSet(first_tl') PROVE port[m] # 0 \/ ~Free(m)' \/ m \in skipped' \cup failed
        OBVIOUS
      <4>1. CASE m = n
        BY <2>5, <4>1
      <4>2. CASE m # n
        <5>1. m \in ToSet(first_tl) /\ m # null
          BY <1>2, <2>7, NullIsNoPort
        <5>2. skipped \subseteq skipped'
          BY <2>5
        <5>3. QED BY <1>1, <2>9, <4>2, <5>1, <5>2 DEF Entries
      <4>3. QED BY <4>1, <4>2
    <3>5. QED BY <2>2, <3>1, <3>2, <3>3, <3>4 DEF Entries
  <2>11. QED BY <2>6, <2>8, <2>10
<1>8. ASSUME NEW t \in Threads, Configure(t) PROVE (Sorted /\ Chosen /\ Entries)'
  <2> DEFINE n == name[t]
  <2>1. at[t] = "configure" /\ n \in ToSet(first_tl) /\ n \in handles /\ n \in Names /\ fd[n] >= 1
    BY <1>1, <1>2, <1>8 DEF Configure, Entries, Calls
  <2>2. \A u \in Threads : /\ at'[u] = IF u = t THEN "idle" ELSE at[u]
                           /\ name'[u] = IF u = t THEN null ELSE name[u]
    BY <1>8 DEF Configure, Return, Goto, Types
  <2>3. UNCHANGED <<first_tl, fd, handles, index, raced, skipped>>
    BY <1>8 DEF Configure, list
  <2>4. \/ port' = [port EXCEPT ![n] = fd[n]] /\ failed' = failed
        \/ port' = port /\ failed' = failed \cup {n}
    BY <1>8 DEF Configure, settings
  <2> HIDE DEF n
  <2>5. Sorted' /\ Chosen'
    <3>1. \A u \in Threads : at'[u] \in Adding => at'[u] = at[u] /\ name'[u] = name[u]
      BY <2>2 DEF Adding
    <3>2. QED BY <1>1, <2>3, <3>1, "insert" \in Adding DEF Sorted, Chosen, Adding
  <2>6. \A m : m # n /\ m # null /\ ~Free(m) => ~Free(m)'
    BY <2>2 DEF Free, n
  <2>7. /\ \A m \in Names : m # n => port'[m] = port[m]
        /\ failed \subseteq failed'
        /\ (port'[n] = fd[n] /\ port'[n] # 0) \/ (port'[n] = port[n] /\ n \in failed')
    <3>1. fd[n] # 0
      BY <2>1
    <3>2. QED BY <2>1, <2>4, <3>1 DEF Types
  <2>8. \A u \in Threads : at'[u] \in {"create", "undo", "configure"} => at'[u] = at[u] /\ name'[u] = name[u]
    BY <2>2
  <2>9. \A m \in ToSet(first_tl) : port'[m] # 0 \/ ~Free(m)' \/ m \in skipped \cup failed'
    <3> SUFFICES ASSUME NEW m \in ToSet(first_tl) PROVE port'[m] # 0 \/ ~Free(m)' \/ m \in skipped \cup failed'
      OBVIOUS
    <3>1. CASE m = n
      BY <2>7, <3>1
    <3>2. CASE m # n
      BY <1>1, <1>2, <2>6, <2>7, <3>2, NullIsNoPort DEF Entries
    <3>3. QED BY <3>1, <3>2
  <2>10. \A m \in Names : port'[m] # 0 => port'[m] = fd[m] /\ m \in ToSet(first_tl) /\ m \in handles
    BY <1>1, <2>1, <2>7 DEF Entries
  <2>11. Entries'
    BY <1>1, <2>3, <2>8, <2>9, <2>10 DEF Entries
  <2>12. QED BY <2>5, <2>11
<1>9. ASSUME NEW n \in Names, Close(n) PROVE (Sorted /\ Chosen /\ Entries)'
  <2>1. /\ port[n] = fd[n] /\ n \in ToSet(first_tl) /\ n \in handles
        /\ \A u \in Threads : name[u] # n
    BY <1>1, <1>9 DEF Close, Entries, Free
  <2>2. serial_close(fd[n]) /\ UNCHANGED <<fd, at, name, index, raced, failed>>
    BY <1>9, <2>1 DEF Close, threads
  <2>3. \A m \in Names : port'[m] = IF m = n THEN 0 ELSE port[m]
    BY <1>9 DEF Close, Types
  <2>4. /\ \/ ToSet(first_tl') = ToSet(first_tl) \ {n} /\ handles' = handles \ {n} /\ skipped' = skipped
           \/ first_tl' = first_tl /\ handles' = handles /\ skipped' = skipped \cup {n}
        /\ \A j, k \in 1 .. Len(first_tl') : j < k => fd[first_tl'[j]] < fd[first_tl'[k]]
        /\ first_tl[1] \in ToSet(first_tl') => first_tl'[1] = first_tl[1]
    BY <1>1, <2>1, <2>2, SerialCloseSorted
  <2>5. Sorted'
    BY <2>2, <2>4 DEF Sorted
  <2>6. ToSet(first_tl') \subseteq ToSet(first_tl) /\ skipped \subseteq skipped'
    BY <2>4
  <2>7. Chosen'
    <3>1. first_tl # <<>>
      BY <1>2, <2>1, ListTypes
    <3>2. QED BY <1>1, <2>2, <2>4, <2>6, <3>1 DEF Chosen
  <2>8. Entries'
    <3>1. \A u \in Threads : /\ at[u] \in {"create", "undo", "configure"} => name[u] \in ToSet(first_tl')
                             /\ at[u] = "configure" => name[u] \in handles'
      BY <1>1, <2>1, <2>4 DEF Entries
    <3>2. \A m \in Names : port'[m] # 0 => port'[m] = fd[m] /\ m \in ToSet(first_tl') /\ m \in handles'
      BY <1>1, <2>3, <2>4 DEF Entries
    <3>3. handles' \subseteq ToSet(first_tl')
      BY <1>1, <2>4 DEF Entries
    <3>4. \A m \in ToSet(first_tl') : port'[m] # 0 \/ ~Free(m)' \/ m \in skipped' \cup failed
      <4> SUFFICES ASSUME NEW m \in ToSet(first_tl') PROVE port'[m] # 0 \/ ~Free(m)' \/ m \in skipped' \cup failed
        OBVIOUS
      <4>1. CASE m = n
        BY <2>4, <4>1
      <4>2. CASE m # n
        BY <1>1, <1>2, <2>2, <2>3, <2>6, <4>2 DEF Entries, Free
      <4>3. QED BY <4>1, <4>2
    <3>5. QED BY <2>2, <3>1, <3>2, <3>3, <3>4 DEF Entries
  <2>9. QED BY <2>5, <2>7, <2>8
<1>10. CASE UNCHANGED <<list, handles, port, threads, raced, skipped, failed>>
  <2>1. UNCHANGED <<first_tl, fd, handles, port, at, name, index, skipped, failed>> /\ \A m : Free(m)' = Free(m)
    BY <1>10 DEF list, threads, Free
  <2>2. Sorted' /\ Chosen'
    BY <1>1, <2>1 DEF Sorted, Chosen
  <2>3. Entries'
    BY <1>1, <2>1 DEF Entries
  <2>4. QED BY <2>2, <2>3
<1>11. QED
  BY <1>3, <1>4, <1>5, <1>6, <1>7, <1>8, <1>9, <1>10
  DEF Next, vars, SetParams, SetFlow, list, history
-----------------------------------------------------------------------------
(* The speed codes *)

Weights == {1, 2, 4, 8, 4096, 8192}

(* A word within CBAUD is the sum of its bits. *)
LEMMA BitsOfSum ==
  ASSUME NEW b1 \in {0, 1}, NEW b2 \in {0, 2}, NEW b4 \in {0, 4}, NEW b8 \in {0, 8},
         NEW bx \in {0, 4096}, NEW bg \in {0, 8192}
  PROVE  LET sum == b1 + b2 + b4 + b8 + bx + bg IN
         /\ sum \in Nat
         /\ Bit(sum, 1) <=> b1 = 1
         /\ Bit(sum, 2) <=> b2 = 2
         /\ Bit(sum, 4) <=> b4 = 4
         /\ Bit(sum, 8) <=> b8 = 8
         /\ Bit(sum, 4096) <=> bx = 4096
         /\ Bit(sum, 8192) <=> bg = 8192
<1> DEFINE sum == b1 + b2 + b4 + b8 + bx + bg
<1>1. sum \in Nat
  OBVIOUS
<1>2. Bit(sum, 1) <=> b1 = 1
  BY DEF Bit
<1>3. Bit(sum, 2) <=> b2 = 2
  BY DEF Bit
<1>4. Bit(sum, 4) <=> b4 = 4
  BY DEF Bit
<1>5. Bit(sum, 8) <=> b8 = 8
  BY DEF Bit
<1>6. Bit(sum, 4096) <=> bx = 4096
  BY DEF Bit
<1>7. Bit(sum, 8192) <=> bg = 8192
  BY DEF Bit
<1>8. QED BY <1>1, <1>2, <1>3, <1>4, <1>5, <1>6, <1>7

LEMMA ZeroHasNoBits == \A weight \in Weights : ~Bit(0, weight)
BY DEF Bit, Weights

LEMMA OredBits ==
  ASSUME NEW a \in Int, NEW b \in Int
  PROVE  /\ Ored(a, b) \in Nat
         /\ \A weight \in Weights :
              Bit(Ored(a, b), weight) <=> Bit(a, weight) \/ Bit(b, weight)
<1> DEFINE bit(weight) == IF Bit(a, weight) \/ Bit(b, weight) THEN weight ELSE 0
<1>1. Ored(a, b) = bit(1) + bit(2) + bit(4) + bit(8) + bit(4096) + bit(8192)
  BY DEF Ored, CBAUDEX, Glue
<1>2. /\ bit(1) \in {0, 1} /\ bit(2) \in {0, 2} /\ bit(4) \in {0, 4} /\ bit(8) \in {0, 8}
      /\ bit(4096) \in {0, 4096} /\ bit(8192) \in {0, 8192}
  OBVIOUS
<1>3. /\ bit(1) = 1 <=> Bit(a, 1) \/ Bit(b, 1)
      /\ bit(2) = 2 <=> Bit(a, 2) \/ Bit(b, 2)
      /\ bit(4) = 4 <=> Bit(a, 4) \/ Bit(b, 4)
      /\ bit(8) = 8 <=> Bit(a, 8) \/ Bit(b, 8)
      /\ bit(4096) = 4096 <=> Bit(a, 4096) \/ Bit(b, 4096)
      /\ bit(8192) = 8192 <=> Bit(a, 8192) \/ Bit(b, 8192)
  OBVIOUS
<1> HIDE DEF bit
<1>4. /\ Ored(a, b) \in Nat
      /\ Bit(Ored(a, b), 1) <=> bit(1) = 1
      /\ Bit(Ored(a, b), 2) <=> bit(2) = 2
      /\ Bit(Ored(a, b), 4) <=> bit(4) = 4
      /\ Bit(Ored(a, b), 8) <=> bit(8) = 8
      /\ Bit(Ored(a, b), 4096) <=> bit(4096) = 4096
      /\ Bit(Ored(a, b), 8192) <=> bit(8192) = 8192
  BY <1>1, <1>2, BitsOfSum
<1>5. QED BY <1>3, <1>4 DEF Weights

(* Words with the same bits have the same sum. *)
LEMMA OredSame ==
  ASSUME NEW a, NEW b, NEW c, NEW d,
         \A weight \in Weights :
           Bit(a, weight) \/ Bit(b, weight) <=> Bit(c, weight) \/ Bit(d, weight)
  PROVE  Ored(a, b) = Ored(c, d)
<1>1. /\ Bit(a, 1) \/ Bit(b, 1) <=> Bit(c, 1) \/ Bit(d, 1)
      /\ Bit(a, 2) \/ Bit(b, 2) <=> Bit(c, 2) \/ Bit(d, 2)
      /\ Bit(a, 4) \/ Bit(b, 4) <=> Bit(c, 4) \/ Bit(d, 4)
      /\ Bit(a, 8) \/ Bit(b, 8) <=> Bit(c, 8) \/ Bit(d, 8)
      /\ Bit(a, 4096) \/ Bit(b, 4096) <=> Bit(c, 4096) \/ Bit(d, 4096)
      /\ Bit(a, 8192) \/ Bit(b, 8192) <=> Bit(c, 8192) \/ Bit(d, 8192)
  BY DEF Weights
<1>2. QED BY <1>1 DEF Ored, CBAUDEX, Glue

LEMMA OredWithin ==
  ASSUME NEW a \in Int, NEW b \in Int
  PROVE  WithinCBAUD(Ored(a, b))
<1> DEFINE c == Ored(a, b)
<1>1. \A weight \in Weights :
        Bit(c, weight) \/ Bit(0, weight) <=> Bit(a, weight) \/ Bit(b, weight)
  <2>1. \A weight \in Weights : Bit(c, weight) <=> Bit(a, weight) \/ Bit(b, weight)
    BY OredBits
  <2> HIDE DEF c
  <2>2. QED BY <2>1, ZeroHasNoBits, Zenon
<1> HIDE DEF c
<1>2. Ored(c, 0) = Ored(a, b)
  BY <1>1, OredSame
<1>3. QED BY <1>2 DEF c, WithinCBAUD

LEMMA OredSelf ==
  ASSUME NEW a, WithinCBAUD(a)
  PROVE  Ored(a, a) = a
BY OredSame, ZeroHasNoBits DEF WithinCBAUD

LEMMA OredExtended ==
  ASSUME NEW a \in Int, NEW b \in Int
  PROVE  Bit(Ored(a, b), 4096) <=> (Bit(a, 4096) \/ Bit(b, 4096))
<1>1. 4096 \in Weights
  BY DEF Weights
<1>2. \A weight \in Weights : Bit(Ored(a, b), weight) <=> (Bit(a, weight) \/ Bit(b, weight))
  BY OredBits
<1>3. QED BY <1>1, <1>2

LEMMA CodesWithin == /\ WithinCBAUD(13) /\ WithinCBAUD(4111)
                     /\ ~Bit(13, 4096) /\ Bit(4111, 4096)
                     /\ \A d \in 0 .. 3 : Ored(d, d) = d
<1>1. WithinCBAUD(13)
  BY DEF WithinCBAUD, Ored, Bit, CBAUDEX, Glue
<1>2. WithinCBAUD(4111)
  BY DEF WithinCBAUD, Ored, Bit, CBAUDEX, Glue
<1>3. ~Bit(13, 4096) /\ Bit(4111, 4096)
  BY DEF Bit
<1>4. \A d \in 0 .. 3 : Ored(d, d) = d
  BY DEF Ored, Bit, CBAUDEX, Glue
<1>5. QED BY <1>1, <1>2, <1>3, <1>4

(* The tables have each rate once. *)
LEMMA Tables ==
  /\ DOMAIN LowRates = 1 .. 15 /\ DOMAIN HighRates = 1 .. 15 /\ DOMAIN GlueRates = 1 .. 4
  /\ \A i \in 1 .. 15 : LowRates[i] \in Nat /\ LowRates[i] >= 50 /\ LowRates[i] <= 38400
  /\ \A i \in 1 .. 15 : HighRates[i] \in Nat /\ HighRates[i] >= 57600
  /\ \A i, j \in 1 .. 15 : LowRates[i] = LowRates[j] => i = j
  /\ \A i, j \in 1 .. 15 : HighRates[i] = HighRates[j] => i = j
  /\ \A i, j \in 1 .. 4 : GlueRates[i] = GlueRates[j] => i = j
  /\ \A i \in 1 .. 4 : /\ GlueRates[i] > 0
                       /\ \A j \in 1 .. 15 : GlueRates[i] # LowRates[j] /\ GlueRates[i] # HighRates[j]
<1>1. DOMAIN LowRates = 1 .. 15 /\ DOMAIN HighRates = 1 .. 15 /\ DOMAIN GlueRates = 1 .. 4
  BY DEF LowRates, HighRates, GlueRates
<1>2. \A i \in 1 .. 15 : LowRates[i] \in Nat /\ LowRates[i] >= 50 /\ LowRates[i] <= 38400
  <2>1. \A i \in 1 .. 15 : LowRates[i] \in Nat
    BY DEF LowRates
  <2>2. \A i \in 1 .. 15 : LowRates[i] >= 50
    BY DEF LowRates
  <2>3. \A i \in 1 .. 15 : LowRates[i] <= 38400
    BY DEF LowRates
  <2>4. QED BY <2>1, <2>2, <2>3
<1>3. \A i \in 1 .. 15 : HighRates[i] \in Nat /\ HighRates[i] >= 57600
  <2>1. \A i \in 1 .. 15 : HighRates[i] \in Nat
    BY DEF HighRates
  <2>2. \A i \in 1 .. 15 : HighRates[i] >= 57600
    BY DEF HighRates
  <2>3. QED BY <2>1, <2>2
<1>4. \A i, j \in 1 .. 15 : LowRates[i] = LowRates[j] => i = j
  BY DEF LowRates
<1>5. \A i, j \in 1 .. 15 : HighRates[i] = HighRates[j] => i = j
  BY DEF HighRates
<1>6. /\ GlueRates[1] = 14400 /\ GlueRates[2] = 28800 /\ GlueRates[3] = 128000 /\ GlueRates[4] = 256000
  BY DEF GlueRates
<1>7. \A j \in 1 .. 15 : LowRates[j] # 14400 /\ LowRates[j] # 28800
  BY DEF LowRates
<1>8. \A j \in 1 .. 15 : HighRates[j] # 128000 /\ HighRates[j] # 256000
  BY DEF HighRates
<1>9. \A i \in 1 .. 4 : i = 1 \/ i = 2 \/ i = 3 \/ i = 4
  OBVIOUS
<1>10. \A i, j \in 1 .. 4 : GlueRates[i] = GlueRates[j] => i = j
  BY <1>6, <1>9
<1>11. \A i \in 1 .. 4 : /\ GlueRates[i] > 0
                         /\ \A j \in 1 .. 15 : GlueRates[i] # LowRates[j] /\ GlueRates[i] # HighRates[j]
  <2> SUFFICES ASSUME NEW i \in 1 .. 4
               PROVE  /\ GlueRates[i] > 0
                      /\ \A j \in 1 .. 15 : GlueRates[i] # LowRates[j] /\ GlueRates[i] # HighRates[j]
    OBVIOUS
  <2>1. CASE GlueRates[i] \in {14400, 28800}
    BY <1>3, <1>7, <2>1
  <2>2. CASE GlueRates[i] \in {128000, 256000}
    BY <1>2, <1>8, <2>2
  <2>3. QED BY <1>6, <1>9, <2>1, <2>2
<1>12. QED BY <1>1, <1>2, <1>3, <1>4, <1>5, <1>10, <1>11

(* Each rate of the Linux table has one code, ... *)
LEMMA CodeOnce ==
  ASSUME NEW rate, NEW c \in Codes, NEW d \in Codes, Coded(rate, c), Coded(rate, d)
  PROVE  c = d
<1> DEFINE low(x) == x \in 1 .. 15 /\ LowRates[x] = rate
           high(x) == x - 4096 \in 1 .. 15 /\ HighRates[x - 4096] = rate
<1>1. \A x \in {c, d} : (rate = 0 /\ x = 0) \/ low(x) \/ high(x)
  BY Tables DEF Coded, B0, CBAUDEX
<1>2. \A x \in {c, d} : x \in Int
  BY Tables DEF Codes, B0, CBAUDEX
<1>3. \A x \in {c, d} : /\ low(x) => rate \in Nat /\ rate >= 50 /\ rate <= 38400
                        /\ high(x) => rate \in Nat /\ rate >= 57600
  BY Tables
<1>4. low(c) /\ low(d) => c = d
  BY Tables
<1>5. high(c) /\ high(d) => c = d
  <2>1. high(c) /\ high(d) => c - 4096 = d - 4096
    BY Tables
  <2>2. QED BY <1>2, <2>1
<1> HIDE DEF low, high
<1>6. QED BY <1>1, <1>3, <1>4, <1>5

(* ... which is positive unless the rate is 0, and gives the rate back.      *)
LEMMA Standard ==
  ASSUME NEW code \in Codes
  PROVE  LET rate == get_java_baudrate(code) IN
         /\ code \in Nat /\ rate \in Nat
         /\ code = 0 <=> rate = 0
         /\ Coded(rate, code) /\ translate_speed(rate) = code
         /\ rate \notin {GlueRates[i] : i \in 1 .. 4}
<1> DEFINE rate == get_java_baudrate(code)
<1>1. code = 0 \/ code \in 1 .. 15 \/ (code \in Nat /\ code > 4096 /\ code - 4096 \in 1 .. 15)
  BY Tables DEF Codes, B0, CBAUDEX
<1>2. /\ code \in Nat /\ rate \in Nat /\ (code = 0 <=> rate = 0) /\ Coded(rate, code)
      /\ rate \notin {GlueRates[i] : i \in 1 .. 4}
  <2>1. CASE code = 0
    <3>1. rate = 0
      <4>1. 0 \notin 1 .. 15 /\ 0 - 4096 \notin 1 .. 15
        OBVIOUS
      <4>2. QED BY <2>1, <4>1, Tables DEF get_java_baudrate, B0, CBAUDEX
    <3>2. QED BY <2>1, <3>1, Tables DEF Coded, B0
  <2>2. CASE code \in 1 .. 15
    <3>1. rate = LowRates[code]
      <4>1. code # 0 /\ code - 4096 \notin 1 .. 15
        BY <2>2
      <4>2. QED BY <2>2, <4>1, Tables DEF get_java_baudrate, B0, CBAUDEX
    <3>2. code \in Nat /\ code # 0
      BY <2>2
    <3>3. QED BY <2>2, <3>1, <3>2, Tables DEF Coded
  <2>3. CASE code \in Nat /\ code > 4096 /\ code - 4096 \in 1 .. 15
    <3>1. code # 0 /\ code \notin 1 .. 15
      BY <2>3
    <3>2. rate = HighRates[code - 4096]
      BY <2>3, <3>1, Tables DEF get_java_baudrate, B0, CBAUDEX
    <3>3. rate \in Nat /\ rate # 0
      BY <2>3, <3>2, Tables
    <3>4. QED BY <2>3, <3>1, <3>2, <3>3, Tables DEF Coded, CBAUDEX
  <2>4. QED BY <1>1, <2>1, <2>2, <2>3
<1> HIDE DEF rate
<1>3. translate_speed(rate) = code
  <2>1. IsStandard(rate)
    BY <1>2 DEF IsStandard
  <2>2. (CHOOSE c \in Codes : Coded(rate, c)) \in Codes /\ Coded(rate, CHOOSE c \in Codes : Coded(rate, c))
    BY <1>2, Zenon
  <2>3. (CHOOSE c \in Codes : Coded(rate, c)) = code
    BY <1>2, <2>2, CodeOnce
  <2>4. QED BY <2>1, <2>3 DEF translate_speed
<1>4. QED BY <1>2, <1>3 DEF rate

LEMMA GlueCode ==
  ASSUME NEW i \in 1 .. 4
  PROVE  /\ CBR_to_B(GlueRates[i]) = 8192 + i
         /\ B_to_CBR(8192 + i) = GlueRates[i]
<1>1. (CHOOSE j \in DOMAIN GlueRates : GlueRates[j] = GlueRates[i]) = i
  <2>1. \E j \in DOMAIN GlueRates : GlueRates[j] = GlueRates[i]
    BY Tables
  <2> DEFINE c == CHOOSE j \in DOMAIN GlueRates : GlueRates[j] = GlueRates[i]
  <2>2. c \in DOMAIN GlueRates /\ GlueRates[c] = GlueRates[i]
    BY <2>1, Zenon
  <2> HIDE DEF c
  <2>3. c = i
    BY <2>2, Tables
  <2>4. QED BY <2>3 DEF c
<1>2. CBR_to_B(GlueRates[i]) = 8192 + i
  BY <1>1, Tables DEF CBR_to_B, Glue
<1>3. 8192 + i \notin Codes
  BY Tables DEF Codes, B0, CBAUDEX
<1>4. (8192 + i) - 8192 = i
  OBVIOUS
<1>5. B_to_CBR(8192 + i) = GlueRates[i]
  BY <1>3, <1>4, Tables DEF B_to_CBR, Glue
<1>6. QED BY <1>2, <1>5

(* A speed goes to the DCB as a rate and comes back as the same code.        *)
LEMMA SpeedBack ==
  ASSUME NEW speed \in Nat
  PROVE  LET code == CBR_to_B(speed) IN
         /\ code \in Nat /\ (code = 0 <=> speed = 0)
         /\ code # 0 => B_to_CBR(code) > 0 /\ CBR_to_B(B_to_CBR(code)) = code
<1> DEFINE code == CBR_to_B(speed)
<1>1. ASSUME NEW c \in Codes, c # 0
      PROVE  c \in Nat /\ B_to_CBR(c) > 0 /\ CBR_to_B(B_to_CBR(c)) = c
  <2>1. B_to_CBR(c) = get_java_baudrate(c)
    <3>1. c - 8192 \notin 1 .. 4
      BY Tables DEF Codes, B0, CBAUDEX
    <3>2. QED BY <3>1, Tables DEF B_to_CBR, Glue
  <2>2. /\ c \in Nat /\ B_to_CBR(c) \in Nat /\ B_to_CBR(c) # 0 /\ translate_speed(B_to_CBR(c)) = c
        /\ B_to_CBR(c) \notin {GlueRates[i] : i \in 1 .. 4}
    BY <1>1, <2>1, Standard
  <2>3. CBR_to_B(B_to_CBR(c)) = c
    BY <2>2, Tables DEF CBR_to_B
  <2>4. QED BY <2>2, <2>3
<1>2. ASSUME NEW i \in 1 .. 4
      PROVE  8192 + i \in Nat /\ B_to_CBR(8192 + i) > 0 /\ CBR_to_B(B_to_CBR(8192 + i)) = 8192 + i
  BY GlueCode, Tables
<1>3. CASE \E i \in 1 .. 4 : GlueRates[i] = speed
  <2>1. PICK i \in 1 .. 4 : GlueRates[i] = speed
    BY <1>3
  <2>2. code = 8192 + i /\ code # 0 /\ speed # 0
    BY <2>1, GlueCode, Tables
  <2>3. QED BY <1>2, <2>2
<1>4. CASE ~(\E i \in 1 .. 4 : GlueRates[i] = speed)
  <2>1. code = translate_speed(speed)
    BY <1>4, Tables DEF CBR_to_B
  <2>2. CASE IsStandard(speed)
    <3>1. (CHOOSE c \in Codes : Coded(speed, c)) \in Codes /\ Coded(speed, CHOOSE c \in Codes : Coded(speed, c))
      BY <2>2, Zenon DEF IsStandard
    <3>2. code \in Codes /\ Coded(speed, code)
      BY <2>1, <2>2, <3>1 DEF translate_speed
    <3> HIDE DEF code
    <3>3. code = 0 <=> speed = 0
      <4>1. speed = 0 => Coded(speed, 0) /\ 0 \in Codes
        BY DEF Coded, Codes, B0
      <4>2. speed = 0 => code = 0
        BY <3>2, <4>1, CodeOnce
      <4>3. code = 0 => speed = 0
        BY <3>2, Tables DEF Coded, B0, CBAUDEX
      <4>4. QED BY <4>2, <4>3
    <3>4. code \in Nat
      BY <3>2, Standard
    <3>5. QED BY <1>1, <3>2, <3>3, <3>4 DEF code
  <2>3. CASE ~IsStandard(speed)
    <3>1. code = speed
      BY <2>1, <2>3 DEF translate_speed
    <3>2. speed # 0
      <4>1. Coded(0, 0) /\ 0 \in Codes
        BY DEF Coded, Codes, B0
      <4>2. QED BY <2>3, <4>1 DEF IsStandard
    <3>3. CASE speed \in Codes
      BY <1>1, <3>1, <3>2, <3>3
    <3>4. CASE speed - 8192 \in 1 .. 4
      <4>1. 8192 + (speed - 8192) = speed
        OBVIOUS
      <4>2. QED BY <1>2, <3>1, <3>2, <3>4, <4>1
    <3>5. CASE speed \notin Codes /\ speed - 8192 \notin 1 .. 4
      <4>1. B_to_CBR(speed) = speed
        BY <3>5, Tables DEF B_to_CBR, Glue
      <4>2. QED BY <3>1, <3>2, <4>1
    <3>6. QED BY <3>3, <3>4, <3>5
  <2>4. QED BY <2>2, <2>3
<1>5. QED BY <1>3, <1>4

LEMMA Code9600 == CBR_to_B(9600) = 13 /\ B_to_CBR(13) = 9600
<1>1. 13 \in Codes /\ LowRates[13] = 9600
  <2>1. LowRates[13] = 9600
    BY DEF LowRates
  <2>2. QED BY <2>1, Tables DEF Codes
<1>2. get_java_baudrate(13) = 9600
  <2>1. 13 \in 1 .. 15 /\ 13 # 0 /\ 13 - 4096 \notin 1 .. 15
    OBVIOUS
  <2>2. QED BY <1>1, <2>1, Tables DEF get_java_baudrate, B0, CBAUDEX
<1>3. translate_speed(9600) = 13 /\ 9600 \notin {GlueRates[i] : i \in 1 .. 4}
  BY <1>1, <1>2, Standard
<1>4. CBR_to_B(9600) = 13
  BY <1>3, Tables DEF CBR_to_B
<1>5. B_to_CBR(13) = 9600
  <2>1. 13 - 8192 \notin 1 .. 4
    OBVIOUS
  <2>2. QED BY <1>1, <1>2, <2>1, Tables DEF B_to_CBR, Glue
<1>6. QED BY <1>4, <1>5

(* Adding up codes that are no custom speeds gives a number that is a code or *)
(* nothing else's code or rate, ...                                          *)
LEMMA Mixed ==
  ASSUME NEW a \in Int, NEW c \in Int, WithinCBAUD(a), a # 0, ~Bit(Ored(a, c), 4096)
  PROVE  Ored(a, c) \in 1 .. 15 \cup 8192 .. 8207
<1>0. \A weight \in Weights : Bit(Ored(a, c), weight) <=> (Bit(a, weight) \/ Bit(c, weight))
  BY OredBits
<1> DEFINE b == Ored(a, c)
           bit(weight) == IF Bit(a, weight) \/ Bit(c, weight) THEN weight ELSE 0
<1>1. b = bit(1) + bit(2) + bit(4) + bit(8) + bit(4096) + bit(8192)
  BY DEF Ored, CBAUDEX, Glue
<1>2. bit(4096) = 0
  BY OredExtended
<1>3. /\ bit(1) \in {0, 1} /\ bit(2) \in {0, 2} /\ bit(4) \in {0, 4} /\ bit(8) \in {0, 8}
      /\ bit(8192) \in {0, 8192}
  OBVIOUS
<1>4. b # 0
  <2> SUFFICES ASSUME b = 0 PROVE a = 0
    OBVIOUS
  <2>a. Ored(a, c) = 0
    BY DEF b
  <2>1. \A weight \in Weights : ~Bit(a, weight)
    <3>1. \A weight \in Weights : Bit(0, weight) <=> (Bit(a, weight) \/ Bit(c, weight))
      BY <1>0, <2>a DEF b
    <3>2. QED BY <3>1, ZeroHasNoBits
  <2>2. Ored(a, 0) = Ored(0, 0)
    BY <2>1, ZeroHasNoBits, OredSame
  <2>3. Ored(0, 0) = 0
    BY CodesWithin
  <2>4. QED BY <2>2, <2>3 DEF WithinCBAUD
<1> HIDE DEF b, bit
<1>5. QED BY <1>1, <1>2, <1>3, <1>4 DEF b

(* ... and so it goes to the DCB and back as every code does.                *)
LEMMA MixedBack ==
  ASSUME NEW b \in 1 .. 15 \cup 8192 .. 8207
  PROVE  B_to_CBR(b) > 0 /\ CBR_to_B(B_to_CBR(b)) = b
<1>1. \E speed \in Nat : CBR_to_B(speed) = b
  <2>1. CASE b \in 1 .. 15
    <3> DEFINE rate == get_java_baudrate(b)
    <3>1. b \in Codes
      BY <2>1, Tables DEF Codes
    <3>2. rate \in Nat /\ translate_speed(rate) = b /\ rate \notin {GlueRates[i] : i \in 1 .. 4}
      BY <3>1, Standard
    <3> HIDE DEF rate
    <3>3. CBR_to_B(rate) = b
      BY <3>2, Tables DEF CBR_to_B
    <3>4. QED BY <3>2, <3>3
  <2>2. CASE b \in 8192 .. 8207
    <3>1. b \notin {GlueRates[i] : i \in 1 .. 4}
      <4>1. \A i \in 1 .. 4 : GlueRates[i] > 8207
        BY DEF GlueRates
      <4>2. QED BY <2>2, <4>1
    <3>2. ~IsStandard(b)
      <4>1. \A i \in 1 .. 15 : LowRates[i] < 8192 \/ LowRates[i] > 8207
        BY DEF LowRates
      <4>2. b \in Nat /\ b # 0 /\ \A i \in 1 .. 15 : LowRates[i] # b /\ HighRates[i] # b
        BY <2>2, <4>1, Tables
      <4>3. \A code \in Codes : ~Coded(b, code)
        BY <4>2, Tables DEF Coded
      <4> HIDE DEF Coded
      <4>4. QED BY <4>3 DEF IsStandard
    <3>3. CBR_to_B(b) = b /\ b \in Nat
      BY <2>2, <3>1, <3>2, Tables DEF CBR_to_B, translate_speed
    <3>4. QED BY <3>3
  <2>3. QED BY <2>1, <2>2
<1>2. PICK speed \in Nat : CBR_to_B(speed) = b
  BY <1>1
<1>3. b # 0
  OBVIOUS
<1>4. QED BY <1>2, <1>3, SpeedBack

(* The bits of CSIZE. *)
LEMMA SmallOred == \A d, e \in 0 .. 3 : Ored(d, e) \in 0 .. 3
<1> SUFFICES ASSUME NEW d \in 0 .. 3, NEW e \in 0 .. 3 PROVE Ored(d, e) \in 0 .. 3
  OBVIOUS
<1>1. \A k \in 0 .. 3 : ~Bit(k, 4) /\ ~Bit(k, 8) /\ ~Bit(k, 4096) /\ ~Bit(k, 8192)
  BY DEF Bit
<1> DEFINE bit(weight) == IF Bit(d, weight) \/ Bit(e, weight) THEN weight ELSE 0
<1>2. Ored(d, e) = bit(1) + bit(2)
  <2>1. Ored(d, e) = bit(1) + bit(2) + bit(4) + bit(8) + bit(4096) + bit(8192)
    BY DEF Ored, CBAUDEX, Glue
  <2>2. bit(4) = 0 /\ bit(8) = 0 /\ bit(4096) = 0 /\ bit(8192) = 0
    BY <1>1
  <2>3. bit(1) \in {0, 1} /\ bit(2) \in {0, 2}
    OBVIOUS
  <2> HIDE DEF bit
  <2>4. QED BY <2>1, <2>2, <2>3
<1>3. bit(1) \in {0, 1} /\ bit(2) \in {0, 2}
  OBVIOUS
<1> HIDE DEF bit
<1>4. QED BY <1>2, <1>3
-----------------------------------------------------------------------------
(* The words of the termios *)

(* Two words with the same fields are the same. *)
LEMMA Word ==
  ASSUME NEW w \in Wide
  PROVE  w = [baud |-> w.baud, ispeed |-> w.ispeed, csize |-> w.csize, cflag |-> w.cflag,
              iflag |-> w.iflag, eof |-> w.eof]
BY DEF Wide

LEMMA Record ==
  ASSUME NEW x, x = [y \in {"baud", "ispeed", "csize", "cflag", "iflag", "eof"} |-> x[y]]
  PROVE  x = [baud |-> x.baud, ispeed |-> x.ispeed, csize |-> x.csize, cflag |-> x.cflag,
              iflag |-> x.iflag, eof |-> x.eof]
OBVIOUS

LEMMA ParityFlagsOnly == \A p \in DOMAIN Parities : Parities[p] \subseteq ParityFlags
BY DEF Parities, ParityFlags

LEMMA FlagsAreFlags ==
  ASSUME NEW f \in SUBSET {"CSTOPB", "PARENB", "PARODD", "CMSPAR", "CRTSCTS"},
         NEW q, q.parity \in DOMAIN Parities
  PROVE  /\ Flags(f, q) \subseteq {"CSTOPB", "PARENB", "PARODD", "CMSPAR", "CRTSCTS"}
         /\ Flags(f, q) \cap ParityFlags = Parities[q.parity]
<1>1. Parities[q.parity] \subseteq ParityFlags
  BY ParityFlagsOnly
<1>2. QED BY <1>1 DEF Flags, ParityFlags

(* Translating twice is translating once, ...                                *)
LEMMA FlagsTwice ==
  ASSUME NEW f, NEW q, q.parity \in DOMAIN Parities
  PROVE  Flags(Flags(f, q), q) = Flags(f, q)
<1>1. Parities[q.parity] \subseteq ParityFlags
  BY ParityFlagsOnly
<1>2. QED BY <1>1, "CSTOPB" \notin ParityFlags DEF Flags, ParityFlags

(* ... and the flow control's flag is none of the translations'.             *)
LEMMA FlagsAndFlow ==
  ASSUME NEW f, NEW q, NEW b \in BOOLEAN, q.parity \in DOMAIN Parities
  PROVE  /\ Flags(With(f, "CRTSCTS", b), q) = With(Flags(f, q), "CRTSCTS", b)
         /\ With(f, "CRTSCTS", b) \cap ParityFlags = f \cap ParityFlags
<1>1. Parities[q.parity] \subseteq ParityFlags
  BY ParityFlagsOnly
<1>2. "CRTSCTS" \notin ParityFlags \cup {"CSTOPB"}
  BY DEF ParityFlags
<1>3. QED BY <1>1, <1>2 DEF Flags, With

LEMMA FlowTwice ==
  ASSUME NEW f, NEW mode
  PROVE  /\ \A b \in BOOLEAN : With(With(f, "CRTSCTS", b), "CRTSCTS", b) = With(f, "CRTSCTS", b)
         /\ Xon(Xon(f, mode), mode) = Xon(f, mode)
BY DEF With, Xon

LEMMA TranslatedWord ==
  ASSUME NEW w \in Wide, NEW q \in Fields
  PROVE  Translated(w, q) = [baud |-> w.baud, ispeed |-> w.ispeed, csize |-> Bits(q),
                             cflag |-> Flags(w.cflag, q), iflag |-> w.iflag, eof |-> w.eof]
<1>1. PICK wb, ws, wc, wf, wi, we :
        w = [baud |-> wb, ispeed |-> ws, csize |-> wc, cflag |-> wf, iflag |-> wi, eof |-> we]
  BY Word
<1>2. translate_data_bits(w, q.dataBits)
        = [baud |-> wb, ispeed |-> ws, csize |-> q.dataBits, cflag |-> wf, iflag |-> wi, eof |-> we]
  BY <1>1 DEF translate_data_bits
<1>3. translate_stop_bits(translate_data_bits(w, q.dataBits), q.stopBits)
        = [baud |-> wb, ispeed |-> ws, csize |-> Bits(q),
           cflag |-> IF q.stopBits = "1" THEN wf \ {"CSTOPB"} ELSE wf \cup {"CSTOPB"},
           iflag |-> wi, eof |-> we]
  <2>1. CASE q.stopBits = "1"
    BY <1>2, <2>1 DEF translate_stop_bits, Bits
  <2>2. CASE q.stopBits = "2"
    BY <1>2, <2>2 DEF translate_stop_bits, Bits
  <2>3. CASE q.stopBits = "1.5"
    BY <1>2, <2>3 DEF translate_stop_bits, translate_data_bits, Bits
  <2>4. QED BY <2>1, <2>2, <2>3 DEF Fields
<1>4. QED BY <1>1, <1>3, SMTT(30) DEF Translated, translate_parity, Flags, ParityFlags

LEMMA WithFlowWord ==
  ASSUME NEW w \in Wide, NEW mode
  PROVE  WithFlow(w, mode)
           = [baud |-> w.baud, ispeed |-> w.ispeed, csize |-> w.csize,
              cflag |-> With(w.cflag, "CRTSCTS", Hardware(mode)),
              iflag |-> Xon(w.iflag, mode), eof |-> w.eof]
<1> DEFINE f == With(w.cflag, "CRTSCTS", Hardware(mode))
           i == Xon(w.iflag, mode)
<1>1. WithFlow(w, mode) = [w EXCEPT !.cflag = f, !.iflag = i]
  BY DEF WithFlow, Hardware, Xon, Wide
<1>2. PICK wb, ws, wc, wf, wi, we :
        w = [baud |-> wb, ispeed |-> ws, csize |-> wc, cflag |-> wf, iflag |-> wi, eof |-> we]
  BY Word
<1> HIDE DEF f, i
<1>3. [w EXCEPT !.cflag = f, !.iflag = i]
        = [baud |-> wb, ispeed |-> ws, csize |-> wc, cflag |-> f, iflag |-> i, eof |-> we]
  <2> DEFINE x == [w EXCEPT !.cflag = f, !.iflag = i]
  <2>1. DOMAIN w = {"baud", "ispeed", "csize", "cflag", "iflag", "eof"}
    BY <1>2
  <2>2. /\ x.baud = wb /\ x.ispeed = ws /\ x.csize = wc /\ x.cflag = f /\ x.iflag = i /\ x.eof = we
        /\ DOMAIN x = {"baud", "ispeed", "csize", "cflag", "iflag", "eof"}
    BY <1>2, <2>1
  <2>3. x = [y \in DOMAIN x |-> x[y]]
    OBVIOUS
  <2> HIDE DEF x
  <2>4. x = [baud |-> x.baud, ispeed |-> x.ispeed, csize |-> x.csize, cflag |-> x.cflag,
             iflag |-> x.iflag, eof |-> x.eof]
    BY <2>2, <2>3, Record
  <2>5. QED BY <2>2, <2>4 DEF x
<1>4. QED BY <1>1, <1>2, <1>3 DEF f, i

(* The fields of a DCB. *)
LEMMA DCBWord ==
  ASSUME NEW v, Good(v)
  PROVE  LET d == termios_to_DCB(v) IN
         /\ d.BaudRate = B_to_CBR(v.ispeed)
         /\ d.ByteSize = v.csize /\ d.Parity = ParityOf(v) /\ d.StopBits = StopBitsOf(v)
         /\ d.handshake = ("CRTSCTS" \in v.cflag) /\ d.fOutX = ("IXON" \in v.iflag)
         /\ d.fInX = ("IXOFF" \in v.iflag) /\ d.EofChar = v.eof
<1>1. Lasting(v).ispeed = v.ispeed
  <2>1. CASE Bit(v.baud, CBAUDEX)
    BY <2>1 DEF Lasting
  <2>2. CASE ~Bit(v.baud, CBAUDEX)
    BY <2>2 DEF Lasting, Good, RateBack, Wide
  <2>3. QED BY <2>1, <2>2
<1>2. QED BY <1>1 DEF termios_to_DCB

(* tcgetattr gives the flags of the word that the DCB was made of, and adds  *)
(* its speed code and its data bits to those of the word that was kept.      *)
LEMMA GotWord ==
  ASSUME NEW w, Good(w), NEW v, Good(v)
  PROVE  /\ Got(w, termios_to_DCB(v))
              = [baud |-> Ored(w.baud, v.ispeed), ispeed |-> v.ispeed,
                 csize |-> 5 + Ored(w.csize - 5, v.csize - 5),
                 cflag |-> v.cflag, iflag |-> v.iflag, eof |-> v.eof]
         /\ Got(w, termios_to_DCB(v)) \in Wide
         /\ w.csize = v.csize => Got(w, termios_to_DCB(v)).csize = v.csize
<1> DEFINE d == termios_to_DCB(v)
           c == 5 + Ored(w.csize - 5, d.ByteSize - 5)
<1>0. \A x \in {w, v} :
        /\ x.baud \in Int /\ x.ispeed \in Nat /\ x.csize \in 5 .. 8 /\ x.eof = 4
        /\ x.cflag \subseteq {"CSTOPB", "PARENB", "PARODD", "CMSPAR", "CRTSCTS"}
        /\ x.iflag \subseteq {"IXON", "IXOFF"}
  BY DEF Good, Wide
<1>1. /\ d.BaudRate = B_to_CBR(v.ispeed)
      /\ d.ByteSize = v.csize /\ d.Parity = ParityOf(v) /\ d.StopBits = StopBitsOf(v)
      /\ d.handshake = ("CRTSCTS" \in v.cflag) /\ d.fOutX = ("IXON" \in v.iflag)
      /\ d.fInX = ("IXOFF" \in v.iflag) /\ d.EofChar = v.eof
  BY DCBWord
<1> HIDE DEF d
<1>2. "CSTOPB" \in With(w.cflag, "CSTOPB", d.StopBits # "1") <=> "CSTOPB" \in v.cflag
  BY <1>1 DEF With, StopBitsOf
<1>3. Parities[d.Parity] = v.cflag \cap {"PARENB", "PARODD", "CMSPAR"}
  <2>1. Parities[ParityOf(v)] = v.cflag \cap {"PARENB", "PARODD", "CMSPAR"}
    BY Zenon DEF ParityOf, Good, ParityKnown, ParityFlags
  <2>2. QED BY <1>1, <2>1
<1> DEFINE stop == With(w.cflag, "CSTOPB", d.StopBits # "1")
           f == With((stop \ {"PARENB", "PARODD", "CMSPAR"}) \cup Parities[d.Parity], "CRTSCTS", d.handshake)
           i == With(With(w.iflag, "IXON", d.fOutX), "IXOFF", d.fInX)
<1>4. f = v.cflag
  <2>1. stop \subseteq {"CSTOPB", "PARENB", "PARODD", "CMSPAR", "CRTSCTS"}
    BY <1>0 DEF With
  <2> HIDE DEF stop
  <2>2. v.cflag \subseteq {"CSTOPB", "PARENB", "PARODD", "CMSPAR", "CRTSCTS"}
    BY <1>0
  <2>3. "CSTOPB" \in stop <=> "CSTOPB" \in v.cflag
    BY <1>2 DEF stop
  <2>4. d.handshake = ("CRTSCTS" \in v.cflag)
    BY <1>1
  <2>5. QED BY <1>3, <2>1, <2>2, <2>3, <2>4 DEF With
<1>5. i = v.iflag
  BY <1>0, <1>1 DEF With
<1>6. c \in 5 .. 8 /\ (w.csize = v.csize => c = v.csize)
  <2>1. w.csize - 5 \in 0 .. 3 /\ v.csize - 5 \in 0 .. 3 /\ v.csize \in Int
    BY <1>0
  <2>2. Ored(w.csize - 5, v.csize - 5) \in 0 .. 3
    BY <2>1, SmallOred
  <2>3. Ored(v.csize - 5, v.csize - 5) = v.csize - 5
    BY <2>1, CodesWithin
  <2>4. QED BY <1>1, <2>1, <2>2, <2>3
<1>7. CBR_to_B(d.BaudRate) = v.ispeed
  BY <1>1 DEF Good, RateBack
<1> HIDE DEF f, i, c, stop
<1> DEFINE flags == [w EXCEPT !.iflag = i, !.csize = c, !.cflag = f, !.eof = d.EofChar]
<1>8. Got(w, d) = DCB_to_termios(d, flags)
  BY DEF Got, Good, Wide, f, i, c, stop
<1>9. PICK wb, ws, wc, wf, wi, we :
        w = [baud |-> wb, ispeed |-> ws, csize |-> wc, cflag |-> wf, iflag |-> wi, eof |-> we]
  BY Word DEF Good
<1>10. flags = [baud |-> wb, ispeed |-> ws, csize |-> c, cflag |-> f, iflag |-> i, eof |-> d.EofChar]
  <2>1. DOMAIN w = {"baud", "ispeed", "csize", "cflag", "iflag", "eof"}
    BY <1>9
  <2>2. /\ flags.baud = wb /\ flags.ispeed = ws /\ flags.csize = c /\ flags.cflag = f
        /\ flags.iflag = i /\ flags.eof = d.EofChar
        /\ DOMAIN flags = {"baud", "ispeed", "csize", "cflag", "iflag", "eof"}
    BY <1>9, <2>1
  <2>3. flags = [y \in DOMAIN flags |-> flags[y]]
    OBVIOUS
  <2> HIDE DEF flags
  <2>4. flags = [baud |-> flags.baud, ispeed |-> flags.ispeed, csize |-> flags.csize,
                 cflag |-> flags.cflag, iflag |-> flags.iflag, eof |-> flags.eof]
    BY <2>2, <2>3, Record
  <2>5. QED BY <2>2, <2>4
<1> HIDE DEF flags
<1>11. Got(w, d) = [baud |-> Ored(wb, v.ispeed), ispeed |-> v.ispeed, csize |-> c, cflag |-> f,
                    iflag |-> i, eof |-> d.EofChar]
  BY <1>7, <1>8, <1>10, ZenonT(30) DEF DCB_to_termios
<1>12. Ored(w.baud, v.ispeed) \in Int
  <2>1. w.baud \in Int /\ v.ispeed \in Int
    BY <1>0
  <2>2. Ored(w.baud, v.ispeed) \in Nat
    BY <2>1, OredBits
  <2>3. QED BY <2>2
<1>13. /\ wb = w.baud /\ d.EofChar = v.eof /\ v.eof \in {4} /\ v.ispeed \in Nat
       /\ v.cflag \in SUBSET {"CSTOPB", "PARENB", "PARODD", "CMSPAR", "CRTSCTS"}
       /\ v.iflag \in SUBSET {"IXON", "IXOFF"} /\ d.ByteSize = v.csize
  BY <1>0, <1>1, <1>9
<1>14. Got(w, d) \in Wide
  BY <1>4, <1>5, <1>6, <1>11, <1>12, <1>13 DEF Wide
<1>15. Got(w, d).csize = c
  BY <1>11
<1>16. Got(w, d) = [baud |-> Ored(w.baud, v.ispeed), ispeed |-> v.ispeed,
                    csize |-> 5 + Ored(w.csize - 5, v.csize - 5),
                    cflag |-> v.cflag, iflag |-> v.iflag, eof |-> v.eof]
  BY <1>4, <1>5, <1>11, <1>13 DEF c
<1>17. QED BY <1>6, <1>14, <1>15, <1>16 DEF d

(* tcsetattr makes the same DCB of a word and of what it leaves of it.       *)
LEMMA LastingWord ==
  ASSUME NEW b, NEW s, NEW c, NEW f, NEW i, NEW e,
         NEW t, t = [baud |-> b, ispeed |-> s, csize |-> c, cflag |-> f, iflag |-> i, eof |-> e]
  PROVE  /\ Lasting(t) = [baud |-> b, ispeed |-> IF Bit(b, CBAUDEX) THEN s ELSE b,
                          csize |-> c, cflag |-> f, iflag |-> i, eof |-> e]
         /\ termios_to_DCB(t) = termios_to_DCB(Lasting(t))
<1> DEFINE l == [baud |-> b, ispeed |-> IF Bit(b, CBAUDEX) THEN s ELSE b,
                 csize |-> c, cflag |-> f, iflag |-> i, eof |-> e]
<1>1. Lasting(t) = l
  BY DEF Lasting
<1>2. Lasting(l) = l
  BY DEF Lasting
<1>3. /\ l.csize = t.csize /\ l.cflag = t.cflag /\ l.iflag = t.iflag /\ l.eof = t.eof
  OBVIOUS
<1> HIDE DEF l
<1>4. ParityOf(l) = ParityOf(t) /\ StopBitsOf(l) = StopBitsOf(t)
  BY <1>3 DEF ParityOf, StopBitsOf
<1>5. termios_to_DCB(t) = termios_to_DCB(l)
  BY <1>1, <1>2, <1>3, <1>4 DEF termios_to_DCB
<1>6. QED BY <1>1, <1>5 DEF l

(* What SetParams, SetFlow and Configure leave in the termios.               *)
LEMMA ParamsSet ==
  ASSUME NEW w, Good(w), NEW v, Good(v), NEW q \in Fields
  PROVE  LET x == Lasting(WithParams(Got(w, termios_to_DCB(v)), q)) IN
         /\ Good(x)
         /\ termios_to_DCB(WithParams(Got(w, termios_to_DCB(v)), q)) = termios_to_DCB(x)
         /\ x.csize = Bits(q) /\ x.cflag = Flags(v.cflag, q) /\ x.iflag = v.iflag
         /\ B_to_CBR(x.ispeed) = RateFor(q.speed)
<1> DEFINE g == Got(w, termios_to_DCB(v))
           code == CBR_to_B(q.speed)
           b == IF ~WithinCBAUD(code) THEN 4111 ELSE IF code # 0 THEN code ELSE 13
           f == Flags(v.cflag, q)
           p == WithParams(g, q)
           x == Lasting(p)
           s == IF code = 0 THEN 13 ELSE code
<1>0. q.speed \in Nat /\ q.dataBits \in 5 .. 8 /\ q.parity \in DOMAIN Parities
  BY DEF Fields
<1>1. /\ code \in Nat /\ (code = 0 <=> q.speed = 0)
      /\ code # 0 => B_to_CBR(code) > 0 /\ CBR_to_B(B_to_CBR(code)) = code
  BY <1>0, SpeedBack
<1>2. g \in Wide /\ g.cflag = v.cflag /\ g.iflag = v.iflag /\ g.eof = v.eof
  BY GotWord
<1> HIDE DEF g, code, f
<1>3. Translated(g, q) = [baud |-> g.baud, ispeed |-> g.ispeed, csize |-> Bits(q), cflag |-> f,
                          iflag |-> v.iflag, eof |-> v.eof]
  BY <1>2, TranslatedWord DEF f
<1>4. p = [baud |-> b, ispeed |-> code, csize |-> Bits(q), cflag |-> f, iflag |-> v.iflag, eof |-> v.eof]
  <2>1. p = cfsetospeed(Translated(g, q), code)
    BY DEF WithParams, code
  <2> DEFINE y == Translated(g, q)
  <2>2. cfsetospeed(y, code) = [y EXCEPT !.ispeed = code, !.baud = b]
    BY DEF cfsetospeed, B38400, B9600, CBAUDEX
  <2> HIDE DEF b
  <2>3. [y EXCEPT !.ispeed = code, !.baud = b]
          = [baud |-> b, ispeed |-> code, csize |-> Bits(q), cflag |-> f, iflag |-> v.iflag, eof |-> v.eof]
    <3> DEFINE z == [y EXCEPT !.ispeed = code, !.baud = b]
    <3>1. DOMAIN y = {"baud", "ispeed", "csize", "cflag", "iflag", "eof"}
      BY <1>3
    <3>2. /\ z.baud = b /\ z.ispeed = code /\ z.csize = Bits(q) /\ z.cflag = f
          /\ z.iflag = v.iflag /\ z.eof = v.eof
          /\ DOMAIN z = {"baud", "ispeed", "csize", "cflag", "iflag", "eof"}
      BY <1>3, <3>1
    <3>3. z = [k \in DOMAIN z |-> z[k]]
      OBVIOUS
    <3> HIDE DEF z
    <3>4. z = [baud |-> z.baud, ispeed |-> z.ispeed, csize |-> z.csize, cflag |-> z.cflag,
               iflag |-> z.iflag, eof |-> z.eof]
      BY <3>2, <3>3, Record
    <3>5. QED BY <3>2, <3>4 DEF z
  <2>4. QED BY <2>1, <2>2, <2>3
<1> HIDE DEF p
<1>5. /\ x = [baud |-> b, ispeed |-> IF Bit(b, CBAUDEX) THEN code ELSE b, csize |-> Bits(q),
              cflag |-> f, iflag |-> v.iflag, eof |-> v.eof]
      /\ termios_to_DCB(p) = termios_to_DCB(x)
  BY <1>4, LastingWord
<1>6. WithinCBAUD(b) /\ b \in Nat /\ (IF Bit(b, 4096) THEN code ELSE b) = s
      /\ (~Bit(b, 4096) => s = b)
  <2>1. CASE ~WithinCBAUD(code)
    <3>1. code # 0
      BY <2>1, ZeroHasNoBits, OredSelf DEF WithinCBAUD, Ored, CBAUDEX, Glue, Weights
    <3>2. QED BY <2>1, <3>1, CodesWithin
  <2>2. CASE WithinCBAUD(code) /\ code # 0
    BY <1>1, <2>2
  <2>3. CASE WithinCBAUD(code) /\ code = 0
    BY <2>3, CodesWithin
  <2>4. QED BY <2>1, <2>2, <2>3
<1> HIDE DEF b
<1>7. x = [baud |-> b, ispeed |-> s, csize |-> Bits(q), cflag |-> f, iflag |-> v.iflag, eof |-> v.eof]
  BY <1>5, <1>6 DEF CBAUDEX
<1> HIDE DEF x
<1>8. s \in Nat /\ s > 0 /\ B_to_CBR(s) > 0 /\ CBR_to_B(B_to_CBR(s)) = s /\ B_to_CBR(s) = RateFor(q.speed)
  <2>1. CASE code = 0
    BY <1>1, <2>1, Code9600 DEF RateFor
  <2>2. CASE code # 0
    BY <1>1, <2>2 DEF RateFor, code
  <2>3. QED BY <2>1, <2>2
<1> HIDE DEF s
<1>9. Bits(q) \in 5 .. 8
  BY <1>0 DEF Bits
<1>10. f \in SUBSET {"CSTOPB", "PARENB", "PARODD", "CMSPAR", "CRTSCTS"} /\ f \cap ParityFlags = Parities[q.parity]
  BY <1>0, FlagsAreFlags DEF f, Good, Wide
<1>11. x \in Wide
  <2>1. v.iflag \in SUBSET {"IXON", "IXOFF"} /\ v.eof \in {4}
    BY DEF Good, Wide
  <2>2. b \in Int
    BY <1>6
  <2>3. QED BY <1>7, <1>8, <1>9, <1>10, <2>1, <2>2 DEF Wide
<1>12. RateBack(x)
  BY <1>6, <1>7, <1>8 DEF RateBack, CBAUDEX
<1>13. ParityKnown(x)
  BY <1>0, <1>7, <1>10 DEF ParityKnown
<1>14. QED BY <1>5, <1>7, <1>8, <1>11, <1>12, <1>13 DEF x, p, g, f, Good

LEMMA FlowSet ==
  ASSUME NEW w, Good(w), NEW v, Good(v), NEW mode
  PROVE  LET x == Lasting(WithFlow(Got(w, termios_to_DCB(v)), mode)) IN
         /\ Good(x)
         /\ termios_to_DCB(WithFlow(Got(w, termios_to_DCB(v)), mode)) = termios_to_DCB(x)
         /\ w.csize = v.csize => x.csize = v.csize
         /\ x.cflag = With(v.cflag, "CRTSCTS", Hardware(mode))
         /\ x.iflag = Xon(v.iflag, mode)
         /\ w.ispeed = v.ispeed => x.ispeed = v.ispeed
<1> DEFINE g == Got(w, termios_to_DCB(v))
           b == Ored(w.baud, v.ispeed)
           f == With(v.cflag, "CRTSCTS", Hardware(mode))
           i == Xon(v.iflag, mode)
           p == WithFlow(g, mode)
           x == Lasting(p)
           s == IF Bit(b, CBAUDEX) THEN v.ispeed ELSE b
<1>0. /\ w.baud \in Int /\ w.ispeed \in Nat /\ v.ispeed \in Nat
      /\ v.cflag \subseteq {"CSTOPB", "PARENB", "PARODD", "CMSPAR", "CRTSCTS"}
      /\ v.iflag \subseteq {"IXON", "IXOFF"}
  BY DEF Good, Wide
<1>1. /\ g \in Wide /\ (w.csize = v.csize => g.csize = v.csize)
      /\ g.baud = b /\ g.ispeed = v.ispeed /\ g.cflag = v.cflag /\ g.iflag = v.iflag
  BY GotWord
<1> HIDE DEF g
<1>2. p = [baud |-> b, ispeed |-> v.ispeed, csize |-> g.csize, cflag |-> f, iflag |-> i, eof |-> g.eof]
  <2>1. p = [baud |-> g.baud, ispeed |-> g.ispeed, csize |-> g.csize,
             cflag |-> With(g.cflag, "CRTSCTS", Hardware(mode)),
             iflag |-> Xon(g.iflag, mode), eof |-> g.eof]
    BY <1>1, WithFlowWord
  <2>2. QED BY <1>1, <2>1
<1>3. f \in SUBSET {"CSTOPB", "PARENB", "PARODD", "CMSPAR", "CRTSCTS"} /\ i \in SUBSET {"IXON", "IXOFF"}
  BY <1>0 DEF With, Xon
<1>4. f \cap ParityFlags = v.cflag \cap ParityFlags
  BY DEF With, ParityFlags
<1> HIDE DEF p, f, i
<1>5. /\ x = [baud |-> b, ispeed |-> s, csize |-> g.csize, cflag |-> f, iflag |-> i, eof |-> g.eof]
      /\ termios_to_DCB(p) = termios_to_DCB(x)
  BY <1>2, LastingWord
<1> HIDE DEF x, s
<1>6. /\ b \in Int /\ WithinCBAUD(b)
      /\ Bit(b, 4096) <=> Bit(w.baud, 4096) \/ Bit(v.ispeed, 4096)
  <2>1. w.baud \in Int /\ v.ispeed \in Int
    BY <1>0
  <2>2. b \in Nat
    BY <2>1, OredBits
  <2>3. WithinCBAUD(b)
    BY <2>1, OredWithin
  <2>4. Bit(b, 4096) <=> (Bit(w.baud, 4096) \/ Bit(v.ispeed, 4096))
    BY <2>1, OredExtended
  <2>5. QED BY <2>2, <2>3, <2>4
<1>7. ~Bit(b, 4096) => w.ispeed = w.baud /\ WithinCBAUD(w.baud) /\ w.baud # 0
  BY <1>6 DEF Good, RateBack, CBAUDEX
<1>8. ~Bit(b, 4096) /\ w.ispeed = v.ispeed => v.ispeed = b
  <2> SUFFICES ASSUME ~Bit(b, 4096), w.ispeed = v.ispeed PROVE v.ispeed = b
    OBVIOUS
  <2>1. v.ispeed = w.baud /\ WithinCBAUD(w.baud)
    BY <1>7
  <2>2. QED BY <2>1, OredSelf
<1>9. s \in Nat /\ s > 0 /\ B_to_CBR(s) > 0 /\ CBR_to_B(B_to_CBR(s)) = s
  <2>1. CASE Bit(b, 4096)
    BY <1>0, <2>1 DEF s, CBAUDEX, Good, RateBack
  <2>2. CASE ~Bit(b, 4096)
    <3>1. w.baud \in Int /\ v.ispeed \in Int /\ s = b
      BY <1>0, <2>2 DEF s, CBAUDEX
    <3>2. b \in 1 .. 15 \cup 8192 .. 8207
      BY <1>7, <2>2, <3>1, Mixed
    <3> HIDE DEF b
    <3>3. b \in Nat /\ b > 0
      BY <3>2
    <3>4. QED BY <3>1, <3>2, <3>3, MixedBack
  <2>3. QED BY <2>1, <2>2
<1>10. w.ispeed = v.ispeed => s = v.ispeed
  BY <1>8 DEF s, CBAUDEX
<1>11. ~Bit(b, 4096) => s = b
  BY DEF s, CBAUDEX
<1> HIDE DEF b
<1>12. g.csize \in 5 .. 8 /\ g.eof \in {4}
  BY <1>1 DEF Wide
<1>13. x \in Wide
  BY <1>3, <1>5, <1>6, <1>9, <1>12 DEF Wide
<1>14. RateBack(x)
  BY <1>5, <1>6, <1>9, <1>11 DEF RateBack, CBAUDEX
<1>15. ParityKnown(x)
  BY <1>4, <1>5 DEF Good, ParityKnown
<1>16. QED BY <1>1, <1>5, <1>10, <1>13, <1>14, <1>15 DEF x, p, g, f, i, Good

LEMMA InitWord ==
  /\ Good(init_termios) /\ Lasting(init_termios) = init_termios
  /\ Configured(Got(init_termios, termios_to_DCB(init_termios))) = init_termios
<1> DEFINE w == init_termios
<1>1. w = [baud |-> 13, ispeed |-> 13, csize |-> 8, cflag |-> {}, iflag |-> {}, eof |-> 4]
  BY DEF init_termios, B9600
<1> HIDE DEF w
<1>2. w \in Wide
  BY <1>1 DEF Wide
<1>3. RateBack(w)
  BY <1>1, CodesWithin, Code9600 DEF RateBack
<1>4. ParityKnown(w)
  BY <1>1 DEF ParityKnown, Parities
<1>5. Lasting(w) = w
  BY <1>1, CodesWithin DEF Lasting, CBAUDEX
<1>6. Configured(Got(w, termios_to_DCB(w))) = w
  <2> DEFINE g == Got(w, termios_to_DCB(w))
  <2>1. g = [baud |-> Ored(w.baud, w.ispeed), ispeed |-> w.ispeed,
             csize |-> 5 + Ored(w.csize - 5, w.csize - 5),
             cflag |-> w.cflag, iflag |-> w.iflag, eof |-> w.eof]
    BY <1>2, <1>3, <1>4, GotWord DEF Good
  <2>2. Ored(13, 13) = 13 /\ 8 - 5 = 3 /\ Ored(3, 3) = 3
    BY CodesWithin, OredSelf
  <2> HIDE DEF g
  <2>3. g = w
    BY <1>1, <2>1, <2>2
  <2>4. Configured(w) = w
    <3>1. [w EXCEPT !.csize = 8, !.cflag = {}, !.iflag = {}] = w
      <4> DEFINE z == [w EXCEPT !.csize = 8, !.cflag = {}, !.iflag = {}]
      <4>1. DOMAIN w = {"baud", "ispeed", "csize", "cflag", "iflag", "eof"}
        BY <1>1
      <4>2. /\ z.baud = 13 /\ z.ispeed = 13 /\ z.csize = 8 /\ z.cflag = {} /\ z.iflag = {} /\ z.eof = 4
            /\ DOMAIN z = {"baud", "ispeed", "csize", "cflag", "iflag", "eof"}
        BY <1>1, <4>1
      <4>3. z = [k \in DOMAIN z |-> z[k]]
        OBVIOUS
      <4> HIDE DEF z
      <4>4. z = [baud |-> z.baud, ispeed |-> z.ispeed, csize |-> z.csize, cflag |-> z.cflag,
                 iflag |-> z.iflag, eof |-> z.eof]
        BY <4>2, <4>3, Record
      <4>5. QED BY <1>1, <4>2, <4>4 DEF z
    <3>2. Configured(w) = cfsetospeed(w, 13)
      BY <3>1 DEF Configured, B9600
    <3>3. cfsetospeed(w, 13) = [w EXCEPT !.ispeed = 13, !.baud = 13]
      BY CodesWithin DEF cfsetospeed
    <3>4. QED BY <1>1, <3>2, <3>3
  <2>5. QED BY <2>3, <2>4 DEF g
<1>7. QED BY <1>2, <1>3, <1>4, <1>5, <1>6 DEF w, Good
-----------------------------------------------------------------------------
(* The settings are kept *)

LEMMA ParamsAreFields ==
  ASSUME NEW q \in Params
  PROVE  q \in Fields /\ [q EXCEPT !.dataBits = IF q.stopBits = "1.5" THEN 5 ELSE @] \in Fields
<1>1. q \in [speed : Nat, dataBits : 5 .. 8, stopBits : {"1", "1.5", "2"}, parity : DOMAIN Parities]
  BY ParamsAccepted
<1>2. QED BY <1>1 DEF Fields

(* How a port begins. *)
LEMMA BeginsAgreed ==
  /\ set_java_vars(configured) \in Fields
  /\ AgreesParams(init_termios, init_termios, set_java_vars(configured))
  /\ AgreesFlow(init_termios, {})
<1> DEFINE q == set_java_vars(configured)
<1>1. configured.baud = 13 /\ configured.csize = 8 /\ configured.cflag = {}
  BY DEF configured, B9600
<1>2. ParityOf(configured) \in DOMAIN Parities /\ Parities[ParityOf(configured)] = {}
  <2>1. "NONE" \in DOMAIN Parities
        /\ Parities["NONE"] = configured.cflag \cap {"PARENB", "PARODD", "CMSPAR"}
    BY <1>1 DEF Parities
  <2>2. ParityOf(configured) \in DOMAIN Parities
        /\ Parities[ParityOf(configured)] = configured.cflag \cap {"PARENB", "PARODD", "CMSPAR"}
    BY <2>1, Zenon DEF ParityOf
  <2>3. QED BY <1>1, <2>2
<1>3. get_java_baudrate(13) = 9600
  <2>1. 13 \in Codes /\ 13 - 8192 \notin 1 .. 4
    BY Tables DEF Codes
  <2>2. B_to_CBR(13) = get_java_baudrate(13)
    BY <2>1, Tables DEF B_to_CBR, Glue
  <2>3. QED BY <2>2, Code9600
<1>4. q.speed = 9600 /\ q.dataBits = 8 /\ q.stopBits = "1" /\ q.parity = ParityOf(configured)
  BY <1>1, <1>3 DEF set_java_vars, StopBitsOf
<1>5. q \in Fields
  <2>1. q = [speed |-> q.speed, dataBits |-> q.dataBits, stopBits |-> q.stopBits, parity |-> q.parity]
    BY DEF set_java_vars
  <2> HIDE DEF q
  <2>2. QED BY <1>2, <1>4, <2>1 DEF Fields
<1> HIDE DEF q
<1>6. /\ init_termios.cflag = {} /\ init_termios.iflag = {} /\ init_termios.csize = 8
      /\ init_termios.ispeed = 13
  BY DEF init_termios, B9600
<1>7. q.dataBits = Bits(q) /\ Flags({}, q) = {}
  BY <1>2, <1>4 DEF Bits, Flags
<1>8. RateFor(q.speed) = B_to_CBR(13)
  BY <1>4, Code9600 DEF RateFor
<1>9. With({}, "CRTSCTS", Hardware({})) = {} /\ Xon({}, {}) = {}
  BY DEF With, Hardware, Xon
<1>10. QED BY <1>4, <1>5, <1>6, <1>7, <1>8, <1>9 DEF AgreesParams, AgreesFlow, q

(* tcsetattr of one port changes no other port, whether it fails or not.     *)
LEMMA Applied ==
  ASSUME Settings, NEW m \in Names, NEW t, Apply(m, t) \/ ApplyHalf(m, t),
         Good(Lasting(t)), termios_to_DCB(t) = termios_to_DCB(Lasting(t))
  PROVE  /\ DOMAIN ttyset' = Names /\ DOMAIN dcb' = Names
         /\ \A n \in Names : /\ n # m => ttyset'[n] = ttyset[n] /\ dcb'[n] = dcb[n]
                             /\ Good(ttyset'[n]) /\ \E v : Good(v) /\ dcb'[n] = termios_to_DCB(v)
         /\ dcb'[m] = termios_to_DCB(Lasting(t))
         /\ Apply(m, t) => ttyset'[m] = Lasting(t)
         /\ ApplyHalf(m, t) => ttyset'[m] = ttyset[m]
<1>1. /\ dcb' = [dcb EXCEPT ![m] = termios_to_DCB(t)]
      /\ ttyset' = ttyset \/ ttyset' = [ttyset EXCEPT ![m] = Lasting(t)]
  BY DEF Apply, ApplyHalf
<1>2. DOMAIN ttyset' = Names /\ DOMAIN dcb' = Names
  BY <1>1 DEF Settings
<1>3. dcb'[m] = termios_to_DCB(Lasting(t))
  BY <1>1 DEF Settings
<1>4. Apply(m, t) => ttyset'[m] = Lasting(t)
  BY DEF Apply, Settings
<1>5. ApplyHalf(m, t) => ttyset'[m] = ttyset[m]
  BY DEF ApplyHalf
<1>6. ASSUME NEW n \in Names
      PROVE  /\ n # m => ttyset'[n] = ttyset[n] /\ dcb'[n] = dcb[n]
             /\ Good(ttyset'[n]) /\ \E v : Good(v) /\ dcb'[n] = termios_to_DCB(v)
  <2>1. Good(ttyset[n]) /\ \E v : Good(v) /\ dcb[n] = termios_to_DCB(v)
    BY DEF Settings
  <2>2. CASE n = m
    BY <1>3, <1>4, <1>5, <2>1, <2>2
  <2>3. CASE n # m
    <3>1. ttyset'[n] = ttyset[n] /\ dcb'[n] = dcb[n]
      BY <1>1, <2>3 DEF Settings
    <3>2. QED BY <2>1, <2>3, <3>1
  <2>4. QED BY <2>2, <2>3
<1>7. QED BY <1>2, <1>3, <1>4, <1>5, <1>6

LEMMA InitApplied ==
  ASSUME Settings, NEW m \in Names, Apply(m, init_termios)
  PROVE  /\ DOMAIN ttyset' = Names /\ DOMAIN dcb' = Names
         /\ \A n \in Names : /\ n # m => ttyset'[n] = ttyset[n] /\ dcb'[n] = dcb[n]
                             /\ Good(ttyset'[n]) /\ \E v : Good(v) /\ dcb'[n] = termios_to_DCB(v)
         /\ ttyset'[m] = init_termios /\ dcb'[m] = termios_to_DCB(init_termios)
<1>1. Lasting(init_termios) = init_termios /\ Good(init_termios)
  BY InitWord
<1>2. QED BY <1>1, Applied

LEMMA StepSettings == IInv /\ [Next]_vars => Settings'
<1> SUFFICES ASSUME Types, Calls, Settings, [Next]_vars PROVE Settings'
  BY DEF IInv
<1>1. \A d : find_port(d) # null => find_port(d) \in Names
  BY FindPort, ListTypes DEF Types
<1>2. ASSUME UNCHANGED <<settings, half>> PROVE Settings'
  BY <1>2 DEF Settings, settings
<1>3. ASSUME NEW t \in Threads, Configure(t) PROVE Settings'
  <2>1. CASE UNCHANGED settings
    BY <1>2, <1>3, <2>1 DEF Configure
  <2>2. CASE ~UNCHANGED settings
    <3> DEFINE m == find_port(fd[name[t]])
    <3>1. m \in Names /\ Apply(m, init_termios) /\ half' = half
      BY <1>1, <1>3, <2>2, InitWord DEF Configure
    <3>2. DOMAIN params' = Names /\ DOMAIN flow' = Names
      BY <1>3, <2>2 DEF Configure, Settings
    <3>3. half' \in [Names -> SUBSET {"params", "flow"}]
      BY <3>1 DEF Settings
    <3> HIDE DEF m
    <3>4. QED BY <3>1, <3>2, <3>3, InitApplied DEF Settings
  <2>3. QED BY <2>1, <2>2
<1>4. ASSUME NEW n \in Names, Close(n) PROVE Settings'
  <2>1. Apply(n, init_termios) /\ DOMAIN params' = Names /\ DOMAIN flow' = Names
    BY <1>4 DEF Close, Default, Settings
  <2>2. half' \in [Names -> SUBSET {"params", "flow"}]
    BY <1>4 DEF Close, Settings
  <2>3. QED BY <2>1, <2>2, InitApplied DEF Settings
<1>5. ASSUME NEW n \in Names, SetParams(n) PROVE Settings'
  <2> DEFINE m == find_port(port[n])
  <2>1. PICK q \in Params :
          /\ \/ Apply(m, WithParams(Got(ttyset[m], dcb[m]), q))
             \/ ApplyHalf(m, WithParams(Got(ttyset[m], dcb[m]), q))
          /\ DOMAIN params' = DOMAIN params
          /\ half' = [half EXCEPT ![m] = @ \ {"params"}] \/ half' = [half EXCEPT ![m] = @ \cup {"params"}]
    BY <1>5 DEF SetParams
  <2>2. m \in Names /\ flow' = flow
    BY <1>1, <1>5 DEF SetParams
  <2> HIDE DEF m
  <2>3. Good(ttyset[m]) /\ \E v : Good(v) /\ dcb[m] = termios_to_DCB(v)
    BY <2>2 DEF Settings
  <2>4. PICK v : Good(v) /\ dcb[m] = termios_to_DCB(v)
    BY <2>3
  <2>5. q \in Fields
    BY ParamsAreFields
  <2> DEFINE t == WithParams(Got(ttyset[m], termios_to_DCB(v)), q)
  <2>6. Good(Lasting(t)) /\ termios_to_DCB(t) = termios_to_DCB(Lasting(t))
    BY <2>3, <2>4, <2>5, ParamsSet
  <2>7. Apply(m, t) \/ ApplyHalf(m, t)
    BY <2>1, <2>4
  <2> HIDE DEF t
  <2>8. half' \in [Names -> SUBSET {"params", "flow"}]
    BY <2>1, <2>2 DEF Settings
  <2>9. QED BY <2>1, <2>2, <2>6, <2>7, <2>8, Applied DEF Settings
<1>6. ASSUME NEW n \in Names, SetFlow(n) PROVE Settings'
  <2> DEFINE m == find_port(port[n])
  <2>1. PICK mode \in FlowModes :
          /\ \/ Apply(m, WithFlow(Got(ttyset[m], dcb[m]), mode))
             \/ ApplyHalf(m, WithFlow(Got(ttyset[m], dcb[m]), mode))
          /\ DOMAIN flow' = DOMAIN flow
          /\ half' = [half EXCEPT ![m] = @ \ {"flow"}] \/ half' = [half EXCEPT ![m] = @ \cup {"flow"}]
    BY <1>6 DEF SetFlow
  <2>2. m \in Names /\ params' = params
    BY <1>1, <1>6 DEF SetFlow
  <2> HIDE DEF m
  <2>3. Good(ttyset[m]) /\ \E v : Good(v) /\ dcb[m] = termios_to_DCB(v)
    BY <2>2 DEF Settings
  <2>4. PICK v : Good(v) /\ dcb[m] = termios_to_DCB(v)
    BY <2>3
  <2> DEFINE t == WithFlow(Got(ttyset[m], termios_to_DCB(v)), mode)
  <2>5. Good(Lasting(t)) /\ termios_to_DCB(t) = termios_to_DCB(Lasting(t))
    BY <2>3, <2>4, FlowSet
  <2>6. Apply(m, t) \/ ApplyHalf(m, t)
    BY <2>1, <2>4
  <2> HIDE DEF t
  <2>7. half' \in [Names -> SUBSET {"params", "flow"}]
    BY <2>1, <2>2 DEF Settings
  <2>8. QED BY <2>1, <2>2, <2>5, <2>6, <2>7, Applied DEF Settings
<1>7. QED
  BY <1>2, <1>3, <1>4, <1>5, <1>6 DEF Next, vars, history, Open, Number, Insert, Create, Undo

LEMMA StepKept == IInv /\ [Next]_vars => Kept'
<1> SUFFICES ASSUME Types, Calls, ListInv, Settings, Kept, [Next]_vars, ~raced',
                    NEW k \in Names, port'[k] # 0
             PROVE  /\ params'[k] \in Fields
                    /\ Agree(ttyset'[k], dcb'[k], params'[k], flow'[k], half'[k])
  BY DEF IInv, Kept
<1>1. /\ Sorted /\ Entries
      /\ port[k] # 0 => /\ params[k] \in Fields
                        /\ Agree(ttyset[k], dcb[k], params[k], flow[k], half[k])
  BY DEF ListInv, Kept, Next, Open, Number, Insert, Create, Undo, Configure, Close, SetParams,
         SetFlow, vars, history
<1> DEFINE Done == /\ params'[k] \in Fields
                   /\ Agree(ttyset'[k], dcb'[k], params'[k], flow'[k], half'[k])
<1>2. ASSUME port'[k] = port[k], ttyset'[k] = ttyset[k], dcb'[k] = dcb[k], params'[k] = params[k],
             flow'[k] = flow[k], half'[k] = half[k]
      PROVE  Done
  BY <1>1, <1>2
<1>3. \A n \in Names : port[n] # 0 => find_port(port[n]) = n
  BY <1>1, FindEntry DEF Entries
<1>4. ASSUME NEW t \in Threads, Configure(t) PROVE Done
  <2> DEFINE n == name[t]
  <2>1. n \in Names /\ n # null /\ half' = half
    BY <1>4, NameOf DEF Configure
  <2>2. CASE UNCHANGED <<settings, port>>
    BY <1>2, <2>1, <2>2 DEF settings
  <2>3. CASE ~UNCHANGED <<settings, port>>
    <3>1. find_port(fd[n]) = n
      BY <1>1, <1>4, FindEntry DEF Entries, Configure
    <3>2. /\ Apply(n, init_termios)
          /\ port' = [port EXCEPT ![n] = fd[n]]
          /\ params' = [params EXCEPT ![n] = set_java_vars(configured)]
          /\ flow' = [flow EXCEPT ![n] = {}]
      BY <1>4, <2>3, <3>1, InitWord DEF Configure
    <3> HIDE DEF n
    <3>3. CASE k = n
      <4>1. /\ params'[k] = set_java_vars(configured) /\ flow'[k] = {}
            /\ ttyset'[k] = init_termios /\ dcb'[k] = termios_to_DCB(init_termios)
        BY <2>1, <3>2, <3>3, InitApplied DEF Settings
      <4>2. QED BY <4>1, BeginsAgreed, InitWord DEF Agree
    <3>4. CASE k # n
      <4>1. /\ port'[k] = port[k] /\ params'[k] = params[k] /\ flow'[k] = flow[k]
            /\ ttyset'[k] = ttyset[k] /\ dcb'[k] = dcb[k]
        BY <2>1, <3>2, <3>4, InitApplied DEF Settings, Types
      <4>2. QED BY <1>2, <2>1, <4>1
    <3>5. QED BY <3>3, <3>4
  <2>4. QED BY <2>2, <2>3
<1>5. ASSUME NEW n \in Names, Close(n) PROVE Done
  <2>1. Apply(n, init_termios)
    BY <1>5 DEF Close, Default
  <2>2. /\ k # n /\ port'[k] = port[k] /\ params'[k] = params[k] /\ flow'[k] = flow[k]
        /\ half'[k] = half[k]
    BY <1>5 DEF Close, Default, Settings, Types
  <2>3. ttyset'[k] = ttyset[k] /\ dcb'[k] = dcb[k]
    BY <2>1, <2>2, InitApplied
  <2>4. QED BY <1>2, <2>2, <2>3
<1>6. ASSUME NEW n \in Names, SetParams(n) PROVE Done
  <2>1. port[n] # 0 /\ find_port(port[n]) = n /\ port' = port /\ flow' = flow
    BY <1>3, <1>6 DEF SetParams
  <2>2. PICK q \in Params :
          \/ /\ Apply(n, WithParams(Got(ttyset[n], dcb[n]), q))
             /\ params' = [params EXCEPT ![n] = [q EXCEPT !.dataBits = IF q.stopBits = "1.5" THEN 5 ELSE @]]
             /\ half' = [half EXCEPT ![n] = @ \ {"params"}]
          \/ /\ ApplyHalf(n, WithParams(Got(ttyset[n], dcb[n]), q))
             /\ params' = params
             /\ half' = [half EXCEPT ![n] = @ \cup {"params"}]
    BY <1>6, <2>1 DEF SetParams
  <2>3. Good(ttyset[n]) /\ \E v : Good(v) /\ dcb[n] = termios_to_DCB(v)
    BY DEF Settings
  <2> DEFINE r == [q EXCEPT !.dataBits = IF q.stopBits = "1.5" THEN 5 ELSE @]
             T(v) == WithParams(Got(ttyset[n], termios_to_DCB(v)), q)
  <2>4. q \in Fields /\ r \in Fields
    BY ParamsAreFields
  <2>5. r.dataBits = Bits(q) /\ r.stopBits = q.stopBits /\ r.parity = q.parity /\ r.speed = q.speed
    BY <2>4 DEF Fields, Bits
  <2>6. ASSUME NEW v, Good(v), dcb[n] = termios_to_DCB(v)
        PROVE  LET x == Lasting(T(v)) IN
               /\ Good(x) /\ termios_to_DCB(T(v)) = termios_to_DCB(x)
               /\ x.csize = Bits(q) /\ x.cflag = Flags(v.cflag, q)
               /\ x.iflag = v.iflag /\ B_to_CBR(x.ispeed) = RateFor(q.speed)
               /\ Apply(n, T(v)) \/ ApplyHalf(n, T(v))
               /\ n = k => /\ dcb'[k] = termios_to_DCB(x)
                           /\ params'[k] = params[k] \/ ttyset'[k] = x
               /\ n # k => ttyset'[k] = ttyset[k] /\ dcb'[k] = dcb[k]
    <3> DEFINE t == T(v)
    <3>1. /\ Good(Lasting(t)) /\ termios_to_DCB(t) = termios_to_DCB(Lasting(t))
          /\ Lasting(t).csize = Bits(q) /\ Lasting(t).cflag = Flags(v.cflag, q)
          /\ Lasting(t).iflag = v.iflag /\ B_to_CBR(Lasting(t).ispeed) = RateFor(q.speed)
      <4>1. Good(ttyset[n]) /\ Good(v) /\ q \in Fields
        BY <2>3, <2>4, <2>6
      <4> HIDE DEF r
      <4> DEFINE w == ttyset[n]
                 made == WithParams(Got(w, termios_to_DCB(v)), q)
      <4>2. Good(w)
        BY <4>1
      <4> HIDE DEF w
      <4>3. /\ Good(Lasting(made)) /\ termios_to_DCB(made) = termios_to_DCB(Lasting(made))
            /\ Lasting(made).csize = Bits(q) /\ Lasting(made).cflag = Flags(v.cflag, q)
            /\ Lasting(made).iflag = v.iflag /\ B_to_CBR(Lasting(made).ispeed) = RateFor(q.speed)
        BY <4>1, <4>2, ParamsSet
      <4>4. QED BY <4>3 DEF w
    <3>2. Apply(n, t) \/ (ApplyHalf(n, t) /\ params' = params)
      BY <2>2, <2>6
    <3> HIDE DEF T
    <3>3. QED BY <3>1, <3>2, Applied
  <2> HIDE DEF T, r
  <2>7. CASE k # n
    <3>1. ttyset'[k] = ttyset[k] /\ dcb'[k] = dcb[k]
      BY <2>3, <2>6, <2>7
    <3>2. params'[k] = params[k] /\ half'[k] = half[k]
      BY <2>2, <2>7 DEF Settings
    <3>3. QED BY <1>2, <2>1, <3>1, <3>2
  <2>8. CASE k = n
    <3>1. PICK v : /\ Good(v) /\ dcb[n] = termios_to_DCB(v)
                   /\ "params" \notin half[n] => AgreesParams(ttyset[n], v, params[n])
                   /\ "flow" \notin half[n] => AgreesFlow(v, flow[n])
      BY <1>1, <2>1, <2>8 DEF Agree
    <3> DEFINE x == Lasting(T(v))
    <3>2. /\ Good(x) /\ dcb'[k] = termios_to_DCB(x)
          /\ x.csize = Bits(q) /\ x.cflag = Flags(v.cflag, q)
          /\ x.iflag = v.iflag /\ B_to_CBR(x.ispeed) = RateFor(q.speed)
          /\ Apply(n, T(v)) => ttyset'[k] = x
      <4>1. T(v) = WithParams(Got(ttyset[n], dcb[n]), q)
        BY <3>1 DEF T
      <4>2. Apply(n, T(v)) => ttyset'[k] = x
        BY <2>8 DEF Apply, Settings
      <4>3. QED BY <2>6, <2>8, <3>1, <4>2
    <3>3. T(v) = WithParams(Got(ttyset[n], dcb[n]), q)
      BY <3>1 DEF T
    <3> HIDE DEF x
    <3>4. "flow" \notin half[n] => AgreesFlow(x, flow[n])
      <4> SUFFICES ASSUME "flow" \notin half[n] PROVE AgreesFlow(x, flow[n])
        OBVIOUS
      <4> DEFINE f == v.cflag
                 b == Hardware(flow[n])
      <4>1. f = With(f, "CRTSCTS", b) /\ v.iflag = Xon(v.iflag, flow[n])
        BY <3>1 DEF AgreesFlow
      <4>2. b \in BOOLEAN /\ q.parity \in DOMAIN Parities
        BY <2>4 DEF Hardware, Fields
      <4>3. Flags(With(f, "CRTSCTS", b), q) = With(Flags(f, q), "CRTSCTS", b)
        BY <4>2, FlagsAndFlow
      <4>4. QED BY <3>2, <4>1, <4>3 DEF AgreesFlow
    <3>5. CASE /\ Apply(n, T(v)) /\ params'[k] = r
               /\ half'[k] = half[k] \ {"params"}
      <4>1. r.dataBits = Bits(r) /\ \A g : Flags(g, r) = Flags(g, q)
        BY <2>5 DEF Bits, Flags
      <4>2. q.parity \in DOMAIN Parities
        BY <2>4 DEF Fields
      <4>3. Flags(x.cflag, r) = x.cflag
        BY <3>2, <4>1, <4>2, FlagsTwice
      <4>4. AgreesParams(x, x, r)
        BY <2>5, <3>2, <4>1, <4>3 DEF AgreesParams
      <4>5. "flow" \notin half'[k] => "flow" \notin half[k]
        BY <3>5
      <4>6. ttyset'[k] = x /\ flow'[k] = flow[n]
        BY <2>1, <2>8, <3>2, <3>5
      <4>7. QED BY <2>4, <2>8, <3>2, <3>4, <3>5, <4>4, <4>5, <4>6 DEF Agree
    <3>6. CASE params'[k] = params[k] /\ half'[k] = half[k] \cup {"params"}
      <4>1. "params" \in half'[k] /\ ("flow" \notin half'[k] => "flow" \notin half[k])
        BY <3>6
      <4>2. params[k] \in Fields /\ flow'[k] = flow[n]
        BY <1>1, <2>1, <2>8
      <4>3. QED BY <2>8, <3>2, <3>4, <3>6, <4>1, <4>2 DEF Agree
    <3>7. QED
      <4>1. half' = [half EXCEPT ![n] = @ \ {"params"}] => half'[k] = half[k] \ {"params"}
        BY <2>8 DEF Settings
      <4>2. half' = [half EXCEPT ![n] = @ \cup {"params"}] => half'[k] = half[k] \cup {"params"}
        BY <2>8 DEF Settings
      <4>3. params' = [params EXCEPT ![n] = r] => params'[k] = r
        BY <2>8 DEF Settings
      <4>4. QED BY <2>2, <3>3, <3>5, <3>6, <4>1, <4>2, <4>3 DEF r
  <2>9. QED BY <2>7, <2>8
<1>7. ASSUME NEW n \in Names, SetFlow(n) PROVE Done
  <2>1. port[n] # 0 /\ find_port(port[n]) = n /\ port' = port /\ params' = params
    BY <1>3, <1>7 DEF SetFlow
  <2>2. PICK mode \in FlowModes :
          \/ /\ Apply(n, WithFlow(Got(ttyset[n], dcb[n]), mode))
             /\ flow' = [flow EXCEPT ![n] = mode]
             /\ half' = [half EXCEPT ![n] = @ \ {"flow"}]
          \/ /\ ApplyHalf(n, WithFlow(Got(ttyset[n], dcb[n]), mode))
             /\ flow' = flow
             /\ half' = [half EXCEPT ![n] = @ \cup {"flow"}]
    BY <1>7, <2>1 DEF SetFlow
  <2>3. PICK v : /\ Good(v) /\ dcb[n] = termios_to_DCB(v)
                 /\ k = n /\ "params" \notin half[n] => AgreesParams(ttyset[n], v, params[n])
    <3>1. \E v : Good(v) /\ dcb[n] = termios_to_DCB(v)
      BY DEF Settings
    <3>2. k = n => Agree(ttyset[n], dcb[n], params[n], flow[n], half[n])
      BY <1>1, <2>1
    <3>3. QED BY <3>1, <3>2 DEF Agree
  <2> DEFINE t == WithFlow(Got(ttyset[n], termios_to_DCB(v)), mode)
             x == Lasting(t)
  <2>4. /\ Good(x) /\ termios_to_DCB(t) = termios_to_DCB(x)
        /\ ttyset[n].csize = v.csize => x.csize = v.csize
        /\ x.cflag = With(v.cflag, "CRTSCTS", Hardware(mode))
        /\ x.iflag = Xon(v.iflag, mode)
        /\ ttyset[n].ispeed = v.ispeed => x.ispeed = v.ispeed
    <3>1. Good(ttyset[n])
      BY DEF Settings
    <3>2. Good(v)
      BY <2>3
    <3> DEFINE w == ttyset[n]
               made == WithFlow(Got(w, termios_to_DCB(v)), mode)
    <3>3. Good(w)
      BY <3>1
    <3> HIDE DEF w
    <3>4. /\ Good(Lasting(made)) /\ termios_to_DCB(made) = termios_to_DCB(Lasting(made))
          /\ w.csize = v.csize => Lasting(made).csize = v.csize
          /\ Lasting(made).cflag = With(v.cflag, "CRTSCTS", Hardware(mode))
          /\ Lasting(made).iflag = Xon(v.iflag, mode)
          /\ w.ispeed = v.ispeed => Lasting(made).ispeed = v.ispeed
      BY <3>2, <3>3, FlowSet
    <3>5. QED BY <3>4 DEF w
  <2>5. \/ Apply(n, t) /\ flow' = [flow EXCEPT ![n] = mode] /\ half' = [half EXCEPT ![n] = @ \ {"flow"}]
        \/ ApplyHalf(n, t) /\ flow' = flow /\ half' = [half EXCEPT ![n] = @ \cup {"flow"}]
    BY <2>2, <2>3
  <2> HIDE DEF t
  <2>6. /\ k # n => ttyset'[k] = ttyset[k] /\ dcb'[k] = dcb[k]
        /\ dcb'[n] = termios_to_DCB(x)
        /\ Apply(n, t) => ttyset'[n] = x
        /\ ApplyHalf(n, t) => ttyset'[n] = ttyset[n]
    BY <2>4, <2>5, Applied
  <2> HIDE DEF x
  <2>7. CASE k # n
    <3>1. flow'[k] = flow[k] /\ half'[k] = half[k]
      BY <2>5, <2>7 DEF Settings
    <3>2. QED BY <1>2, <2>1, <2>6, <2>7, <3>1
  <2>8. CASE k = n
    <3>1. params[k] \in Fields /\ params'[k] = params[n]
      BY <1>1, <2>1, <2>8
    <3>2. AgreesFlow(x, mode)
      <4>1. Hardware(mode) \in BOOLEAN
        BY DEF Hardware
      <4>2. QED BY <2>4, <4>1, FlowTwice DEF AgreesFlow
    <3>3. "params" \notin half[n] => AgreesParams(ttyset[n], x, params[n]) /\ AgreesParams(x, x, params[n])
      <4> SUFFICES ASSUME "params" \notin half[n]
                   PROVE  AgreesParams(ttyset[n], x, params[n]) /\ AgreesParams(x, x, params[n])
        OBVIOUS
      <4> DEFINE f == v.cflag
                 q == params[n]
                 b == Hardware(mode)
      <4>1. /\ q.dataBits = Bits(q) /\ ttyset[n].csize = q.dataBits /\ v.csize = q.dataBits
            /\ f = Flags(f, q)
            /\ B_to_CBR(v.ispeed) = RateFor(q.speed) /\ ttyset[n].ispeed = v.ispeed
        BY <2>3, <2>8 DEF AgreesParams
      <4>2. b \in BOOLEAN /\ q.parity \in DOMAIN Parities
        BY <2>8, <3>1 DEF Hardware, Fields
      <4> HIDE DEF f, q, b
      <4>3. With(f, "CRTSCTS", b) = Flags(With(f, "CRTSCTS", b), q)
        BY <4>1, <4>2, FlagsAndFlow
      <4>4. x.csize = q.dataBits /\ x.ispeed = v.ispeed /\ x.cflag = Flags(x.cflag, q)
        BY <2>4, <4>1, <4>3 DEF f, b
      <4>5. QED BY <4>1, <4>4 DEF AgreesParams, q
    <3>4. CASE Apply(n, t) /\ flow' = [flow EXCEPT ![n] = mode] /\ half' = [half EXCEPT ![n] = @ \ {"flow"}]
      <4>1. flow'[k] = mode /\ half'[k] = half[n] \ {"flow"}
        BY <2>8, <3>4 DEF Settings
      <4>2. "params" \notin half'[k] => "params" \notin half[n]
        BY <4>1
      <4>3. QED BY <2>4, <2>6, <2>8, <3>1, <3>2, <3>3, <3>4, <4>1, <4>2 DEF Agree
    <3>5. CASE ApplyHalf(n, t) /\ flow' = flow /\ half' = [half EXCEPT ![n] = @ \cup {"flow"}]
      <4>1. half'[k] = half[n] \cup {"flow"}
        BY <2>8, <3>5 DEF Settings
      <4>2. "flow" \in half'[k] /\ ("params" \notin half'[k] => "params" \notin half[n])
        BY <4>1
      <4>3. QED BY <2>4, <2>6, <2>8, <3>1, <3>3, <3>5, <4>2 DEF Agree
    <3>6. QED BY <2>5, <3>4, <3>5
  <2>9. QED BY <2>7, <2>8
<1>8. ASSUME UNCHANGED <<settings, port, half>> PROVE Done
  BY <1>2, <1>8 DEF settings
<1>9. QED
  BY <1>4, <1>5, <1>6, <1>7, <1>8 DEF Next, vars, history, Open, Number, Insert, Create, Undo
-----------------------------------------------------------------------------
LEMMA InitInv == Init => IInv
<1> SUFFICES ASSUME Init PROVE IInv
  OBVIOUS
<1>1. first_tl \in Lists /\ ToSet(first_tl) = {} /\ Len(first_tl) = 0
  <2>1. <<>> \in Seq(Names) /\ Len(<<>>) = 0 /\ DOMAIN <<>> = {}
    OBVIOUS
  <2>2. QED BY <2>1, SMT DEF Init, Lists, IsInjective, ToSet
<1>2. Types
  <2>1. 0 \in 0 .. Cap
    BY CapIsNat
  <2>2. QED BY <1>1, <2>1 DEF Init, Types, Places
<1>3. Calls
  BY <1>1, NullIsNoPort DEF Init, Calls
<1>4. Sorted /\ Chosen /\ Entries
  <2>1. Sorted
    BY <1>1 DEF Sorted
  <2>2. Chosen
    BY DEF Init, Chosen, Adding
  <2>3. Entries
    BY <1>1 DEF Init, Entries
  <2>4. QED BY <2>1, <2>2, <2>3
<1>5. Settings
  BY InitWord DEF Init, Settings
<1>6. Kept
  BY DEF Init, Kept
<1>7. QED BY <1>2, <1>3, <1>4, <1>5, <1>6 DEF IInv, ListInv

LEMMA InvHolds == Spec => []IInv
<1>1. IInv /\ [Next]_vars => IInv'
  BY StepTypes, StepCalls, StepList, StepSettings, StepKept DEF IInv
<1>2. QED BY <1>1, InitInv, PTL DEF Spec
-----------------------------------------------------------------------------
(* The theorems *)

(* No descriptor is greater than the number of ports, whatever the calls of  *)
(* add_port do to the list, and every DCB has a rate.                        *)
THEOREM TypeCorrect == Spec => []TypeOK
<1>1. IInv => TypeOK
  <2> SUFFICES ASSUME Types, Settings PROVE TypeOK
    BY DEF IInv
  <2>1. first_tl \in Seq(Names) /\ IsInjective(first_tl)
    BY DEF Types, Lists
  <2>2. \A n \in Names : /\ ttyset[n].csize \in 5 .. 8 /\ WithinCBAUD(ttyset[n].baud)
                         /\ dcb[n].BaudRate > 0
    <3> SUFFICES ASSUME NEW n \in Names
                 PROVE  /\ ttyset[n].csize \in 5 .. 8 /\ WithinCBAUD(ttyset[n].baud)
                        /\ dcb[n].BaudRate > 0
      OBVIOUS
    <3>1. Good(ttyset[n])
      BY DEF Settings
    <3>2. PICK v : Good(v) /\ dcb[n] = termios_to_DCB(v)
      BY DEF Settings
    <3>3. dcb[n].BaudRate = B_to_CBR(v.ispeed)
      BY <3>2, DCBWord
    <3>4. QED BY <3>1, <3>2, <3>3 DEF Good, Wide, RateBack
  <2>3. half \in [Names -> SUBSET {"params", "flow"}]
    BY DEF Settings
  <2>4. QED BY <2>1, <2>2, <2>3 DEF Types, TypeOK, Cap
<1>2. QED BY <1>1, InvHolds, PTL

(* Opening, closing and failing in any order, every open port is found under *)
(* its own descriptor and every port that is not open can be opened again,   *)
(* as long as no two calls of add_port overlap and none walks from an entry  *)
(* that has been closed under it.                                            *)
THEOREM PortsAreExact == Spec => []PortsExact
<1>1. IInv => PortsExact
  <2> SUFFICES ASSUME Types, Sorted, Entries
               PROVE  /\ \A i \in 1 .. Len(first_tl) - 1 : fd[first_tl[i]] < fd[first_tl[i + 1]]
                      /\ \A n \in Names : port[n] # 0 => find_port(port[n]) = n /\ n \in handles
                      /\ \A n \in ToSet(first_tl) \cup handles :
                           port[n] # 0 \/ ~Free(n) \/ n \in skipped \cup failed
    BY DEF IInv, ListInv, PortsExact
  <2>1. \A i \in 1 .. Len(first_tl) - 1 : fd[first_tl[i]] < fd[first_tl[i + 1]]
    <3>1. Len(first_tl) \in Nat
      BY ListTypes DEF Types
    <3>2. QED BY <3>1 DEF Sorted
  <2>2. \A n \in Names : port[n] # 0 => find_port(port[n]) = n /\ n \in handles
    BY FindEntry DEF Entries
  <2>3. \A n \in ToSet(first_tl) \cup handles : port[n] # 0 \/ ~Free(n) \/ n \in skipped \cup failed
    BY DEF Entries
  <2>4. QED BY <2>1, <2>2, <2>3
<1>2. QED BY <1>1, InvHolds, PTL

(* Whatever has been set on this port and on others, tcgetattr gives back    *)
(* the frame and the flow control that were asked for last, and the line has *)
(* the rate that was asked for: adding up the speed codes loses nothing.  A  *)
(* call that fails half-way undoes only what the next call of its kind sets. *)
THEOREM SettingsAreKept == Spec => []SettingsKept
<1>1. IInv => SettingsKept
  <2> SUFFICES ASSUME Settings, Kept, ~raced, NEW n \in Names, port[n] # 0
               PROVE  LET t == Got(ttyset[n], dcb[n]) IN
                      /\ "params" \notin half[n] => /\ dcb[n].BaudRate = RateFor(params[n].speed)
                                                    /\ t.csize = params[n].dataBits
                                                    /\ Translated(t, params[n]) = t
                      /\ "flow" \notin half[n] => WithFlow(t, flow[n]) = t
    BY DEF IInv, SettingsKept
  <2> DEFINE w == ttyset[n]
             q == params[n]
             t == Got(ttyset[n], dcb[n])
  <2>1. Good(w) /\ q \in Fields
    BY DEF Settings, Kept
  <2>2. PICK v : /\ Good(v) /\ dcb[n] = termios_to_DCB(v)
                 /\ "params" \notin half[n] => AgreesParams(w, v, q)
                 /\ "flow" \notin half[n] => AgreesFlow(v, flow[n])
    BY DEF Kept, Agree
  <2>3. /\ t.cflag = v.cflag /\ t.iflag = v.iflag /\ t \in Wide
        /\ w.csize = v.csize => t.csize = v.csize
    BY <2>1, <2>2, GotWord
  <2> HIDE DEF t, q, w
  <2>4. t = [baud |-> t.baud, ispeed |-> t.ispeed, csize |-> t.csize, cflag |-> t.cflag,
             iflag |-> t.iflag, eof |-> t.eof]
    BY <2>3, Word
  <2>5. ASSUME "params" \notin half[n]
        PROVE  dcb[n].BaudRate = RateFor(q.speed) /\ t.csize = q.dataBits /\ Translated(t, q) = t
    <3>1. AgreesParams(w, v, q)
      BY <2>2, <2>5
    <3>2. t.csize = q.dataBits /\ Bits(q) = t.csize /\ Flags(t.cflag, q) = t.cflag
      BY <2>3, <3>1 DEF AgreesParams
    <3>3. Translated(t, q) = [baud |-> t.baud, ispeed |-> t.ispeed, csize |-> Bits(q),
                              cflag |-> Flags(t.cflag, q), iflag |-> t.iflag, eof |-> t.eof]
      BY <2>1, <2>3, TranslatedWord
    <3>4. Translated(t, q) = t
      BY <2>4, <3>2, <3>3
    <3>5. dcb[n].BaudRate = RateFor(q.speed)
      BY <2>2, <3>1, DCBWord DEF AgreesParams
    <3>6. QED BY <3>2, <3>4, <3>5
  <2>6. ASSUME "flow" \notin half[n] PROVE WithFlow(t, flow[n]) = t
    <3>1. WithFlow(t, flow[n]) = [baud |-> t.baud, ispeed |-> t.ispeed, csize |-> t.csize,
                                  cflag |-> With(t.cflag, "CRTSCTS", Hardware(flow[n])),
                                  iflag |-> Xon(t.iflag, flow[n]), eof |-> t.eof]
      BY <2>3, WithFlowWord
    <3>2. With(t.cflag, "CRTSCTS", Hardware(flow[n])) = t.cflag /\ Xon(t.iflag, flow[n]) = t.iflag
      BY <2>2, <2>3, <2>6 DEF AgreesFlow
    <3>3. QED BY <2>4, <3>1, <3>2
  <2>7. QED BY <2>5, <2>6 DEF t, q
<1>2. QED BY <1>1, InvHolds, PTL
=============================================================================
