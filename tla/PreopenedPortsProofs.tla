------------------------- MODULE PreopenedPortsProofs -------------------------
(***************************************************************************)
(* Proofs about PreopenedPorts for any number of threads, files, nodes,     *)
(* descriptors and calls.                                                   *)
(***************************************************************************)
EXTENDS PreopenedPorts, FiniteSetTheorems, TLAPS

MaybeNode == Nodes \cup {null}

Memory ==
  /\ node \in [Nodes -> [file : Files \cup {null}, fd : Fds \cup {0},
                         next : MaybeNode, prev : MaybeNode]]
  /\ allocated \subseteq Nodes /\ preopened_port \in MaybeNode
  /\ \A n \in Nodes : node[n].file # null => node[n].fd \in Fds
  /\ \A n \in allocated : node[n].file # null

Devices ==
  /\ fdOf \in [Fds -> Files \cup {null}]
  /\ locked \subseteq Files /\ preset \subseteq Files
  /\ port \in [Files -> Fds \cup {0}]

History == /\ promised \subseteq Files /\ lostFds \subseteq Fds /\ failed \subseteq Files
           /\ flaws \subseteq {"raced", "dangling", "orphan", "early", "reborn"}

(* The variables of a call at each of its places.                           *)
Local(t) ==
  /\ at[t] \in Places /\ op[t] \in Ops
  /\ file[t] \in Files \cup {null} /\ fd[t] \in Fds \cup {0}
  /\ p[t] \in MaybeNode /\ newp[t] \in MaybeNode
  /\ at[t] # "idle" => file[t] \in Files
  /\ at[t] \in {"idle", "lock", "find", "device", "close"} => fd[t] = 0
  /\ at[t] \in {"unlink", "set", "get", "open", "unlock", "add", "link"} => fd[t] \in Fds
  /\ at[t] \in {"unlink", "link"} => p[t] \in Nodes
  /\ at[t] = "link" => newp[t] \in Nodes
  /\ at[t] \in {"set", "unlock", "add", "link"} => op[t] \in Setters
  /\ at[t] \in {"lock", "device"} => op[t] \in Setters \cup {"open"}
  /\ at[t] = "idle" \/ at[t] = "get" => op[t] = "query"
  /\ at[t] = "open" => op[t] = "open"
  /\ at[t] = "close" <=> op[t] = "close"

Threading == /\ at \in [Threads -> Places] /\ op \in [Threads -> Ops]
             /\ file \in [Threads -> Files \cup {null}] /\ fd \in [Threads -> Fds \cup {0}]
             /\ p \in [Threads -> MaybeNode] /\ newp \in [Threads -> MaybeNode]
             /\ \A t \in Threads : Local(t)

Counted == calls \in 0 .. Calls /\ crashed \in BOOLEAN

Types == Memory /\ Devices /\ History /\ Threading /\ Counted

(* The calls that have the lock file of their device.                       *)
Held(t) == \/ at[t] \in {"find", "unlink", "device", "set", "open", "unlock"} /\ op[t] # "query"
           \/ at[t] = "close"

(* The lock file: one call at a time, and none with the port open.          *)
Locks ==
  /\ \A t \in Threads : Held(t) => file[t] \in locked /\ port[file[t]] = 0
  /\ \A t, u \in Threads : Held(t) /\ Held(u) /\ file[t] = file[u] => t = u
  /\ \A f \in Files : port[f] # 0 => f \in locked

(* The calls that have a descriptor, open on their device, to themselves.   *)
Keeps(t) == at[t] \in {"set", "get", "open", "unlock", "add"}

(* A descriptor belongs to one node, one call or one port.                  *)
Owners ==
  /\ \A n \in allocated : fdOf[node[n].fd] = node[n].file
  /\ \A t \in Threads : Keeps(t) => fdOf[fd[t]] = file[t]
  /\ \A f \in Files : port[f] # 0 => fdOf[port[f]] = f
  /\ \A m, n \in allocated : node[m].fd = node[n].fd => m = n
  /\ \A t, u \in Threads : Keeps(t) /\ Keeps(u) /\ fd[t] = fd[u] => t = u
  /\ \A n \in allocated : \A t \in Threads : Keeps(t) => node[n].fd # fd[t]
  /\ \A n \in allocated : \A f \in Files : node[n].fd # port[f]
  /\ \A t \in Threads : \A f \in Files : Keeps(t) => fd[t] # port[f]
  /\ \A t \in Threads : at[t] = "unlink" /\ p[t] \in allocated =>
       node[p[t]].file = file[t] /\ node[p[t]].fd = fd[t]

Owned == "reborn" \notin flaws => Owners

(* Until it is broken the list has at most two nodes: one more, and its head *)
(* would be lost.                                                            *)
Second == IF preopened_port = null THEN null ELSE node[preopened_port].next

Listed == {preopened_port, Second} \ {null}

Linked ==
  /\ preopened_port # null => node[preopened_port].prev = null
  /\ Second # null => /\ Second # preopened_port
                      /\ node[Second].next = null /\ node[Second].prev = preopened_port
  /\ \A m, n \in Listed : node[m].file = node[n].file => m = n
  /\ Listed \subseteq allocated

(* Only the node that a call is about to append is not in the list.          *)
Alone ==
  /\ \A t, u \in Threads : at[t] \in {"unlink", "link"} /\ at[u] \in {"unlink", "link"} => t = u
  /\ \A t \in Threads : at[t] = "unlink" => p[t] \in Listed
  /\ \A n \in allocated : n \in Listed \/ \E t \in Threads : at[t] = "link" /\ newp[t] = n
  /\ \A t \in Threads : at[t] = "link" =>
       /\ p[t] \in Listed /\ node[p[t]].next = null
       /\ newp[t] \in allocated \ Listed
       /\ node[newp[t]].file = file[t] /\ node[newp[t]].fd = fd[t]

(* A call that has a device to open, use or list has it to itself, and there *)
(* is no node of it.                                                         *)
Away(t) == at[t] \in {"device", "set", "open", "unlock", "add", "link"}

Apart ==
  /\ \A t \in Threads : Away(t) => \A n \in Listed : node[n].file # file[t]
  /\ \A t, u \in Threads : Away(t) /\ Away(u) /\ file[t] = file[u] => t = u

Shape == Linked /\ Alone /\ Apart

Shaped == Intact => Shape

(* Every open descriptor is accounted for.                                  *)
Accounts == \A d \in Fds : fdOf[d] # null =>
  \/ d \in lostFds
  \/ \E f \in Files : port[f] = d
  \/ \E t \in Threads : at[t] # "idle" /\ fd[t] = d
  \/ \E n \in Listed : node[n].fd = d

Accounted == Intact => Accounts

(* The device of a file with which a setter has succeeded has an open port,  *)
(* a node, or a call that has taken its node and will open it or list it     *)
(* again.                                                                    *)
Promises ==
  /\ \A f \in promised :
       /\ f \in preset
       /\ \/ port[f] # 0
          \/ \E n \in Listed : node[n].file = f
          \/ \E t \in Threads : /\ file[t] = f
                                /\ at[t] \in {"set", "unlock", "add", "link", "open"}
  /\ \A t \in Threads : at[t] \in {"unlock", "add", "link"} => file[t] \in preset

Promised == Intact => Promises
-----------------------------------------------------------------------------
(* The walk along next *)

LEMMA Least ==
  ASSUME NEW S \in SUBSET Nat, S # {}
  PROVE  \E m \in S : \A k \in S : m <= k
<1> DEFINE R == OpToRel(<, Nat)
<1>1. IsWellFoundedOn(R, Nat)
  BY NatLessThanWellFounded
<1>2. \A x, y \in Nat : x < y => <<x, y>> \in R
  BY DEF OpToRel
<1> HIDE DEF R
<1>3. PICK m \in S : \A k \in S : ~(<<k, m>> \in R)
  BY <1>1, WFMin
<1>4. ASSUME NEW k \in S PROVE m <= k
  <2>1. k \in Nat /\ m \in Nat
    OBVIOUS
  <2>2. ~(k < m)
    BY <1>2, <1>3, <2>1
  <2>3. QED BY <2>1, <2>2
<1>5. QED BY <1>4

LEMMA Induction ==
  ASSUME NEW S \in SUBSET Nat, 0 \in S, \A n \in S : n + 1 \in S
  PROVE  S = Nat
<1> SUFFICES ASSUME Nat \ S # {} PROVE FALSE
  OBVIOUS
<1>1. PICK m \in Nat \ S : \A k \in Nat \ S : m <= k
  BY Least
<1>2. m # 0 /\ m - 1 \in S
  BY <1>1
<1>3. QED BY <1>1, <1>2

Walks(g, n, mem, head) ==
  g = [k \in 0 .. n |-> IF k = 0 THEN head ELSE IF g[k - 1] = null THEN null ELSE mem[g[k - 1]].next]

LEMMA WalkExists == ASSUME NEW mem, NEW head PROVE \A n \in Nat : \E g : Walks(g, n, mem, head)
<1> DEFINE S == {n \in Nat : \E g : Walks(g, n, mem, head)}
<1>1. 0 \in S
  <2> DEFINE g == [k \in 0 .. 0 |-> head]
  <2>1. Walks(g, 0, mem, head)
    BY DEF Walks
  <2>2. QED BY <2>1
<1>2. ASSUME NEW n \in S PROVE n + 1 \in S
  <2>1. PICK g : Walks(g, n, mem, head)
    OBVIOUS
  <2> DEFINE h == [k \in 0 .. n + 1 |->
                     IF k <= n THEN g[k] ELSE IF g[n] = null THEN null ELSE mem[g[n]].next]
  <2>2. n \in Nat
    OBVIOUS
  <2>3. \A k \in 0 .. n : g[k] = IF k = 0 THEN head
                                 ELSE IF g[k - 1] = null THEN null ELSE mem[g[k - 1]].next
    BY <2>1 DEF Walks
  <2>4. /\ \A k \in 0 .. n : h[k] = g[k]
        /\ h[n + 1] = IF g[n] = null THEN null ELSE mem[g[n]].next
    BY <2>2
  <2>5. h = [k \in 0 .. n + 1 |-> h[k]]
    OBVIOUS
  <2> HIDE DEF h
  <2>6. ASSUME NEW k \in 0 .. n + 1
        PROVE  h[k] = IF k = 0 THEN head
                      ELSE IF h[k - 1] = null THEN null ELSE mem[h[k - 1]].next
    <3>1. CASE k = 0
      BY <2>2, <2>3, <2>4, <3>1
    <3>2. CASE k \in 1 .. n
      <4>1. k \in 0 .. n /\ k - 1 \in 0 .. n /\ k # 0
        BY <2>2, <3>2
      <4>2. QED BY <2>3, <2>4, <4>1
    <3>3. CASE k = n + 1
      <4>1. k # 0 /\ k - 1 = n /\ n \in 0 .. n
        BY <2>2, <3>3
      <4>2. QED BY <2>4, <3>3, <4>1
    <3>4. QED BY <2>2, <3>1, <3>2, <3>3
  <2>7. Walks(h, n + 1, mem, head)
    BY <2>5, <2>6, Zenon DEF Walks
  <2>8. QED BY <2>2, <2>7
<1>3. S = Nat
  <2> HIDE DEF S
  <2>1. S \in SUBSET Nat
    BY DEF S
  <2>2. QED BY <1>1, <1>2, <2>1, Induction
<1>4. QED BY <1>3

LEMMA WalkDef ==
  ASSUME NEW mem, NEW head
  PROVE  /\ Cardinality(Nodes) \in Nat
         /\ DOMAIN Walk(mem, head) = 0 .. Cardinality(Nodes)
         /\ Walk(mem, head)[0] = head
         /\ \A k \in 1 .. Cardinality(Nodes) :
              Walk(mem, head)[k] = IF Walk(mem, head)[k - 1] = null THEN null
                                   ELSE mem[Walk(mem, head)[k - 1]].next
<1>1. Cardinality(Nodes) \in Nat
  BY FS_CardinalityType, NodesAreFinite
<1>2. PICK g : Walks(g, Cardinality(Nodes), mem, head)
  BY <1>1, WalkExists
<1>3. Walks(Walk(mem, head), Cardinality(Nodes), mem, head)
  BY <1>2, Zenon DEF Walk, Walks
<1>4. QED BY <1>1, <1>3 DEF Walks

(* It stays among the nodes. *)
LEMMA ReachedNodes ==
  ASSUME NEW mem, NEW head \in MaybeNode, \A n \in Nodes : mem[n].next \in MaybeNode
  PROVE  Reached(mem, head) \subseteq Nodes
<1> DEFINE w == Walk(mem, head)
           N == Cardinality(Nodes)
           S == {k \in Nat : k \in 0 .. N => w[k] \in MaybeNode}
<1>1. /\ N \in Nat /\ DOMAIN w = 0 .. N /\ w[0] = head
      /\ \A k \in 1 .. N : w[k] = IF w[k - 1] = null THEN null ELSE mem[w[k - 1]].next
  BY WalkDef
<1>2. Reached(mem, head) = {w[k] : k \in DOMAIN w} \ {null}
  BY DEF Reached, Range
<1> HIDE DEF w, N
<1>3. 0 \in S
  BY <1>1
<1>4. ASSUME NEW k \in S PROVE k + 1 \in S
  <2> SUFFICES ASSUME k + 1 \in 0 .. N PROVE w[k + 1] \in MaybeNode
    OBVIOUS
  <2>1. k \in 0 .. N /\ k + 1 \in 1 .. N /\ (k + 1) - 1 = k
    BY <1>1
  <2>2. w[k + 1] = IF w[k] = null THEN null ELSE mem[w[k]].next
    BY <1>1, <2>1
  <2>3. w[k] \in MaybeNode
    BY <2>1
  <2>4. QED BY <2>2, <2>3 DEF MaybeNode
<1>5. S = Nat
  <2> HIDE DEF S
  <2>1. S \in SUBSET Nat
    BY DEF S
  <2>2. QED BY <1>3, <1>4, <2>1, Induction
<1>6. \A k \in 0 .. N : w[k] \in MaybeNode
  BY <1>1, <1>5
<1>7. QED BY <1>1, <1>2, <1>6 DEF MaybeNode

(* The search finds a node of the name if the walk meets one. *)
LEMMA FoundIs ==
  ASSUME NEW mem, NEW head, NEW f
  PROVE  IF \E n \in Reached(mem, head) : mem[n].file = f
         THEN Found(mem, head, f) \in Reached(mem, head) /\ mem[Found(mem, head, f)].file = f
         ELSE Found(mem, head, f) = null
<1> DEFINE w == Walk(mem, head)
           hits == {k \in DOMAIN w : w[k] # null /\ mem[w[k]].file = f}
<1>1. hits \in SUBSET Nat
  BY WalkDef
<1>2. Reached(mem, head) = {w[k] : k \in DOMAIN w} \ {null}
  BY DEF Reached, Range
<1>3. Found(mem, head, f) = IF hits = {} THEN null
                            ELSE w[CHOOSE k \in hits : \A j \in hits : k <= j]
  BY Zenon DEF Found
<1>4. (\E n \in Reached(mem, head) : mem[n].file = f) <=> hits # {}
  <2> HIDE DEF w
  <2>1. QED BY <1>2
<1>5. CASE hits # {}
  <2> DEFINE first == CHOOSE k \in hits : \A j \in hits : k <= j
  <2>1. first \in hits
    <3> HIDE DEF hits
    <3>1. \E k \in hits : \A j \in hits : k <= j
      BY <1>1, <1>5, Least
    <3>2. QED BY <3>1
  <2>2. Found(mem, head, f) = w[first]
    <3> HIDE DEF w, hits
    <3>1. QED BY <1>3, <1>5
  <2> HIDE DEF first, w
  <2>3. QED BY <1>2, <1>4, <1>5, <2>1, <2>2
<1>6. CASE hits = {}
  <2> HIDE DEF w, hits
  <2>1. QED BY <1>3, <1>4, <1>6
<1>7. QED BY <1>5, <1>6

(* What a walk meets of a list of at most two nodes. *)
LEMMA ReachedShort ==
  ASSUME NEW mem, NEW head \in MaybeNode, NEW second \in MaybeNode,
         second = IF head = null THEN null ELSE mem[head].next,
         second # null => second # head /\ mem[second].next = null
  PROVE  Reached(mem, head) = {head, second} \ {null}
<1> DEFINE w == Walk(mem, head)
           N == Cardinality(Nodes)
           S == {k \in Nat : k \in 0 .. N => w[k] = IF k = 0 THEN head
                                                     ELSE IF k = 1 THEN second ELSE null}
<1>1. /\ N \in Nat /\ DOMAIN w = 0 .. N /\ w[0] = head
      /\ \A k \in 1 .. N : w[k] = IF w[k - 1] = null THEN null ELSE mem[w[k - 1]].next
  BY WalkDef
<1>2. Reached(mem, head) = {w[k] : k \in DOMAIN w} \ {null}
  BY DEF Reached, Range
<1>3. second # null => N >= 1
  <2>1. SUFFICES ASSUME second # null PROVE N >= 1
    OBVIOUS
  <2>2. {second} \subseteq Nodes
    BY <2>1 DEF MaybeNode
  <2>3. Cardinality({second}) <= Cardinality(Nodes) /\ Cardinality({second}) = 1
    BY <2>2, NodesAreFinite, FS_Subset, FS_Singleton
  <2> HIDE DEF N
  <2>4. QED BY <1>1, <2>3 DEF N
<1> HIDE DEF w, N
<1>4. 0 \in S
  BY <1>1
<1>5. ASSUME NEW k \in S PROVE k + 1 \in S
  <2> SUFFICES ASSUME k + 1 \in 0 .. N
               PROVE  w[k + 1] = IF k + 1 = 0 THEN head ELSE IF k + 1 = 1 THEN second ELSE null
    OBVIOUS
  <2>1. k \in Nat /\ k \in 0 .. N /\ k + 1 \in 1 .. N /\ (k + 1) - 1 = k /\ k + 1 # 0
        /\ (k + 1 = 1 <=> k = 0)
    BY <1>1
  <2>2. w[k + 1] = IF w[k] = null THEN null ELSE mem[w[k]].next
    BY <1>1, <2>1
  <2>3. w[k] = IF k = 0 THEN head ELSE IF k = 1 THEN second ELSE null
    BY <2>1
  <2>4. QED BY <2>1, <2>2, <2>3
<1>6. S = Nat
  <2> HIDE DEF S
  <2>1. S \in SUBSET Nat
    BY DEF S
  <2>2. QED BY <1>4, <1>5, <2>1, Induction
<1>7. ASSUME NEW k \in 0 .. N
      PROVE  w[k] = IF k = 0 THEN head ELSE IF k = 1 THEN second ELSE null
  <2>1. k \in Nat
    BY <1>1
  <2>2. k \in S
    BY <1>6, <2>1
  <2>3. QED BY <2>2
<1>8. 0 \in 0 .. N /\ (second # null => 1 \in 0 .. N)
  BY <1>1, <1>3
<1>9. \A k \in 0 .. N : w[k] \in {head, second, null}
  BY <1>7
<1>10. w[0] = head /\ (second # null => w[1] = second)
  BY <1>7, <1>8
<1>11. QED BY <1>1, <1>2, <1>8, <1>9, <1>10
-----------------------------------------------------------------------------
(* What each action does *)

(* The other threads' places and variables stay.                            *)
Rest(t) ==
  /\ at' \in [Threads -> Places] /\ op' \in [Threads -> Ops]
  /\ file' \in [Threads -> Files \cup {null}] /\ fd' \in [Threads -> Fds \cup {0}]
  /\ p' \in [Threads -> MaybeNode] /\ newp' \in [Threads -> MaybeNode]
  /\ \A u \in Threads \ {t} :
       /\ at'[u] = at[u] /\ op'[u] = op[u] /\ file'[u] = file[u] /\ fd'[u] = fd[u]
       /\ p'[u] = p[u] /\ newp'[u] = newp[u]

(* Thread t has returned; it has gone on to a place with its variables.     *)
Idle(t) == /\ at'[t] = "idle" /\ op'[t] = "query" /\ file'[t] = null /\ fd'[t] = 0
           /\ p'[t] = null /\ newp'[t] = null

On(t, place) == /\ at'[t] = place /\ op'[t] = op[t] /\ file'[t] = file[t] /\ fd'[t] = fd[t]
                /\ p'[t] = p[t] /\ newp'[t] = newp[t]

LEMMA Returned ==
  ASSUME Threading, NEW t \in Threads, Return(t)
  PROVE  Rest(t) /\ Idle(t)
<1>1. /\ at' = [at EXCEPT ![t] = "idle"] /\ op' = [op EXCEPT ![t] = "query"]
      /\ file' = [file EXCEPT ![t] = null] /\ fd' = [fd EXCEPT ![t] = 0]
      /\ p' = [p EXCEPT ![t] = null] /\ newp' = [newp EXCEPT ![t] = null]
  BY DEF Return, Goto
<1>2. "idle" \in Places /\ "query" \in Ops /\ null \in MaybeNode
  BY DEF Places, Ops, MaybeNode
<1>3. QED BY <1>1, <1>2 DEF Threading, Rest, Idle

LEMMA Gone ==
  ASSUME Threading, NEW t \in Threads, NEW place \in Places, Goto(t, place), UNCHANGED locals
  PROVE  Rest(t) /\ On(t, place)
<1>1. at' = [at EXCEPT ![t] = place] /\ UNCHANGED <<op, file, fd, p, newp>>
  BY DEF Goto, locals
<1>2. QED BY <1>1 DEF Threading, Rest, On

LEMMA ThreadStep ==
  ASSUME Threading, NEW t \in Threads, Rest(t), Local(t)'
  PROVE  Threading'
<1>1. ASSUME NEW u \in Threads \ {t} PROVE Local(u)'
  <2>1. Local(u)
    BY DEF Threading
  <2>2. QED BY <2>1 DEF Rest, Local
<1>2. QED BY <1>1 DEF Rest, Threading

LEMMA IdleLocal == ASSUME NEW t \in Threads, Idle(t) PROVE Local(t)'
BY NullIsNothing DEF Idle, Local, Places, Ops, MaybeNode

LEMMA DoesCall ==
  ASSUME Threading, NEW t \in Threads, Call(t)
  PROVE  /\ at[t] = "idle" /\ calls < Calls /\ calls' = calls + 1 /\ Rest(t)
         /\ \E o \in Ops \ {"close"} : \E f \in Files :
              /\ op'[t] = o /\ file'[t] = f
              /\ at'[t] = IF o = "query" THEN "find" ELSE "lock"
         /\ fd'[t] = fd[t] /\ p'[t] = p[t] /\ newp'[t] = newp[t]
         /\ UNCHANGED <<list, device, locked, crashed, history>>
<1>1. PICK o \in Ops \ {"close"}, f \in Files :
         /\ op' = [op EXCEPT ![t] = o] /\ file' = [file EXCEPT ![t] = f]
         /\ at' = [at EXCEPT ![t] = IF o = "query" THEN "find" ELSE "lock"]
  BY DEF Call, Goto
<1>2. /\ at[t] = "idle" /\ calls < Calls /\ calls' = calls + 1
      /\ UNCHANGED <<list, device, locked, fd, p, newp, crashed, history>>
  BY DEF Call, At
<1>3. Rest(t)
  BY <1>1, <1>2 DEF Threading, Rest, Places
<1>4. op'[t] = o /\ file'[t] = f /\ at'[t] = IF o = "query" THEN "find" ELSE "lock"
  BY <1>1 DEF Threading
<1>5. QED BY <1>2, <1>3, <1>4

LEMMA DoesFind ==
  ASSUME Types, NEW t \in Threads, Find(t)
  PROVE  LET n == Found(node, preopened_port, file[t]) IN
         /\ at[t] = "find" /\ Rest(t)
         /\ UNCHANGED <<list, device, locked, calls, crashed, promised, lostFds, failed>>
         /\ flaws' = flaws \cup Note("raced", Overlapped(t))
                           \cup Note("early", n = null /\ \E u \in Threads \ {t} :
                                         at[u] \in {"add", "link"} /\ file[u] = file[t])
         /\ \/ /\ n # null /\ n \in Nodes /\ n \in Reached(node, preopened_port)
               /\ node[n].file = file[t]
               /\ at'[t] = "unlink" /\ p'[t] = n /\ fd'[t] = node[n].fd
               /\ op'[t] = op[t] /\ file'[t] = file[t] /\ newp'[t] = newp[t]
            \/ /\ n = null
               /\ \A m \in Reached(node, preopened_port) : node[m].file # file[t]
               /\ \/ op[t] = "query" /\ Idle(t)
                  \/ op[t] # "query" /\ On(t, "device")
<1> DEFINE n == Found(node, preopened_port, file[t])
<1>0. Threading /\ Memory
  BY DEF Types
<1>1. /\ at[t] = "find"
      /\ UNCHANGED <<list, device, locked, calls, crashed, promised, lostFds, failed>>
      /\ flaws' = flaws \cup Note("raced", Overlapped(t))
                        \cup Note("early", n = null /\ \E u \in Threads \ {t} :
                                      at[u] \in {"add", "link"} /\ file[u] = file[t])
      /\ IF n # null
         THEN /\ p' = [p EXCEPT ![t] = n]
              /\ fd' = [fd EXCEPT ![t] = node[n].fd]
              /\ Goto(t, "unlink")
              /\ UNCHANGED <<op, file, newp>>
         ELSE IF op[t] = "query" THEN Return(t)
         ELSE Goto(t, "device") /\ UNCHANGED locals
  BY Zenon DEF Find, At
<1>2. Reached(node, preopened_port) \subseteq Nodes
  BY <1>0, ReachedNodes DEF Memory
<1>3. IF \E m \in Reached(node, preopened_port) : node[m].file = file[t]
      THEN n \in Reached(node, preopened_port) /\ node[n].file = file[t]
      ELSE n = null
  BY FoundIs
<1> HIDE DEF n
<1>4. CASE n # null
  <2>1. n \in Nodes /\ n \in Reached(node, preopened_port) /\ node[n].file = file[t]
    BY <1>2, <1>3, <1>4
  <2>2. /\ p' = [p EXCEPT ![t] = n] /\ fd' = [fd EXCEPT ![t] = node[n].fd]
        /\ at' = [at EXCEPT ![t] = "unlink"] /\ UNCHANGED <<op, file, newp>>
    BY <1>1, <1>4 DEF Goto
  <2>3. node[n].fd \in Fds \cup {0} /\ n \in MaybeNode
    BY <1>0, <2>1 DEF Memory, MaybeNode
  <2>4. Rest(t) /\ at'[t] = "unlink" /\ p'[t] = n /\ fd'[t] = node[n].fd
        /\ op'[t] = op[t] /\ file'[t] = file[t] /\ newp'[t] = newp[t]
    BY <1>0, <2>2, <2>3 DEF Threading, Rest, Places
  <2>5. QED BY <1>1, <1>4, <2>1, <2>4 DEF n
<1>5. CASE n = null
  <2>1. \A m \in Reached(node, preopened_port) : node[m].file # file[t]
    BY <1>2, <1>3, <1>5, NullIsNothing
  <2>2. CASE op[t] = "query"
    <3>1. Rest(t) /\ Idle(t)
      BY <1>0, <1>1, <1>5, <2>2, Returned
    <3>2. QED BY <1>1, <1>5, <2>1, <2>2, <3>1 DEF n
  <2>3. CASE op[t] # "query"
    <3>1. Rest(t) /\ On(t, "device")
      BY <1>0, <1>1, <1>5, <2>3, Gone DEF Places
    <3>2. QED BY <1>1, <1>5, <2>1, <2>3, <3>1 DEF n
  <2>4. QED BY <2>2, <2>3
<1>6. QED BY <1>4, <1>5

(* The node is freed at its end, and may lose its name.                     *)
LEMMA DoesUnlink ==
  ASSUME Types, NEW t \in Threads, Unlink(t)
  PROVE  /\ at[t] = "unlink" /\ p[t] \in Nodes /\ Rest(t)
         /\ UNCHANGED <<device, locked, calls, lostFds, failed>>
         /\ op'[t] = op[t] /\ file'[t] = file[t] /\ fd'[t] = fd[t] /\ newp'[t] = newp[t]
         /\ \/ /\ p[t] \in allocated /\ allocated' = allocated \ {p[t]} /\ crashed' = crashed
               /\ preopened_port' = IF node[p[t]].prev = null /\ node[p[t]].next = null THEN null
                                    ELSE preopened_port
               /\ node' \in [Nodes -> [file : Files \cup {null}, fd : Fds \cup {0},
                                       next : MaybeNode, prev : MaybeNode]]
               /\ \A m \in Nodes \ {p[t]} :
                    /\ node'[m].file = node[m].file /\ node'[m].fd = node[m].fd
                    /\ node'[m].next = IF m = node[p[t]].prev THEN node[p[t]].next ELSE node[m].next
                    /\ node'[m].prev = IF m # node[p[t]].prev /\ m = node[p[t]].next
                                       THEN node[p[t]].prev ELSE node[m].prev
               /\ node'[p[t]].file # null => node'[p[t]].fd = node[p[t]].fd
                                             /\ node[p[t]].file # null
               /\ flaws' = flaws \cup Note("dangling", preopened_port' = p[t])
               /\ p'[t] = null
               /\ promised' = IF op[t] = "query" THEN promised \ {file[t]} ELSE promised
               /\ at'[t] = IF op[t] \in Setters THEN "set"
                           ELSE IF op[t] = "query" THEN "get" ELSE "open"
            \/ /\ p[t] \notin allocated /\ crashed' = TRUE
               /\ UNCHANGED <<list, flaws, promised>>
               /\ p'[t] = p[t] /\ at'[t] = at[t]
<1>0. Threading /\ Memory /\ Local(t)
  BY DEF Types, Threading
<1>1. at[t] = "unlink" /\ p[t] \in Nodes
  BY <1>0 DEF Unlink, At, Local
<1>2. UNCHANGED <<device, locked, op, file, fd, newp, calls, lostFds, failed>>
  BY DEF Unlink
<1>3. CASE p[t] \notin allocated
  <2>1. crashed' = TRUE /\ UNCHANGED <<list, flaws, promised, p, at>>
    BY <1>3 DEF Unlink
  <2>2. Rest(t)
    BY <1>0, <1>2, <2>1 DEF Rest, Threading
  <2>3. QED BY <1>1, <1>2, <1>3, <2>1, <2>2
<1>4. CASE p[t] \in allocated
  <2> DEFINE n == p[t]
             wo == Without(node, n)
  <2>1. /\ allocated' = allocated \ {n} /\ crashed' = crashed
        /\ preopened_port' = IF node[n].prev = null /\ node[n].next = null THEN null
                             ELSE preopened_port
        /\ IF preopened_port' = n
           THEN \E name \in {file[t], null} : node' = [wo EXCEPT ![n].file = name]
           ELSE node' = [wo EXCEPT ![n] = Blank]
        /\ flaws' = flaws \cup Note("dangling", preopened_port' = n)
        /\ p' = [p EXCEPT ![t] = null]
        /\ promised' = IF op[t] = "query" THEN promised \ {file[t]} ELSE promised
        /\ at' = [at EXCEPT ![t] = Place(op[t])]
    BY <1>4, Zenon DEF Unlink, Goto
  <2>2. Place(op[t]) = IF op[t] \in Setters THEN "set"
                       ELSE IF op[t] = "query" THEN "get" ELSE "open"
    <3>1. op[t] \in {"line", "params", "query", "open"}
      BY <1>0, <1>1 DEF Local, Ops
    <3>2. QED BY <3>1 DEF Place, Setters
  <2>3. /\ Rest(t) /\ p'[t] = null
        /\ at'[t] = IF op[t] \in Setters THEN "set" ELSE IF op[t] = "query" THEN "get" ELSE "open"
    <3>1. Place(op[t]) \in Places /\ null \in MaybeNode
      BY <2>2 DEF Places, MaybeNode
    <3>2. p' = [p EXCEPT ![t] = null] /\ at' = [at EXCEPT ![t] = Place(op[t])]
      BY <2>1
    <3>3. QED BY <1>0, <1>2, <2>2, <3>1, <3>2 DEF Rest, Threading
  <2>4. /\ wo \in [Nodes -> [file : Files \cup {null}, fd : Fds \cup {0},
                             next : MaybeNode, prev : MaybeNode]]
        /\ \A m \in Nodes :
             /\ wo[m].file = node[m].file /\ wo[m].fd = node[m].fd
             /\ wo[m].next = IF m = node[n].prev THEN node[n].next ELSE node[m].next
             /\ wo[m].prev = IF m # node[n].prev /\ m = node[n].next
                             THEN node[n].prev ELSE node[m].prev
    <3>1. node[n].prev \in MaybeNode /\ node[n].next \in MaybeNode
      BY <1>0, <1>1 DEF Memory
    <3>2. \A m \in Nodes : node[m] \in [file : Files \cup {null}, fd : Fds \cup {0},
                                        next : MaybeNode, prev : MaybeNode]
      BY <1>0 DEF Memory
    <3>3. wo = [m \in Nodes |-> IF m = node[n].prev THEN [node[m] EXCEPT !.next = node[n].next]
                                ELSE IF m = node[n].next THEN [node[m] EXCEPT !.prev = node[n].prev]
                                ELSE node[m]]
      BY DEF Without
    <3> HIDE DEF wo, n
    <3>4. ASSUME NEW m \in Nodes
          PROVE  /\ wo[m] \in [file : Files \cup {null}, fd : Fds \cup {0},
                               next : MaybeNode, prev : MaybeNode]
                 /\ wo[m].file = node[m].file /\ wo[m].fd = node[m].fd
                 /\ wo[m].next = IF m = node[n].prev THEN node[n].next ELSE node[m].next
                 /\ wo[m].prev = IF m # node[n].prev /\ m = node[n].next
                                 THEN node[n].prev ELSE node[m].prev
      <4>1. CASE m = node[n].prev
        BY <3>1, <3>2, <3>3, <4>1
      <4>2. CASE m # node[n].prev /\ m = node[n].next
        BY <3>1, <3>2, <3>3, <4>2
      <4>3. CASE m # node[n].prev /\ m # node[n].next
        BY <3>1, <3>2, <3>3, <4>3
      <4>4. QED BY <4>1, <4>2, <4>3
    <3>5. QED BY <3>3, <3>4
  <2>5. node[n].file \in Files \cup {null} /\ file[t] \in Files \cup {null} /\ n \in Nodes
        /\ (n \in allocated => node[n].file # null)
    BY <1>0, <1>1 DEF Memory, Local
  <2>6. /\ node' \in [Nodes -> [file : Files \cup {null}, fd : Fds \cup {0},
                                next : MaybeNode, prev : MaybeNode]]
        /\ \A m \in Nodes \ {n} : node'[m] = wo[m]
        /\ node'[n].file # null => node'[n].fd = wo[n].fd /\ node[n].file # null
    <3> HIDE DEF wo
    <3>1. CASE preopened_port' = n
      <4>1. PICK name \in {file[t], null} : node' = [wo EXCEPT ![n].file = name]
        BY <2>1, <3>1
      <4>2. wo[n] \in [file : Files \cup {null}, fd : Fds \cup {0}, next : MaybeNode, prev : MaybeNode]
        BY <2>4, <2>5
      <4>3. node' = [wo EXCEPT ![n] = [wo[n] EXCEPT !.file = name]]
        BY <4>1
      <4>4. [wo[n] EXCEPT !.file = name] \in [file : Files \cup {null}, fd : Fds \cup {0},
                                              next : MaybeNode, prev : MaybeNode]
            /\ [wo[n] EXCEPT !.file = name].fd = wo[n].fd
        BY <2>5, <4>2
      <4>5. QED BY <1>4, <2>4, <2>5, <4>3, <4>4
    <3>2. CASE preopened_port' # n
      <4>1. node' = [wo EXCEPT ![n] = Blank]
        BY <2>1, <3>2
      <4>2. Blank \in [file : Files \cup {null}, fd : Fds \cup {0}, next : MaybeNode, prev : MaybeNode]
            /\ Blank.file = null
        BY DEF Blank, MaybeNode
      <4>3. QED BY <2>4, <2>5, <4>1, <4>2
    <3>3. QED BY <3>1, <3>2
  <2> HIDE DEF wo
  <2>7. QED BY <1>1, <1>2, <1>4, <2>1, <2>3, <2>4, <2>5, <2>6
<1>5. QED BY <1>3, <1>4

LEMMA DoesLock ==
  ASSUME Types, NEW t \in Threads, Lock(t)
  PROVE  /\ at[t] = "lock" /\ Rest(t)
         /\ UNCHANGED <<list, device, calls, crashed, history>>
         /\ \/ file[t] \notin locked /\ locked' = locked \cup {file[t]} /\ On(t, "find")
            \/ file[t] \in locked /\ locked' = locked /\ Idle(t)
<1>0. Threading
  BY DEF Types
<1>1. at[t] = "lock" /\ UNCHANGED <<list, device, calls, crashed, history>>
  BY DEF Lock, At
<1>2. CASE file[t] \notin locked
  <2>1. locked' = locked \cup {file[t]} /\ Goto(t, "find") /\ UNCHANGED locals
    BY <1>2 DEF Lock
  <2>2. QED BY <1>0, <1>1, <1>2, <2>1, Gone DEF Places
<1>3. CASE file[t] \in locked
  <2>1. locked' = locked /\ Return(t)
    BY <1>3 DEF Lock
  <2>2. QED BY <1>0, <1>1, <1>3, <2>1, Returned
<1>4. QED BY <1>2, <1>3

LEMMA DoesDevice ==
  ASSUME Types, NEW t \in Threads, Device(t)
  PROVE  /\ at[t] = "device" /\ Rest(t)
         /\ UNCHANGED <<list, port, locked, calls, crashed, flaws>>
         /\ \/ \E d \in Fds :
                 /\ fdOf[d] = null /\ fdOf' = [fdOf EXCEPT ![d] = file[t]]
                 /\ preset' = preset \ {file[t]}
                 /\ \/ /\ fd'[t] = d /\ op'[t] = op[t] /\ file'[t] = file[t]
                       /\ p'[t] = p[t] /\ newp'[t] = newp[t]
                       /\ at'[t] = IF op[t] \in Setters THEN "set" ELSE "open"
                       /\ UNCHANGED <<promised, lostFds, failed>>
                    \/ /\ Idle(t) /\ failed' = failed \cup {file[t]}
                       /\ lostFds' = lostFds \cup {d} /\ promised' = promised \ {file[t]}
            \/ /\ Idle(t) /\ failed' = failed \cup {file[t]}
               /\ lostFds' = lostFds /\ promised' = promised \ {file[t]}
               /\ UNCHANGED <<fdOf, preset>>
<1>0. Threading /\ Local(t)
  BY DEF Types, Threading
<1>1. at[t] = "device" /\ UNCHANGED <<list, port, locked, calls, crashed, flaws>>
  BY DEF Device, At
<1>2. CASE Abandon(t, {}) /\ UNCHANGED <<fdOf, preset>>
  <2>1. /\ Return(t) /\ failed' = failed \cup {file[t]}
        /\ lostFds' = lostFds /\ promised' = promised \ {file[t]}
    BY <1>2 DEF Abandon
  <2>2. QED BY <1>0, <1>1, <1>2, <2>1, Returned
<1>3. CASE \E d \in Fds :
             /\ fdOf[d] = null /\ fdOf' = [fdOf EXCEPT ![d] = file[t]]
             /\ preset' = preset \ {file[t]}
             /\ \/ /\ fd' = [fd EXCEPT ![t] = d]
                   /\ Goto(t, Place(op[t]))
                   /\ UNCHANGED <<op, file, p, newp, promised, lostFds, failed>>
                \/ Abandon(t, {d})
  <2>1. PICK d \in Fds :
             /\ fdOf[d] = null /\ fdOf' = [fdOf EXCEPT ![d] = file[t]]
             /\ preset' = preset \ {file[t]}
             /\ \/ /\ fd' = [fd EXCEPT ![t] = d]
                   /\ Goto(t, Place(op[t]))
                   /\ UNCHANGED <<op, file, p, newp, promised, lostFds, failed>>
                \/ Abandon(t, {d})
    BY <1>3
  <2>2. CASE Abandon(t, {d})
    <3>1. /\ Return(t) /\ failed' = failed \cup {file[t]}
          /\ lostFds' = lostFds \cup {d} /\ promised' = promised \ {file[t]}
      BY <2>2 DEF Abandon
    <3>2. Rest(t) /\ Idle(t)
      BY <1>0, <3>1, Returned
    <3>3. QED BY <1>1, <2>1, <3>1, <3>2
  <2>3. CASE /\ fd' = [fd EXCEPT ![t] = d] /\ Goto(t, Place(op[t]))
             /\ UNCHANGED <<op, file, p, newp, promised, lostFds, failed>>
    <3>1. Place(op[t]) = IF op[t] \in Setters THEN "set" ELSE "open"
      <4>1. op[t] \in {"line", "params", "open"}
        BY <1>0, <1>1 DEF Local, Setters
      <4>2. QED BY <4>1 DEF Place, Setters
    <3>2. at' = [at EXCEPT ![t] = Place(op[t])] /\ Place(op[t]) \in Places
      BY <2>3, <3>1 DEF Goto, Places
    <3>3. /\ Rest(t) /\ fd'[t] = d /\ op'[t] = op[t] /\ file'[t] = file[t]
          /\ p'[t] = p[t] /\ newp'[t] = newp[t]
          /\ at'[t] = IF op[t] \in Setters THEN "set" ELSE "open"
      BY <1>0, <2>3, <3>1, <3>2 DEF Rest, Threading
    <3>4. QED BY <1>1, <2>1, <2>3, <3>3
  <2>4. QED BY <2>1, <2>2, <2>3
<1>4. QED BY <1>2, <1>3 DEF Device

LEMMA DoesSet ==
  ASSUME Types, NEW t \in Threads, Set(t)
  PROVE  /\ at[t] = "set" /\ Rest(t)
         /\ UNCHANGED <<list, fdOf, port, locked, calls, crashed, flaws>>
         /\ \/ /\ preset' = preset \cup {file[t]} /\ On(t, "unlock")
               /\ UNCHANGED <<promised, lostFds, failed>>
            \/ /\ Idle(t) /\ failed' = failed \cup {file[t]} /\ preset' = preset
               /\ lostFds' = lostFds \cup {fd[t]} /\ promised' = promised \ {file[t]}
<1>0. Threading
  BY DEF Types
<1>1. at[t] = "set" /\ UNCHANGED <<list, fdOf, port, locked, calls, crashed, flaws>>
  BY DEF Set, At
<1>2. CASE /\ preset' = preset \cup {file[t]} /\ Goto(t, "unlock")
           /\ UNCHANGED <<locals, promised, lostFds, failed>>
  BY <1>0, <1>1, <1>2, Gone DEF Places
<1>3. CASE Abandon(t, {fd[t]}) /\ UNCHANGED preset
  <2>1. /\ Return(t) /\ failed' = failed \cup {file[t]} /\ preset' = preset
        /\ lostFds' = lostFds \cup {fd[t]} /\ promised' = promised \ {file[t]}
    BY <1>3 DEF Abandon
  <2>2. QED BY <1>0, <1>1, <2>1, Returned
<1>4. QED BY <1>2, <1>3 DEF Set

LEMMA DoesRest ==
  ASSUME Types, NEW t \in Threads
  PROVE  /\ Unlock(t) => /\ at[t] = "unlock" /\ Rest(t) /\ On(t, "add")
                         /\ locked' = locked \ {file[t]}
                         /\ UNCHANGED <<list, device, calls, crashed, history>>
         /\ Get(t) => /\ at[t] = "get" /\ Rest(t) /\ Idle(t)
                      /\ lostFds' = lostFds \cup {fd[t]}
                      /\ UNCHANGED <<list, device, locked, calls, crashed, promised, failed, flaws>>
         /\ Opened(t) => /\ at[t] = "open" /\ Rest(t) /\ Idle(t)
                         /\ port' = [port EXCEPT ![file[t]] = fd[t]]
                         /\ UNCHANGED <<list, fdOf, preset, locked, calls, crashed, history>>
         /\ CloseUnlock(t) => /\ at[t] = "close" /\ Rest(t) /\ Idle(t)
                              /\ locked' = locked \ {file[t]}
                              /\ UNCHANGED <<list, device, calls, crashed, history>>
<1>0. Threading
  BY DEF Types
<1>1. Unlock(t) => Rest(t) /\ On(t, "add")
  BY <1>0, Gone DEF Unlock, Places
<1>2. Get(t) \/ Opened(t) \/ CloseUnlock(t) => Rest(t) /\ Idle(t)
  BY <1>0, Returned DEF Get, Opened, CloseUnlock
<1>3. QED BY <1>1, <1>2 DEF Unlock, Get, Opened, CloseUnlock, At

LEMMA DoesClose ==
  ASSUME Types, NEW t \in Threads, Close(t)
  PROVE  /\ at[t] = "idle" /\ Rest(t) /\ calls < Calls /\ calls' = calls + 1
         /\ \E f \in Files :
              /\ port[f] # 0 /\ port[f] \in Fds
              /\ fdOf' = [fdOf EXCEPT ![port[f]] = null] /\ port' = [port EXCEPT ![f] = 0]
              /\ promised' = promised \ {f} /\ file'[t] = f
         /\ at'[t] = "close" /\ op'[t] = "close" /\ fd'[t] = fd[t] /\ p'[t] = p[t] /\ newp'[t] = newp[t]
         /\ UNCHANGED <<list, preset, locked, crashed, lostFds, failed, flaws>>
<1>0. Threading /\ Devices
  BY DEF Types
<1>1. PICK f \in Files :
         /\ port[f] # 0
         /\ fdOf' = [fdOf EXCEPT ![port[f]] = null] /\ port' = [port EXCEPT ![f] = 0]
         /\ promised' = promised \ {f}
         /\ op' = [op EXCEPT ![t] = "close"] /\ file' = [file EXCEPT ![t] = f]
  BY DEF Close
<1>2. /\ at[t] = "idle" /\ calls < Calls /\ calls' = calls + 1 /\ at' = [at EXCEPT ![t] = "close"]
      /\ UNCHANGED <<list, preset, locked, fd, p, newp, crashed, lostFds, failed, flaws>>
  BY DEF Close, At, Goto
<1>3. port[f] \in Fds
  BY <1>0, <1>1 DEF Devices
<1>4. /\ Rest(t) /\ at'[t] = "close" /\ op'[t] = "close" /\ fd'[t] = fd[t] /\ p'[t] = p[t]
      /\ newp'[t] = newp[t] /\ file'[t] = f
  BY <1>0, <1>1, <1>2 DEF Rest, Threading, Places, Ops
<1>5. QED BY <1>1, <1>2, <1>3, <1>4

(* The new node has the file's name, the call's descriptor and, in two cases *)
(* of three, the links that it was malloc'ed with.                           *)
LEMMA DoesAdd ==
  ASSUME Types, NEW t \in Threads, Add(t)
  PROVE  /\ at[t] = "add" /\ Rest(t) /\ UNCHANGED <<device, locked, calls, crashed, failed>>
         /\ \E n \in Nodes \ allocated :
              /\ allocated' = allocated \cup {n}
              /\ flaws' = flaws \cup Note("raced", Overlapped(t)) \cup Note("reborn", Awaited(n))
              /\ node' \in [Nodes -> [file : Files \cup {null}, fd : Fds \cup {0},
                                      next : MaybeNode, prev : MaybeNode]]
              /\ \A m \in Nodes \ {n} : node'[m] = node[m]
              /\ node'[n].file = file[t] /\ node'[n].fd = fd[t]
              /\ \/ /\ preopened_port = null /\ preopened_port' = n
                    /\ node'[n].next = null /\ node'[n].prev = null
                    /\ promised' = promised \cup {file[t]} /\ lostFds' = lostFds /\ Idle(t)
                 \/ /\ preopened_port # null /\ preopened_port' = preopened_port
                    /\ node'[n].next = node[n].next
                    /\ \E m \in Reached(node', preopened_port) : node'[m].file = file[t]
                    /\ lostFds' = lostFds \cup {fd[t]}
                    /\ promised' = promised \cup {file[t]} /\ Idle(t)
                 \/ /\ preopened_port # null /\ preopened_port' = preopened_port
                    /\ node'[n].next = node[n].next
                    /\ \A m \in Reached(node', preopened_port) : node'[m].file # file[t]
                    /\ p'[t] \in Reached(node', preopened_port) /\ p'[t] \in Nodes
                    /\ node'[p'[t]].next = null
                    /\ newp'[t] = n /\ at'[t] = "link"
                    /\ op'[t] = op[t] /\ file'[t] = file[t] /\ fd'[t] = fd[t]
                    /\ UNCHANGED <<promised, lostFds>>
<1>0. Threading /\ Memory /\ Local(t)
  BY DEF Types, Threading
<1>1. at[t] = "add" /\ UNCHANGED <<device, locked, calls, crashed, failed>>
  BY DEF Add, At
<1>2. PICK n \in Nodes \ allocated :
       LET mem == [node EXCEPT ![n].file = file[t], ![n].fd = fd[t]] IN
       /\ allocated' = allocated \cup {n}
       /\ flaws' = flaws \cup Note("raced", Overlapped(t)) \cup Note("reborn", Awaited(n))
       /\ \/ /\ preopened_port = null
             /\ node' = [mem EXCEPT ![n].next = null, ![n].prev = null]
             /\ preopened_port' = n
             /\ promised' = promised \cup {file[t]}
             /\ Return(t)
             /\ UNCHANGED lostFds
          \/ /\ preopened_port # null
             /\ Found(mem, preopened_port, file[t]) # null
             /\ node' = mem
             /\ lostFds' = lostFds \cup {fd[t]}
             /\ promised' = promised \cup {file[t]}
             /\ Return(t)
             /\ UNCHANGED preopened_port
          \/ /\ preopened_port # null
             /\ Found(mem, preopened_port, file[t]) = null
             /\ node' = mem
             /\ \E end \in Ends(mem, preopened_port) : p' = [p EXCEPT ![t] = end]
             /\ newp' = [newp EXCEPT ![t] = n]
             /\ Goto(t, "link")
             /\ UNCHANGED <<preopened_port, op, file, fd, promised, lostFds>>
  BY DEF Add
<1> DEFINE mem == [node EXCEPT ![n].file = file[t], ![n].fd = fd[t]]
           Record == [file : Files \cup {null}, fd : Fds \cup {0}, next : MaybeNode, prev : MaybeNode]
<1>3. /\ mem \in [Nodes -> Record] /\ \A m \in Nodes \ {n} : mem[m] = node[m]
      /\ mem[n].file = file[t] /\ mem[n].fd = fd[t] /\ mem[n].next = node[n].next
  <2>1. node \in [Nodes -> Record] /\ file[t] \in Files /\ fd[t] \in Fds
    BY <1>0, <1>1 DEF Memory, Local
  <2>2. [[node[n] EXCEPT !.file = file[t]] EXCEPT !.fd = fd[t]] \in Record
    BY <2>1
  <2>3. mem = [node EXCEPT ![n] = [[node[n] EXCEPT !.file = file[t]] EXCEPT !.fd = fd[t]]]
    BY <2>1
  <2>4. QED BY <2>1, <2>2, <2>3
<1>4. \A m \in Nodes : mem[m].next \in MaybeNode
  <2> HIDE DEF mem
  <2>1. QED BY <1>3
<1>5. Reached(mem, preopened_port) \subseteq Nodes
  <2> HIDE DEF mem
  <2>1. QED BY <1>0, <1>4, ReachedNodes DEF Memory
<1>6. IF \E m \in Reached(mem, preopened_port) : mem[m].file = file[t]
      THEN Found(mem, preopened_port, file[t]) \in Reached(mem, preopened_port)
      ELSE Found(mem, preopened_port, file[t]) = null
  <2> HIDE DEF mem
  <2>1. QED BY FoundIs
<1>7. CASE /\ preopened_port = null
           /\ node' = [mem EXCEPT ![n].next = null, ![n].prev = null]
           /\ preopened_port' = n
           /\ promised' = promised \cup {file[t]}
           /\ Return(t)
           /\ UNCHANGED lostFds
  <2> HIDE DEF mem
  <2>1. Rest(t) /\ Idle(t)
    BY <1>0, <1>7, Returned
  <2>2. [[mem[n] EXCEPT !.next = null] EXCEPT !.prev = null] \in Record
    BY <1>3, ZenonT(40) DEF MaybeNode
  <2>3. node' = [mem EXCEPT ![n] = [[mem[n] EXCEPT !.next = null] EXCEPT !.prev = null]]
    BY <1>3, <1>7
  <2>4. /\ node' \in [Nodes -> Record] /\ \A m \in Nodes \ {n} : node'[m] = node[m]
        /\ node'[n].file = file[t] /\ node'[n].fd = fd[t]
        /\ node'[n].next = null /\ node'[n].prev = null
    BY <1>3, <2>2, <2>3
  <2>5. QED BY <1>1, <1>2, <1>7, <2>1, <2>4
<1>8. CASE /\ preopened_port # null
           /\ Found(mem, preopened_port, file[t]) # null
           /\ node' = mem
           /\ lostFds' = lostFds \cup {fd[t]}
           /\ promised' = promised \cup {file[t]}
           /\ Return(t)
           /\ UNCHANGED preopened_port
  <2> HIDE DEF mem
  <2>1. Rest(t) /\ Idle(t)
    BY <1>0, <1>8, Returned
  <2>2. \E m \in Reached(mem, preopened_port) : mem[m].file = file[t]
    BY <1>6, <1>8
  <2>3. QED BY <1>1, <1>2, <1>3, <1>8, <2>1, <2>2
<1>9. CASE /\ preopened_port # null
           /\ Found(mem, preopened_port, file[t]) = null
           /\ node' = mem
           /\ \E end \in Ends(mem, preopened_port) : p' = [p EXCEPT ![t] = end]
           /\ newp' = [newp EXCEPT ![t] = n]
           /\ Goto(t, "link")
           /\ UNCHANGED <<preopened_port, op, file, fd, promised, lostFds>>
  <2> HIDE DEF mem
  <2>1. PICK end \in Ends(mem, preopened_port) : p' = [p EXCEPT ![t] = end]
    BY <1>9
  <2>2. end \in Reached(mem, preopened_port) /\ end \in Nodes /\ mem[end].next = null
    BY <1>5, <2>1 DEF Ends
  <2>3. /\ Rest(t) /\ p'[t] = end /\ newp'[t] = n /\ at'[t] = "link"
        /\ op'[t] = op[t] /\ file'[t] = file[t] /\ fd'[t] = fd[t]
    BY <1>0, <1>9, <2>1, <2>2 DEF Rest, Threading, Places, MaybeNode, Goto
  <2>4. \A m \in Reached(mem, preopened_port) : mem[m].file # file[t]
    BY <1>5, <1>6, <1>9, NullIsNothing
  <2>5. QED BY <1>1, <1>2, <1>3, <1>9, <2>2, <2>3, <2>4
<1>10. QED BY <1>2, <1>7, <1>8, <1>9

LEMMA DoesLink ==
  ASSUME Types, NEW t \in Threads, Link(t)
  PROVE  /\ at[t] = "link" /\ p[t] \in Nodes /\ newp[t] \in Nodes /\ Rest(t) /\ Idle(t)
         /\ node' \in [Nodes -> [file : Files \cup {null}, fd : Fds \cup {0},
                                 next : MaybeNode, prev : MaybeNode]]
         /\ \A m \in Nodes : node'[m].file = node[m].file /\ node'[m].fd = node[m].fd
         /\ p[t] # newp[t] => /\ node'[newp[t]].next = null /\ node'[newp[t]].prev = p[t]
                              /\ node'[p[t]].next = newp[t] /\ node'[p[t]].prev = node[p[t]].prev
         /\ preopened_port' = p[t]
         /\ flaws' = flaws \cup Note("orphan", preopened_port # p[t])
         /\ promised' = promised \cup {file[t]}
         /\ UNCHANGED <<allocated, device, locked, calls, crashed, lostFds, failed>>
<1>0. Threading /\ Memory /\ Local(t)
  BY DEF Types, Threading
<1> DEFINE Record == [file : Files \cup {null}, fd : Fds \cup {0}, next : MaybeNode, prev : MaybeNode]
           a == p[t]
           b == newp[t]
<1>1. /\ at[t] = "link"
      /\ node' = [node EXCEPT ![b].next = null, ![b].prev = a, ![a].next = b]
      /\ preopened_port' = a
      /\ flaws' = flaws \cup Note("orphan", preopened_port # a)
      /\ promised' = promised \cup {file[t]} /\ Return(t)
      /\ UNCHANGED <<allocated, device, locked, calls, crashed, lostFds, failed>>
  BY DEF Link, At
<1>2. a \in Nodes /\ b \in Nodes /\ node \in [Nodes -> Record]
  BY <1>0, <1>1 DEF Local, Memory
<1>3. Rest(t) /\ Idle(t)
  BY <1>0, <1>1, Returned
<1> HIDE DEF a, b
<1> DEFINE e == [[node[b] EXCEPT !.next = null] EXCEPT !.prev = a]
           m1 == [node EXCEPT ![b] = e]
<1>4. e \in Record /\ e.file = node[b].file /\ e.fd = node[b].fd /\ e.next = null /\ e.prev = a
  BY <1>2 DEF MaybeNode
<1>5. node' = [m1 EXCEPT ![a] = [m1[a] EXCEPT !.next = b]]
  BY <1>1, <1>2
<1> HIDE DEF e
<1>6. /\ m1 \in [Nodes -> Record] /\ m1[b] = e /\ \A m \in Nodes \ {b} : m1[m] = node[m]
  BY <1>2, <1>4
<1> HIDE DEF m1
<1>7. /\ [m1[a] EXCEPT !.next = b] \in Record
      /\ [m1[a] EXCEPT !.next = b].file = m1[a].file /\ [m1[a] EXCEPT !.next = b].fd = m1[a].fd
      /\ [m1[a] EXCEPT !.next = b].next = b /\ [m1[a] EXCEPT !.next = b].prev = m1[a].prev
  BY <1>2, <1>6 DEF MaybeNode
<1>8. /\ node' \in [Nodes -> Record]
      /\ \A m \in Nodes : node'[m].file = node[m].file /\ node'[m].fd = node[m].fd
      /\ a # b => /\ node'[b].next = null /\ node'[b].prev = a
                  /\ node'[a].next = b /\ node'[a].prev = node[a].prev
  BY <1>2, <1>4, <1>5, <1>6, <1>7
<1>9. QED BY <1>1, <1>2, <1>3, <1>8 DEF a, b
-----------------------------------------------------------------------------
(* Types *)

LEMMA StepThreading == Types /\ [Next]_vars => Threading'
<1> SUFFICES ASSUME Types, [Next]_vars PROVE Threading'
  OBVIOUS
<1>0. Threading /\ \A t \in Threads : Local(t)
  BY DEF Types, Threading
<1>z. 0 \notin Fds
  BY FdsArePositive
<1>1. CASE UNCHANGED vars
  BY <1>0, <1>1 DEF vars, locals, Threading, Local
<1>2. ASSUME NEW t \in Threads, Call(t) PROVE Threading'
  BY <1>0, <1>2, DoesCall, ThreadStep DEF Local, Places, Setters, Ops
<1>3. ASSUME NEW t \in Threads, Find(t) PROVE Threading'
  <2>1. Local(t) /\ at[t] = "find" /\ Rest(t)
    BY <1>0, <1>3, DoesFind
  <2>2. CASE Idle(t)
    BY <1>0, <2>1, <2>2, IdleLocal, ThreadStep
  <2>3. CASE On(t, "device") /\ op[t] # "query"
    <3>1. Local(t)'
      BY <2>1, <2>3 DEF Local, On, Places, Setters, Ops
    <3>2. QED BY <1>0, <2>1, <3>1, ThreadStep
  <2>4. ASSUME NEW n \in Nodes, node[n].file = file[t], at'[t] = "unlink", p'[t] = n,
               fd'[t] = node[n].fd, op'[t] = op[t], file'[t] = file[t], newp'[t] = newp[t]
        PROVE  Threading'
    <3>1. file[t] \in Files /\ node[n].fd \in Fds
      BY <2>1, <2>4, NullIsNothing DEF Local, Types, Memory
    <3>2. Local(t)'
      BY <2>1, <2>4, <3>1 DEF Local, Places, MaybeNode
    <3>3. QED BY <1>0, <2>1, <3>2, ThreadStep
  <2>5. QED BY <1>3, <2>2, <2>3, <2>4, DoesFind
<1>4. ASSUME NEW t \in Threads, Unlink(t) PROVE Threading'
  <2>1. /\ Local(t) /\ at[t] = "unlink" /\ Rest(t)
        /\ op'[t] = op[t] /\ file'[t] = file[t] /\ fd'[t] = fd[t] /\ newp'[t] = newp[t]
        /\ \/ /\ p'[t] = null
              /\ at'[t] = IF op[t] \in Setters THEN "set" ELSE IF op[t] = "query" THEN "get" ELSE "open"
           \/ p'[t] = p[t] /\ at'[t] = at[t]
    BY <1>0, <1>4, DoesUnlink
  <2>2. Local(t)'
    BY <2>1 DEF Local, Places, MaybeNode, Setters, Ops
  <2>3. QED BY <1>0, <2>1, <2>2, ThreadStep
<1>5. ASSUME NEW t \in Threads, Lock(t) PROVE Threading'
  <2>1. Local(t) /\ at[t] = "lock" /\ Rest(t) /\ (On(t, "find") \/ Idle(t))
    BY <1>0, <1>5, DoesLock
  <2>2. Local(t)'
    <3>1. CASE On(t, "find")
      BY <2>1, <3>1 DEF On, Local, Places, Setters
    <3>2. QED BY <2>1, <3>1, IdleLocal
  <2>3. QED BY <1>0, <2>1, <2>2, ThreadStep
<1>6. ASSUME NEW t \in Threads, Device(t) PROVE Threading'
  <2>1. /\ Local(t) /\ at[t] = "device" /\ Rest(t)
        /\ \/ \E d \in Fds :
                 /\ fd'[t] = d /\ op'[t] = op[t] /\ file'[t] = file[t]
                 /\ p'[t] = p[t] /\ newp'[t] = newp[t]
                 /\ at'[t] = IF op[t] \in Setters THEN "set" ELSE "open"
           \/ Idle(t)
    BY <1>0, <1>6, DoesDevice
  <2>2. Local(t)'
    <3>1. CASE ~Idle(t)
      BY <2>1, <3>1 DEF Local, Places, Setters, Ops
    <3>2. QED BY <3>1, IdleLocal
  <2>3. QED BY <1>0, <2>1, <2>2, ThreadStep
<1>7. ASSUME NEW t \in Threads, Set(t) PROVE Threading'
  <2>1. Local(t) /\ at[t] = "set" /\ Rest(t) /\ (On(t, "unlock") \/ Idle(t))
    BY <1>0, <1>7, DoesSet
  <2>2. Local(t)'
    <3>1. CASE On(t, "unlock")
      BY <2>1, <3>1 DEF On, Local, Places, Setters
    <3>2. QED BY <2>1, <3>1, IdleLocal
  <2>3. QED BY <1>0, <2>1, <2>2, ThreadStep
<1>8. ASSUME NEW t \in Threads, Unlock(t) PROVE Threading'
  <2>1. Local(t) /\ at[t] = "unlock" /\ Rest(t) /\ On(t, "add")
    BY <1>0, <1>8, DoesRest
  <2>2. Local(t)'
    BY <2>1 DEF On, Local, Places, Setters
  <2>3. QED BY <1>0, <2>1, <2>2, ThreadStep
<1>9. ASSUME NEW t \in Threads, Get(t) \/ Opened(t) \/ CloseUnlock(t) \/ Link(t) PROVE Threading'
  <2>1. Rest(t) /\ Idle(t)
    BY <1>9, DoesRest, DoesLink
  <2>2. QED BY <1>0, <2>1, IdleLocal, ThreadStep
<1>10. ASSUME NEW t \in Threads, Close(t) PROVE Threading'
  <2>1. /\ Local(t) /\ at[t] = "idle" /\ Rest(t) /\ file'[t] \in Files
        /\ at'[t] = "close" /\ op'[t] = "close" /\ fd'[t] = fd[t] /\ p'[t] = p[t] /\ newp'[t] = newp[t]
    BY <1>0, <1>10, DoesClose
  <2>2. Local(t)'
    BY <2>1 DEF Local, Places, Setters, Ops
  <2>3. QED BY <1>0, <2>1, <2>2, ThreadStep
<1>11. ASSUME NEW t \in Threads, Add(t) PROVE Threading'
  <2>1. /\ Local(t) /\ at[t] = "add" /\ Rest(t)
        /\ \/ Idle(t)
           \/ /\ p'[t] \in Nodes /\ newp'[t] \in Nodes /\ at'[t] = "link"
              /\ op'[t] = op[t] /\ file'[t] = file[t] /\ fd'[t] = fd[t]
    BY <1>0, <1>11, DoesAdd
  <2>2. Local(t)'
    <3>1. CASE ~Idle(t)
      BY <2>1, <3>1 DEF Local, Places, Setters, MaybeNode
    <3>2. QED BY <3>1, IdleLocal
  <2>3. QED BY <1>0, <2>1, <2>2, ThreadStep
<1>12. CASE Reuse
  BY <1>0, <1>12 DEF Reuse, locals, Threading, Local
<1>13. QED
  BY <1>1, <1>2, <1>3, <1>4, <1>5, <1>6, <1>7, <1>8, <1>9, <1>10, <1>11, <1>12
  DEF Next, FindPreopenedPorts, OpenDevice, StaticSet, NativeClose

LEMMA StepMemory == Types /\ [Next]_vars => Memory'
<1> SUFFICES ASSUME Types, [Next]_vars PROVE Memory'
  OBVIOUS
<1>0. Memory /\ \A t \in Threads : Local(t)
  BY DEF Types, Threading
<1>r. ASSUME UNCHANGED list PROVE Memory'
  BY <1>0, <1>r DEF list, Memory
<1>1. CASE UNCHANGED vars
  BY <1>1, <1>r DEF vars
<1>2. ASSUME NEW t \in Threads, \/ Call(t) \/ Find(t) \/ Lock(t) \/ Device(t) \/ Set(t) \/ Unlock(t)
                                \/ Get(t) \/ Opened(t) \/ Close(t) \/ CloseUnlock(t)
      PROVE  Memory'
  <2>1. UNCHANGED list
    BY <1>2 DEF Call, Find, Lock, Device, Set, Unlock, Get, Opened, Close, CloseUnlock
  <2>2. QED BY <1>r, <2>1
<1>3. ASSUME NEW t \in Threads, Unlink(t) PROVE Memory'
  <2>1. CASE UNCHANGED list
    BY <1>r, <2>1
  <2>2. CASE /\ p[t] \in allocated /\ allocated' = allocated \ {p[t]}
             /\ preopened_port' = IF node[p[t]].prev = null /\ node[p[t]].next = null THEN null
                                  ELSE preopened_port
             /\ node' \in [Nodes -> [file : Files \cup {null}, fd : Fds \cup {0},
                                     next : MaybeNode, prev : MaybeNode]]
             /\ \A m \in Nodes \ {p[t]} :
                  node'[m].file = node[m].file /\ node'[m].fd = node[m].fd
             /\ node'[p[t]].file # null => node'[p[t]].fd = node[p[t]].fd /\ node[p[t]].file # null
    BY <1>0, <2>2 DEF Memory, MaybeNode
  <2>3. QED
    <3>1. \/ UNCHANGED list
          \/ /\ p[t] \in allocated /\ allocated' = allocated \ {p[t]}
             /\ preopened_port' = IF node[p[t]].prev = null /\ node[p[t]].next = null THEN null
                                  ELSE preopened_port
             /\ node' \in [Nodes -> [file : Files \cup {null}, fd : Fds \cup {0},
                                     next : MaybeNode, prev : MaybeNode]]
             /\ \A m \in Nodes \ {p[t]} :
                  node'[m].file = node[m].file /\ node'[m].fd = node[m].fd
             /\ node'[p[t]].file # null => node'[p[t]].fd = node[p[t]].fd /\ node[p[t]].file # null
      BY <1>3, DoesUnlink, ZenonT(40)
    <3>2. QED BY <2>1, <2>2, <3>1
<1>4. ASSUME NEW t \in Threads, Add(t) PROVE Memory'
  <2>1. PICK n \in Nodes \ allocated :
              /\ allocated' = allocated \cup {n}
              /\ node' \in [Nodes -> [file : Files \cup {null}, fd : Fds \cup {0},
                                      next : MaybeNode, prev : MaybeNode]]
              /\ \A m \in Nodes \ {n} : node'[m] = node[m]
              /\ node'[n].file = file[t] /\ node'[n].fd = fd[t]
              /\ preopened_port' \in {preopened_port, n}
    BY <1>4, DoesAdd
  <2>2. file[t] \in Files /\ fd[t] \in Fds
    BY <1>0, <1>4, DoesAdd DEF Local
  <2>3. QED BY <1>0, <2>1, <2>2, NullIsNothing DEF Memory, MaybeNode
<1>5. ASSUME NEW t \in Threads, Link(t) PROVE Memory'
  <2>1. /\ p[t] \in Nodes /\ preopened_port' = p[t] /\ allocated' = allocated
        /\ node' \in [Nodes -> [file : Files \cup {null}, fd : Fds \cup {0},
                                next : MaybeNode, prev : MaybeNode]]
        /\ \A m \in Nodes : node'[m].file = node[m].file /\ node'[m].fd = node[m].fd
    BY <1>5, DoesLink
  <2>2. QED BY <1>0, <2>1 DEF Memory, MaybeNode
<1>6. CASE Reuse
  <2>1. /\ preopened_port \in Nodes \ allocated /\ node' = [node EXCEPT ![preopened_port] = Blank]
        /\ UNCHANGED <<allocated, preopened_port>>
    BY <1>6 DEF Reuse
  <2>2. Blank \in [file : Files \cup {null}, fd : Fds \cup {0}, next : MaybeNode, prev : MaybeNode]
        /\ Blank.file = null
    BY DEF Blank, MaybeNode
  <2>3. QED BY <1>0, <2>1, <2>2 DEF Memory
<1>7. QED
  BY <1>1, <1>2, <1>3, <1>4, <1>5, <1>6
  DEF Next, FindPreopenedPorts, OpenDevice, StaticSet, NativeClose

LEMMA StepRest == Types /\ [Next]_vars => (Devices /\ History /\ Counted)'
<1> SUFFICES ASSUME Types, [Next]_vars PROVE (Devices /\ History /\ Counted)'
  OBVIOUS
<1>0. Devices /\ History /\ Counted /\ (\A t \in Threads : Local(t)) /\ Calls \in Nat
  BY CallsAreCounted DEF Types, Threading
<1>f. \A t \in Threads : at[t] # "idle" => file[t] \in Files
  BY <1>0 DEF Local
<1>1. CASE UNCHANGED vars
  BY <1>0, <1>1 DEF vars, device, history, Devices, History, Counted
<1>2. ASSUME NEW t \in Threads, Call(t) PROVE (Devices /\ History /\ Counted)'
  <2>1. UNCHANGED <<device, locked, crashed, history>> /\ calls < Calls /\ calls' = calls + 1
    BY <1>2 DEF Call
  <2>2. QED BY <1>0, <2>1 DEF device, history, Devices, History, Counted
<1>3. ASSUME NEW t \in Threads, Find(t) PROVE (Devices /\ History /\ Counted)'
  <2>1. /\ UNCHANGED <<device, locked, calls, crashed, promised, lostFds, failed>>
        /\ flaws' = flaws \cup Note("raced", Overlapped(t))
                          \cup Note("early", Found(node, preopened_port, file[t]) = null
                                             /\ \E u \in Threads \ {t} :
                                                  at[u] \in {"add", "link"} /\ file[u] = file[t])
    BY <1>3, DoesFind
  <2>2. flaws' \subseteq flaws \cup {"raced", "early"}
    BY <2>1 DEF Note
  <2>3. QED BY <1>0, <2>1, <2>2 DEF device, Devices, History, Counted
<1>4. ASSUME NEW t \in Threads, Unlink(t) PROVE (Devices /\ History /\ Counted)'
  <2>1. /\ UNCHANGED <<device, locked, calls, lostFds, failed>>
        /\ crashed' = TRUE \/ crashed' = crashed
        /\ promised' \subseteq promised /\ flaws' \subseteq flaws \cup {"dangling"}
    BY <1>4, DoesUnlink, ZenonT(40) DEF Note
  <2>2. QED BY <1>0, <2>1 DEF device, Devices, History, Counted
<1>5. ASSUME NEW t \in Threads, Lock(t) \/ Unlock(t) \/ CloseUnlock(t)
      PROVE  (Devices /\ History /\ Counted)'
  <2>1. /\ UNCHANGED <<device, calls, crashed, history>> /\ file[t] \in Files
        /\ locked' \in {locked \cup {file[t]}, locked, locked \ {file[t]}}
    BY <1>5, <1>f, DoesLock, DoesRest
  <2>2. QED BY <1>0, <2>1 DEF device, history, Devices, History, Counted
<1>6. ASSUME NEW t \in Threads, Device(t) PROVE (Devices /\ History /\ Counted)'
  <2>1. /\ at[t] = "device" /\ UNCHANGED <<port, locked, calls, crashed, flaws>>
        /\ preset' \subseteq preset /\ promised' \subseteq promised /\ failed' \subseteq failed \cup {file[t]}
        /\ \/ \E d \in Fds : /\ fdOf' = [fdOf EXCEPT ![d] = file[t]]
                             /\ lostFds' \subseteq lostFds \cup {d}
           \/ UNCHANGED <<fdOf, lostFds>>
    BY <1>6, DoesDevice
  <2>2. file[t] \in Files
    BY <1>f, <2>1
  <2>3. QED BY <1>0, <2>1, <2>2 DEF Devices, History, Counted
<1>7. ASSUME NEW t \in Threads, Set(t) PROVE (Devices /\ History /\ Counted)'
  <2>1. /\ at[t] = "set" /\ UNCHANGED <<fdOf, port, locked, calls, crashed, flaws>>
        /\ preset' \subseteq preset \cup {file[t]} /\ promised' \subseteq promised
        /\ failed' \subseteq failed \cup {file[t]} /\ lostFds' \subseteq lostFds \cup {fd[t]}
    BY <1>7, DoesSet
  <2>2. file[t] \in Files /\ fd[t] \in Fds
    BY <1>0, <2>1 DEF Local
  <2>3. QED BY <1>0, <2>1, <2>2 DEF Devices, History, Counted
<1>8. ASSUME NEW t \in Threads, Get(t) PROVE (Devices /\ History /\ Counted)'
  <2>1. /\ at[t] = "get" /\ lostFds' = lostFds \cup {fd[t]}
        /\ UNCHANGED <<device, locked, calls, crashed, promised, failed, flaws>>
    BY <1>8, DoesRest
  <2>2. fd[t] \in Fds
    BY <1>0, <2>1 DEF Local
  <2>3. QED BY <1>0, <2>1, <2>2 DEF device, Devices, History, Counted
<1>9. ASSUME NEW t \in Threads, Opened(t) PROVE (Devices /\ History /\ Counted)'
  <2>1. /\ at[t] = "open" /\ port' = [port EXCEPT ![file[t]] = fd[t]]
        /\ UNCHANGED <<fdOf, preset, locked, calls, crashed, history>>
    BY <1>9, DoesRest
  <2>2. fd[t] \in Fds
    BY <1>0, <2>1 DEF Local
  <2>3. QED BY <1>0, <2>1, <2>2 DEF history, Devices, History, Counted
<1>10. ASSUME NEW t \in Threads, Close(t) PROVE (Devices /\ History /\ Counted)'
  <2>1. /\ calls < Calls /\ calls' = calls + 1 /\ promised' \subseteq promised
        /\ \E f \in Files : /\ port[f] \in Fds /\ fdOf' = [fdOf EXCEPT ![port[f]] = null]
                            /\ port' = [port EXCEPT ![f] = 0]
        /\ UNCHANGED <<preset, locked, crashed, lostFds, failed, flaws>>
    BY <1>10, DoesClose
  <2>2. QED BY <1>0, <2>1 DEF Devices, History, Counted
<1>11. ASSUME NEW t \in Threads, Add(t) PROVE (Devices /\ History /\ Counted)'
  <2>1. /\ at[t] = "add" /\ UNCHANGED <<device, locked, calls, crashed, failed>>
        /\ promised' \subseteq promised \cup {file[t]} /\ lostFds' \subseteq lostFds \cup {fd[t]}
        /\ flaws' \subseteq flaws \cup {"raced", "reborn"}
    BY <1>11, DoesAdd DEF Note
  <2>2. file[t] \in Files /\ fd[t] \in Fds
    BY <1>0, <2>1 DEF Local
  <2>3. QED BY <1>0, <2>1, <2>2 DEF device, Devices, History, Counted
<1>12. ASSUME NEW t \in Threads, Link(t) PROVE (Devices /\ History /\ Counted)'
  <2>1. /\ at[t] = "link" /\ UNCHANGED <<device, locked, calls, crashed, lostFds, failed>>
        /\ promised' = promised \cup {file[t]} /\ flaws' \subseteq flaws \cup {"orphan"}
    BY <1>12, DoesLink DEF Note
  <2>2. QED BY <1>0, <1>f, <2>1 DEF device, Devices, History, Counted
<1>13. CASE Reuse
  BY <1>0, <1>13 DEF Reuse, device, history, Devices, History, Counted
<1>14. QED
  BY <1>1, <1>2, <1>3, <1>4, <1>5, <1>6, <1>7, <1>8, <1>9, <1>10, <1>11, <1>12, <1>13
  DEF Next, FindPreopenedPorts, OpenDevice, StaticSet, NativeClose

LEMMA TypesHold == Spec => []Types
<1>1. Init => Types
  <2> SUFFICES ASSUME Init PROVE Types
    OBVIOUS
  <2>1. Memory
    <3>1. Blank \in [file : Files \cup {null}, fd : Fds \cup {0}, next : MaybeNode, prev : MaybeNode]
          /\ Blank.file = null
      BY DEF Blank, MaybeNode
    <3>2. QED BY <3>1 DEF Init, Memory, MaybeNode
  <2>2. Devices /\ History /\ Counted
    <3>1. Devices /\ History
      BY DEF Init, Devices, History
    <3>2. Counted
      <4>1. calls = 0 /\ crashed = FALSE
        BY DEF Init
      <4>2. calls \in 0 .. Calls
        BY <4>1, CallsAreCounted
      <4>3. QED BY <4>1, <4>2 DEF Counted
    <3>3. QED BY <3>1, <3>2
  <2>3. Threading
    BY NullIsNothing DEF Init, Threading, Local, Places, Ops, Setters, MaybeNode
  <2>4. QED BY <2>1, <2>2, <2>3 DEF Types
<1>2. Types /\ [Next]_vars => Types'
  BY StepThreading, StepMemory, StepRest DEF Types
<1>3. QED BY <1>1, <1>2, PTL DEF Spec

(* Every variable has its type; so does what is read from freed memory.      *)
THEOREM TypeCorrect == Spec => []TypeOK
<1>1. Types => TypeOK
  BY DEF Types, Memory, Devices, History, Threading, Counted, MaybeNode, TypeOK
<1>2. QED BY <1>1, TypesHold, PTL
-----------------------------------------------------------------------------
(* The lock files *)

LEMMA StepLocks == Types /\ Locks /\ [Next]_vars => Locks'
<1> SUFFICES ASSUME Types, Locks, [Next]_vars PROVE Locks'
  OBVIOUS
<1>0. Devices /\ \A t \in Threads : Local(t)
  BY DEF Types, Threading
<1>r. ASSUME NEW t \in Threads, Rest(t), UNCHANGED <<locked, port>>,
             Held(t)' => Held(t) /\ file'[t] = file[t]
      PROVE  Locks'
  <2>1. \A u \in Threads : Held(u)' => Held(u) /\ file'[u] = file[u]
    BY <1>r DEF Rest, Held
  <2>2. QED BY <1>r, <2>1 DEF Locks
<1>d. ASSUME NEW t \in Threads, Rest(t), port' = port, Held(t), ~Held(t)', locked' = locked \ {file[t]}
      PROVE  Locks'
  <2>1. \A u \in Threads : Held(u)' => u # t /\ Held(u) /\ file'[u] = file[u]
    BY <1>d DEF Rest, Held
  <2>2. \A u \in Threads : Held(u)' => file[u] # file[t]
    BY <1>d, <2>1 DEF Locks
  <2>3. port[file[t]] = 0
    BY <1>d DEF Locks
  <2>4. QED BY <1>d, <2>1, <2>2, <2>3 DEF Locks
<1>1. CASE UNCHANGED vars
  BY <1>1 DEF vars, locals, device, Locks, Held
<1>2. ASSUME NEW t \in Threads, Call(t) PROVE Locks'
  <2>1. Rest(t) /\ UNCHANGED <<locked, port>>
    BY <1>2, DoesCall DEF Types, device
  <2>2. ~Held(t)'
    BY <1>2, DoesCall DEF Types, Held
  <2>3. QED BY <1>r, <2>1, <2>2
<1>3. ASSUME NEW t \in Threads, Find(t) PROVE Locks'
  <2>1. Rest(t) /\ UNCHANGED <<locked, port>> /\ at[t] = "find"
    BY <1>3, DoesFind DEF device
  <2>2. Held(t)' => Held(t) /\ file'[t] = file[t]
    BY <1>3, DoesFind DEF Held, Idle, On
  <2>3. QED BY <1>r, <2>1, <2>2
<1>4. ASSUME NEW t \in Threads, Unlink(t) PROVE Locks'
  <2>1. Rest(t) /\ UNCHANGED <<locked, port>>
    BY <1>4, DoesUnlink DEF device
  <2>2. Held(t)' => Held(t) /\ file'[t] = file[t]
    BY <1>4, DoesUnlink DEF Held, Setters
  <2>3. QED BY <1>r, <2>1, <2>2
<1>5. ASSUME NEW t \in Threads, Lock(t) PROVE Locks'
  <2>1. Rest(t) /\ port' = port /\ file[t] \in Files
    BY <1>0, <1>5, DoesLock DEF device, Local
  <2>2. CASE locked' = locked /\ Idle(t)
    BY <1>r, <2>1, <2>2 DEF Idle, Held
  <2>3. CASE file[t] \notin locked /\ locked' = locked \cup {file[t]} /\ On(t, "find")
    <3>1. port[file[t]] = 0 /\ \A u \in Threads : Held(u) => file[u] # file[t]
      BY <2>1, <2>3 DEF Locks
    <3>2. file'[t] = file[t] /\ \A u \in Threads : u # t /\ Held(u)' => Held(u) /\ file'[u] = file[u]
      BY <2>1, <2>3 DEF Rest, On, Held
    <3>3. \A u \in Threads : Held(u)' => file'[u] \in locked' /\ port'[file'[u]] = 0
      <4> SUFFICES ASSUME NEW u \in Threads, Held(u)' PROVE file'[u] \in locked' /\ port'[file'[u]] = 0
        OBVIOUS
      <4>1. CASE u = t
        BY <2>1, <2>3, <3>1, <3>2, <4>1
      <4>2. CASE u # t
        BY <2>1, <2>3, <3>2, <4>2 DEF Locks
      <4>3. QED BY <4>1, <4>2
    <3>4. \A u, v \in Threads : Held(u)' /\ Held(v)' /\ file'[u] = file'[v] => u = v
      <4> SUFFICES ASSUME NEW u \in Threads, NEW v \in Threads, Held(u)', Held(v)', file'[u] = file'[v]
                   PROVE  u = v
        OBVIOUS
      <4>1. CASE u = t \/ v = t
        BY <3>1, <3>2, <4>1
      <4>2. CASE u # t /\ v # t
        BY <3>2, <4>2 DEF Locks
      <4>3. QED BY <4>1, <4>2
    <3>5. \A f \in Files : port'[f] # 0 => f \in locked'
      BY <2>1, <2>3 DEF Locks
    <3>6. QED BY <3>3, <3>4, <3>5 DEF Locks
  <2>4. QED BY <1>5, <2>2, <2>3, DoesLock
<1>6. ASSUME NEW t \in Threads, Device(t) PROVE Locks'
  <2>1. Rest(t) /\ UNCHANGED <<locked, port>> /\ at[t] = "device"
    BY <1>6, DoesDevice
  <2>2. Held(t)
    BY <1>0, <2>1 DEF Held, Local, Setters
  <2>3. Held(t)' => file'[t] = file[t]
    BY <1>6, DoesDevice DEF Held, Idle
  <2>4. QED BY <1>r, <2>1, <2>2, <2>3
<1>7. ASSUME NEW t \in Threads, Set(t) PROVE Locks'
  <2>1. Rest(t) /\ UNCHANGED <<locked, port>> /\ at[t] = "set" /\ (On(t, "unlock") \/ Idle(t))
    BY <1>7, DoesSet
  <2>2. Held(t)' => Held(t) /\ file'[t] = file[t]
    BY <2>1 DEF Held, Idle, On
  <2>3. QED BY <1>r, <2>1, <2>2
<1>8. ASSUME NEW t \in Threads, Unlock(t) \/ CloseUnlock(t) PROVE Locks'
  <2>1. /\ Rest(t) /\ port' = port /\ locked' = locked \ {file[t]}
        /\ at[t] \in {"unlock", "close"} /\ (On(t, "add") \/ Idle(t))
    BY <1>8, DoesRest DEF device
  <2>2. Held(t) /\ ~Held(t)'
    BY <1>0, <2>1 DEF Held, On, Idle, Local, Setters
  <2>3. QED BY <1>d, <2>1, <2>2
<1>9. ASSUME NEW t \in Threads, Get(t) \/ Add(t) \/ Link(t) PROVE Locks'
  <2>1. Rest(t) /\ UNCHANGED <<locked, port>>
    BY <1>9, DoesRest, DoesAdd, DoesLink DEF device
  <2>2. ~Held(t)'
    BY <1>9, DoesRest, DoesAdd, DoesLink DEF Held, Idle
  <2>3. QED BY <1>r, <2>1, <2>2
<1>10. ASSUME NEW t \in Threads, Opened(t) PROVE Locks'
  <2>1. /\ at[t] = "open" /\ Rest(t) /\ Idle(t) /\ locked' = locked
        /\ port' = [port EXCEPT ![file[t]] = fd[t]]
    BY <1>10, DoesRest
  <2>2. Held(t) /\ file[t] \in Files
    BY <1>0, <2>1 DEF Held, Local
  <2>3. \A u \in Threads : Held(u)' => u # t /\ Held(u) /\ file'[u] = file[u]
    BY <2>1 DEF Rest, Idle, Held
  <2>4. \A u \in Threads : Held(u)' => file[u] # file[t]
    BY <2>2, <2>3 DEF Locks
  <2>5. \A f \in Files \ {file[t]} : port'[f] = port[f]
    BY <1>0, <2>1 DEF Devices
  <2>6. \A u \in Threads : Held(u)' => file'[u] \in locked' /\ port'[file'[u]] = 0
    <3> SUFFICES ASSUME NEW u \in Threads, Held(u)' PROVE file'[u] \in locked' /\ port'[file'[u]] = 0
      OBVIOUS
    <3>1. file[u] \in locked /\ port[file[u]] = 0
      BY <2>3 DEF Locks
    <3>2. file[u] \in Files
      BY <1>0, <3>1 DEF Devices
    <3>3. QED BY <2>1, <2>3, <2>4, <2>5, <3>1, <3>2
  <2>7. \A f \in Files : port'[f] # 0 => f \in locked'
    BY <2>1, <2>2, <2>5 DEF Locks
  <2>8. QED BY <2>3, <2>6, <2>7 DEF Locks
<1>11. ASSUME NEW t \in Threads, Close(t) PROVE Locks'
  <2>1. PICK f \in Files : port[f] # 0 /\ port' = [port EXCEPT ![f] = 0] /\ file'[t] = f
    BY <1>11, DoesClose
  <2>2. at[t] = "idle" /\ Rest(t) /\ locked' = locked
    BY <1>11, DoesClose
  <2>3. f \in locked /\ \A u \in Threads : Held(u) => file[u] # f
    BY <2>1 DEF Locks
  <2>4. \A u \in Threads : u # t /\ Held(u)' => Held(u) /\ file'[u] = file[u]
    BY <2>2 DEF Rest, Held
  <2>5. port'[f] = 0 /\ \A g \in Files : port'[g] = port[g] \/ port'[g] = 0
    BY <1>0, <2>1 DEF Devices
  <2>6. \A u \in Threads : Held(u)' => file'[u] \in locked' /\ port'[file'[u]] = 0
    <3> SUFFICES ASSUME NEW u \in Threads, Held(u)' PROVE file'[u] \in locked' /\ port'[file'[u]] = 0
      OBVIOUS
    <3>1. CASE u = t
      BY <2>1, <2>2, <2>3, <2>5, <3>1
    <3>2. CASE u # t
      <4>1. file[u] \in locked /\ port[file[u]] = 0 /\ file'[u] = file[u]
        BY <2>4, <3>2 DEF Locks
      <4>2. file[u] \in Files
        BY <1>0, <4>1 DEF Devices
      <4>3. QED BY <2>2, <2>5, <4>1, <4>2
    <3>3. QED BY <3>1, <3>2
  <2>7. \A u, v \in Threads : Held(u)' /\ Held(v)' /\ file'[u] = file'[v] => u = v
    <3> SUFFICES ASSUME NEW u \in Threads, NEW v \in Threads, Held(u)', Held(v)', file'[u] = file'[v]
                 PROVE  u = v
      OBVIOUS
    <3>1. CASE u = t \/ v = t
      BY <2>1, <2>3, <2>4, <3>1
    <3>2. CASE u # t /\ v # t
      BY <2>4, <3>2 DEF Locks
    <3>3. QED BY <3>1, <3>2
  <2>8. \A g \in Files : port'[g] # 0 => g \in locked'
    BY <2>2, <2>5 DEF Locks
  <2>9. QED BY <2>6, <2>7, <2>8 DEF Locks
<1>12. CASE Reuse
  BY <1>12 DEF Reuse, locals, device, Locks, Held
<1>13. QED
  BY <1>1, <1>2, <1>3, <1>4, <1>5, <1>6, <1>7, <1>8, <1>9, <1>10, <1>11, <1>12
  DEF Next, FindPreopenedPorts, OpenDevice, StaticSet, NativeClose
-----------------------------------------------------------------------------
(* The descriptors *)

LEMMA StepOwned == Types /\ Locks /\ Owned /\ [Next]_vars => Owned'
<1> SUFFICES ASSUME Types, Locks, Owned, [Next]_vars, "reborn" \notin flaws' PROVE Owners'
  BY DEF Owned
<1>0. /\ Memory /\ Devices /\ \A t \in Threads : Local(t)
  BY DEF Types, Threading
<1>z. 0 \notin Fds /\ null \notin Files
  BY FdsArePositive, NullIsNothing
<1>k. \A t \in Threads : Keeps(t) => fd[t] \in Fds /\ file[t] \in Files
  BY <1>0 DEF Keeps, Local
<1>n. \A n \in allocated : n \in Nodes /\ node[n].file \in Files /\ node[n].fd \in Fds
  BY <1>0, <1>z DEF Memory
<1>m. ASSUME flaws' = flaws \/ \E x : flaws' = flaws \cup x PROVE Owners
  BY <1>m DEF Owned
<1>r. ASSUME Owners, NEW t \in Threads, Rest(t), UNCHANGED <<fdOf, port>>,
             allocated' \subseteq allocated,
             \A n \in allocated' : node'[n].file = node[n].file /\ node'[n].fd = node[n].fd,
             Keeps(t)' => Keeps(t) /\ fd'[t] = fd[t] /\ file'[t] = file[t],
             at'[t] # "unlink"
      PROVE  Owners'
  <2>1. \A u \in Threads : Keeps(u)' => Keeps(u) /\ fd'[u] = fd[u] /\ file'[u] = file[u]
    BY <1>r DEF Rest, Keeps
  <2>2. \A u \in Threads : at'[u] = "unlink" /\ p'[u] \in allocated' =>
          /\ at[u] = "unlink" /\ p'[u] = p[u] /\ p[u] \in allocated
          /\ file'[u] = file[u] /\ fd'[u] = fd[u]
    BY <1>r DEF Rest
  <2>3. QED BY <1>r, <2>1, <2>2 DEF Owners
<1>1. CASE UNCHANGED vars
  <2>1. Owners
    BY <1>1, <1>m DEF vars, history
  <2>2. QED BY <1>1, <2>1 DEF vars, list, locals, device, Owners, Keeps
<1>2. ASSUME NEW t \in Threads, Call(t) PROVE Owners'
  <2>1. Rest(t) /\ UNCHANGED <<fdOf, port, list, flaws>> /\ ~Keeps(t)' /\ at'[t] # "unlink"
    BY <1>2, DoesCall DEF Types, device, history, Keeps
  <2>2. QED BY <1>m, <1>r, <2>1 DEF list
<1>3. ASSUME NEW t \in Threads, Find(t) PROVE Owners'
  <2>0. Owners
    BY <1>3, <1>m, DoesFind
  <2>1. Rest(t) /\ UNCHANGED <<fdOf, port, node, allocated>>
    BY <1>3, DoesFind DEF device, list
  <2>2. CASE Idle(t) \/ On(t, "device")
    <3>1. ~Keeps(t)' /\ at'[t] # "unlink"
      BY <2>2 DEF Idle, On, Keeps
    <3>2. QED BY <1>r, <2>0, <2>1, <3>1
  <2>3. ASSUME NEW n \in Nodes, node[n].file = file[t], at'[t] = "unlink", p'[t] = n,
               fd'[t] = node[n].fd, file'[t] = file[t]
        PROVE  Owners'
    <3>1. ~Keeps(t)' /\ \A u \in Threads : Keeps(u)' => Keeps(u) /\ fd'[u] = fd[u] /\ file'[u] = file[u]
      BY <2>1, <2>3 DEF Rest, Keeps
    <3>2. \A u \in Threads : at'[u] = "unlink" /\ p'[u] \in allocated' =>
            node'[p'[u]].file = file'[u] /\ node'[p'[u]].fd = fd'[u]
      BY <2>0, <2>1, <2>3 DEF Rest, Owners
    <3>3. QED BY <2>0, <2>1, <3>1, <3>2 DEF Owners
  <2>4. QED BY <1>3, <2>2, <2>3, DoesFind
<1>4. ASSUME NEW t \in Threads, Unlink(t) PROVE Owners'
  <2>0. Owners
    BY <1>4, <1>m, DoesUnlink
  <2>1. /\ Rest(t) /\ UNCHANGED <<fdOf, port>> /\ p[t] \in Nodes /\ at[t] = "unlink"
        /\ file'[t] = file[t] /\ fd'[t] = fd[t]
    BY <1>4, DoesUnlink DEF device
  <2>2. CASE UNCHANGED list /\ p'[t] = p[t] /\ at'[t] = at[t]
    <3>1. \A u \in Threads : /\ at'[u] = at[u] /\ p'[u] = p[u] /\ fd'[u] = fd[u] /\ file'[u] = file[u]
      BY <2>1, <2>2 DEF Rest
    <3>2. QED BY <2>0, <2>1, <2>2, <3>1 DEF list, Owners, Keeps
  <2>3. CASE /\ p[t] \in allocated /\ allocated' = allocated \ {p[t]}
             /\ \A m \in Nodes \ {p[t]} : node'[m].file = node[m].file /\ node'[m].fd = node[m].fd
             /\ at'[t] \in {"set", "get", "open"}
    <3>1. \A n \in allocated' : /\ n \in allocated /\ n # p[t]
                                /\ node'[n].file = node[n].file /\ node'[n].fd = node[n].fd
      BY <1>n, <2>3
    <3>2. node[p[t]].file = file[t] /\ node[p[t]].fd = fd[t]
      BY <2>0, <2>1, <2>3 DEF Owners
    <3>3. Keeps(t)' /\ ~Keeps(t) /\ \A u \in Threads \ {t} : Keeps(u)' => Keeps(u) /\ fd'[u] = fd[u] /\ file'[u] = file[u]
      BY <2>1, <2>3 DEF Rest, Keeps
    <3>4. /\ fdOf[fd[t]] = file[t]
          /\ \A n \in allocated' : node[n].fd # fd[t]
          /\ \A u \in Threads : Keeps(u) => fd[u] # fd[t]
          /\ \A f \in Files : port[f] # fd[t]
      BY <2>0, <2>3, <3>1, <3>2 DEF Owners
    <3>5. \A u \in Threads : at'[u] = "unlink" /\ p'[u] \in allocated' =>
            node'[p'[u]].file = file'[u] /\ node'[p'[u]].fd = fd'[u]
      <4> SUFFICES ASSUME NEW u \in Threads, at'[u] = "unlink", p'[u] \in allocated'
                   PROVE  node'[p'[u]].file = file'[u] /\ node'[p'[u]].fd = fd'[u]
        OBVIOUS
      <4>1. u # t
        BY <2>3
      <4>2. at[u] = "unlink" /\ p'[u] = p[u] /\ file'[u] = file[u] /\ fd'[u] = fd[u]
        BY <2>1, <4>1 DEF Rest
      <4>3. QED BY <2>0, <3>1, <4>2 DEF Owners
    <3>6. \A u, v \in Threads : Keeps(u)' /\ Keeps(v)' /\ fd'[u] = fd'[v] => u = v
      BY <2>0, <2>1, <3>3, <3>4 DEF Owners
    <3>7. \A u \in Threads : Keeps(u)' => fdOf'[fd'[u]] = file'[u]
      BY <2>0, <2>1, <3>3, <3>4 DEF Owners
    <3>8. \A n \in allocated' : \A u \in Threads : Keeps(u)' => node'[n].fd # fd'[u]
      BY <2>0, <2>1, <3>1, <3>3, <3>4 DEF Owners
    <3>9. \A u \in Threads : \A f \in Files : Keeps(u)' => fd'[u] # port'[f]
      BY <2>0, <2>1, <3>3, <3>4 DEF Owners
    <3>10. /\ \A n \in allocated' : fdOf'[node'[n].fd] = node'[n].file
           /\ \A m, n \in allocated' : node'[m].fd = node'[n].fd => m = n
           /\ \A n \in allocated' : \A f \in Files : node'[n].fd # port'[f]
      BY <2>0, <2>1, <3>1 DEF Owners
    <3>11. \A f \in Files : port'[f] # 0 => fdOf'[port'[f]] = f
      BY <2>0, <2>1 DEF Owners
    <3>12. QED BY <3>5, <3>6, <3>7, <3>8, <3>9, <3>10, <3>11 DEF Owners
  <2>4. QED
    <3>1. \/ UNCHANGED list /\ p'[t] = p[t] /\ at'[t] = at[t]
          \/ /\ p[t] \in allocated /\ allocated' = allocated \ {p[t]}
             /\ \A m \in Nodes \ {p[t]} : node'[m].file = node[m].file /\ node'[m].fd = node[m].fd
             /\ at'[t] \in {"set", "get", "open"}
      BY <1>4, DoesUnlink
    <3>2. QED BY <2>2, <2>3, <3>1
<1>5. ASSUME NEW t \in Threads, Lock(t) \/ Set(t) \/ Unlock(t) \/ Get(t) \/ CloseUnlock(t) PROVE Owners'
  <2>1. /\ Rest(t) /\ UNCHANGED <<fdOf, port, list, flaws>>
        /\ \/ Idle(t) \/ On(t, "find") \/ (at[t] = "set" /\ On(t, "unlock"))
           \/ (at[t] = "unlock" /\ On(t, "add"))
    BY <1>5, DoesLock, DoesSet, DoesRest DEF device, history
  <2>2. /\ Keeps(t)' => Keeps(t) /\ fd'[t] = fd[t] /\ file'[t] = file[t]
        /\ at'[t] # "unlink"
    BY <2>1 DEF Idle, On, Keeps
  <2>3. QED BY <1>m, <1>r, <2>1, <2>2 DEF list
<1>6. ASSUME NEW t \in Threads, Device(t) PROVE Owners'
  <2>0. Owners
    BY <1>6, <1>m, DoesDevice
  <2>1. Rest(t) /\ UNCHANGED <<list, port>> /\ at[t] = "device"
    BY <1>6, DoesDevice
  <2>2. CASE Idle(t) /\ UNCHANGED fdOf
    <3>1. ~Keeps(t)' /\ at'[t] # "unlink"
      BY <2>2 DEF Idle, Keeps
    <3>2. QED BY <1>r, <2>0, <2>1, <2>2, <3>1 DEF list
  <2>3. ASSUME NEW d \in Fds, fdOf[d] = null, fdOf' = [fdOf EXCEPT ![d] = file[t]],
               Idle(t) \/ (fd'[t] = d /\ file'[t] = file[t] /\ at'[t] \in {"set", "open"})
        PROVE  Owners'
    <3>1. /\ \A n \in allocated : node[n].fd # d
          /\ \A u \in Threads : Keeps(u) => fd[u] # d
          /\ \A f \in Files : port[f] # d
      BY <1>k, <1>n, <1>z, <2>0, <2>3 DEF Owners
    <3>2. fdOf'[d] = file[t] /\ \A e \in Fds \ {d} : fdOf'[e] = fdOf[e]
      BY <1>0, <2>3 DEF Devices
    <3>3. \A u \in Threads : u # t /\ Keeps(u)' => Keeps(u) /\ fd'[u] = fd[u] /\ file'[u] = file[u]
      BY <2>1 DEF Rest, Keeps
    <3>4. Keeps(t)' => fd'[t] = d /\ file'[t] = file[t]
      BY <2>3 DEF Idle, Keeps
    <3>5. \A u \in Threads : at'[u] = "unlink" /\ p'[u] \in allocated' =>
            node'[p'[u]].file = file'[u] /\ node'[p'[u]].fd = fd'[u]
      <4> SUFFICES ASSUME NEW u \in Threads, at'[u] = "unlink", p'[u] \in allocated'
                   PROVE  node'[p'[u]].file = file'[u] /\ node'[p'[u]].fd = fd'[u]
        OBVIOUS
      <4>1. u # t
        BY <2>3 DEF Idle
      <4>2. QED BY <2>0, <2>1, <4>1 DEF Rest, list, Owners
    <3>6. \A n \in allocated' : fdOf'[node'[n].fd] = node'[n].file
      BY <1>n, <2>0, <2>1, <3>1, <3>2 DEF list, Owners
    <3>7. \A f \in Files : port'[f] # 0 => fdOf'[port'[f]] = f
      <4>1. \A f \in Files : port[f] # 0 => port[f] \in Fds
        BY <1>0 DEF Devices
      <4>2. QED BY <2>0, <2>1, <3>1, <3>2, <4>1 DEF Owners
    <3>8. \A u \in Threads : Keeps(u)' => fdOf'[fd'[u]] = file'[u]
      BY <1>k, <2>0, <3>1, <3>2, <3>3, <3>4 DEF Owners
    <3>9. \A u, v \in Threads : Keeps(u)' /\ Keeps(v)' /\ fd'[u] = fd'[v] => u = v
      BY <2>0, <3>1, <3>3, <3>4 DEF Owners
    <3>10. /\ \A n \in allocated' : \A u \in Threads : Keeps(u)' => node'[n].fd # fd'[u]
           /\ \A u \in Threads : \A f \in Files : Keeps(u)' => fd'[u] # port'[f]
      BY <2>0, <2>1, <3>1, <3>3, <3>4 DEF list, Owners
    <3>11. /\ \A m, n \in allocated' : node'[m].fd = node'[n].fd => m = n
           /\ \A n \in allocated' : \A f \in Files : node'[n].fd # port'[f]
      BY <2>0, <2>1 DEF list, Owners
    <3>12. QED BY <3>5, <3>6, <3>7, <3>8, <3>9, <3>10, <3>11 DEF Owners
  <2>4. QED
    <3>1. \/ \E d \in Fds : /\ fdOf[d] = null /\ fdOf' = [fdOf EXCEPT ![d] = file[t]]
                            /\ Idle(t) \/ (fd'[t] = d /\ file'[t] = file[t] /\ at'[t] \in {"set", "open"})
          \/ Idle(t) /\ UNCHANGED fdOf
      BY <1>6, DoesDevice
    <3>2. QED BY <2>2, <2>3, <3>1
<1>7. ASSUME NEW t \in Threads, Opened(t) PROVE Owners'
  <2>1. /\ at[t] = "open" /\ Rest(t) /\ Idle(t) /\ UNCHANGED <<list, fdOf, flaws>>
        /\ port' = [port EXCEPT ![file[t]] = fd[t]]
    BY <1>7, DoesRest DEF history
  <2>0. Owners
    BY <1>m, <2>1
  <2>2. Keeps(t) /\ file[t] \in Files /\ fd[t] \in Fds
    BY <1>k, <2>1 DEF Keeps
  <2>3. \A u \in Threads : Keeps(u)' => u # t /\ Keeps(u) /\ fd'[u] = fd[u] /\ file'[u] = file[u]
    BY <2>1 DEF Rest, Idle, Keeps
  <2>4. port'[file[t]] = fd[t] /\ \A f \in Files \ {file[t]} : port'[f] = port[f]
    BY <1>0, <2>1, <2>2 DEF Devices
  <2>5. \A u \in Threads : at'[u] = "unlink" /\ p'[u] \in allocated' =>
          node'[p'[u]].file = file'[u] /\ node'[p'[u]].fd = fd'[u]
    <3> SUFFICES ASSUME NEW u \in Threads, at'[u] = "unlink", p'[u] \in allocated'
                 PROVE  node'[p'[u]].file = file'[u] /\ node'[p'[u]].fd = fd'[u]
      OBVIOUS
    <3>1. u # t
      BY <2>1 DEF Idle
    <3>2. QED BY <2>0, <2>1, <3>1 DEF Rest, list, Owners
  <2>6. \A f \in Files : port'[f] # 0 => fdOf'[port'[f]] = f
    BY <2>0, <2>1, <2>2, <2>4 DEF Owners
  <2>7. \A n \in allocated' : \A f \in Files : node'[n].fd # port'[f]
    BY <2>0, <2>1, <2>2, <2>4 DEF list, Owners
  <2>8. \A u \in Threads : \A f \in Files : Keeps(u)' => fd'[u] # port'[f]
    BY <2>0, <2>2, <2>3, <2>4 DEF Owners
  <2>9. /\ \A n \in allocated' : fdOf'[node'[n].fd] = node'[n].file
        /\ \A m, n \in allocated' : node'[m].fd = node'[n].fd => m = n
    BY <2>0, <2>1 DEF list, Owners
  <2>10. /\ \A u \in Threads : Keeps(u)' => fdOf'[fd'[u]] = file'[u]
         /\ \A u, v \in Threads : Keeps(u)' /\ Keeps(v)' /\ fd'[u] = fd'[v] => u = v
         /\ \A n \in allocated' : \A u \in Threads : Keeps(u)' => node'[n].fd # fd'[u]
    BY <2>0, <2>1, <2>3 DEF list, Owners
  <2>11. QED BY <2>5, <2>6, <2>7, <2>8, <2>9, <2>10 DEF Owners
<1>8. ASSUME NEW t \in Threads, Close(t) PROVE Owners'
  <2>1. PICK f \in Files :
          /\ port[f] # 0 /\ port[f] \in Fds
          /\ fdOf' = [fdOf EXCEPT ![port[f]] = null] /\ port' = [port EXCEPT ![f] = 0]
    BY <1>8, DoesClose
  <2>2. Rest(t) /\ UNCHANGED <<list, flaws>> /\ at'[t] = "close" /\ at[t] = "idle"
    BY <1>8, DoesClose
  <2>0. Owners
    BY <1>m, <2>2
  <2>3. \A u \in Threads : Keeps(u)' => u # t /\ Keeps(u) /\ fd'[u] = fd[u] /\ file'[u] = file[u]
    BY <2>2 DEF Rest, Keeps
  <2>4. \A e \in Fds \ {port[f]} : fdOf'[e] = fdOf[e]
    BY <1>0, <2>1 DEF Devices
  <2>5. port'[f] = 0 /\ \A g \in Files \ {f} : port'[g] = port[g]
    BY <1>0, <2>1 DEF Devices
  <2>6. \A g \in Files \ {f} : port[g] # 0 => port[g] \in Fds \ {port[f]}
    <3>1. \A g \in Files : port[g] # 0 => port[g] \in Fds /\ fdOf[port[g]] = g
      BY <1>0, <2>0 DEF Devices, Owners
    <3>2. QED BY <2>1, <3>1
  <2>7. \A u \in Threads : at'[u] = "unlink" /\ p'[u] \in allocated' =>
          node'[p'[u]].file = file'[u] /\ node'[p'[u]].fd = fd'[u]
    <3> SUFFICES ASSUME NEW u \in Threads, at'[u] = "unlink", p'[u] \in allocated'
                 PROVE  node'[p'[u]].file = file'[u] /\ node'[p'[u]].fd = fd'[u]
      OBVIOUS
    <3>1. u # t
      BY <2>2
    <3>2. QED BY <2>0, <2>2, <3>1 DEF Rest, list, Owners
  <2>8. \A n \in allocated' : fdOf'[node'[n].fd] = node'[n].file
    BY <1>n, <2>0, <2>2, <2>4 DEF list, Owners
  <2>9. \A u \in Threads : Keeps(u)' => fdOf'[fd'[u]] = file'[u]
    BY <1>k, <2>0, <2>3, <2>4 DEF Owners
  <2>10. \A g \in Files : port'[g] # 0 => fdOf'[port'[g]] = g
    BY <2>0, <2>4, <2>5, <2>6 DEF Owners
  <2>11. \A n \in allocated' : \A g \in Files : node'[n].fd # port'[g]
    BY <1>n, <1>z, <2>0, <2>2, <2>5 DEF list, Owners
  <2>12. \A u \in Threads : \A g \in Files : Keeps(u)' => fd'[u] # port'[g]
    BY <1>k, <1>z, <2>0, <2>3, <2>5 DEF Owners
  <2>13. /\ \A m, n \in allocated' : node'[m].fd = node'[n].fd => m = n
         /\ \A u, v \in Threads : Keeps(u)' /\ Keeps(v)' /\ fd'[u] = fd'[v] => u = v
         /\ \A n \in allocated' : \A u \in Threads : Keeps(u)' => node'[n].fd # fd'[u]
    BY <2>0, <2>2, <2>3 DEF list, Owners
  <2>14. QED BY <2>7, <2>8, <2>9, <2>10, <2>11, <2>12, <2>13 DEF Owners
<1>9. ASSUME NEW t \in Threads, Add(t) PROVE Owners'
  <2>0. at[t] = "add" /\ Rest(t) /\ UNCHANGED <<fdOf, port>>
    BY <1>9, DoesAdd DEF device
  <2>1. PICK n \in Nodes \ allocated :
          /\ allocated' = allocated \cup {n}
          /\ flaws' = flaws \cup Note("raced", Overlapped(t)) \cup Note("reborn", Awaited(n))
          /\ \A m \in Nodes \ {n} : node'[m] = node[m]
          /\ node'[n].file = file[t] /\ node'[n].fd = fd[t]
          /\ Idle(t) \/ at'[t] = "link"
    BY <1>9, DoesAdd
  <2>2. Owners
    BY <1>m, <2>1
  <2>3. ~Awaited(n)
    BY <2>1 DEF Note
  <2>4. Keeps(t) /\ fd[t] \in Fds /\ file[t] \in Files
    BY <1>k, <2>0 DEF Keeps
  <2>5. \A u \in Threads : Keeps(u)' => u # t /\ Keeps(u) /\ fd'[u] = fd[u] /\ file'[u] = file[u]
    BY <2>0, <2>1 DEF Rest, Idle, Keeps
  <2>6. \A m \in allocated : m # n /\ node'[m] = node[m]
    BY <1>n, <2>1
  <2>7. \A u \in Threads : at'[u] = "unlink" /\ p'[u] \in allocated' =>
          node'[p'[u]].file = file'[u] /\ node'[p'[u]].fd = fd'[u]
    <3> SUFFICES ASSUME NEW u \in Threads, at'[u] = "unlink", p'[u] \in allocated'
                 PROVE  node'[p'[u]].file = file'[u] /\ node'[p'[u]].fd = fd'[u]
      OBVIOUS
    <3>1. u # t
      BY <2>1 DEF Idle
    <3>2. at[u] = "unlink" /\ p'[u] = p[u] /\ file'[u] = file[u] /\ fd'[u] = fd[u]
      BY <2>0, <3>1 DEF Rest
    <3>3. p[u] # n
      BY <2>3, <3>2 DEF Awaited
    <3>4. p[u] \in allocated
      BY <2>1, <3>2, <3>3
    <3>5. QED BY <2>2, <2>6, <3>2, <3>4 DEF Owners
  <2>8. /\ fdOf[fd[t]] = file[t]
        /\ \A m \in allocated : node[m].fd # fd[t]
        /\ \A u \in Threads : Keeps(u) /\ fd[u] = fd[t] => u = t
        /\ \A f \in Files : port[f] # fd[t]
    BY <2>2, <2>4 DEF Owners
  <2>9. \A m \in allocated' : fdOf'[node'[m].fd] = node'[m].file
    BY <2>0, <2>1, <2>2, <2>6, <2>8 DEF Owners
  <2>10. \A l, m \in allocated' : node'[l].fd = node'[m].fd => l = m
    BY <2>1, <2>2, <2>6, <2>8 DEF Owners
  <2>11. \A m \in allocated' : \A f \in Files : node'[m].fd # port'[f]
    BY <2>0, <2>1, <2>2, <2>6, <2>8 DEF Owners
  <2>12. \A m \in allocated' : \A u \in Threads : Keeps(u)' => node'[m].fd # fd'[u]
    BY <2>1, <2>2, <2>5, <2>6, <2>8 DEF Owners
  <2>13. /\ \A u \in Threads : Keeps(u)' => fdOf'[fd'[u]] = file'[u]
         /\ \A u, v \in Threads : Keeps(u)' /\ Keeps(v)' /\ fd'[u] = fd'[v] => u = v
         /\ \A u \in Threads : \A f \in Files : Keeps(u)' => fd'[u] # port'[f]
         /\ \A f \in Files : port'[f] # 0 => fdOf'[port'[f]] = f
    BY <2>0, <2>2, <2>5 DEF Owners
  <2>14. QED BY <2>7, <2>9, <2>10, <2>11, <2>12, <2>13 DEF Owners
<1>10. ASSUME NEW t \in Threads, Link(t) PROVE Owners'
  <2>1. /\ Rest(t) /\ Idle(t) /\ UNCHANGED <<allocated, fdOf, port>>
        /\ \A m \in Nodes : node'[m].file = node[m].file /\ node'[m].fd = node[m].fd
    BY <1>10, DoesLink DEF device
  <2>2. Owners
    BY <1>10, <1>m, DoesLink
  <2>3. ~Keeps(t)' /\ at'[t] # "unlink"
    BY <2>1 DEF Idle, Keeps
  <2>4. QED BY <1>n, <1>r, <2>1, <2>2, <2>3
<1>11. CASE Reuse
  <2>1. /\ preopened_port \in Nodes \ allocated /\ node' = [node EXCEPT ![preopened_port] = Blank]
        /\ UNCHANGED <<allocated, preopened_port, device, at, locals, flaws>>
    BY <1>11 DEF Reuse, history
  <2>2. Owners
    BY <1>m, <2>1
  <2>3. \A n \in allocated : node'[n] = node[n]
    BY <1>0, <1>n, <2>1 DEF Memory
  <2>4. QED BY <2>1, <2>2, <2>3 DEF device, locals, Owners, Keeps
<1>12. QED
  BY <1>1, <1>2, <1>3, <1>4, <1>5, <1>6, <1>7, <1>8, <1>9, <1>10, <1>11
  DEF Next, FindPreopenedPorts, OpenDevice, StaticSet, NativeClose

(* An open port's device is its own: no setter works on it, and the port's   *)
(* descriptor is open on it, however many threads search and change the list *)
(* at once, unless a freed node has become another between a search and what *)
(* the search found it for.                                                  *)
THEOREM OpenPortAlone == Spec => []OpenPortExclusive
<1>1. Init => Locks /\ Owned
  <2> SUFFICES ASSUME Init PROVE Locks /\ Owned
    OBVIOUS
  <2>1. Locks
    BY DEF Init, Locks, Held
  <2>2. Owned
    BY DEF Init, Owned, Owners, Keeps
  <2>3. QED BY <2>1, <2>2
<1>2. Types /\ Locks /\ Owned /\ [Next]_vars => (Locks /\ Owned)'
  BY StepLocks, StepOwned
<1>3. Types /\ Locks /\ Owned => OpenPortExclusive
  <2> SUFFICES ASSUME Types, Locks, Owned, NEW f \in Files, port[f] # 0
               PROVE  /\ "reborn" \notin flaws => fdOf[port[f]] = f
                      /\ \A t \in Threads : op[t] \in Setters /\ file[t] = f =>
                           at[t] \in {"idle", "lock", "add", "link"}
    BY DEF OpenPortExclusive
  <2>1. "reborn" \notin flaws => fdOf[port[f]] = f
    BY DEF Owned, Owners
  <2>2. ASSUME NEW t \in Threads, op[t] \in Setters, file[t] = f
        PROVE  at[t] \in {"idle", "lock", "add", "link"}
    <3>1. ~Held(t)
      BY <2>2 DEF Locks
    <3>2. Local(t)
      BY DEF Types, Threading
    <3>3. QED BY <2>2, <3>1, <3>2 DEF Held, Local, Places, Setters
  <2>3. QED BY <2>1, <2>2
<1>4. QED BY <1>1, <1>2, <1>3, TypesHold, PTL DEF Spec
-----------------------------------------------------------------------------
(* The list, while it is intact *)

LEMMA SecondNode ==
  ASSUME Types
  PROVE  Second \in MaybeNode /\ Listed \subseteq Nodes
BY NullIsNothing DEF Types, Memory, MaybeNode, Second, Listed

LEMMA ReachedListed ==
  ASSUME Types, Linked
  PROVE  Reached(node, preopened_port) = Listed
<1>1. Second \in MaybeNode /\ preopened_port \in MaybeNode
  BY SecondNode DEF Types, Memory
<1>2. Second # null => Second # preopened_port /\ node[Second].next = null
  BY DEF Linked
<1>3. Second = IF preopened_port = null THEN null ELSE node[preopened_port].next
  BY DEF Second
<1>4. Reached(node, preopened_port) = {preopened_port, Second} \ {null}
  BY <1>1, <1>2, <1>3, ReachedShort
<1>5. QED BY <1>4 DEF Listed

LEMMA FlawsGrow == Types /\ [Next]_vars => flaws \subseteq flaws'
<1> SUFFICES ASSUME Types, [Next]_vars PROVE flaws \subseteq flaws'
  OBVIOUS
<1>1. CASE UNCHANGED vars
  BY <1>1 DEF vars, history
<1>2. ASSUME NEW t \in Threads, FindPreopenedPorts(t) \/ StaticSet(t) PROVE flaws \subseteq flaws'
  BY <1>2, DoesFind, DoesUnlink, DoesSet, DoesRest, DoesAdd, DoesLink, ZenonT(40)
  DEF FindPreopenedPorts, StaticSet, history
<1>3. ASSUME NEW t \in Threads, Call(t) \/ OpenDevice(t) \/ Get(t) \/ Opened(t) \/ NativeClose(t)
      PROVE  flaws \subseteq flaws'
  BY <1>3, DoesCall, DoesLock, DoesDevice, DoesRest, DoesClose
  DEF Types, OpenDevice, NativeClose, history
<1>4. CASE Reuse
  BY <1>4 DEF Reuse, history
<1>5. QED BY <1>1, <1>2, <1>3, <1>4 DEF Next

(* A step that is not about the list. *)
LEMMA ListKept ==
  ASSUME Shape, NEW t \in Threads, Rest(t), UNCHANGED list, at[t] # "link",
         at'[t] \notin {"unlink", "link"}, Away(t)' => Away(t) /\ file'[t] = file[t]
  PROVE  Shape'
<1>1. Listed' = Listed /\ Linked' = Linked /\ \A n : node'[n] = node[n]
  BY DEF list, Listed, Second, Linked
<1>2. \A u \in Threads : at'[u] \in {"unlink", "link"} =>
        at'[u] = at[u] /\ p'[u] = p[u] /\ newp'[u] = newp[u] /\ file'[u] = file[u] /\ fd'[u] = fd[u]
  BY DEF Rest
<1>3. \A u \in Threads : Away(u)' => Away(u) /\ file'[u] = file[u]
  BY DEF Rest, Away
<1>4. \A u \in Threads : at[u] = "link" => at'[u] = "link" /\ newp'[u] = newp[u]
  BY DEF Rest
<1>5. Alone'
  <2>1. \A n \in allocated' : n \in Listed' \/ \E u \in Threads : at'[u] = "link" /\ newp'[u] = n
    BY <1>1, <1>4 DEF list, Shape, Alone
  <2>2. \A u \in Threads : at'[u] = "link" =>
          /\ p'[u] \in Listed' /\ node'[p'[u]].next = null
          /\ newp'[u] \in allocated' \ Listed'
          /\ node'[newp'[u]].file = file'[u] /\ node'[newp'[u]].fd = fd'[u]
    BY <1>1, <1>2 DEF list, Shape, Alone
  <2>3. QED BY <1>1, <1>2, <2>1, <2>2 DEF Shape, Alone
<1>6. Apart'
  BY <1>1, <1>3 DEF Shape, Apart
<1>7. QED BY <1>1, <1>5, <1>6 DEF Shape

(* The intact list and its callers: what a search, a removal, a new node and *)
(* its append do to them.                                                    *)
LEMMA FindShape ==
  ASSUME Types, Locks, Shape, Intact', NEW t \in Threads, Find(t)
  PROVE  Shape'
<1>0. \A u \in Threads : Local(u)
  BY DEF Types, Threading
<1>1. at[t] = "find" /\ Rest(t) /\ UNCHANGED list
  BY DoesFind
<1>2. Reached(node, preopened_port) = Listed
  BY ReachedListed DEF Shape
<1>3. ~Overlapped(t)
  BY DoesFind DEF Intact, Note
<1>4. \A u \in Threads \ {t} : at[u] \notin {"unlink", "link"}
  BY <1>3 DEF Overlapped
<1>5. CASE Idle(t)
  BY <1>1, <1>5, ListKept DEF Idle, Away
<1>6. CASE Found(node, preopened_port, file[t]) = null /\ On(t, "device") /\ op[t] # "query"
  <2>1. \A n \in Listed : node[n].file # file[t]
    BY <1>2, <1>6, DoesFind, NullIsNothing, SecondNode
  <2>2. \A u \in Threads \ {t} : at[u] \in {"add", "link"} => file[u] # file[t]
    BY <1>6, DoesFind DEF Intact, Note
  <2>3. \A u \in Threads \ {t} : at[u] \in {"device", "set", "open", "unlock"} => file[u] # file[t]
    <3>1. Held(t) /\ \A u \in Threads : at[u] \in {"device", "set", "open", "unlock"} => Held(u)
      BY <1>0, <1>1, <1>6 DEF Held, Local, Setters
    <3>2. QED BY <3>1 DEF Locks
  <2>4. \A u \in Threads \ {t} : Away(u) => file[u] # file[t]
    BY <2>2, <2>3 DEF Away
  <2>5. Listed' = Listed /\ Linked' = Linked /\ \A n : node'[n] = node[n]
    BY <1>1 DEF list, Listed, Second, Linked
  <2>6. Alone'
    <3>1. \A u \in Threads : at'[u] \notin {"unlink", "link"}
      BY <1>1, <1>4, <1>6 DEF Rest, On
    <3>2. \A n \in allocated' : n \in Listed'
      BY <1>1, <1>4, <2>5 DEF list, Shape, Alone
    <3>3. QED BY <3>1, <3>2 DEF Alone
  <2>7. Apart'
    <3>1. file'[t] = file[t] /\ \A u \in Threads \ {t} : Away(u)' => Away(u) /\ file'[u] = file[u]
      BY <1>1, <1>6 DEF Rest, On, Away
    <3>2. \A u \in Threads : Away(u)' => \A n \in Listed' : node'[n].file # file'[u]
      BY <2>1, <2>5, <3>1 DEF Shape, Apart
    <3>3. \A u, v \in Threads : Away(u)' /\ Away(v)' /\ file'[u] = file'[v] => u = v
      BY <2>4, <3>1 DEF Shape, Apart
    <3>4. QED BY <3>2, <3>3 DEF Apart
  <2>8. QED BY <2>5, <2>6, <2>7 DEF Shape
<1>7. ASSUME NEW n \in Listed, at'[t] = "unlink", p'[t] = n PROVE Shape'
  <2>1. Listed' = Listed /\ Linked' = Linked /\ \A m : node'[m] = node[m]
    BY <1>1 DEF list, Listed, Second, Linked
  <2>2. Alone'
    <3>1. \A u \in Threads : at'[u] \in {"unlink", "link"} => u = t
      BY <1>1, <1>4 DEF Rest
    <3>2. \A m \in allocated' : m \in Listed'
      BY <1>1, <1>4, <2>1 DEF list, Shape, Alone
    <3>3. QED BY <1>7, <2>1, <3>1, <3>2 DEF Alone
  <2>3. Apart'
    <3>1. \A u \in Threads : Away(u)' => Away(u) /\ file'[u] = file[u]
      BY <1>1, <1>7 DEF Rest, Away
    <3>2. QED BY <2>1, <3>1 DEF Shape, Apart
  <2>4. QED BY <2>1, <2>2, <2>3 DEF Shape
<1>8. QED BY <1>2, <1>5, <1>6, <1>7, DoesFind

(* The node that leaves an intact list is its only one or its second.        *)
LEMMA UnlinkList ==
  ASSUME Types, Shape, Owners, Intact', NEW t \in Threads, Unlink(t)
  PROVE  /\ p[t] \in Listed /\ Listed' = Listed \ {p[t]} /\ Linked'
         /\ \A m \in Listed' : node'[m].file = node[m].file /\ node'[m].fd = node[m].fd
         /\ allocated' = allocated \ {p[t]} /\ p'[t] = null
         /\ node[p[t]].file = file[t] /\ node[p[t]].fd = fd[t]
         /\ at'[t] = IF op[t] \in Setters THEN "set" ELSE IF op[t] = "query" THEN "get" ELSE "open"
         /\ promised' = IF op[t] = "query" THEN promised \ {file[t]} ELSE promised
<1>1. at[t] = "unlink" /\ p[t] \in Listed /\ p[t] \in allocated /\ p[t] \in Nodes
  BY DoesUnlink DEF Shape, Alone, Linked
<1>2. /\ allocated' = allocated \ {p[t]}
      /\ preopened_port' = IF node[p[t]].prev = null /\ node[p[t]].next = null THEN null
                           ELSE preopened_port
      /\ \A m \in Nodes \ {p[t]} :
           /\ node'[m].file = node[m].file /\ node'[m].fd = node[m].fd
           /\ node'[m].next = IF m = node[p[t]].prev THEN node[p[t]].next ELSE node[m].next
           /\ node'[m].prev = IF m # node[p[t]].prev /\ m = node[p[t]].next
                              THEN node[p[t]].prev ELSE node[m].prev
      /\ preopened_port' # p[t] /\ p'[t] = null
      /\ at'[t] = IF op[t] \in Setters THEN "set" ELSE IF op[t] = "query" THEN "get" ELSE "open"
      /\ promised' = IF op[t] = "query" THEN promised \ {file[t]} ELSE promised
  <2>1. ~(p[t] \notin allocated)
    BY <1>1
  <2>2. flaws' = flaws \cup Note("dangling", preopened_port' = p[t]) => preopened_port' # p[t]
    BY DEF Intact, Note
  <2>3. QED BY <2>1, <2>2, DoesUnlink
<1>3. node[p[t]].file = file[t] /\ node[p[t]].fd = fd[t]
  BY <1>1 DEF Owners
<1>4. Listed \subseteq Nodes
  BY SecondNode
<1>5. CASE p[t] = preopened_port
  <2>1. node[p[t]].prev = null /\ node[p[t]].next = Second /\ preopened_port # null
    BY <1>1, <1>5 DEF Shape, Linked, Second, Listed
  <2>2. preopened_port' = null /\ Second = null
    BY <1>2, <1>5, <2>1
  <2>3. Listed' = {} /\ Listed = {p[t]}
    BY <1>5, <2>1, <2>2 DEF Listed, Second
  <2>4. Linked'
    BY <2>2, <2>3 DEF Linked, Second
  <2>5. QED BY <1>1, <1>2, <1>3, <2>3, <2>4
<1>6. CASE p[t] # preopened_port
  <2>1. p[t] = Second /\ Second # null /\ preopened_port # null
    BY <1>1, <1>6 DEF Listed, Second
  <2>2. node[p[t]].next = null /\ node[p[t]].prev = preopened_port /\ node[preopened_port].prev = null
    BY <2>1 DEF Shape, Linked
  <2>3. preopened_port \in Nodes \ {p[t]} /\ preopened_port' = preopened_port
    BY <1>2, <1>4, <1>6, <2>1, <2>2 DEF Listed
  <2>4. node'[preopened_port].next = null /\ node'[preopened_port].prev = null
    BY <1>2, <2>2, <2>3
  <2>5. Second' = null /\ Listed' = {preopened_port} /\ Listed = {preopened_port, p[t]}
    BY <2>1, <2>3, <2>4 DEF Second, Listed
  <2>6. Linked'
    <3>1. preopened_port \in allocated'
      BY <1>2, <2>3, <2>5 DEF Shape, Linked
    <3>2. QED BY <2>3, <2>4, <2>5, <3>1 DEF Linked
  <2>7. QED BY <1>1, <1>2, <1>3, <2>3, <2>5, <2>6
<1>7. QED BY <1>5, <1>6

LEMMA UnlinkShape ==
  ASSUME Types, Shape, Owners, Intact', NEW t \in Threads, Unlink(t)
  PROVE  Shape'
<1>1. /\ p[t] \in Listed /\ Listed' = Listed \ {p[t]} /\ Linked'
      /\ \A m \in Listed' : node'[m].file = node[m].file
      /\ allocated' = allocated \ {p[t]} /\ node[p[t]].file = file[t]
      /\ at'[t] \notin {"unlink", "link"}
  BY UnlinkList
<1>2. at[t] = "unlink" /\ Rest(t) /\ file'[t] = file[t]
  BY DoesUnlink
<1>3. \A u \in Threads : at[u] \in {"unlink", "link"} => u = t
  BY <1>2 DEF Shape, Alone
<1>4. \A u \in Threads : at'[u] \notin {"unlink", "link"}
  BY <1>1, <1>2, <1>3 DEF Rest
<1>5. Alone'
  <2>1. \A n \in allocated' : n \in Listed'
    BY <1>1, <1>2, <1>3 DEF Shape, Alone
  <2>2. QED BY <1>4, <2>1 DEF Alone
<1>6. Apart'
  <2>1. \A u \in Threads \ {t} : Away(u)' => Away(u) /\ file'[u] = file[u]
    BY <1>2 DEF Rest, Away
  <2>2. \A u \in Threads : Away(u) => file[u] # file[t]
    BY <1>1 DEF Shape, Apart
  <2>3. \A n \in Listed' : node'[n].file # file[t]
    BY <1>1 DEF Shape, Linked
  <2>4. \A u \in Threads : Away(u)' => \A n \in Listed' : node'[n].file # file'[u]
    BY <1>1, <1>2, <2>1, <2>3 DEF Shape, Apart
  <2>5. \A u, v \in Threads : Away(u)' /\ Away(v)' /\ file'[u] = file'[v] => u = v
    BY <1>2, <2>1, <2>2 DEF Shape, Apart
  <2>6. QED BY <2>4, <2>5 DEF Apart
<1>7. QED BY <1>1, <1>5, <1>6 DEF Shape

(* A new node is the first of the list, or it waits to be appended; in an    *)
(* intact list no node has its file's name.                                  *)
LEMMA AddList ==
  ASSUME Types, Shape, Intact', NEW t \in Threads, Add(t)
  PROVE  \E n \in Nodes \ allocated :
           /\ allocated' = allocated \cup {n} /\ \A u \in Threads : at[u] \notin {"unlink", "link"}
           /\ node'[n].file = file[t] /\ node'[n].fd = fd[t]
           /\ \A m \in Listed : node'[m] = node[m] /\ node[m].file # file[t]
           /\ Linked'
           /\ \/ /\ Listed = {} /\ Listed' = {n} /\ Idle(t)
                 /\ promised' = promised \cup {file[t]}
              \/ /\ Listed' = Listed /\ at'[t] = "link" /\ p'[t] \in Listed /\ newp'[t] = n
                 /\ node'[p'[t]].next = null /\ file'[t] = file[t] /\ fd'[t] = fd[t]
                 /\ promised' = promised
<1>1. PICK n \in Nodes \ allocated :
        /\ allocated' = allocated \cup {n}
        /\ flaws' = flaws \cup Note("raced", Overlapped(t)) \cup Note("reborn", Awaited(n))
        /\ \A m \in Nodes \ {n} : node'[m] = node[m]
        /\ node'[n].file = file[t] /\ node'[n].fd = fd[t]
        /\ \/ /\ preopened_port = null /\ preopened_port' = n
              /\ node'[n].next = null /\ node'[n].prev = null
              /\ promised' = promised \cup {file[t]} /\ Idle(t)
           \/ /\ preopened_port # null /\ preopened_port' = preopened_port
              /\ \E m \in Reached(node', preopened_port) : node'[m].file = file[t]
           \/ /\ preopened_port # null /\ preopened_port' = preopened_port
              /\ p'[t] \in Reached(node', preopened_port)
              /\ node'[p'[t]].next = null
              /\ newp'[t] = n /\ at'[t] = "link"
              /\ file'[t] = file[t] /\ fd'[t] = fd[t] /\ promised' = promised
  BY DoesAdd
<1>2. at[t] = "add" /\ ~Overlapped(t)
  BY <1>1, DoesAdd DEF Intact, Note
<1>3. \A u \in Threads : at[u] \notin {"unlink", "link"}
  BY <1>2 DEF Overlapped
<1>4. Listed \subseteq Nodes \ {n} /\ Listed = allocated
  BY <1>1, <1>3, SecondNode, ZenonT(40) DEF Shape, Linked, Alone
<1>5. \A m \in Listed : node'[m] = node[m] /\ node[m].file # file[t]
  <2>1. Away(t)
    BY <1>2 DEF Away
  <2>2. QED BY <1>1, <1>4, <2>1 DEF Shape, Apart
<1>6. CASE preopened_port = null
  <2>1. Listed = {}
    BY <1>6 DEF Listed, Second
  <2>2. /\ preopened_port' = n /\ node'[n].next = null /\ node'[n].prev = null /\ Idle(t)
        /\ promised' = promised \cup {file[t]}
    BY <1>1, <1>6
  <2>3. n # null
    BY <1>1, NullIsNothing
  <2>4. Second' = null /\ Listed' = {n}
    BY <2>2, <2>3 DEF Second, Listed
  <2>5. Linked'
    BY <1>1, <2>2, <2>4 DEF Linked
  <2>6. QED BY <1>1, <1>3, <1>5, <2>1, <2>2, <2>4, <2>5
<1>7. CASE preopened_port # null
  <2>1. preopened_port' = preopened_port /\ preopened_port \in Listed
    BY <1>1, <1>7 DEF Listed
  <2>2. Second' = Second /\ Listed' = Listed
    BY <1>5, <2>1 DEF Second, Listed
  <2>3. Second # null => Second \in Listed
    BY DEF Listed
  <2>4. Linked'
    <3>1. preopened_port' # null => node'[preopened_port'].prev = null
      BY <1>5, <2>1 DEF Shape, Linked
    <3>2. Second' # null => /\ Second' # preopened_port'
                            /\ node'[Second'].next = null /\ node'[Second'].prev = preopened_port'
      BY <1>5, <2>1, <2>2, <2>3 DEF Shape, Linked
    <3>3. \A l, m \in Listed' : node'[l].file = node'[m].file => l = m
      BY <1>5, <2>2 DEF Shape, Linked
    <3>4. Listed' \subseteq allocated'
      BY <1>1, <1>4, <2>2
    <3>5. QED BY <3>1, <3>2, <3>3, <3>4 DEF Linked
  <2>5. Reached(node', preopened_port) = Listed
    <3>1. Second \in MaybeNode /\ preopened_port \in MaybeNode
      BY SecondNode DEF Types, Memory
    <3>2. Second = node'[preopened_port].next
      BY <1>5, <1>7, <2>1 DEF Second
    <3>3. Second # null => Second # preopened_port /\ node'[Second].next = null
      BY <1>5, <2>3 DEF Shape, Linked
    <3>4. Reached(node', preopened_port) = {preopened_port, Second} \ {null}
      BY <1>7, <3>1, <3>2, <3>3, ReachedShort
    <3>5. QED BY <3>4 DEF Listed
  <2>6. /\ p'[t] \in Listed /\ node'[p'[t]].next = null /\ newp'[t] = n /\ at'[t] = "link"
        /\ file'[t] = file[t] /\ fd'[t] = fd[t] /\ promised' = promised
    BY <1>1, <1>5, <1>7, <2>5
  <2>7. QED BY <1>1, <1>3, <1>5, <2>2, <2>4, <2>6
<1>8. QED BY <1>6, <1>7

LEMMA AddShape ==
  ASSUME Types, Shape, Intact', NEW t \in Threads, Add(t)
  PROVE  Shape'
<1>1. PICK n \in Nodes \ allocated :
        /\ allocated' = allocated \cup {n} /\ \A u \in Threads : at[u] \notin {"unlink", "link"}
        /\ node'[n].file = file[t] /\ node'[n].fd = fd[t]
        /\ \A m \in Listed : node'[m] = node[m] /\ node[m].file # file[t]
        /\ Linked'
        /\ \/ Listed = {} /\ Listed' = {n} /\ Idle(t)
           \/ /\ Listed' = Listed /\ at'[t] = "link" /\ p'[t] \in Listed /\ newp'[t] = n
              /\ node'[p'[t]].next = null /\ file'[t] = file[t] /\ fd'[t] = fd[t]
  BY AddList
<1>2. at[t] = "add" /\ Rest(t) /\ Away(t)
  BY DoesAdd DEF Away
<1>3. \A m \in allocated : m \in Listed
  BY <1>1 DEF Shape, Alone
<1>4. \A u \in Threads : u # t /\ Away(u)' => Away(u) /\ file'[u] = file[u] /\ file[u] # file[t]
  BY <1>2 DEF Rest, Away, Shape, Apart
<1>5. \A u \in Threads : at'[u] \in {"unlink", "link"} => u = t
  BY <1>1, <1>2 DEF Rest
<1>6. CASE Listed = {} /\ Listed' = {n} /\ Idle(t)
  <2>1. Alone'
    <3>1. \A u \in Threads : at'[u] \notin {"unlink", "link"}
      BY <1>5, <1>6 DEF Idle
    <3>2. \A m \in allocated' : m \in Listed'
      BY <1>1, <1>3, <1>6
    <3>3. QED BY <3>1, <3>2 DEF Alone
  <2>2. Apart'
    <3>1. \A u \in Threads : Away(u)' => u # t
      BY <1>6 DEF Idle, Away
    <3>2. \A u \in Threads : Away(u)' => \A m \in Listed' : node'[m].file # file'[u]
      BY <1>1, <1>4, <1>6, <3>1
    <3>3. \A u, v \in Threads : Away(u)' /\ Away(v)' /\ file'[u] = file'[v] => u = v
      BY <1>4, <3>1 DEF Shape, Apart
    <3>4. QED BY <3>2, <3>3 DEF Apart
  <2>3. QED BY <1>1, <2>1, <2>2 DEF Shape
<1>7. CASE /\ Listed' = Listed /\ at'[t] = "link" /\ p'[t] \in Listed /\ newp'[t] = n
           /\ node'[p'[t]].next = null /\ file'[t] = file[t] /\ fd'[t] = fd[t]
  <2>1. Alone'
    <3>1. \A m \in allocated' : m \in Listed' \/ \E u \in Threads : at'[u] = "link" /\ newp'[u] = m
      BY <1>1, <1>3, <1>7
    <3>2. n \in allocated' \ Listed'
      BY <1>1, <1>7 DEF Shape, Linked
    <3>3. \A u \in Threads : at'[u] = "link" =>
            /\ p'[u] \in Listed' /\ node'[p'[u]].next = null
            /\ newp'[u] \in allocated' \ Listed'
            /\ node'[newp'[u]].file = file'[u] /\ node'[newp'[u]].fd = fd'[u]
      BY <1>1, <1>5, <1>7, <3>2
    <3>4. \A u \in Threads : at'[u] = "unlink" => p'[u] \in Listed'
      BY <1>5, <1>7
    <3>5. QED BY <1>5, <3>1, <3>3, <3>4 DEF Alone
  <2>2. Apart'
    <3>1. \A u \in Threads : Away(u)' => \A m \in Listed' : node'[m].file # file'[u]
      BY <1>1, <1>4, <1>7 DEF Shape, Apart
    <3>2. \A u, v \in Threads : Away(u)' /\ Away(v)' /\ file'[u] = file'[v] => u = v
      BY <1>4, <1>7 DEF Shape, Apart
    <3>3. QED BY <3>1, <3>2 DEF Apart
  <2>3. QED BY <1>1, <2>1, <2>2 DEF Shape
<1>8. QED BY <1>1, <1>6, <1>7

(* The appended node is the second of an intact list. *)
LEMMA LinkList ==
  ASSUME Types, Shape, Intact', NEW t \in Threads, Link(t)
  PROVE  /\ Listed' = Listed \cup {newp[t]} /\ allocated' = Listed' /\ Linked'
         /\ node[newp[t]].file = file[t] /\ node[newp[t]].fd = fd[t]
         /\ \A m \in Nodes : node'[m].file = node[m].file /\ node'[m].fd = node[m].fd
         /\ \A u \in Threads : at[u] \in {"unlink", "link"} => u = t
         /\ \A n \in Listed : node[n].file # file[t]
<1> DEFINE a == p[t]
           b == newp[t]
<1>1. /\ at[t] = "link" /\ a \in Nodes /\ b \in Nodes /\ preopened_port' = a
      /\ \A m \in Nodes : node'[m].file = node[m].file /\ node'[m].fd = node[m].fd
      /\ a # b => /\ node'[b].next = null /\ node'[b].prev = a
                  /\ node'[a].next = b /\ node'[a].prev = node[a].prev
      /\ allocated' = allocated
      /\ flaws' = flaws \cup Note("orphan", preopened_port # a)
  BY DoesLink
<1>2. /\ a \in Listed /\ node[a].next = null /\ b \in allocated \ Listed
      /\ node[b].file = file[t] /\ node[b].fd = fd[t]
      /\ \A u \in Threads : at[u] \in {"unlink", "link"} => u = t
      /\ \A n \in allocated : n \in Listed \/ n = b
  <2>1. \A u \in Threads : at[u] \in {"unlink", "link"} => u = t
    BY <1>1 DEF Shape, Alone
  <2>2. \A n \in allocated : n \in Listed \/ n = b
    BY <2>1 DEF Shape, Alone
  <2>3. QED BY <1>1, <2>1, <2>2 DEF Shape, Alone
<1>3. preopened_port = a
  BY <1>1 DEF Intact, Note
<1>4. \A n \in Listed : node[n].file # file[t]
  BY <1>1 DEF Shape, Apart, Away
<1> HIDE DEF a, b
<1>5. a # null /\ b # null /\ a # b
  BY <1>1, <1>2, NullIsNothing
<1>6. Second = null /\ Listed = {a}
  BY <1>2, <1>3, <1>5 DEF Second, Listed
<1>7. Second' = b /\ Listed' = {a, b}
  BY <1>1, <1>5 DEF Second, Listed
<1>8. node[a].prev = null
  BY <1>3, <1>5 DEF Shape, Linked
<1>9. Listed \subseteq allocated
  BY DEF Shape, Linked
<1>10. Linked'
  <2>1. \A m, n \in Listed' : node'[m].file = node'[n].file => m = n
    BY <1>1, <1>2, <1>4, <1>6, <1>7
  <2>2. QED BY <1>1, <1>2, <1>5, <1>6, <1>7, <1>8, <1>9, <2>1 DEF Linked
<1>11. allocated' = Listed' /\ Listed' = Listed \cup {b}
  BY <1>1, <1>2, <1>6, <1>7, <1>9
<1>12. QED BY <1>1, <1>2, <1>4, <1>10, <1>11 DEF a, b

LEMMA LinkShape ==
  ASSUME Types, Shape, Intact', NEW t \in Threads, Link(t)
  PROVE  Shape'
<1>1. /\ Listed' = Listed \cup {newp[t]} /\ allocated' = Listed' /\ Linked'
      /\ node[newp[t]].file = file[t] /\ newp[t] \in Nodes
      /\ \A m \in Nodes : node'[m].file = node[m].file
      /\ \A u \in Threads : at[u] \in {"unlink", "link"} => u = t
  BY LinkList, DoesLink
<1>2. at[t] = "link" /\ Rest(t) /\ Idle(t) /\ Away(t) /\ Listed \subseteq Nodes
  BY DoesLink, SecondNode DEF Away
<1>3. Alone'
  <2>1. \A u \in Threads : at'[u] \notin {"unlink", "link"}
    BY <1>1, <1>2 DEF Rest, Idle
  <2>2. QED BY <1>1, <2>1 DEF Alone
<1>4. Apart'
  <2>1. \A u \in Threads : Away(u)' => u # t /\ Away(u) /\ file'[u] = file[u] /\ file[u] # file[t]
    BY <1>2 DEF Rest, Idle, Away, Shape, Apart
  <2>2. \A u \in Threads : Away(u)' => \A n \in Listed' : node'[n].file # file'[u]
    BY <1>1, <1>2, <2>1 DEF Shape, Apart
  <2>3. \A u, v \in Threads : Away(u)' /\ Away(v)' /\ file'[u] = file'[v] => u = v
    BY <2>1 DEF Shape, Apart
  <2>4. QED BY <2>2, <2>3 DEF Apart
<1>5. QED BY <1>1, <1>3, <1>4 DEF Shape

(* No memory that an intact list has freed is pointed to. *)
LEMMA NoReuse == ASSUME Shape PROVE ~Reuse
BY NullIsNothing DEF Shape, Linked, Listed, Reuse

LEMMA StepShaped == Types /\ Locks /\ Owned /\ Shaped /\ [Next]_vars => Shaped'
<1> SUFFICES ASSUME Types, Locks, Owned, Shaped, [Next]_vars, Intact' PROVE Shape'
  BY DEF Shaped
<1>0. Shape /\ Owners
  BY FlawsGrow DEF Intact, Shaped, Owned
<1>1. CASE UNCHANGED vars
  BY <1>0, <1>1 DEF vars, list, locals, Shape, Linked, Alone, Apart, Listed, Second, Away
<1>2. ASSUME NEW t \in Threads,
             \/ Call(t) \/ Lock(t) \/ Device(t) \/ Set(t) \/ Unlock(t) \/ Get(t) \/ Opened(t)
             \/ Close(t) \/ CloseUnlock(t)
      PROVE  Shape'
  <2>1. /\ Rest(t) /\ UNCHANGED list /\ at[t] # "link" /\ at'[t] \notin {"unlink", "link"}
        /\ Away(t)' => Away(t) /\ file'[t] = file[t]
    <3>1. CASE Call(t)
      BY <3>1, DoesCall DEF Types, Away
    <3>2. CASE Lock(t)
      BY <3>2, DoesLock DEF Away, On, Idle
    <3>3. CASE Device(t)
      BY <3>3, DoesDevice DEF Away, Idle
    <3>4. CASE Set(t)
      BY <3>4, DoesSet DEF Away, On, Idle
    <3>5. CASE Unlock(t) \/ Get(t) \/ Opened(t) \/ CloseUnlock(t)
      BY <3>5, DoesRest DEF Away, On, Idle
    <3>6. CASE Close(t)
      BY <3>6, DoesClose DEF Away
    <3>7. QED BY <1>2, <3>1, <3>2, <3>3, <3>4, <3>5, <3>6
  <2>2. QED BY <1>0, <2>1, ListKept
<1>3. ASSUME NEW t \in Threads, Find(t) \/ Unlink(t) \/ Add(t) \/ Link(t) PROVE Shape'
  BY <1>0, <1>3, FindShape, UnlinkShape, AddShape, LinkShape
<1>4. CASE Reuse
  BY <1>0, <1>4, NoReuse
<1>5. QED
  BY <1>1, <1>2, <1>3, <1>4 DEF Next, FindPreopenedPorts, OpenDevice, StaticSet, NativeClose

LEMMA ListHolds == Spec => [](Types /\ Locks /\ Owned /\ Shaped)
<1>1. Init => Locks /\ Owned /\ Shaped
  <2> SUFFICES ASSUME Init PROVE Locks /\ Owned /\ Shaped
    OBVIOUS
  <2>1. Locks /\ Owned
    BY DEF Init, Locks, Held, Owned, Owners, Keeps
  <2>2. Listed = {} /\ Second = null
    BY DEF Init, Listed, Second
  <2>3. Shaped
    BY <2>2 DEF Init, Shaped, Shape, Linked, Alone, Apart, Away
  <2>4. QED BY <2>1, <2>3
<1>2. Types /\ Locks /\ Owned /\ Shaped /\ [Next]_vars => (Locks /\ Owned /\ Shaped)'
  BY StepLocks, StepOwned, StepShaped
<1>3. QED BY <1>1, <1>2, TypesHold, PTL DEF Spec

(* While the list is intact it holds exactly the live nodes, linked both     *)
(* ways, each file once, each descriptor open on its file.                   *)
THEOREM ListIsSound == Spec => []ListSound
<1>1. Types /\ Owned /\ Shaped => ListSound
  <2> SUFFICES ASSUME Types, Owned, Shaped, Intact, \A t \in Threads : at[t] \notin {"unlink", "link"}
               PROVE  LET nodes == Reached(node, preopened_port) IN
                      /\ nodes = allocated
                      /\ \A n \in nodes :
                           /\ node[n].next # null => node[node[n].next].prev = n
                           /\ node[n].prev # null => node[node[n].prev].next = n
                           /\ fdOf[node[n].fd] = node[n].file
                           /\ \A m \in nodes : node[m].file = node[n].file => m = n
    BY DEF ListSound
  <2>1. Shape /\ Owners
    BY DEF Intact, Shaped, Owned
  <2>2. Reached(node, preopened_port) = Listed
    BY <2>1, ReachedListed DEF Shape
  <2>3. Listed = allocated
    BY <2>1 DEF Shape, Linked, Alone
  <2>4. ASSUME NEW n \in Listed
        PROVE  /\ node[n].next # null => node[node[n].next].prev = n
               /\ node[n].prev # null => node[node[n].prev].next = n
    <3>1. CASE n = preopened_port
      <4>1. node[n].prev = null /\ node[n].next = Second
        BY <2>1, <3>1 DEF Shape, Linked, Listed, Second
      <4>2. QED BY <2>1, <3>1, <4>1 DEF Shape, Linked
    <3>2. CASE n = Second /\ n # preopened_port
      <4>1. preopened_port # null /\ Second # null /\ node[preopened_port].next = Second
        BY <3>2 DEF Listed, Second
      <4>2. QED BY <2>1, <3>2, <4>1 DEF Shape, Linked
    <3>3. QED BY <3>1, <3>2 DEF Listed
  <2>5. \A n \in Listed : /\ fdOf[node[n].fd] = node[n].file
                          /\ \A m \in Listed : node[m].file = node[n].file => m = n
    BY <2>1, <2>3 DEF Shape, Linked, Owners
  <2>6. QED BY <2>2, <2>3, <2>4, <2>5
<1>2. QED BY <1>1, ListHolds, PTL
-----------------------------------------------------------------------------
(* What is open, and what has been set up *)

LEMMA StepAccounted == Types /\ Locks /\ Owned /\ Shaped /\ Accounted /\ [Next]_vars => Accounted'
<1> SUFFICES ASSUME Types, Locks, Owned, Shaped, Accounted, [Next]_vars, Intact' PROVE Accounts'
  BY DEF Accounted
<1>0. Shape /\ Owners /\ Accounts
  BY FlawsGrow DEF Intact, Shaped, Owned, Accounted
<1>t. Devices /\ \A t \in Threads : Local(t)
  BY DEF Types, Threading
<1>z. 0 \notin Fds
  BY FdsArePositive
<1>r. ASSUME NEW t \in Threads, Rest(t), UNCHANGED <<fdOf, port>>, lostFds \subseteq lostFds',
             \A n \in Listed : n \in Listed' /\ node'[n].fd = node[n].fd,
             fd[t] \in Fds => \/ at'[t] # "idle" /\ fd'[t] = fd[t]
                              \/ fd[t] \in lostFds'
                              \/ \E n \in Listed' : node'[n].fd = fd[t]
      PROVE  Accounts'
  <2> SUFFICES ASSUME NEW d \in Fds, fdOf[d] # null
               PROVE  \/ d \in lostFds'
                      \/ \E f \in Files : port[f] = d
                      \/ \E u \in Threads : at'[u] # "idle" /\ fd'[u] = d
                      \/ \E n \in Listed' : node'[n].fd = d
    BY <1>r DEF Accounts
  <2>1. CASE d \in lostFds \/ \E f \in Files : port[f] = d
    BY <1>r, <2>1
  <2>2. ASSUME NEW u \in Threads, at[u] # "idle", fd[u] = d
        PROVE  \/ d \in lostFds'
               \/ \E v \in Threads : at'[v] # "idle" /\ fd'[v] = d
               \/ \E n \in Listed' : node'[n].fd = d
    BY <1>r, <2>2 DEF Rest
  <2>3. CASE \E n \in Listed : node[n].fd = d
    BY <1>r, <2>3
  <2>4. QED BY <1>0, <2>1, <2>2, <2>3 DEF Accounts
<1>l. UNCHANGED list => Listed' = Listed /\ node' = node
  BY DEF list, Listed, Second
<1>1. CASE UNCHANGED vars
  BY <1>0, <1>1, <1>l DEF vars, locals, device, history, Accounts
<1>2. ASSUME NEW t \in Threads, Call(t) \/ Find(t) \/ Lock(t) \/ CloseUnlock(t) PROVE Accounts'
  <2>1. Rest(t) /\ UNCHANGED <<fdOf, port, lostFds, list>> /\ at[t] \in {"idle", "find", "lock", "close"}
    BY <1>2, DoesCall, DoesFind, DoesLock, DoesRest DEF Types, device, history
  <2>2. fd[t] \notin Fds
    BY <1>t, <1>z, <2>1 DEF Local
  <2>3. QED BY <1>l, <1>r, <2>1, <2>2
<1>3. ASSUME NEW t \in Threads, Unlink(t) PROVE Accounts'
  <2>1. /\ Listed' = Listed \ {p[t]} /\ node[p[t]].fd = fd[t]
        /\ \A m \in Listed' : node'[m].fd = node[m].fd
        /\ at'[t] # "idle"
    BY <1>0, <1>3, UnlinkList
  <2>2. Rest(t) /\ UNCHANGED <<fdOf, port, lostFds>> /\ fd'[t] = fd[t] /\ at[t] # "idle"
    BY <1>3, DoesUnlink DEF device
  <2>3. \A u \in Threads : at[u] # "idle" => at'[u] # "idle" /\ fd'[u] = fd[u]
    BY <2>1, <2>2 DEF Rest
  <2>4. \A n \in Listed : n \in Listed' \/ node[n].fd = fd'[t]
    BY <2>1, <2>2
  <2>5. QED BY <1>0, <2>1, <2>2, <2>3, <2>4 DEF Accounts
<1>4. ASSUME NEW t \in Threads, Device(t) PROVE Accounts'
  <2>1. Rest(t) /\ UNCHANGED <<list, port>> /\ at[t] = "device" /\ fd[t] = 0
    BY <1>t, <1>4, DoesDevice DEF Local
  <2>2. Listed' = Listed /\ node' = node
    BY <1>l, <2>1
  <2>3. CASE UNCHANGED <<fdOf, lostFds>>
    BY <1>r, <1>z, <2>1, <2>2, <2>3
  <2>4. ASSUME NEW d \in Fds, fdOf' = [fdOf EXCEPT ![d] = file[t]], lostFds \subseteq lostFds',
               (at'[t] # "idle" /\ fd'[t] = d) \/ d \in lostFds'
        PROVE  Accounts'
    <3> SUFFICES ASSUME NEW e \in Fds, fdOf'[e] # null
                 PROVE  \/ e \in lostFds'
                        \/ \E f \in Files : port'[f] = e
                        \/ \E u \in Threads : at'[u] # "idle" /\ fd'[u] = e
                        \/ \E n \in Listed' : node'[n].fd = e
      BY DEF Accounts
    <3>1. CASE e = d
      BY <2>4, <3>1
    <3>2. CASE e # d
      <4>1. fdOf[e] # null
        BY <1>t, <2>4, <3>2 DEF Devices
      <4>2. \A u \in Threads : fd[u] = e => u # t
        BY <1>z, <2>1
      <4>3. QED BY <1>0, <2>1, <2>2, <2>4, <4>1, <4>2 DEF Rest, Accounts
    <3>3. QED BY <3>1, <3>2
  <2>5. QED
    <3>1. \/ \E d \in Fds : /\ fdOf' = [fdOf EXCEPT ![d] = file[t]] /\ lostFds \subseteq lostFds'
                            /\ (at'[t] # "idle" /\ fd'[t] = d) \/ d \in lostFds'
          \/ UNCHANGED <<fdOf, lostFds>>
      BY <1>4, DoesDevice
    <3>2. QED BY <2>3, <2>4, <3>1
<1>5. ASSUME NEW t \in Threads, Set(t) \/ Unlock(t) \/ Get(t) PROVE Accounts'
  <2>1. /\ Rest(t) /\ UNCHANGED <<fdOf, port, list>> /\ lostFds \subseteq lostFds'
        /\ (at'[t] # "idle" /\ fd'[t] = fd[t]) \/ fd[t] \in lostFds'
    BY <1>5, DoesSet, DoesRest DEF device, history, On
  <2>2. QED BY <1>l, <1>r, <2>1
<1>6. ASSUME NEW t \in Threads, Opened(t) PROVE Accounts'
  <2>1. /\ at[t] = "open" /\ Rest(t) /\ UNCHANGED <<list, fdOf, lostFds>>
        /\ port' = [port EXCEPT ![file[t]] = fd[t]]
    BY <1>6, DoesRest DEF history
  <2>2. file[t] \in Files /\ port[file[t]] = 0
    BY <1>t, <2>1 DEF Local, Held, Locks
  <2>3. /\ port'[file[t]] = fd[t]
        /\ \A d \in Fds : \A f \in Files : port[f] = d => port'[f] = d
    BY <1>t, <1>z, <2>1, <2>2 DEF Devices
  <2>4. Listed' = Listed /\ node' = node
    BY <1>l, <2>1
  <2>5. QED
    <3> SUFFICES ASSUME NEW d \in Fds, fdOf[d] # null
                 PROVE  \/ d \in lostFds
                        \/ \E f \in Files : port'[f] = d
                        \/ \E u \in Threads : at'[u] # "idle" /\ fd'[u] = d
                        \/ \E n \in Listed : node[n].fd = d
      BY <2>1, <2>4 DEF Accounts
    <3>1. CASE fd[t] = d
      BY <2>2, <2>3, <3>1
    <3>2. CASE fd[t] # d
      BY <1>0, <2>1, <2>3, <3>2 DEF Rest, Accounts
    <3>3. QED BY <3>1, <3>2
<1>7. ASSUME NEW t \in Threads, Close(t) PROVE Accounts'
  <2>1. PICK f \in Files :
          /\ port[f] # 0 /\ port[f] \in Fds
          /\ fdOf' = [fdOf EXCEPT ![port[f]] = null] /\ port' = [port EXCEPT ![f] = 0]
    BY <1>7, DoesClose
  <2>2. Rest(t) /\ UNCHANGED <<list, lostFds>> /\ at[t] = "idle"
    BY <1>7, DoesClose
  <2>3. Listed' = Listed /\ node' = node
    BY <1>l, <2>2
  <2> SUFFICES ASSUME NEW d \in Fds, fdOf'[d] # null
               PROVE  \/ d \in lostFds
                      \/ \E g \in Files : port'[g] = d
                      \/ \E u \in Threads : at'[u] # "idle" /\ fd'[u] = d
                      \/ \E n \in Listed : node[n].fd = d
    BY <2>2, <2>3 DEF Accounts
  <2>4. d # port[f] /\ fdOf[d] # null
    BY <1>t, <2>1 DEF Devices
  <2>5. \A g \in Files : port[g] = d => port'[g] = d
    BY <1>t, <2>1, <2>4 DEF Devices
  <2>6. QED BY <1>0, <2>2, <2>4, <2>5 DEF Rest, Accounts
<1>8. ASSUME NEW t \in Threads, Add(t) PROVE Accounts'
  <2>1. Rest(t) /\ UNCHANGED <<fdOf, port>> /\ lostFds \subseteq lostFds'
    BY <1>8, DoesAdd DEF device
  <2>2. PICK n \in Nodes :
          /\ node'[n].fd = fd[t] /\ \A m \in Listed : node'[m] = node[m]
          /\ \/ Listed = {} /\ Listed' = {n}
             \/ Listed' = Listed /\ at'[t] = "link" /\ fd'[t] = fd[t]
    BY <1>0, <1>8, AddList
  <2>3. QED BY <1>r, <2>1, <2>2
<1>9. ASSUME NEW t \in Threads, Link(t) PROVE Accounts'
  <2>1. /\ Listed' = Listed \cup {newp[t]} /\ node[newp[t]].fd = fd[t]
        /\ \A m \in Nodes : node'[m].fd = node[m].fd
    BY <1>0, <1>9, LinkList
  <2>2. Rest(t) /\ UNCHANGED <<fdOf, port, lostFds>> /\ newp[t] \in Nodes
    BY <1>9, DoesLink DEF device
  <2>3. QED BY <1>r, <2>1, <2>2, SecondNode
<1>10. CASE Reuse
  BY <1>0, <1>10, NoReuse
<1>11. QED
  BY <1>1, <1>2, <1>3, <1>4, <1>5, <1>6, <1>7, <1>8, <1>9, <1>10
  DEF Next, FindPreopenedPorts, OpenDevice, StaticSet, NativeClose

(* While the list is intact every open descriptor is a port's, a call's or a *)
(* node's, or it was forgotten by a query or by a call that failed.          *)
THEOREM NoDescriptorLost == Spec => []DescriptorsKept
<1>1. Init => Accounted
  BY DEF Init, Accounted, Accounts
<1>2. Types /\ Locks /\ Owned /\ Shaped /\ Accounted /\ [Next]_vars => Accounted'
  BY StepAccounted
<1>3. Types /\ Shaped /\ Accounted => DescriptorsKept
  <2> SUFFICES ASSUME Types, Shaped, Accounted, Intact PROVE DescriptorsKept
    BY DEF DescriptorsKept
  <2>1. Reached(node, preopened_port) = Listed /\ Accounts
    BY ReachedListed DEF Shaped, Accounted, Shape
  <2>2. \A f \in Files : port[f] \in Range(port)
    BY DEF Types, Devices, Range
  <2>3. QED BY <2>1, <2>2 DEF Accounts, DescriptorsKept
<1>4. QED BY <1>1, <1>2, <1>3, ListHolds, PTL DEF Spec

LEMMA StepPromised == Types /\ Locks /\ Owned /\ Shaped /\ Promised /\ [Next]_vars => Promised'
<1> SUFFICES ASSUME Types, Locks, Owned, Shaped, Promised, [Next]_vars, Intact' PROVE Promises'
  BY DEF Promised
<1>0. Shape /\ Owners /\ Promises
  BY FlawsGrow DEF Intact, Shaped, Owned, Promised
<1>t. Devices /\ History /\ \A t \in Threads : Local(t)
  BY DEF Types, Threading
<1> DEFINE Busy(t) == at[t] \in {"set", "unlock", "add", "link", "open"}
<1>r. ASSUME NEW t \in Threads, Rest(t), NEW g \in Files,
             \A f \in Files \ {g} : port'[f] = port[f] /\ (f \in preset => f \in preset'),
             \A n \in Listed : node[n].file # g => n \in Listed' /\ node'[n].file = node[n].file,
             promised' \subseteq promised \cup {g},
             \A u \in Threads \ {t} : at[u] \in {"unlock", "add", "link"} => file[u] # g \/ g \in preset',
             at'[t] \in {"unlock", "add", "link"} => file'[t] = g /\ g \in preset',
             Busy(t) => file[t] = g,
             g \in promised' => /\ g \in preset'
                                /\ \/ port'[g] # 0
                                   \/ \E n \in Listed' : node'[n].file = g
                                   \/ \E u \in Threads : file'[u] = g /\ Busy(u)'
      PROVE  Promises'
  <2>1. ASSUME NEW f \in promised', f # g
        PROVE  /\ f \in preset'
               /\ \/ port'[f] # 0
                  \/ \E n \in Listed' : node'[n].file = f
                  \/ \E u \in Threads : file'[u] = f /\ Busy(u)'
    <3>1. f \in promised /\ f \in Files
      BY <1>r, <1>t, <2>1 DEF History
    <3>2. f \in preset'
      BY <1>0, <1>r, <2>1, <3>1 DEF Promises
    <3>3. CASE port[f] # 0
      BY <1>r, <2>1, <3>1, <3>2, <3>3
    <3>4. ASSUME NEW n \in Listed, node[n].file = f PROVE \E m \in Listed' : node'[m].file = f
      BY <1>r, <2>1, <3>4
    <3>5. ASSUME NEW u \in Threads, file[u] = f, Busy(u) PROVE file'[u] = f /\ Busy(u)'
      BY <1>r, <2>1, <3>5 DEF Rest
    <3>6. QED BY <1>0, <3>1, <3>2, <3>3, <3>4, <3>5 DEF Promises
  <2>2. ASSUME NEW u \in Threads, at'[u] \in {"unlock", "add", "link"} PROVE file'[u] \in preset'
    <3>1. CASE u = t
      BY <1>r, <2>2, <3>1
    <3>2. CASE u # t
      <4>1. at[u] \in {"unlock", "add", "link"} /\ file'[u] = file[u]
        BY <1>r, <2>2, <3>2 DEF Rest
      <4>2. file[u] \in preset /\ file[u] \in Files
        BY <1>0, <1>t, <4>1 DEF Promises, Local
      <4>3. QED BY <1>r, <3>2, <4>1, <4>2
    <3>3. QED BY <3>1, <3>2
  <2>3. QED BY <1>r, <2>1, <2>2 DEF Promises
<1>s. ASSUME NEW t \in Threads, Rest(t), UNCHANGED <<list, port, preset, promised>>,
             Busy(t) => Busy(t)' /\ file'[t] = file[t],
             at'[t] \in {"unlock", "add", "link"} =>
               at[t] \in {"unlock", "add", "link"} /\ file'[t] = file[t]
      PROVE  Promises'
  <2>1. Listed' = Listed /\ node' = node
    BY <1>s DEF list, Listed, Second
  <2>2. \A u \in Threads : Busy(u) => Busy(u)' /\ file'[u] = file[u]
    BY <1>s DEF Rest
  <2>3. \A u \in Threads : at'[u] \in {"unlock", "add", "link"} =>
          at[u] \in {"unlock", "add", "link"} /\ file'[u] = file[u]
    BY <1>s DEF Rest
  <2>4. ASSUME NEW f \in promised
        PROVE  /\ f \in preset
               /\ \/ port[f] # 0
                  \/ \E n \in Listed : node[n].file = f
                  \/ \E u \in Threads : file'[u] = f /\ Busy(u)'
    BY <1>0, <2>2, <2>4 DEF Promises
  <2>5. QED BY <1>0, <1>s, <2>1, <2>3, <2>4 DEF Promises
<1>u. ASSUME NEW t \in Threads, Away(t)
      PROVE  \A u \in Threads \ {t} : at[u] \in {"unlock", "add", "link"} => file[u] # file[t]
  BY <1>0, <1>u DEF Shape, Apart, Away
<1>n. ASSUME NEW n \in Listed PROVE n \in Nodes
  BY <1>n, SecondNode
<1>1. CASE UNCHANGED vars
  BY <1>0, <1>1 DEF vars, list, locals, device, history, Promises, Listed, Second
<1>2. ASSUME NEW t \in Threads,
             Call(t) \/ Find(t) \/ Lock(t) \/ Unlock(t) \/ Get(t) \/ CloseUnlock(t)
      PROVE  Promises'
  <2>1. /\ Rest(t) /\ UNCHANGED <<list, port, preset, promised>>
        /\ \/ at[t] \in {"idle", "find", "lock", "get", "close"} /\ at'[t] \notin {"unlock", "add", "link"}
           \/ at[t] = "unlock" /\ On(t, "add")
    <3>1. CASE Call(t)
      BY <3>1, DoesCall DEF Types, device, history
    <3>2. CASE Find(t)
      BY <3>2, DoesFind DEF device, Idle, On
    <3>3. CASE Lock(t)
      BY <3>3, DoesLock DEF device, history, Idle, On
    <3>4. CASE Unlock(t) \/ Get(t) \/ CloseUnlock(t)
      BY <3>4, DoesRest DEF device, history, Idle
    <3>5. QED BY <1>2, <3>1, <3>2, <3>3, <3>4
  <2>2. QED BY <1>s, <2>1 DEF On
<1>3. ASSUME NEW t \in Threads, Unlink(t) PROVE Promises'
  <2>1. /\ p[t] \in Listed /\ Listed' = Listed \ {p[t]} /\ node[p[t]].file = file[t]
        /\ \A m \in Listed' : node'[m].file = node[m].file
        /\ at'[t] = IF op[t] \in Setters THEN "set" ELSE IF op[t] = "query" THEN "get" ELSE "open"
        /\ promised' = IF op[t] = "query" THEN promised \ {file[t]} ELSE promised
    BY <1>0, <1>3, UnlinkList
  <2>2. at[t] = "unlink" /\ Rest(t) /\ UNCHANGED <<port, preset>> /\ file'[t] = file[t]
    BY <1>3, DoesUnlink DEF device
  <2>3. file[t] \in Files
    BY <1>t, <2>2 DEF Local
  <2>4. \A u \in Threads : at[u] \in {"unlock", "add", "link"} => file[u] # file[t]
    BY <1>0, <2>1 DEF Shape, Apart, Away
  <2>5. file[t] \in promised' => /\ file[t] \in preset /\ Busy(t)'
    <3>1. file[t] \in promised' => op[t] # "query" /\ file[t] \in promised
      BY <2>1
    <3>2. QED BY <1>0, <2>1, <3>1 DEF Promises
  <2>6. promised' \subseteq promised /\ at'[t] \notin {"unlock", "add", "link"}
    BY <2>1
  <2>7. \A n \in Listed : node[n].file # file[t] => n \in Listed' /\ node'[n].file = node[n].file
    BY <2>1
  <2>8. QED BY <1>r, <2>2, <2>3, <2>4, <2>5, <2>6, <2>7
<1>4. ASSUME NEW t \in Threads, Device(t) PROVE Promises'
  <2>1. Rest(t) /\ UNCHANGED <<list, port>> /\ at[t] = "device"
    BY <1>4, DoesDevice
  <2>2. Away(t) /\ Held(t) /\ file[t] \in Files
    BY <1>t, <2>1 DEF Away, Held, Local, Setters
  <2>3. file[t] \notin promised
    <3>1. port[file[t]] = 0 /\ \A n \in Listed : node[n].file # file[t]
      BY <1>0, <2>2 DEF Locks, Shape, Apart
    <3>2. \A u \in Threads : Busy(u) => file[u] # file[t]
      BY <1>0, <2>1, <2>2 DEF Shape, Apart, Away
    <3>3. QED BY <1>0, <3>1, <3>2 DEF Promises
  <2>4. /\ promised' \subseteq promised /\ at'[t] \notin {"unlock", "add", "link"}
        /\ preset' = preset \ {file[t]} \/ preset' = preset
    BY <1>4, DoesDevice DEF Idle
  <2>5. Listed' = Listed /\ node' = node
    BY <2>1 DEF list, Listed, Second
  <2>6. \A f \in Files \ {file[t]} : f \in preset => f \in preset'
    BY <2>4
  <2>7. QED BY <1>r, <1>u, <2>1, <2>2, <2>3, <2>4, <2>5, <2>6
<1>5. ASSUME NEW t \in Threads, Set(t) PROVE Promises'
  <2>1. /\ at[t] = "set" /\ Rest(t) /\ UNCHANGED <<list, port>>
        /\ \/ preset' = preset \cup {file[t]} /\ On(t, "unlock") /\ promised' = promised
           \/ Idle(t) /\ preset' = preset /\ promised' = promised \ {file[t]}
    BY <1>5, DoesSet
  <2>2. Away(t) /\ file[t] \in Files
    BY <1>t, <2>1 DEF Away, Local
  <2>3. Listed' = Listed /\ node' = node
    BY <2>1 DEF list, Listed, Second
  <2>4. CASE preset' = preset \cup {file[t]} /\ On(t, "unlock") /\ promised' = promised
    <3>1. at'[t] = "unlock" /\ file'[t] = file[t] /\ Busy(t)' /\ file[t] \in preset'
      BY <2>4 DEF On
    <3>2. QED BY <1>r, <2>1, <2>2, <2>3, <2>4, <3>1
  <2>5. CASE Idle(t) /\ preset' = preset /\ promised' = promised \ {file[t]}
    <3>1. at'[t] = "idle" /\ file[t] \notin promised'
      BY <2>5 DEF Idle
    <3>2. QED BY <1>r, <1>u, <2>1, <2>2, <2>3, <2>5, <3>1
  <2>6. QED BY <2>1, <2>4, <2>5
<1>6. ASSUME NEW t \in Threads, Opened(t) PROVE Promises'
  <2>1. /\ at[t] = "open" /\ Rest(t) /\ at'[t] = "idle" /\ UNCHANGED <<list, preset, promised>>
        /\ port' = [port EXCEPT ![file[t]] = fd[t]]
    BY <1>6, DoesRest DEF history, Idle
  <2>2. Away(t) /\ file[t] \in Files /\ fd[t] # 0
    BY <1>t, <2>1, FdsArePositive DEF Away, Local
  <2>3. Listed' = Listed /\ node' = node
    BY <2>1 DEF list, Listed, Second
  <2>4. port'[file[t]] # 0 /\ \A f \in Files \ {file[t]} : port'[f] = port[f]
    BY <1>t, <2>1, <2>2 DEF Devices
  <2>5. file[t] \in promised' => file[t] \in preset'
    BY <1>0, <2>1 DEF Promises
  <2>6. QED BY <1>r, <1>u, <2>1, <2>2, <2>3, <2>4, <2>5
<1>7. ASSUME NEW t \in Threads, Close(t) PROVE Promises'
  <2>1. PICK f \in Files : port' = [port EXCEPT ![f] = 0] /\ promised' = promised \ {f}
    BY <1>7, DoesClose
  <2>2. Rest(t) /\ UNCHANGED <<list, preset>> /\ at[t] = "idle" /\ at'[t] = "close"
    BY <1>7, DoesClose
  <2>3. Listed' = Listed /\ node' = node
    BY <2>2 DEF list, Listed, Second
  <2>4. \A g \in Files \ {f} : port'[g] = port[g]
    BY <1>t, <2>1 DEF Devices
  <2>5. \A u \in Threads : at[u] \in {"unlock", "add", "link"} => file[u] # f \/ f \in preset'
    BY <1>0, <2>2 DEF Promises
  <2>6. QED BY <1>r, <2>1, <2>2, <2>3, <2>4, <2>5
<1>8. ASSUME NEW t \in Threads, Add(t) PROVE Promises'
  <2>1. at[t] = "add" /\ Rest(t) /\ UNCHANGED <<port, preset>>
    BY <1>8, DoesAdd DEF device
  <2>2. file[t] \in Files /\ file[t] \in preset
    BY <1>0, <1>t, <2>1 DEF Promises, Local
  <2>3. PICK n \in Nodes :
          /\ node'[n].file = file[t] /\ \A m \in Listed : node'[m] = node[m]
          /\ \/ Listed = {} /\ Listed' = {n} /\ Idle(t) /\ promised' = promised \cup {file[t]}
             \/ /\ Listed' = Listed /\ at'[t] = "link" /\ file'[t] = file[t]
                /\ promised' = promised
    BY <1>0, <1>8, AddList
  <2>4. CASE Listed = {} /\ Listed' = {n} /\ Idle(t) /\ promised' = promised \cup {file[t]}
    <3>1. at'[t] = "idle"
      BY <2>4 DEF Idle
    <3>2. QED BY <1>r, <2>1, <2>2, <2>3, <2>4, <3>1
  <2>5. CASE Listed' = Listed /\ at'[t] = "link" /\ file'[t] = file[t] /\ promised' = promised
    BY <1>r, <2>1, <2>2, <2>3, <2>5
  <2>6. QED BY <2>3, <2>4, <2>5
<1>9. ASSUME NEW t \in Threads, Link(t) PROVE Promises'
  <2>1. /\ Listed' = Listed \cup {newp[t]} /\ node[newp[t]].file = file[t]
        /\ \A m \in Nodes : node'[m].file = node[m].file
    BY <1>0, <1>9, LinkList
  <2>2. /\ at[t] = "link" /\ Rest(t) /\ at'[t] = "idle" /\ newp[t] \in Nodes
        /\ promised' = promised \cup {file[t]} /\ UNCHANGED <<port, preset>>
    BY <1>9, DoesLink DEF device, Idle
  <2>3. file[t] \in Files /\ file[t] \in preset
    BY <1>0, <1>t, <2>2 DEF Promises, Local
  <2>4. node'[newp[t]].file = file[t] /\ newp[t] \in Listed'
    BY <2>1, <2>2
  <2>5. QED BY <1>n, <1>r, <2>1, <2>2, <2>3, <2>4
<1>10. CASE Reuse
  BY <1>0, <1>10, NoReuse
<1>11. QED
  BY <1>1, <1>2, <1>3, <1>4, <1>5, <1>6, <1>7, <1>8, <1>9, <1>10
  DEF Next, FindPreopenedPorts, OpenDevice, StaticSet, NativeClose

(* While the list is intact a port opens as the last setter left its device. *)
THEOREM PresetIsKept == Spec => []PresetKept
<1>1. Init => Promised
  BY DEF Init, Promised, Promises
<1>2. Types /\ Locks /\ Owned /\ Shaped /\ Promised /\ [Next]_vars => Promised'
  BY StepPromised
<1>3. Promised => PresetKept
  BY DEF Promised, Promises, PresetKept
<1>4. QED BY <1>1, <1>2, <1>3, ListHolds, PTL DEF Spec
===============================================================================
