-------------------------- MODULE ThriftCallProofs --------------------------
(***************************************************************************)
(* What thriftServiceCall keeps to for any number of threads, servers,     *)
(* lists, retries and connections: the retries bound the requests of a     *)
(* call, a dead connection costs a call no more than the death it saw,     *)
(* requests reach the server that was selected, round robin is even, gcd   *)
(* and gcd_weight compute greatest common divisors and the selection loop  *)
(* of LoadBalanceConfigurableWeight ends.                                  *)
(***************************************************************************)
EXTENDS ThriftCall, WellFoundedInduction, TLAPS

\* Servers of one machine whose keys in the connection pool cannot meet.
PortsApart ==
  \A a, b \in Addresses : (a # b /\ a.host = b.host) =>
    a.port + MaxConn <= b.port \/ b.port + MaxConn <= a.port

\* No list names a server twice.
AddressesDistinct ==
  \A l \in AllLists : \A i, j \in DOMAIN l : AddressOf(l[i]) = AddressOf(l[j]) => i = j

FirstKey == CHOOSE k \in Keys : TRUE
Retries == Nat \cup {-1}

CallRecord ==
  [pc : PCs, option : Options, route : Routes, servers : AllLists \cup {NoList},
   connection_retry : Retries, timeout_retry : Retries, address : Addresses \cup {NoAddress},
   key : Keys \cup {FirstKey}, to : Addresses \cup {NoAddress}, alive : BOOLEAN,
   attempts : Nat, lost : Nat, broken : Nat]

Types ==
  /\ lists \in [Routes -> AllLists \cup {NoList}]
  /\ requests \in Nat /\ updates \in Nat
  /\ DOMAIN state = Threads /\ \A t \in Threads : state[t].index \in Nat \cup {-1}
  /\ pool \in [Keys -> [to : Addresses \cup {NoAddress}, good : BOOLEAN]]
  /\ call \in [Threads -> CallRecord]
  /\ turns \in [Addresses -> Nat]

\* The budgets are checked before every attempt and each attempt but the one
\* that succeeds is charged to one of them; a connection is alive when it is
\* handed out, and belongs to the address it was asked for.
CallOK(c) ==
  /\ c.pc = "select" => c.servers \in AllLists
  /\ c.pc \in {"connect", "process"} => c.address \in Addresses
  /\ c.pc \notin {"idle", "client"} => Budget(c)
  /\ c.connection_retry <= ConnectionRetry /\ c.timeout_retry <= TimeoutRetry
  /\ c.connection_retry + c.timeout_retry <= ConnectionRetry + TimeoutRetry - 1
  /\ "std" \notin Outcomes => c.attempts <= c.connection_retry + c.timeout_retry + 2
  /\ c.lost <= c.broken
  /\ (c.pc = "process" /\ ~c.alive) => c.lost + 1 <= c.broken
  /\ (PortsApart /\ c.pc = "process") => c.to = c.address

CallInv == \A t \in Threads : CallOK(call[t])

\* A connection the pool holds is under a key of its own address.
PoolInv ==
  \A k \in Keys : pool[k].good =>
    pool[k].to \in Addresses /\ \E e \in 0 .. MaxConn - 1 : k = HashKey(pool[k].to, e)

\* Until the first update a thread selects from a list that is still cached.
ServersInv ==
  updates = 0 => \A t \in Threads :
    call[t].pc = "select" => \E route \in Routes : call[t].servers = lists[route]

OneList == lists["shard"] # NoList /\ lists["edge"] \in {NoList, lists["shard"]}

\* Until then round robin has gone through the list so many times, and a part
\* of it once more.
EvenTurns(i, n, m) == m \div n + (IF i <= m % n THEN 1 ELSE 0)

TurnsInv ==
  (AddressesDistinct /\ updates = 0 /\ OneList) =>
    \A i \in 1 .. Len(lists["shard"]) :
      turns[AddressOf(lists["shard"][i])] = EvenTurns(i, Len(lists["shard"]), requests)

IInv == Types /\ CallInv /\ PoolInv /\ ServersInv /\ TurnsInv

---------------------------------------------------------------------------
(* The operators *)

\* A set of naturals has a least element.
LEMMA MinimalNatural ==
  ASSUME NEW S \in SUBSET Nat, S # {}
  PROVE  \E x \in S : \A y \in S : x <= y
<1>1. PICK x \in S : \A y \in S : ~(<<y, x>> \in OpToRel(<, Nat))
  BY NatLessThanWellFounded, WFMin
<1>2. ASSUME NEW y \in S, y < x PROVE <<y, x>> \in OpToRel(<, Nat)
  BY <1>2, Zenon DEF OpToRel
<1>3. ASSUME NEW y \in S PROVE ~(y < x)
  BY <1>1, <1>2, <1>3, Zenon
<1> QED
  BY <1>3

LEMMA LeastNatural ==
  ASSUME NEW S \in SUBSET Nat, S # {}
  PROVE  Min(S) \in S
BY MinimalNatural DEF Min

LEMMA LesserOfTwo ==
  ASSUME NEW a \in Nat, NEW b \in Nat
  PROVE  Min({a, b}) \in Nat /\ Min({a, b}) <= a
<1>1. \E x \in {a, b} : \A y \in {a, b} : x <= y
  OBVIOUS
<1>2. Min({a, b}) \in {a, b} /\ \A y \in {a, b} : Min({a, b}) <= y
  BY <1>1 DEF Min
<1> QED
  BY <1>2

LEMMA ListShape ==
  ASSUME NEW l \in AllLists
  PROVE  /\ Len(l) \in Nat \ {0} /\ DOMAIN l = 1 .. Len(l)
         /\ \A i \in DOMAIN l : l[i] \in Entries(l)
         /\ \A s \in Entries(l) : AddressOf(s) \in Addresses
<1>1. l \in Seq(Entries(l)) /\ l # << >>
  BY ConstantsAssumption
<1>2. \A s \in Entries(l) : AddressOf(s) \in Addresses
  BY DEF Addresses, AllEntries
<1> QED
  BY <1>1, <1>2

\* Every strategy returns a server of the list it was given.
LEMMA CandidatesType ==
  ASSUME NEW l \in AllLists, NEW m \in Methods \ {"roundrobin", "configurable_weight"}
  PROVE  Candidates(m, l) \subseteq Entries(l)
<1>1. RandomSelect(l) \subseteq Entries(l)
  BY DEF RandomSelect
<1>2. IdcFirstSelect(l, Idc) \subseteq Entries(l)
  BY DEF IdcFirstSelect, AnyOf
<1>3. IpRangeFirstSelect(l, LocalIp, DiffRange) \subseteq Entries(l)
  BY DEF IpRangeFirstSelect, AnyOf, Near
<1>4. LocalFirstSelect(l, LocalIp, DiffRange) \subseteq Entries(l)
  <2> DEFINE local == {i \in DOMAIN l : l[i].ip # 0 /\ l[i].ip = LocalIp}
  <2>1. CASE local = {}
    BY <1>3, <2>1 DEF LocalFirstSelect
  <2>2. CASE local # {}
    <3>1. local \in SUBSET Nat
      BY ListShape
    <3>2. Min(local) \in local
      BY <2>2, <3>1, LeastNatural
    <3>3. l[Min(local)] \in Entries(l)
      BY <3>2, ListShape
    <3> QED
      BY <2>2, <3>3 DEF LocalFirstSelect
  <2> QED
    BY <2>1, <2>2
<1>5. StaticWeightSelect(l) \subseteq Entries(l)
  BY DEF StaticWeightSelect
<1> QED
  BY <1>1, <1>2, <1>3, <1>4, <1>5 DEF Candidates, Methods

\* Keys of different servers differ.
LEMMA KeysApart ==
  ASSUME PortsApart, NEW a \in Addresses, NEW b \in Addresses,
         NEW e \in 0 .. MaxConn - 1, NEW f \in 0 .. MaxConn - 1, HashKey(a, e) = HashKey(b, f)
  PROVE  a = b
<1>1. a.host = b.host /\ a.port + e = b.port + f
  BY DEF HashKey
<1>2. a.port \in Nat /\ b.port \in Nat /\ MaxConn \in Nat
  BY ConstantsAssumption
<1> QED
  BY <1>1, <1>2 DEF PortsApart

\* Quotient and remainder are unique.
LEMMA QuotientUnique ==
  ASSUME NEW n \in Nat \ {0}, NEW a \in Nat, NEW b \in Nat,
         NEW r \in 0 .. n - 1, NEW s \in 0 .. n - 1, a * n + r = b * n + s
  PROVE  a = b /\ r = s
<1>1. a * n \in Nat /\ b * n \in Nat
  BY Z3
<1>2. ~(a < b)
  <2> SUFFICES ASSUME a < b PROVE FALSE
    OBVIOUS
  <2>1. a * n + n <= b * n
    <3>1. PICK d \in Nat : b = a + 1 + d
      <4>1. b - a - 1 \in Nat /\ b = a + 1 + (b - a - 1)
        OBVIOUS
      <4> QED
        BY <4>1
    <3>2. b * n = a * n + n + d * n /\ d * n \in Nat
      BY <3>1, Z3
    <3> QED
      BY <1>1, <3>2
  <2> QED
    BY <1>1, <2>1
<1>3. ~(b < a)
  <2> SUFFICES ASSUME b < a PROVE FALSE
    OBVIOUS
  <2>1. b * n + n <= a * n
    <3>1. PICK d \in Nat : a = b + 1 + d
      <4>1. a - b - 1 \in Nat /\ a = b + 1 + (a - b - 1)
        OBVIOUS
      <4> QED
        BY <4>1
    <3>2. a * n = b * n + n + d * n /\ d * n \in Nat
      BY <3>1, Z3
    <3> QED
      BY <1>1, <3>2
  <2> QED
    BY <1>1, <2>1
<1>4. a = b
  BY <1>2, <1>3
<1> QED
  BY <1>1, <1>4

\* One more selection goes to the next server.
LEMMA NextShare ==
  ASSUME NEW n \in Nat \ {0}, NEW m \in Nat
  PROVE  /\ m % n \in 0 .. n - 1
         /\ \A i \in 1 .. n : /\ EvenTurns(i, n, m) \in Nat
                              /\ EvenTurns(i, n, m + 1) = IF i = (m % n) + 1 THEN EvenTurns(i, n, m) + 1
                                                       ELSE EvenTurns(i, n, m)
<1> DEFINE q == m \div n
           r == m % n
<1>1. q \in Nat /\ r \in 0 .. n - 1 /\ m = q * n + r
  BY Z3
<1>2. /\ r + 1 < n => (m + 1) \div n = q /\ (m + 1) % n = r + 1
      /\ r + 1 = n => (m + 1) \div n = q + 1 /\ (m + 1) % n = 0
  <2> DEFINE p == (m + 1) \div n
             s == (m + 1) % n
  <2>1. p \in Nat /\ s \in 0 .. n - 1 /\ m + 1 = p * n + s
    BY Z3
  <2> HIDE DEF p, s, q, r
  <2>2. q * n \in Nat /\ p * n \in Nat /\ (q + 1) * n = q * n + n
    BY <1>1, <2>1, Z3
  <2>3. ASSUME r + 1 < n PROVE p = q /\ s = r + 1
    <3>1. q * n + (r + 1) = p * n + s /\ r + 1 \in 0 .. n - 1
      BY <1>1, <2>1, <2>2, <2>3
    <3> QED
      BY <1>1, <2>1, <3>1, QuotientUnique
  <2>4. ASSUME r + 1 = n PROVE p = q + 1 /\ s = 0
    <3>1. (q + 1) * n + 0 = p * n + s /\ 0 \in 0 .. n - 1 /\ q + 1 \in Nat
      BY <1>1, <2>1, <2>2, <2>4
    <3> QED
      BY <1>1, <2>1, <3>1, QuotientUnique
  <2> QED
    BY <2>3, <2>4 DEF p, s
<1> HIDE DEF q, r
<1>3. ASSUME NEW i \in 1 .. n
      PROVE  /\ q + (IF i <= r THEN 1 ELSE 0) \in Nat
             /\ (m + 1) \div n + (IF i <= (m + 1) % n THEN 1 ELSE 0)
                  = IF i = r + 1 THEN q + (IF i <= r THEN 1 ELSE 0) + 1
                    ELSE q + (IF i <= r THEN 1 ELSE 0)
  <2>1. CASE r + 1 < n
    BY <1>1, <1>2, <2>1
  <2>2. CASE r + 1 = n
    BY <1>1, <1>2, <2>2
  <2> QED
    BY <1>1, <2>1, <2>2
<1> QED
  BY <1>1, <1>3 DEF EvenTurns, q, r

---------------------------------------------------------------------------
(* gcd and gcd_weight: the functions they define by recursion exist and are   *)
(* greatest common divisors.  Induction is by a least counterexample.         *)

Divides(e, x) == \E k \in Int : x = k * e
DivisorsOf(x) == {e \in Nat \ {0} : Divides(e, x)}
CommonDivisors(a, b) == {e \in Nat \ {0} : Divides(e, a) /\ Divides(e, b)}

LEMMA DividesSum ==
  ASSUME NEW e \in Nat \ {0}, NEW x \in Int, NEW y \in Int, NEW q \in Int,
         Divides(e, x), Divides(e, y)
  PROVE  Divides(e, x + q * y) /\ Divides(e, x - q * y)
<1>1. PICK k \in Int : x = k * e
  BY DEF Divides
<1>2. PICK m \in Int : y = m * e
  BY DEF Divides
<1>3. k + q * m \in Int /\ k - q * m \in Int
  BY Z3
<1>4. x + q * y = (k + q * m) * e /\ x - q * y = (k - q * m) * e
  BY <1>1, <1>2, Z3
<1> QED
  BY <1>3, <1>4, Zenon DEF Divides

LEMMA Remainder ==
  ASSUME NEW a \in Nat, NEW b \in Nat \ {0}
  PROVE  /\ a % b \in 0 .. b - 1 /\ a \div b \in Nat
         /\ a = (a % b) + (a \div b) * b /\ a % b = a - (a \div b) * b
BY Z3

LEMMA CommonStep ==
  ASSUME NEW a \in Nat, NEW b \in Nat \ {0}
  PROVE  /\ CommonDivisors(a, b) = CommonDivisors(b, a % b)
         /\ a % b = 0 => CommonDivisors(a, b) = DivisorsOf(b)
<1> DEFINE r == a % b
           q == a \div b
<1>0. r \in 0 .. b - 1 /\ q \in Nat /\ a = r + q * b /\ r = a - q * b
  BY Remainder, Zenon
<1> HIDE DEF r, q
<1>1. a \in Int /\ b \in Int /\ r \in Int /\ q \in Int
  BY <1>0
<1>2. ASSUME NEW e \in Nat \ {0}, Divides(e, b) PROVE Divides(e, a) <=> Divides(e, r)
  <2>1. ASSUME Divides(e, a) PROVE Divides(e, r)
    <3>1. Divides(e, a - q * b)
      BY <1>1, <1>2, <2>1, DividesSum
    <3> QED
      BY <1>0, <3>1, Zenon
  <2>2. ASSUME Divides(e, r) PROVE Divides(e, a)
    <3>1. Divides(e, r + q * b)
      BY <1>1, <1>2, <2>2, DividesSum
    <3> QED
      BY <1>0, <3>1, Zenon
  <2> QED
    BY <2>1, <2>2
<1>3. ASSUME NEW e \in Nat \ {0} PROVE Divides(e, 0)
  <2>1. 0 \in Int /\ 0 = 0 * e
    OBVIOUS
  <2> QED
    BY <2>1, Zenon DEF Divides
<1>4. CommonDivisors(a, b) = CommonDivisors(b, r)
  BY <1>2 DEF CommonDivisors
<1>5. ASSUME r = 0 PROVE CommonDivisors(a, b) = DivisorsOf(b)
  BY <1>2, <1>3, <1>5 DEF CommonDivisors, DivisorsOf
<1> QED
  BY <1>4, <1>5 DEF r

LEMMA DivisorSmall ==
  ASSUME NEW e \in Nat \ {0}, NEW x \in Nat \ {0}, Divides(e, x)
  PROVE  e <= x
<1>1. PICK k \in Int : x = k * e
  BY DEF Divides
<1>2. k >= 1
  BY <1>1, Z3
<1>3. k * e = (k - 1) * e + e /\ (k - 1) * e >= 0
  BY <1>2, Z3
<1> QED
  BY <1>1, <1>3, Z3

LEMMA DivisorsTell ==
  ASSUME NEW d \in Nat \ {0}, NEW e \in Nat \ {0}, DivisorsOf(d) = DivisorsOf(e)
  PROVE  d = e
<1>1. ASSUME NEW x \in Nat \ {0} PROVE x \in DivisorsOf(x)
  <2>1. 1 \in Int /\ x = 1 * x
    OBVIOUS
  <2> QED
    BY <2>1, Zenon DEF DivisorsOf, Divides
<1>2. Divides(d, e) /\ Divides(e, d)
  BY <1>1 DEF DivisorsOf
<1>3. d <= e /\ e <= d
  BY <1>2, DivisorSmall
<1> QED
  BY <1>3

\* The number with these divisors.
NumberWith(D) == CHOOSE d \in Nat \ {0} : DivisorsOf(d) = D

LEMMA NumberWithDivisors ==
  ASSUME NEW d \in Nat \ {0}
  PROVE  NumberWith(DivisorsOf(d)) = d
<1>1. \E e \in Nat \ {0} : DivisorsOf(e) = DivisorsOf(d)
  OBVIOUS
<1>2. NumberWith(DivisorsOf(d)) \in Nat \ {0} /\ DivisorsOf(NumberWith(DivisorsOf(d))) = DivisorsOf(d)
  BY <1>1, Zenon DEF NumberWith
<1> QED
  BY <1>2, DivisorsTell

Euclid(a, b, g) ==
  g = [p \in (0 .. a + b) \X (1 .. a + b) |->
         IF p[1] % p[2] = 0 THEN p[2] ELSE g[<<p[2], p[1] % p[2]>>]]

LEMMA EuclidPair ==
  ASSUME NEW n \in Nat, NEW p \in (0 .. n) \X (1 .. n)
  PROVE  /\ p[1] \in Nat /\ p[2] \in Nat \ {0} /\ p = <<p[1], p[2]>>
         /\ p[1] % p[2] # 0 =>
              /\ <<p[2], p[1] % p[2]>> \in (0 .. n) \X (1 .. n)
              /\ p[1] % p[2] < p[2]
<1>1. p[1] \in 0 .. n /\ p[2] \in 1 .. n /\ p = <<p[1], p[2]>>
  OBVIOUS
<1> DEFINE a == p[1]
           b == p[2]
<1> HIDE DEF a, b
<1>2. a \in Nat /\ b \in Nat \ {0}
  BY <1>1 DEF a, b
<1>3. a % b \in 0 .. b - 1
  BY <1>2, Remainder
<1>4. a % b # 0 => <<b, a % b>> \in (0 .. n) \X (1 .. n) /\ a % b < b
  <2> DEFINE r == a % b
  <2> HIDE DEF r
  <2>1. r # 0 => r \in 1 .. n /\ b \in 0 .. n /\ r < b
    BY <1>1, <1>2, <1>3 DEF r, b
  <2> QED
    BY <2>1 DEF r
<1> QED
  BY <1>1, <1>2, <1>4 DEF a, b

LEMMA EuclidExists ==
  ASSUME NEW a \in Nat, NEW b \in Nat
  PROVE  \E g : Euclid(a, b, g)
<1> DEFINE P == (0 .. a + b) \X (1 .. a + b)
           G == [p \in P |-> NumberWith(CommonDivisors(p[1], p[2]))]
<1>1. ASSUME NEW p \in P
      PROVE  G[p] = IF p[1] % p[2] = 0 THEN p[2] ELSE G[<<p[2], p[1] % p[2]>>]
  <2>0. a + b \in Nat
    OBVIOUS
  <2>1. p[1] \in Nat /\ p[2] \in Nat \ {0}
    BY <2>0, EuclidPair
  <2>2. CASE p[1] % p[2] = 0
    <3>1. CommonDivisors(p[1], p[2]) = DivisorsOf(p[2])
      BY <2>1, <2>2, CommonStep
    <3>2. NumberWith(CommonDivisors(p[1], p[2])) = p[2]
      BY <2>1, <3>1, NumberWithDivisors
    <3>3. G[p] = NumberWith(CommonDivisors(p[1], p[2]))
      OBVIOUS
    <3> HIDE DEF G
    <3> QED
      BY <2>2, <3>2, <3>3
  <2>3. CASE p[1] % p[2] # 0
    <3> DEFINE q == <<p[2], p[1] % p[2]>>
    <3>1. q \in P
      BY <2>0, <2>3, EuclidPair
    <3>2. G[q] = NumberWith(CommonDivisors(q[1], q[2]))
      BY <3>1
    <3>3. q[1] = p[2] /\ q[2] = p[1] % p[2]
      OBVIOUS
    <3>4. CommonDivisors(p[1], p[2]) = CommonDivisors(p[2], p[1] % p[2])
      BY <2>1, CommonStep
    <3>5. G[p] = NumberWith(CommonDivisors(p[1], p[2]))
      OBVIOUS
    <3>6. G[p] = G[q]
      <4> HIDE DEF G, q
      <4> QED
        BY <3>2, <3>3, <3>4, <3>5, Zenon
    <3> HIDE DEF G
    <3> QED
      BY <2>3, <3>6
  <2> QED
    BY <2>2, <2>3
<1>2. G = [p \in P |-> G[p]]
  OBVIOUS
<1> HIDE DEF G
<1>3. G = [p \in P |-> IF p[1] % p[2] = 0 THEN p[2] ELSE G[<<p[2], p[1] % p[2]>>]]
  BY <1>1, <1>2, Zenon
<1> QED
  BY <1>3, Zenon DEF Euclid

\* Whatever solves the recursion is the greatest common divisor.
LEMMA EuclidSolves ==
  ASSUME NEW a \in Nat, NEW b \in Nat, NEW g, Euclid(a, b, g),
         NEW p \in (0 .. a + b) \X (1 .. a + b)
  PROVE  g[p] \in Nat \ {0} /\ DivisorsOf(g[p]) = CommonDivisors(p[1], p[2])
<1> DEFINE P == (0 .. a + b) \X (1 .. a + b)
           Right(q) == g[q] \in Nat \ {0} /\ DivisorsOf(g[q]) = CommonDivisors(q[1], q[2])
           Wrong == {n \in Nat : \E q \in P : q[2] = n /\ ~Right(q)}
<1>0. a + b \in Nat
  OBVIOUS
<1>1. ASSUME NEW q \in P PROVE g[q] = IF q[1] % q[2] = 0 THEN q[2] ELSE g[<<q[2], q[1] % q[2]>>]
  BY Zenon DEF Euclid
<1>2. ASSUME Wrong # {} PROVE FALSE
  <2>0. Wrong \in SUBSET Nat
    OBVIOUS
  <2>1. PICK n \in Wrong : \A m \in Wrong : n <= m
    BY <1>2, <2>0, MinimalNatural
  <2>2. PICK q \in P : q[2] = n /\ ~Right(q)
    BY <2>1
  <2>3. q[1] \in Nat /\ q[2] \in Nat \ {0}
    BY <1>0, EuclidPair
  <2>4. CASE q[1] % q[2] = 0
    <3>1. g[q] = q[2]
      BY <1>1, <2>4
    <3>2. CommonDivisors(q[1], q[2]) = DivisorsOf(q[2])
      BY <2>3, <2>4, CommonStep
    <3> QED
      BY <2>2, <2>3, <3>1, <3>2
  <2>5. CASE q[1] % q[2] # 0
    <3> DEFINE r == <<q[2], q[1] % q[2]>>
    <3>1. r \in P /\ q[1] % q[2] < q[2]
      BY <1>0, <2>5, EuclidPair
    <3>2. r[1] = q[2] /\ r[2] = q[1] % q[2]
      OBVIOUS
    <3>3. g[q] = g[r]
      BY <1>1, <2>5
    <3>4. CommonDivisors(q[1], q[2]) = CommonDivisors(r[1], r[2])
      BY <2>3, <3>2, CommonStep
    <3> HIDE DEF r
    <3>5. ~Right(r)
      BY <2>2, <3>3, <3>4
    <3>6. r[2] \in Nat /\ r[2] < n
      <4>1. r[2] \in Nat
        BY <1>0, <3>1, EuclidPair
      <4> QED
        BY <2>2, <3>1, <3>2, <4>1
    <3>7. r[2] \in Wrong
      BY <3>1, <3>5, <3>6
    <3>8. n <= r[2] /\ n \in Nat
      BY <2>1, <3>7
    <3> QED
      BY <3>6, <3>8
  <2> QED
    BY <2>4, <2>5
<1>3. p[2] \in Nat
  BY <1>0, EuclidPair
<1>4. Right(p)
  BY <1>2, <1>3
<1> QED
  BY <1>4

\* Euclid's recursion ends in the greatest common divisor.
LEMMA GcdIs ==
  ASSUME NEW a \in Nat, NEW b \in Nat \ {0}
  PROVE  gcd(a, b) \in Nat \ {0} /\ DivisorsOf(gcd(a, b)) = CommonDivisors(a, b)
<1> DEFINE g == CHOOSE f : Euclid(a, b, f)
<1>1. Euclid(a, b, g)
  BY EuclidExists, Zenon
<1>2. gcd(a, b) = g[<<a, b>>]
  BY Zenon DEF gcd, Euclid
<1>3. <<a, b>> \in (0 .. a + b) \X (1 .. a + b) /\ <<a, b>>[1] = a /\ <<a, b>>[2] = b
  OBVIOUS
<1> HIDE DEF g
<1> QED
  BY <1>1, <1>2, <1>3, EuclidSolves

\* A list of at least two servers that gcd_weight does not trap on.
Weighted(servers) ==
  /\ Len(servers) \in Nat /\ Len(servers) > 1
  /\ \A i \in 1 .. Len(servers) : servers[i].weight \in Nat
  /\ GcdDefined(servers)

\* What divides the weights the loop of gcd_weight has seen after turn i.
SharedDivisors(servers, i) ==
  {e \in Nat \ {0} : /\ Divides(e, servers[1].weight) /\ Divides(e, servers[2].weight)
                     /\ \A j \in 1 .. i : Divides(e, servers[j].weight)}

Folded(servers, g) ==
  g = [i \in 1 .. Len(servers) |->
         IF i = 1 THEN gcd(servers[1].weight, servers[2].weight) ELSE gcd(g[i - 1], servers[i].weight)]

LEMMA SharedStep ==
  ASSUME NEW servers, Weighted(servers)
  PROVE  /\ LET d == gcd(servers[1].weight, servers[2].weight)
            IN  d \in Nat \ {0} /\ DivisorsOf(d) = SharedDivisors(servers, 1)
         /\ \A i \in 2 .. Len(servers) - 1, c \in Nat \ {0} :
              DivisorsOf(c) = SharedDivisors(servers, i - 1) =>
                LET d == gcd(c, servers[i].weight)
                IN  d \in Nat \ {0} /\ DivisorsOf(d) = SharedDivisors(servers, i)
<1> DEFINE w(i) == servers[i].weight
<1>1. w(1) \in Nat /\ w(2) \in Nat \ {0}
  BY DEF Weighted, GcdDefined
<1>2. DivisorsOf(gcd(w(1), w(2))) = SharedDivisors(servers, 1) /\ gcd(w(1), w(2)) \in Nat \ {0}
  <2>1. CommonDivisors(w(1), w(2)) = SharedDivisors(servers, 1)
    <3>1. \A j \in 1 .. 1 : j = 1
      OBVIOUS
    <3> QED
      BY <3>1, Zenon DEF CommonDivisors, SharedDivisors
  <2> QED
    BY <1>1, <2>1, GcdIs
<1>3. ASSUME NEW i \in 2 .. Len(servers) - 1, NEW c \in Nat \ {0},
             DivisorsOf(c) = SharedDivisors(servers, i - 1)
      PROVE  gcd(c, w(i)) \in Nat \ {0} /\ DivisorsOf(gcd(c, w(i))) = SharedDivisors(servers, i)
  <2>1. w(i) \in Nat \ {0} /\ i \in Nat /\ i >= 2
    BY DEF Weighted, GcdDefined
  <2>2. DivisorsOf(gcd(c, w(i))) = CommonDivisors(c, w(i)) /\ gcd(c, w(i)) \in Nat \ {0}
    BY <2>1, GcdIs
  <2>3. \A j : j \in 1 .. i <=> j \in 1 .. i - 1 \/ j = i
    BY <2>1
  <2> HIDE DEF w
  <2>4. ASSUME NEW e \in Nat \ {0}
        PROVE  Divides(e, c) /\ Divides(e, w(i)) <=> e \in SharedDivisors(servers, i)
    <3>1. Divides(e, c) <=> e \in SharedDivisors(servers, i - 1)
      BY <1>3 DEF DivisorsOf
    <3>2. e \in SharedDivisors(servers, i - 1) <=>
            Divides(e, w(1)) /\ Divides(e, w(2)) /\ \A j \in 1 .. i - 1 : Divides(e, w(j))
      BY Zenon DEF SharedDivisors, w
    <3>3. e \in SharedDivisors(servers, i) <=>
            Divides(e, w(1)) /\ Divides(e, w(2)) /\ \A j \in 1 .. i : Divides(e, w(j))
      BY Zenon DEF SharedDivisors, w
    <3> QED
      BY <2>3, <3>1, <3>2, <3>3, Zenon
  <2>5. CommonDivisors(c, w(i)) = SharedDivisors(servers, i)
    BY <2>4 DEF CommonDivisors, SharedDivisors
  <2> QED
    BY <2>2, <2>5
<1> QED
  BY <1>2, <1>3

LEMMA SharedExists ==
  ASSUME NEW servers, Weighted(servers), NEW i \in 1 .. Len(servers) - 1
  PROVE  \E d \in Nat \ {0} : DivisorsOf(d) = SharedDivisors(servers, i)
<1> DEFINE n == Len(servers)
           Right(k) == \E d \in Nat \ {0} : DivisorsOf(d) = SharedDivisors(servers, k)
           Wrong == {k \in Nat : k \in 1 .. n - 1 /\ ~Right(k)}
<1>0. n \in Nat
  BY DEF Weighted
<1>1. ASSUME Wrong # {} PROVE FALSE
  <2>0. Wrong \in SUBSET Nat
    OBVIOUS
  <2>1. PICK k \in Wrong : \A m \in Wrong : k <= m
    BY <1>1, <2>0, MinimalNatural
  <2>2. k \in Nat /\ k \in 1 .. n - 1 /\ ~Right(k)
    BY <2>1
  <2>3. CASE k = 1
    BY <2>2, <2>3, SharedStep
  <2>4. CASE k # 1
    <3>1. k \in 2 .. n - 1 /\ k - 1 \in Nat /\ k - 1 \in 1 .. n - 1 /\ ~(k <= k - 1)
      BY <1>0, <2>2, <2>4
    <3>2. Right(k - 1)
      BY <2>1, <3>1
    <3>3. PICK c \in Nat \ {0} : DivisorsOf(c) = SharedDivisors(servers, k - 1)
      BY <3>2
    <3>4. Right(k)
      BY <3>1, <3>3, SharedStep
    <3> QED
      BY <2>2, <3>4
  <2> QED
    BY <2>3, <2>4
<1>2. i \in Nat
  BY <1>0
<1> QED
  BY <1>1, <1>2

LEMMA FoldExists ==
  ASSUME NEW servers, Weighted(servers)
  PROVE  \E g : Folded(servers, g)
<1> DEFINE n == Len(servers)
           N(i) == NumberWith(SharedDivisors(servers, i))
           F == [i \in 1 .. n |-> IF i < n THEN N(i) ELSE gcd(N(n - 1), servers[n].weight)]
<1>0. n \in Nat /\ n > 1
  BY DEF Weighted
<1>1. ASSUME NEW i \in 1 .. n - 1 PROVE N(i) \in Nat \ {0} /\ DivisorsOf(N(i)) = SharedDivisors(servers, i)
  BY SharedExists, Zenon DEF NumberWith
<1>2. ASSUME NEW i \in 1 .. n - 1, NEW d \in Nat \ {0}, DivisorsOf(d) = SharedDivisors(servers, i)
      PROVE  d = N(i)
  BY <1>2, NumberWithDivisors, Zenon
<1> HIDE DEF N
<1>3. ASSUME NEW i \in 1 .. n
      PROVE  F[i] = IF i = 1 THEN gcd(servers[1].weight, servers[2].weight) ELSE gcd(F[i - 1], servers[i].weight)
  <2>1. CASE i = 1
    <3>1. 1 \in 1 .. n - 1 /\ 1 \in 1 .. n /\ 1 < n
      BY <1>0
    <3>2. gcd(servers[1].weight, servers[2].weight) = N(1)
      BY <1>2, <3>1, SharedStep
    <3>3. F[1] = N(1)
      BY <3>1
    <3> HIDE DEF F
    <3> QED
      BY <2>1, <3>2, <3>3
  <2>2. CASE i # 1
    <3>1. i - 1 \in 1 .. n - 1 /\ i - 1 \in 1 .. n /\ i - 1 < n /\ i \in Nat
      BY <1>0, <2>2
    <3>2. F[i - 1] = N(i - 1)
      BY <3>1
    <3>3. F[i] = gcd(N(i - 1), servers[i].weight)
      <4>1. CASE i = n
        BY <1>0, <4>1
      <4>2. CASE i < n
        <5>1. i \in 2 .. n - 1 /\ i \in 1 .. n - 1
          BY <1>0, <2>2, <3>1, <4>2
        <5>2. N(i - 1) \in Nat \ {0} /\ DivisorsOf(N(i - 1)) = SharedDivisors(servers, i - 1)
          BY <1>1, <3>1
        <5> DEFINE d == gcd(N(i - 1), servers[i].weight)
        <5>3. d \in Nat \ {0} /\ DivisorsOf(d) = SharedDivisors(servers, i)
          BY <5>1, <5>2, SharedStep
        <5> HIDE DEF d
        <5>4. d = N(i)
          BY <1>2, <5>1, <5>3
        <5>5. F[i] = N(i)
          BY <4>2
        <5> HIDE DEF F
        <5> QED
          BY <5>4, <5>5 DEF d
      <4> QED
        BY <1>0, <3>1, <4>1, <4>2
    <3> HIDE DEF F
    <3> QED
      BY <2>2, <3>2, <3>3
  <2> QED
    BY <2>1, <2>2
<1>4. F = [i \in 1 .. n |-> F[i]]
  OBVIOUS
<1> HIDE DEF F
<1>5. F = [i \in 1 .. n |->
             IF i = 1 THEN gcd(servers[1].weight, servers[2].weight) ELSE gcd(F[i - 1], servers[i].weight)]
  BY <1>3, <1>4, Zenon
<1> QED
  BY <1>5, Zenon DEF Folded

LEMMA FoldSolves ==
  ASSUME NEW servers, Weighted(servers), NEW g, Folded(servers, g), NEW i \in 1 .. Len(servers) - 1
  PROVE  g[i] \in Nat \ {0} /\ DivisorsOf(g[i]) = SharedDivisors(servers, i)
<1> DEFINE n == Len(servers)
           Right(k) == g[k] \in Nat \ {0} /\ DivisorsOf(g[k]) = SharedDivisors(servers, k)
           Wrong == {k \in Nat : k \in 1 .. n - 1 /\ ~Right(k)}
<1>0. n \in Nat /\ n > 1
  BY DEF Weighted
<1>1. ASSUME NEW k \in 1 .. n
      PROVE  g[k] = IF k = 1 THEN gcd(servers[1].weight, servers[2].weight) ELSE gcd(g[k - 1], servers[k].weight)
  BY Zenon DEF Folded
<1>2. ASSUME Wrong # {} PROVE FALSE
  <2>0. Wrong \in SUBSET Nat
    OBVIOUS
  <2>1. PICK k \in Wrong : \A m \in Wrong : k <= m
    BY <1>2, <2>0, MinimalNatural
  <2>2. k \in Nat /\ k \in 1 .. n - 1 /\ ~Right(k) /\ k \in 1 .. n
    BY <1>0, <2>1
  <2>3. CASE k = 1
    <3>1. g[1] = gcd(servers[1].weight, servers[2].weight)
      BY <1>1, <2>2, <2>3
    <3> QED
      BY <2>2, <2>3, <3>1, SharedStep
  <2>4. CASE k # 1
    <3>1. k \in 2 .. n - 1 /\ k - 1 \in Nat /\ k - 1 \in 1 .. n - 1 /\ ~(k <= k - 1)
      BY <1>0, <2>2, <2>4
    <3>2. Right(k - 1)
      BY <2>1, <3>1
    <3>3. g[k] = gcd(g[k - 1], servers[k].weight)
      BY <1>1, <2>2, <2>4
    <3>4. Right(k)
      BY <3>1, <3>2, <3>3, SharedStep
    <3> QED
      BY <2>2, <3>4
  <2> QED
    BY <2>3, <2>4
<1>3. i \in Nat
  BY <1>0
<1> QED
  BY <1>2, <1>3

\* gcd_weight is the greatest common divisor of the weights its loop looks at:
\* all but the last, or both of two.
LEMMA GcdWeightIs ==
  ASSUME NEW servers, Weighted(servers)
  PROVE  /\ gcd_weight(servers) \in Nat \ {0}
         /\ DivisorsOf(gcd_weight(servers)) = SharedDivisors(servers, Len(servers) - 1)
<1> DEFINE g == CHOOSE f : Folded(servers, f)
<1>0. Len(servers) \in Nat /\ Len(servers) > 1
  BY DEF Weighted
<1>1. Folded(servers, g)
  BY FoldExists, Zenon
<1>2. Len(servers) # 1
  BY <1>0
<1>3. gcd_weight(servers) = g[Len(servers) - 1]
  BY <1>2, Zenon DEF gcd_weight, Folded
<1> HIDE DEF g
<1>4. Len(servers) - 1 \in 1 .. Len(servers) - 1
  BY <1>0
<1> QED
  BY <1>1, <1>3, <1>4, FoldSolves

LEMMA MaxWeightIs ==
  ASSUME NEW servers, Len(servers) \in Nat, DOMAIN servers = 1 .. Len(servers),
         \A i \in 1 .. Len(servers) : servers[i].weight \in Nat
  PROVE  /\ max_weight(servers) \in Nat
         /\ \A i \in 1 .. Len(servers) : servers[i].weight <= max_weight(servers)
         /\ max_weight(servers) # 0 => \E i \in 1 .. Len(servers) : servers[i].weight = max_weight(servers)
<1> DEFINE n == Len(servers)
           w(i) == servers[i].weight
           S(k) == {w(i) : i \in 1 .. k} \cup {0}
           Top(k) == \E x \in S(k) : \A y \in S(k) : x >= y
           Wrong == {k \in Nat : k \in 0 .. n /\ ~Top(k)}
<1>1. ASSUME Wrong # {} PROVE FALSE
  <2>0. Wrong \in SUBSET Nat
    OBVIOUS
  <2>1. PICK k \in Wrong : \A m \in Wrong : k <= m
    BY <1>1, <2>0, MinimalNatural
  <2>2. k \in Nat /\ k \in 0 .. n /\ ~Top(k)
    BY <2>1
  <2>3. CASE k = 0
    <3>1. S(0) = {0}
      OBVIOUS
    <3> QED
      BY <2>2, <2>3, <3>1
  <2>4. CASE k # 0
    <3>1. k - 1 \in Nat /\ k - 1 \in 0 .. n /\ ~(k <= k - 1)
      BY <2>2, <2>4
    <3>2. Top(k - 1)
      <4> HIDE DEF Top
      <4> QED
        BY <2>1, <3>1
    <3>3. S(k) = S(k - 1) \cup {w(k)}
      <4>1. \A j : j \in 1 .. k <=> j \in 1 .. k - 1 \/ j = k
        BY <2>2, <2>4
      <4> HIDE DEF w
      <4> QED
        BY <4>1
    <3>4. S(k - 1) \subseteq Nat /\ w(k) \in Nat
      BY <2>2, <2>4
    <3> HIDE DEF S, w
    <3>5. PICK x \in S(k - 1) : \A y \in S(k - 1) : x >= y
      BY <3>2
    <3>6. CASE x >= w(k)
      BY <2>2, <3>3, <3>4, <3>5, <3>6
    <3>7. CASE ~(x >= w(k))
      <4>1. \A y \in S(k) : w(k) >= y
        BY <3>3, <3>4, <3>5, <3>7
      <4> QED
        BY <2>2, <3>3, <4>1
    <3> QED
      BY <3>6, <3>7
  <2> QED
    BY <2>3, <2>4
<1>2. Top(n)
  <2>1. n \in Nat /\ n \in 0 .. n
    OBVIOUS
  <2> HIDE DEF Top
  <2> QED
    BY <1>1, <2>1
<1>3. S(n) = {s.weight : s \in Entries(servers)} \cup {0} /\ S(n) \subseteq Nat
  BY DEF Entries
<1>4. max_weight(servers) = Max(S(n))
  BY <1>3, Zenon DEF max_weight, Max0
<1> HIDE DEF S
<1>5. Max(S(n)) \in S(n) /\ \A y \in S(n) : Max(S(n)) >= y
  BY <1>2, Zenon DEF Max
<1>6. \A i \in 1 .. n : w(i) \in S(n)
  BY DEF S
<1>7. \A x \in S(n) : x = 0 \/ \E i \in 1 .. n : x = w(i)
  BY DEF S
<1> QED
  BY <1>3, <1>4, <1>5, <1>6, <1>7

---------------------------------------------------------------------------
(* The actions *)

LEMMA IdleOK ==
  /\ Idle \in CallRecord /\ CallOK(Idle) /\ Idle.pc = "idle"
  /\ \A o \in Options : LET c == [Idle EXCEPT !.pc = "client", !.option = o]
                        IN  c \in CallRecord /\ CallOK(c) /\ c.pc = "client"
<1>1. (CHOOSE o \in Options : TRUE) \in Options
  BY ConstantsAssumption
<1>2. Idle \in CallRecord
  BY <1>1 DEF Idle, CallRecord, PCs, Routes, Retries, FirstKey
<1>3. /\ Idle.pc = "idle" /\ Idle.connection_retry = -1 /\ Idle.timeout_retry = -1
      /\ Idle.attempts = 0 /\ Idle.lost = 0 /\ Idle.broken = 0
  BY DEF Idle
<1>4. CallOK(Idle)
  BY <1>3, ConstantsAssumption DEF CallOK
<1>5. ASSUME NEW o \in Options
      PROVE  LET c == [Idle EXCEPT !.pc = "client", !.option = o]
             IN  c \in CallRecord /\ CallOK(c) /\ c.pc = "client"
  <2> DEFINE c == [Idle EXCEPT !.pc = "client", !.option = o]
  <2> HIDE DEF Idle
  <2>1. /\ c \in CallRecord /\ c.pc = "client"
        /\ c.connection_retry = -1 /\ c.timeout_retry = -1
        /\ c.attempts = 0 /\ c.lost = 0 /\ c.broken = 0
    BY <1>2, <1>3 DEF CallRecord, PCs
  <2> HIDE DEF c
  <2>2. CallOK(c)
    BY <2>1, ConstantsAssumption DEF CallOK
  <2> QED
    BY <2>1, <2>2 DEF c
<1> QED
  BY <1>2, <1>3, <1>4, <1>5

LEMMA InitIInv == Init => IInv
<1> SUFFICES ASSUME Init PROVE IInv
  OBVIOUS
<1>1. Types
  <2>1. NoConn \in [to : Addresses \cup {NoAddress}, good : BOOLEAN]
    BY DEF NoConn
  <2>2. lists \in [Routes -> AllLists \cup {NoList}]
    BY DEF Init
  <2>3. DOMAIN state = Threads /\ \A t \in Threads : state[t].index \in Nat \cup {-1}
    BY DEF Init, FirstState
  <2>4. call \in [Threads -> CallRecord]
    BY IdleOK DEF Init
  <2> QED
    BY <2>1, <2>2, <2>3, <2>4 DEF Init, Types
<1>2. CallInv
  <2> SUFFICES ASSUME NEW t \in Threads PROVE CallOK(call[t])
    BY DEF CallInv
  <2>1. call[t] = Idle
    BY DEF Init
  <2> QED
    BY <2>1, IdleOK
<1>3. PoolInv
  BY DEF Init, PoolInv, NoConn
<1>4. ServersInv
  BY IdleOK DEF Init, ServersInv
<1>5. TurnsInv
  <2> SUFFICES ASSUME OneList, NEW i \in 1 .. Len(lists["shard"])
               PROVE  turns[AddressOf(lists["shard"][i])] = EvenTurns(i, Len(lists["shard"]), 0)
    BY DEF Init, TurnsInv
  <2> DEFINE l == lists["shard"]
  <2>1. l \in AllLists
    BY <1>1 DEF Types, Routes, OneList
  <2>2. Len(l) \in Nat \ {0} /\ AddressOf(l[i]) \in Addresses
    BY <2>1, ListShape
  <2> HIDE DEF l
  <2>3. 0 \div Len(l) = 0 /\ 0 % Len(l) = 0
    BY <2>2, Z3
  <2>4. EvenTurns(i, Len(l), 0) = 0
    <3>1. i \in 1 .. Len(l)
      BY DEF l
    <3>2. ~(i <= 0)
      BY <2>2, <3>1
    <3> QED
      BY <2>3, <3>2 DEF EvenTurns
  <2>5. turns[AddressOf(l[i])] = 0
    BY <2>2 DEF Init
  <2> QED
    BY <2>4, <2>5 DEF l
<1> QED
  BY <1>1, <1>2, <1>3, <1>4, <1>5 DEF IInv

\* A thread takes a step.
LEMMA ThreadStep ==
  ASSUME IInv, NEW t \in Threads, NEW c \in CallRecord, CallOK(c), call' = [call EXCEPT ![t] = c],
         UNCHANGED <<lists, updates>>,
         c.pc = "select" => \/ call[t].pc = "select" /\ c.servers = call[t].servers
                            \/ \E route \in Routes : c.servers = lists[route]
  PROVE  call' \in [Threads -> CallRecord] /\ CallInv' /\ ServersInv'
<1>1. /\ call' \in [Threads -> CallRecord] /\ call'[t] = c
      /\ \A u \in Threads : u # t => call'[u] = call[u]
  BY DEF IInv, Types
<1>2. CallInv'
  <2> SUFFICES ASSUME NEW u \in Threads PROVE CallOK(call'[u])
    BY DEF CallInv, CallOK, Budget
  <2>1. CallOK(call[u])
    BY DEF IInv, CallInv
  <2>2. CASE u = t
    BY <1>1, <2>2
  <2>3. CASE u # t
    BY <1>1, <2>1, <2>3
  <2> QED
    BY <2>2, <2>3
<1>3. ServersInv'
  <2> SUFFICES ASSUME updates = 0, NEW u \in Threads, call'[u].pc = "select"
               PROVE  \E route \in Routes : call'[u].servers = lists[route]
    BY DEF ServersInv
  <2>1. call[u].pc = "select" => \E route \in Routes : call[u].servers = lists[route]
    BY DEF IInv, ServersInv
  <2>2. CASE u = t
    BY <1>1, <2>1, <2>2
  <2>3. CASE u # t
    BY <1>1, <2>1, <2>3
  <2> QED
    BY <2>2, <2>3
<1> QED
  BY <1>1, <1>2, <1>3

\* A thread takes a step that only changes its own call.
LEMMA OwnStep ==
  ASSUME IInv, NEW t \in Threads, NEW c \in CallRecord, CallOK(c), call' = [call EXCEPT ![t] = c],
         UNCHANGED <<lists, requests, state, pool, updates, turns>>,
         c.pc = "select" => \/ call[t].pc = "select" /\ c.servers = call[t].servers
                            \/ \E route \in Routes : c.servers = lists[route]
  PROVE  IInv'
<1>1. call' \in [Threads -> CallRecord] /\ CallInv' /\ ServersInv'
  BY ThreadStep
<1>2. Types' /\ PoolInv'
  BY <1>1 DEF IInv, Types, PoolInv
<1>3. TurnsInv'
  BY DEF IInv, TurnsInv, OneList
<1> QED
  BY <1>1, <1>2, <1>3 DEF IInv

LEMMA CallIInv ==
  ASSUME IInv, NEW t \in Threads, Call(t) PROVE IInv'
<1>1. PICK o \in Options : call' = [call EXCEPT ![t] = [Idle EXCEPT !.pc = "client", !.option = o]]
  BY DEF Call
<1> DEFINE c == [Idle EXCEPT !.pc = "client", !.option = o]
<1>2. c \in CallRecord /\ CallOK(c) /\ c.pc = "client"
  BY IdleOK
<1>3. call' = [call EXCEPT ![t] = c]
  BY <1>1
<1> HIDE DEF c
<1> QED
  BY <1>2, <1>3, OwnStep DEF Call

LEMMA GiveUpIInv ==
  ASSUME IInv, NEW t \in Threads, GiveUp(t) PROVE IInv'
<1>1. call' = [call EXCEPT ![t] = Idle]
  BY DEF GiveUp
<1> QED
  BY <1>1, IdleOK, OwnStep DEF GiveUp

LEMMA ServiceClientIInv ==
  ASSUME IInv, NEW t \in Threads, ServiceClient(t) PROVE IInv'
<1> DEFINE d == call[t]
           c == [d EXCEPT !.pc = "connect", !.address = d.option.target]
<1>1. call' = [call EXCEPT ![t] = c]
  BY DEF ServiceClient
<1>2. d \in CallRecord /\ CallOK(d) /\ Budget(d)
  BY DEF IInv, Types, CallInv, ServiceClient
<1>3. d.option.target \in Addresses
  BY <1>2 DEF CallRecord, Addresses, ServiceClient
<1> HIDE DEF d
<1>4. /\ c \in CallRecord /\ c.pc = "connect" /\ c.address = d.option.target
      /\ c.connection_retry = d.connection_retry /\ c.timeout_retry = d.timeout_retry
      /\ c.attempts = d.attempts /\ c.lost = d.lost /\ c.broken = d.broken
  BY <1>2, <1>3 DEF CallRecord, PCs
<1> HIDE DEF c
<1>5. CallOK(c)
  BY <1>2, <1>3, <1>4 DEF CallOK, Budget
<1> QED
  BY <1>1, <1>4, <1>5, OwnStep DEF ServiceClient

\* No server was found: the next route, or one connection retry less.
LEMMA NextRouteOK ==
  ASSUME NEW c \in CallRecord, CallOK(c), Budget(c)
  PROVE  NextRoute(c) \in CallRecord /\ CallOK(NextRoute(c)) /\ NextRoute(c).pc \in {"client", "shard"}
<1>1. c.connection_retry \in Retries /\ c.timeout_retry \in Retries /\ c.attempts \in Nat
  BY DEF CallRecord
<1>2. CASE c.route = "edge"
  <2> DEFINE d == [c EXCEPT !.pc = "shard"]
  <2>1. /\ d \in CallRecord /\ d.pc = "shard"
        /\ d.connection_retry = c.connection_retry /\ d.timeout_retry = c.timeout_retry
        /\ d.attempts = c.attempts /\ d.lost = c.lost /\ d.broken = c.broken
    BY DEF CallRecord, PCs
  <2>2. NextRoute(c) = d
    BY <1>2 DEF NextRoute
  <2> HIDE DEF d
  <2>3. CallOK(d)
    BY <2>1 DEF CallOK, Budget
  <2> QED
    BY <2>1, <2>2, <2>3
<1>3. CASE c.route # "edge"
  <2> DEFINE d == [c EXCEPT !.pc = "client", !.connection_retry = c.connection_retry + 1]
  <2>0. c.connection_retry + 1 \in Retries
    BY <1>1 DEF Retries
  <2>1. /\ d \in CallRecord /\ d.pc = "client"
        /\ d.connection_retry = c.connection_retry + 1 /\ d.timeout_retry = c.timeout_retry
        /\ d.attempts = c.attempts /\ d.lost = c.lost /\ d.broken = c.broken
    BY <2>0 DEF CallRecord, PCs
  <2>2. NextRoute(c) = d
    BY <1>3 DEF NextRoute, NoClient
  <2> HIDE DEF d
  <2>3. CallOK(d)
    <3>1. /\ c.connection_retry < ConnectionRetry /\ c.timeout_retry < TimeoutRetry
          /\ "std" \notin Outcomes => c.attempts <= c.connection_retry + c.timeout_retry + 2
          /\ c.lost <= c.broken
      BY DEF CallOK, Budget
    <3>2. ConnectionRetry \in Nat /\ TimeoutRetry \in Nat
      BY ConstantsAssumption
    <3>3. /\ d.connection_retry <= ConnectionRetry /\ d.timeout_retry <= TimeoutRetry
          /\ d.connection_retry + d.timeout_retry <= ConnectionRetry + TimeoutRetry - 1
          /\ "std" \notin Outcomes => d.attempts <= d.connection_retry + d.timeout_retry + 2
      BY <1>1, <2>1, <3>1, <3>2 DEF Retries
    <3> QED
      BY <2>1, <3>1, <3>3 DEF CallOK
  <2> QED
    BY <2>1, <2>2, <2>3
<1> QED
  BY <1>2, <1>3

\* A server of the list was selected.
LEMMA SelectedOK ==
  ASSUME NEW c \in CallRecord, CallOK(c), Budget(c), NEW l \in AllLists, NEW s \in Entries(l)
  PROVE  Selected(c, s) \in CallRecord /\ CallOK(Selected(c, s)) /\ Selected(c, s).pc = "connect"
<1> DEFINE d == Selected(c, s)
<1>1. AddressOf(s) \in Addresses
  BY ListShape
<1>2. /\ d \in CallRecord /\ d.pc = "connect" /\ d.address = AddressOf(s)
      /\ d.connection_retry = c.connection_retry /\ d.timeout_retry = c.timeout_retry
      /\ d.attempts = c.attempts /\ d.lost = c.lost /\ d.broken = c.broken
  BY <1>1 DEF Selected, CallRecord, PCs, Routes
<1> HIDE DEF d
<1>3. CallOK(d)
  BY <1>1, <1>2 DEF CallOK, Budget
<1> QED
  BY <1>2, <1>3 DEF d

LEMMA DiscoverIInv ==
  ASSUME IInv, NEW t \in Threads, Discover(t) PROVE IInv'
<1> DEFINE route == RouteOf(call[t])
           c == [call[t] EXCEPT !.route = route]
           d == [c EXCEPT !.pc = "select", !.servers = lists[route]]
<1>1. call' = [call EXCEPT ![t] = IF lists[route] = NoList THEN NextRoute(c) ELSE d]
  BY DEF Discover
<1>2. call[t] \in CallRecord /\ CallOK(call[t]) /\ lists \in [Routes -> AllLists \cup {NoList}]
  BY DEF IInv, Types, CallInv
<1>3. Budget(call[t]) /\ call[t].pc \in {"client", "shard"}
  BY <1>2 DEF Discover, CallOK
<1>4. route \in Routes
  BY DEF RouteOf, Routes
<1> HIDE DEF route
<1>5. /\ c \in CallRecord /\ c.pc = call[t].pc
      /\ c.connection_retry = call[t].connection_retry /\ c.timeout_retry = call[t].timeout_retry
      /\ c.attempts = call[t].attempts /\ c.lost = call[t].lost /\ c.broken = call[t].broken
  BY <1>2, <1>4 DEF CallRecord
<1> HIDE DEF c
<1>6. CallOK(c) /\ Budget(c)
  BY <1>2, <1>3, <1>5 DEF CallOK, Budget
<1>7. CASE lists[route] = NoList
  BY <1>1, <1>5, <1>6, <1>7, NextRouteOK, OwnStep DEF Discover
<1>8. CASE lists[route] # NoList
  <2>1. lists[route] \in AllLists
    BY <1>2, <1>4, <1>8
  <2>2. /\ d \in CallRecord /\ d.pc = "select" /\ d.servers = lists[route]
        /\ d.connection_retry = c.connection_retry /\ d.timeout_retry = c.timeout_retry
        /\ d.attempts = c.attempts /\ d.lost = c.lost /\ d.broken = c.broken
    BY <1>5, <2>1 DEF CallRecord, PCs
  <2>3. call' = [call EXCEPT ![t] = d]
    BY <1>1, <1>8
  <2> HIDE DEF d
  <2>4. CallOK(d)
    BY <1>6, <2>1, <2>2 DEF CallOK, Budget
  <2> QED
    BY <1>4, <2>2, <2>3, <2>4, OwnStep DEF Discover
<1> QED
  BY <1>7, <1>8

LEMMA SelectIInv ==
  ASSUME IInv, NEW t \in Threads, Select(t) PROVE IInv'
<1>1. PICK s \in Candidates(call[t].option.method, call[t].servers) :
         call' = [call EXCEPT ![t] = Selected(call[t], s)]
  BY DEF Select
<1>2. call[t] \in CallRecord /\ CallOK(call[t]) /\ call[t].pc = "select"
  BY DEF IInv, Types, CallInv, Select
<1>3. call[t].servers \in AllLists /\ Budget(call[t])
  BY <1>2 DEF CallOK
<1>4. call[t].option.method \in Methods \ {"roundrobin", "configurable_weight"}
  BY <1>2, ConstantsAssumption DEF CallRecord, Select
<1>5. s \in Entries(call[t].servers)
  BY <1>3, <1>4, CandidatesType
<1>6. /\ Selected(call[t], s) \in CallRecord /\ CallOK(Selected(call[t], s))
      /\ Selected(call[t], s).pc = "connect"
  BY <1>2, <1>3, <1>5, SelectedOK
<1> QED
  BY <1>1, <1>6, OwnStep DEF Select

LEMMA SelectWeightIInv ==
  ASSUME IInv, NEW t \in Threads, SelectWeight(t) PROVE IInv'
<1> DEFINE c == call[t]
           next == NextState(state[t], c.servers)
           turn == Turn(next, c.servers)
<1>1. /\ c \in CallRecord /\ CallOK(c) /\ c.pc = "select"
      /\ state[t].index \in Nat \cup {-1} /\ DOMAIN state = Threads
  BY DEF IInv, Types, CallInv, SelectWeight
<1>2. c.servers \in AllLists /\ Budget(c)
  BY <1>1 DEF CallOK
<1>3. CASE ~GcdDefined(c.servers)
  <2> DEFINE d == [c EXCEPT !.pc = "trap"]
  <2>1. call' = [call EXCEPT ![t] = d] /\ UNCHANGED <<lists, requests, state, pool, updates, turns>>
    BY <1>3, Zenon DEF SelectWeight
  <2>2. /\ d \in CallRecord /\ d.pc = "trap"
        /\ d.connection_retry = c.connection_retry /\ d.timeout_retry = c.timeout_retry
        /\ d.attempts = c.attempts /\ d.lost = c.lost /\ d.broken = c.broken
    BY <1>1 DEF CallRecord, PCs
  <2> HIDE DEF d
  <2>3. CallOK(d)
    BY <1>1, <1>2, <2>2 DEF CallOK, Budget
  <2> QED
    BY <2>1, <2>2, <2>3, OwnStep
<1>4. CASE GcdDefined(c.servers)
  <2>1. /\ state' = [state EXCEPT ![t] = next]
        /\ call' = [call EXCEPT ![t] = CASE turn = "none"     -> NextRoute(c)
                                         [] turn = "selected" -> Selected(c, c.servers[next.index + 1])
                                         [] turn = "next"     -> c]
        /\ UNCHANGED <<lists, requests, pool, updates, turns>>
    BY <1>4, Zenon DEF SelectWeight
  <2>2. turn \in {"none", "selected", "next"}
    BY DEF Turn
  <2> DEFINE n == Len(c.servers)
  <2>3. n \in Nat \ {0} /\ DOMAIN c.servers = 1 .. n
    BY <1>2, ListShape
  <2>4. next.index = (state[t].index + 1) % n
    BY DEF NextState
  <2> HIDE DEF next, turn, n
  <2>5. next.index \in 0 .. n - 1
    <3>1. state[t].index + 1 \in Nat
      BY <1>1
    <3> QED
      BY <2>3, <2>4, <3>1, Z3
  <2>6. c.servers[next.index + 1] \in Entries(c.servers)
    <3>1. next.index + 1 \in DOMAIN c.servers
      BY <2>3, <2>5
    <3> QED
      BY <1>2, <3>1, ListShape
  <2>7. PICK d \in CallRecord : /\ call' = [call EXCEPT ![t] = d] /\ CallOK(d)
                                /\ d = c \/ d.pc # "select"
    <3>1. CASE turn = "none"
      <4>1. call' = [call EXCEPT ![t] = NextRoute(c)]
        BY <2>1, <3>1
      <4>2. NextRoute(c) \in CallRecord /\ CallOK(NextRoute(c)) /\ NextRoute(c).pc \in {"client", "shard"}
        BY <1>1, <1>2, NextRouteOK
      <4> QED
        BY <4>1, <4>2
    <3>2. CASE turn = "selected"
      <4> DEFINE d == Selected(c, c.servers[next.index + 1])
      <4>1. call' = [call EXCEPT ![t] = d]
        BY <2>1, <3>2
      <4>2. d \in CallRecord /\ CallOK(d) /\ d.pc = "connect"
        BY <1>1, <1>2, <2>6, SelectedOK
      <4> HIDE DEF d
      <4> QED
        BY <4>1, <4>2
    <3>3. CASE turn = "next"
      <4>1. call' = [call EXCEPT ![t] = c]
        BY <2>1, <3>3
      <4> QED
        BY <1>1, <4>1
    <3> QED
      BY <2>2, <3>1, <3>2, <3>3
  <2>8. call' \in [Threads -> CallRecord] /\ CallInv' /\ ServersInv'
    BY <1>1, <2>1, <2>7, ThreadStep
  <2>9. DOMAIN state' = Threads /\ \A u \in Threads : state'[u].index \in Nat \cup {-1}
    <3>1. \A u \in Threads : state'[u] = IF u = t THEN next ELSE state[u]
      BY <1>1, <2>1
    <3>2. \A u \in Threads : state[u].index \in Nat \cup {-1}
      BY DEF IInv, Types
    <3> QED
      BY <1>1, <2>1, <2>3, <2>5, <3>1, <3>2
  <2>10. Types' /\ PoolInv'
    BY <2>1, <2>8, <2>9 DEF IInv, Types, PoolInv
  <2>11. TurnsInv'
    BY <2>1 DEF IInv, TurnsInv, OneList
  <2> QED
    BY <2>8, <2>10, <2>11 DEF IInv
<1> QED
  BY <1>3, <1>4

LEMMA SelectRoundrobinIInv ==
  ASSUME IInv, NEW t \in Threads, SelectRoundrobin(t) PROVE IInv'
<1> DEFINE l == call[t].servers
           n == Len(l)
           i == (requests % n) + 1
           s == l[i]
<1>1. /\ call' = [call EXCEPT ![t] = Selected(call[t], s)]
      /\ turns' = IF updates = 0 THEN [turns EXCEPT ![AddressOf(s)] = @ + 1] ELSE turns
      /\ requests' = requests + 1 /\ UNCHANGED <<lists, state, pool, updates>>
  BY DEF SelectRoundrobin, RoundrobinSelect
<1>2. /\ call[t] \in CallRecord /\ CallOK(call[t]) /\ call[t].pc = "select"
      /\ requests \in Nat /\ turns \in [Addresses -> Nat] /\ lists \in [Routes -> AllLists \cup {NoList}]
  BY DEF IInv, Types, CallInv, SelectRoundrobin
<1>3. l \in AllLists /\ Budget(call[t])
  BY <1>2 DEF CallOK
<1>4. /\ n \in Nat \ {0} /\ DOMAIN l = 1 .. n
      /\ \A j \in 1 .. n : l[j] \in Entries(l) /\ AddressOf(l[j]) \in Addresses
  BY <1>3, ListShape
<1> HIDE DEF l
<1>5. i \in 1 .. n
  <2>1. requests % n \in 0 .. n - 1
    BY <1>2, <1>4, NextShare
  <2> HIDE DEF n
  <2> QED
    BY <1>4, <2>1
<1>6. s \in Entries(l) /\ AddressOf(s) \in Addresses
  BY <1>4, <1>5
<1>7. Selected(call[t], s) \in CallRecord /\ CallOK(Selected(call[t], s)) /\ Selected(call[t], s).pc = "connect"
  BY <1>2, <1>3, <1>6, SelectedOK
<1>8. call' \in [Threads -> CallRecord] /\ CallInv' /\ ServersInv'
  BY <1>1, <1>7, ThreadStep
<1>9. Types' /\ PoolInv'
  <2>1. requests' \in Nat /\ turns' \in [Addresses -> Nat]
    <3> HIDE DEF s
    <3> QED
      BY <1>1, <1>2, <1>6
  <2> QED
    BY <1>1, <1>8, <2>1 DEF IInv, Types, PoolInv
<1>10. TurnsInv'
  <2> DEFINE sh == lists["shard"]
  <2> SUFFICES ASSUME AddressesDistinct, updates = 0, OneList, NEW j \in 1 .. Len(sh)
               PROVE  turns'[AddressOf(sh[j])] = EvenTurns(j, Len(sh), requests + 1)
    BY <1>1 DEF TurnsInv, OneList
  <2>1. l = sh
    <3>1. PICK route \in Routes : l = lists[route]
      BY <1>2 DEF IInv, ServersInv, l
    <3>2. l # NoList
      BY <1>3 DEF AllLists
    <3> QED
      BY <3>1, <3>2 DEF Routes, OneList
  <2>2. turns[AddressOf(l[j])] = EvenTurns(j, n, requests) /\ j \in 1 .. n
    BY <2>1 DEF IInv, TurnsInv
  <2>3. EvenTurns(j, n, requests + 1) = IF j = i THEN EvenTurns(j, n, requests) + 1
                                        ELSE EvenTurns(j, n, requests)
    BY <1>2, <1>4, <2>2, NextShare
  <2>4. AddressOf(l[j]) \in Addresses /\ (AddressOf(l[j]) = AddressOf(s) => j = i)
    BY <1>3, <1>4, <1>5, <2>2 DEF AddressesDistinct
  <2>5. turns' = [turns EXCEPT ![AddressOf(s)] = turns[AddressOf(s)] + 1]
    BY <1>1
  <2>6. turns'[AddressOf(l[j])] = EvenTurns(j, n, requests + 1)
    <3> HIDE DEF n, i
    <3>1. CASE j = i
      BY <1>2, <2>2, <2>3, <2>4, <2>5, <3>1
    <3>2. CASE j # i
      BY <1>2, <2>2, <2>3, <2>4, <2>5, <3>2
    <3> QED
      BY <3>1, <3>2
  <2> QED
    BY <2>1, <2>6
<1> QED
  BY <1>8, <1>9, <1>10 DEF IInv

LEMMA GetConnectionIInv ==
  ASSUME IInv, NEW t \in Threads, GetConnection(t) PROVE IInv'
<1> DEFINE d == call[t]
<1>1. PICK e \in 0 .. MaxConn - 1 :
        LET key  == HashKey(d.address, e)
            conn == Connection(key, d.address)
        IN  /\ pool' = [pool EXCEPT ![key] = conn]
            /\ call' = [call EXCEPT ![t] = [d EXCEPT !.pc = "process", !.key = key,
                                                     !.to = conn.to, !.alive = conn.good]]
  BY DEF GetConnection
<1> DEFINE key  == HashKey(d.address, e)
           conn == Connection(key, d.address)
           c == [d EXCEPT !.pc = "process", !.key = key, !.to = conn.to, !.alive = conn.good]
<1>2. /\ d \in CallRecord /\ CallOK(d) /\ d.pc = "connect"
      /\ pool \in [Keys -> [to : Addresses \cup {NoAddress}, good : BOOLEAN]]
  BY DEF IInv, Types, CallInv, GetConnection
<1>3. d.address \in Addresses /\ Budget(d)
  BY <1>2 DEF CallOK
<1>4. key \in Keys
  BY <1>3 DEF Keys
<1>5. pool' = [pool EXCEPT ![key] = conn] /\ call' = [call EXCEPT ![t] = c]
  BY <1>1
<1>6. conn = IF pool[key].good THEN pool[key] ELSE [to |-> d.address, good |-> TRUE]
  BY DEF Connection
<1>7. ASSUME pool[key].good
      PROVE  /\ pool[key].to \in Addresses /\ (PortsApart => pool[key].to = d.address)
             /\ \E f \in 0 .. MaxConn - 1 : key = HashKey(pool[key].to, f)
  <2>1. /\ pool[key].to \in Addresses
        /\ \E f \in 0 .. MaxConn - 1 : key = HashKey(pool[key].to, f)
    BY <1>4, <1>7 DEF IInv, PoolInv
  <2> QED
    BY <1>3, <2>1, KeysApart
<1> HIDE DEF conn
<1>8. /\ conn \in [to : Addresses \cup {NoAddress}, good : BOOLEAN] /\ conn.good = TRUE
      /\ conn.to \in Addresses /\ (PortsApart => conn.to = d.address)
      /\ \E f \in 0 .. MaxConn - 1 : key = HashKey(conn.to, f)
  <2> HIDE DEF d
  <2>1. CASE pool[key].good
    <3>1. pool[key] \in [to : Addresses \cup {NoAddress}, good : BOOLEAN]
      BY <1>2, <1>4
    <3>2. conn = pool[key]
      BY <1>6, <2>1
    <3> HIDE DEF key
    <3> QED
      BY <1>7, <2>1, <3>1, <3>2
  <2>2. CASE ~pool[key].good
    <3>1. conn = [to |-> d.address, good |-> TRUE]
      BY <1>6, <2>2
    <3> QED
      BY <1>3, <3>1
  <2> QED
    BY <2>1, <2>2
<1> HIDE DEF key, d
<1>9. /\ c \in CallRecord /\ c.pc = "process" /\ c.to = conn.to /\ c.alive = TRUE /\ c.address = d.address
      /\ c.connection_retry = d.connection_retry /\ c.timeout_retry = d.timeout_retry
      /\ c.attempts = d.attempts /\ c.lost = d.lost /\ c.broken = d.broken
  BY <1>2, <1>4, <1>8 DEF CallRecord, PCs
<1> HIDE DEF c
<1>10. CallOK(c)
  <2>1. ~c.alive => FALSE
    BY <1>9, Zenon
  <2>2. /\ c.connection_retry <= ConnectionRetry /\ c.timeout_retry <= TimeoutRetry
        /\ c.connection_retry + c.timeout_retry <= ConnectionRetry + TimeoutRetry - 1
        /\ "std" \notin Outcomes => c.attempts <= c.connection_retry + c.timeout_retry + 2
        /\ c.lost <= c.broken /\ Budget(c)
    BY <1>2, <1>3, <1>9 DEF CallOK, Budget
  <2>3. c.address \in Addresses /\ (PortsApart => c.to = c.address)
    BY <1>3, <1>8, <1>9
  <2> QED
    BY <1>9, <2>1, <2>2, <2>3 DEF CallOK
<1>11. call' \in [Threads -> CallRecord] /\ CallInv' /\ ServersInv'
  BY <1>5, <1>9, <1>10, ThreadStep DEF GetConnection
<1>12. /\ pool' \in [Keys -> [to : Addresses \cup {NoAddress}, good : BOOLEAN]]
       /\ \A k \in Keys : pool'[k] = IF k = key THEN conn ELSE pool[k]
  BY <1>2, <1>4, <1>5, <1>8
<1>13. PoolInv'
  <2> SUFFICES ASSUME NEW k \in Keys, pool'[k].good
               PROVE  pool'[k].to \in Addresses /\ \E f \in 0 .. MaxConn - 1 : k = HashKey(pool'[k].to, f)
    BY DEF PoolInv
  <2>1. CASE k = key
    BY <1>8, <1>12, <2>1
  <2>2. CASE k # key
    <3>1. pool'[k] = pool[k]
      BY <1>12, <2>2
    <3> QED
      BY <3>1 DEF IInv, PoolInv
  <2> QED
    BY <2>1, <2>2
<1>14. Types' /\ TurnsInv'
  BY <1>11, <1>12 DEF IInv, Types, TurnsInv, OneList, GetConnection
<1> QED
  BY <1>11, <1>13, <1>14 DEF IInv

\* The end of a request that did not succeed.
LEMMA EndedOK ==
  ASSUME NEW c \in CallRecord, CallOK(c), c.pc = "process",
         NEW outcome \in {"ok", "std", "timeout", "error", "transport"},
         outcome = "std" => "std" \in Outcomes,
         outcome = "transport" => ~c.alive
  PROVE  Ended(c, outcome) \in CallRecord /\ CallOK(Ended(c, outcome)) /\ Ended(c, outcome).pc # "select"
<1> DEFINE e == [c EXCEPT !.pc = "client", !.address = NoAddress, !.key = Idle.key,
                          !.to = NoAddress, !.alive = FALSE,
                          !.attempts = Min({c.attempts + 1, AttemptLimit + 1})]
           a == Min({c.attempts + 1, AttemptLimit + 1})
<1>1. /\ c.connection_retry \in Retries /\ c.timeout_retry \in Retries /\ c.attempts \in Nat
      /\ c.lost \in Nat /\ c.broken \in Nat /\ ConnectionRetry \in Nat /\ TimeoutRetry \in Nat
  BY ConstantsAssumption DEF CallRecord
<1>2. a \in Nat /\ a <= c.attempts + 1
  <2>1. c.attempts + 1 \in Nat /\ AttemptLimit + 1 \in Nat
    BY <1>1 DEF AttemptLimit
  <2> QED
    BY <2>1, LesserOfTwo
<1> HIDE DEF a
<1>3. Idle.key = FirstKey
  BY DEF Idle, FirstKey
<1>4. /\ e \in CallRecord /\ e.pc = "client" /\ e.attempts = a
      /\ e.connection_retry = c.connection_retry /\ e.timeout_retry = c.timeout_retry
      /\ e.lost = c.lost /\ e.broken = c.broken
  <2>1. e = [c EXCEPT !.pc = "client", !.address = NoAddress, !.key = FirstKey,
                      !.to = NoAddress, !.alive = FALSE, !.attempts = a]
    BY <1>3, Zenon DEF a
  <2> HIDE DEF e
  <2> QED
    BY <1>2, <2>1 DEF CallRecord, PCs
<1>5. Ended(c, outcome) = CASE outcome = "ok"        -> Idle
                            [] outcome = "std"       -> e
                            [] outcome = "timeout"   -> [e EXCEPT !.timeout_retry = @ + 1]
                            [] outcome = "error"     -> [e EXCEPT !.connection_retry = @ + 1]
                            [] outcome = "transport" -> [e EXCEPT !.connection_retry = @ + 1, !.lost = @ + 1]
  BY Zenon DEF Ended
<1> HIDE DEF e
<1>6. /\ c.connection_retry < ConnectionRetry /\ c.timeout_retry < TimeoutRetry
      /\ "std" \notin Outcomes => c.attempts <= c.connection_retry + c.timeout_retry + 2
      /\ c.lost <= c.broken /\ (~c.alive => c.lost + 1 <= c.broken)
  BY DEF CallOK, Budget
<1>7. ASSUME NEW f \in CallRecord, f.pc = "client", f.attempts = a, f.broken = c.broken,
             f.connection_retry \in Retries, f.timeout_retry \in Retries,
             \/ /\ f.timeout_retry = c.timeout_retry + 1
                /\ f.connection_retry = c.connection_retry
             \/ /\ f.timeout_retry = c.timeout_retry
                /\ f.connection_retry = c.connection_retry + 1
             \/ /\ f.timeout_retry = c.timeout_retry
                /\ f.connection_retry = c.connection_retry
                /\ "std" \in Outcomes,
             f.lost = c.lost \/ (f.lost = c.lost + 1 /\ ~c.alive)
      PROVE  CallOK(f)
  <2>1. /\ f.connection_retry <= ConnectionRetry /\ f.timeout_retry <= TimeoutRetry
        /\ f.connection_retry + f.timeout_retry <= ConnectionRetry + TimeoutRetry - 1
    BY <1>1, <1>6, <1>7 DEF Retries
  <2>2. "std" \notin Outcomes => f.attempts <= f.connection_retry + f.timeout_retry + 2
    BY <1>1, <1>2, <1>6, <1>7 DEF Retries
  <2>3. f.lost <= f.broken
    BY <1>6, <1>7
  <2> QED
    BY <1>7, <2>1, <2>2, <2>3 DEF CallOK
<1>8. c.connection_retry + 1 \in Retries /\ c.timeout_retry + 1 \in Retries /\ c.lost + 1 \in Nat
  BY <1>1 DEF Retries
<1>9. CASE outcome = "ok"
  BY <1>5, <1>9, IdleOK
<1>10. CASE outcome = "std"
  <2>1. Ended(c, outcome) = e
    BY <1>5, <1>10
  <2> QED
    BY <1>1, <1>4, <1>7, <1>10, <2>1
<1>11. CASE outcome = "timeout"
  <2> DEFINE f == [e EXCEPT !.timeout_retry = c.timeout_retry + 1]
  <2>1. Ended(c, outcome) = f
    BY <1>4, <1>5, <1>11
  <2>2. /\ f \in CallRecord /\ f.pc = "client" /\ f.attempts = a /\ f.broken = c.broken
        /\ f.timeout_retry = c.timeout_retry + 1 /\ f.connection_retry = c.connection_retry
        /\ f.lost = c.lost
    BY <1>4, <1>8 DEF CallRecord
  <2> HIDE DEF f
  <2> QED
    BY <1>1, <1>7, <1>8, <2>1, <2>2
<1>12. CASE outcome = "error"
  <2> DEFINE f == [e EXCEPT !.connection_retry = c.connection_retry + 1]
  <2>1. Ended(c, outcome) = f
    BY <1>4, <1>5, <1>12
  <2>2. /\ f \in CallRecord /\ f.pc = "client" /\ f.attempts = a /\ f.broken = c.broken
        /\ f.timeout_retry = c.timeout_retry /\ f.connection_retry = c.connection_retry + 1
        /\ f.lost = c.lost
    BY <1>4, <1>8 DEF CallRecord
  <2> HIDE DEF f
  <2> QED
    BY <1>1, <1>7, <1>8, <2>1, <2>2
<1>13. CASE outcome = "transport"
  <2> DEFINE f == [e EXCEPT !.connection_retry = c.connection_retry + 1, !.lost = c.lost + 1]
  <2>1. Ended(c, outcome) = f
    BY <1>4, <1>5, <1>13
  <2>2. /\ f \in CallRecord /\ f.pc = "client" /\ f.attempts = a /\ f.broken = c.broken
        /\ f.timeout_retry = c.timeout_retry /\ f.connection_retry = c.connection_retry + 1
        /\ f.lost = c.lost + 1
    BY <1>4, <1>8 DEF CallRecord
  <2> HIDE DEF f
  <2> QED
    BY <1>1, <1>7, <1>8, <1>13, <2>1, <2>2
<1> QED
  BY <1>9, <1>10, <1>11, <1>12, <1>13

LEMMA ProcessIInv ==
  ASSUME IInv, NEW t \in Threads, Process(t) PROVE IInv'
<1>1. PICK outcome \in IF call[t].alive THEN Outcomes ELSE {"transport"} :
        call' = [call EXCEPT ![t] = Ended(call[t], outcome)]
  BY DEF Process
<1>2. call[t] \in CallRecord /\ CallOK(call[t]) /\ call[t].pc = "process"
  BY DEF IInv, Types, CallInv, Process
<1>3. /\ outcome \in {"ok", "std", "timeout", "error", "transport"}
      /\ outcome = "std" => "std" \in Outcomes
      /\ outcome = "transport" => ~call[t].alive
  <2>1. CASE call[t].alive
    BY <2>1, ConstantsAssumption
  <2>2. CASE ~call[t].alive
    BY <2>2
  <2> QED
    BY <2>1, <2>2
<1>4. /\ Ended(call[t], outcome) \in CallRecord /\ CallOK(Ended(call[t], outcome))
      /\ Ended(call[t], outcome).pc # "select"
  BY <1>2, <1>3, EndedOK
<1> QED
  BY <1>1, <1>4, OwnStep DEF Process

LEMMA UpdateServersIInv ==
  ASSUME IInv, NEW route \in Routes, UpdateServers(route) PROVE IInv'
<1>1. PICK l \in Lists[route] : lists' = [lists EXCEPT ![route] = l]
  BY DEF UpdateServers
<1>2. updates \in Nat /\ lists \in [Routes -> AllLists \cup {NoList}]
  BY DEF IInv, Types
<1>3. updates' = updates + 1 /\ turns' = [a \in Addresses |-> 0]
      /\ UNCHANGED <<requests, state, pool, call>>
  BY DEF UpdateServers
<1>4. updates' \in Nat /\ updates' # 0
  BY <1>2, <1>3
<1>5. l \in AllLists \cup {NoList}
  BY DEF AllLists
<1>6. lists' \in [Routes -> AllLists \cup {NoList}]
  BY <1>1, <1>2, <1>5
<1>7. turns' \in [Addresses -> Nat]
  BY <1>3
<1>8. Types'
  BY <1>3, <1>4, <1>6, <1>7 DEF IInv, Types
<1>9. CallInv' /\ PoolInv'
  BY <1>3 DEF IInv, CallInv, PoolInv
<1>10. ServersInv' /\ TurnsInv'
  BY <1>4 DEF ServersInv, TurnsInv
<1> QED
  BY <1>8, <1>9, <1>10 DEF IInv

\* A call that sees a connection die may now lose one request more.
LEMMA BrokenOK ==
  ASSUME NEW c \in CallRecord, CallOK(c), NEW alive \in BOOLEAN
  PROVE  LET f == [c EXCEPT !.broken = c.broken + 1, !.alive = alive]
         IN  f \in CallRecord /\ CallOK(f) /\ f.pc = c.pc /\ f.servers = c.servers
<1> DEFINE f == [c EXCEPT !.broken = c.broken + 1, !.alive = alive]
<1>1. c.lost \in Nat /\ c.broken \in Nat /\ c.broken + 1 \in Nat
  BY DEF CallRecord
<1>2. /\ f \in CallRecord /\ f.pc = c.pc /\ f.servers = c.servers /\ f.address = c.address
      /\ f.to = c.to /\ f.connection_retry = c.connection_retry
      /\ f.timeout_retry = c.timeout_retry /\ f.attempts = c.attempts
      /\ f.lost = c.lost /\ f.broken = c.broken + 1
  BY <1>1 DEF CallRecord
<1> HIDE DEF f
<1>3. f.lost <= f.broken /\ f.lost + 1 <= f.broken
  BY <1>1, <1>2 DEF CallOK
<1>4. CallOK(f)
  BY <1>2, <1>3 DEF CallOK, Budget
<1> QED
  BY <1>2, <1>4 DEF f

LEMMA BreakIInv ==
  ASSUME IInv, NEW key \in Keys, Break(key) PROVE IInv'
<1> DEFINE g(t) == [call[t] EXCEPT !.broken = call[t].broken + 1,
                                   !.alive = call[t].alive /\ call[t].key # key]
<1>1. /\ pool' = [pool EXCEPT ![key].good = FALSE]
      /\ call' = [t \in Threads |-> IF call[t].pc = "idle" THEN call[t] ELSE g(t)]
      /\ UNCHANGED <<lists, requests, state, updates, turns>>
  BY DEF Break
<1>2. /\ call \in [Threads -> CallRecord]
      /\ pool \in [Keys -> [to : Addresses \cup {NoAddress}, good : BOOLEAN]]
  BY DEF IInv, Types
<1>3. ASSUME NEW t \in Threads
      PROVE  /\ call'[t] \in CallRecord /\ CallOK(call'[t])
             /\ call'[t].pc = call[t].pc /\ call'[t].servers = call[t].servers
  <2>1. call[t] \in CallRecord /\ CallOK(call[t])
    BY <1>2 DEF IInv, CallInv
  <2>2. CASE call[t].pc = "idle"
    BY <1>1, <2>1, <2>2
  <2>3. CASE call[t].pc # "idle"
    <3>1. g(t) \in CallRecord /\ CallOK(g(t)) /\ g(t).pc = call[t].pc /\ g(t).servers = call[t].servers
      <4>1. (call[t].alive /\ call[t].key # key) \in BOOLEAN
        BY Zenon
      <4> QED
        BY <2>1, <4>1, BrokenOK, Zenon
    <3>2. call'[t] = g(t)
      BY <1>1, <2>3
    <3> QED
      BY <3>1, <3>2
  <2> QED
    BY <2>2, <2>3
<1>4. call' \in [Threads -> CallRecord]
  <2>1. DOMAIN call' = Threads /\ call' = [t \in Threads |-> call'[t]]
    BY <1>1
  <2> QED
    BY <1>3, <2>1
<1>5. CallInv' /\ ServersInv'
  BY <1>1, <1>3 DEF IInv, CallInv, ServersInv
<1>6. /\ pool' \in [Keys -> [to : Addresses \cup {NoAddress}, good : BOOLEAN]]
      /\ \A k \in Keys : pool'[k].to = pool[k].to /\ (pool'[k].good => pool[k].good)
  <2>1. pool' = [pool EXCEPT ![key] = [pool[key] EXCEPT !.good = FALSE]]
    BY <1>1, Zenon
  <2> DEFINE q == pool[key]
             dead == [q EXCEPT !.good = FALSE]
  <2>2. q \in [to : Addresses \cup {NoAddress}, good : BOOLEAN]
    BY <1>2
  <2>3. pool' = [pool EXCEPT ![key] = dead] /\ q = pool[key]
    BY <2>1
  <2> HIDE DEF q
  <2>4. /\ dead \in [to : Addresses \cup {NoAddress}, good : BOOLEAN]
        /\ dead.to = q.to /\ ~dead.good
    BY <2>2
  <2> HIDE DEF dead
  <2> QED
    BY <1>2, <2>3, <2>4
<1>7. PoolInv'
  BY <1>6 DEF IInv, PoolInv
<1>8. Types' /\ TurnsInv'
  BY <1>1, <1>4, <1>6 DEF IInv, Types, TurnsInv, OneList
<1> QED
  BY <1>5, <1>7, <1>8 DEF IInv

LEMMA NextIInv ==
  ASSUME IInv, [Next]_vars PROVE IInv'
<1>1. CASE UNCHANGED vars
  BY <1>1 DEF vars, IInv, Types, CallInv, PoolInv, ServersInv, TurnsInv, OneList
<1>2. ASSUME NEW t \in Threads, Call(t) \/ Step(t) PROVE IInv'
  BY <1>2, CallIInv, ServiceClientIInv, GiveUpIInv, DiscoverIInv, SelectIInv, SelectRoundrobinIInv,
     SelectWeightIInv, GetConnectionIInv, ProcessIInv DEF Step
<1>3. ASSUME NEW route \in Routes, UpdateServers(route) PROVE IInv'
  BY <1>3, UpdateServersIInv
<1>4. ASSUME NEW key \in Keys, Break(key) PROVE IInv'
  BY <1>4, BreakIInv
<1> QED
  BY <1>1, <1>2, <1>3, <1>4 DEF Next

LEMMA SpecIInv == Spec => []IInv
<1> USE DEF Spec
<1>1. Init => IInv
  BY InitIInv
<1>2. IInv /\ [Next]_vars => IInv'
  BY NextIInv
<1> QED
  BY <1>1, <1>2, PTL

---------------------------------------------------------------------------
(* The selection loop of LoadBalanceConfigurableWeight *)

\* No server has a negative weight.
WeightsNatural == \A l \in AllLists : \A i \in DOMAIN l : l[i].weight \in Nat

LEMMA ListWeights ==
  ASSUME WeightsNatural, NEW l \in AllLists
  PROVE  /\ Len(l) \in Nat \ {0} /\ DOMAIN l = 1 .. Len(l)
         /\ \A i \in 1 .. Len(l) : l[i].weight \in Nat
         /\ max_weight(l) \in Nat
         /\ \A i \in 1 .. Len(l) : l[i].weight <= max_weight(l)
         /\ max_weight(l) # 0 => \E i \in 1 .. Len(l) : l[i].weight = max_weight(l)
         /\ GcdDefined(l) => gcd_weight(l) \in Nat
         /\ (GcdDefined(l) /\ Len(l) > 1) => gcd_weight(l) \in Nat \ {0}
<1>1. /\ Len(l) \in Nat \ {0} /\ DOMAIN l = 1 .. Len(l)
      /\ \A i \in 1 .. Len(l) : l[i].weight \in Nat
  BY ListShape DEF WeightsNatural
<1>2. /\ max_weight(l) \in Nat
      /\ \A i \in 1 .. Len(l) : l[i].weight <= max_weight(l)
      /\ max_weight(l) # 0 => \E i \in 1 .. Len(l) : l[i].weight = max_weight(l)
  BY <1>1, MaxWeightIs
<1>3. (GcdDefined(l) /\ Len(l) > 1) => gcd_weight(l) \in Nat \ {0}
  BY <1>1, GcdWeightIs DEF Weighted
<1>4. Len(l) = 1 => gcd_weight(l) = 0
  BY Zenon DEF gcd_weight
<1>5. Len(l) = 1 \/ Len(l) > 1
  BY <1>1
<1> QED
  BY <1>1, <1>2, <1>3, <1>4, <1>5

\* What a turn makes of index and weight.
LEMMA NextStateIs ==
  ASSUME WeightsNatural, NEW l \in AllLists, GcdDefined(l), NEW st,
         st.index \in Nat \cup {-1}, st.weight \in Nat
  PROVE  LET next == NextState(st, l)
             less == st.weight - gcd_weight(l)
         IN  /\ next.index \in 0 .. Len(l) - 1
             /\ st.index \in 0 .. Len(l) - 1 =>
                  next.index = IF st.index = Len(l) - 1 THEN 0 ELSE st.index + 1
             /\ next.index > 0 => next.weight = st.weight
             /\ next.index = 0 => next.weight = IF less <= 0 THEN max_weight(l) ELSE less
             /\ next.weight \in Nat
             /\ next.weight <= st.weight \/ next.weight = max_weight(l)
<1> DEFINE n == Len(l)
           g == gcd_weight(l)
           m == max_weight(l)
           i == st.index
           w == st.weight
           next == NextState(st, l)
<1>1. n \in Nat \ {0} /\ g \in Nat /\ m \in Nat
  BY ListWeights
<1>2. /\ next.index = (i + 1) % n
      /\ next.weight = IF (i + 1) % n > 0 THEN w ELSE IF w - g <= 0 THEN m ELSE w - g
  BY DEF NextState
<1> HIDE DEF n, g, m, next
<1>3. i + 1 \in Nat /\ w \in Nat
  OBVIOUS
<1> DEFINE j == i + 1
           r == j % n
<1>4. r \in 0 .. n - 1 /\ (j < n => r = j) /\ (j = n => r = 0)
  <2>0. j \in Nat
    BY <1>3
  <2> HIDE DEF j
  <2>1. j % n \in 0 .. n - 1
    BY <1>1, <2>0, Remainder
  <2>2. j < n => j % n = j
    BY <1>1, <2>0, Z3
  <2>3. j = n => j % n = 0
    BY <1>1, <2>0, Z3
  <2> QED
    BY <2>1, <2>2, <2>3
<1>5. next.index = r /\ next.weight = IF r > 0 THEN w ELSE IF w - g <= 0 THEN m ELSE w - g
  BY <1>2
<1> HIDE DEF r
<1>6. /\ next.index \in 0 .. n - 1
      /\ i \in 0 .. n - 1 => next.index = IF i = n - 1 THEN 0 ELSE i + 1
      /\ next.index > 0 => next.weight = w
      /\ next.index = 0 => next.weight = IF w - g <= 0 THEN m ELSE w - g
      /\ next.weight \in Nat
      /\ next.weight <= w \/ next.weight = m
  BY <1>1, <1>3, <1>4, <1>5
<1> QED
  BY <1>6 DEF n, g, m, next

\* A turn that returns nothing leaves fewer turns to take.
LEMMA TurnAdvances ==
  ASSUME WeightsNatural, NEW l \in AllLists, GcdDefined(l), Len(l) > 1, NEW st,
         st.index \in 0 .. Len(l) - 1, st.weight \in Nat, Turn(NextState(st, l), l) = "next"
  PROVE  TurnsLeft(NextState(st, l), l) \in 0 .. TurnsLeft(st, l) - 1
<1> DEFINE n == Len(l)
           g == gcd_weight(l)
           m == max_weight(l)
           next == NextState(st, l)
           i == st.index
           w == st.weight
           j == next.index
           v == next.weight
           heavy(k) == l[k].weight
           ahead == {k \in i + 2 .. n : heavy(k) >= w}
           aheadNext == {k \in j + 2 .. n : heavy(k) >= v}
           rest(x, y, a) == n - 1 - x + (IF y - m > 0 THEN (y - m) * n ELSE IF a # {} THEN 0 ELSE n)
<1>1. /\ n \in Nat /\ n > 1 /\ g \in Nat /\ g > 0 /\ m \in Nat
      /\ \A k \in 1 .. n : heavy(k) \in Nat /\ heavy(k) <= m
      /\ m # 0 => \E k \in 1 .. n : heavy(k) = m
  BY ListWeights
<1>2. /\ j \in 0 .. n - 1 /\ v \in Nat
      /\ j = IF i = n - 1 THEN 0 ELSE i + 1
      /\ j > 0 => v = w
      /\ j = 0 => v = IF w - g <= 0 THEN m ELSE w - g
  BY NextStateIs, <1>1
<1>3. ~(heavy(j + 1) >= v) /\ ~(j = 0 /\ v = 0)
  BY DEF Turn
<1>4. TurnsLeft(st, l) = rest(i, w, ahead) /\ TurnsLeft(next, l) = rest(j, v, aheadNext)
  BY DEF TurnsLeft
<1>5. i \in 0 .. n - 1 /\ w \in Nat
  OBVIOUS
<1> HIDE DEF n, g, m, next, i, w, j, v, heavy
<1>6. j + 1 \in 1 .. n /\ heavy(j + 1) \in Nat /\ heavy(j + 1) < v
  <2>1. j + 1 \in 1 .. n
    BY <1>1, <1>2
  <2> QED
    BY <1>1, <1>2, <1>3, <2>1
<1>7. rest(j, v, aheadNext) \in 0 .. rest(i, w, ahead) - 1
  <2>1. CASE i # n - 1
    <3>1. j = i + 1 /\ v = w
      BY <1>1, <1>2, <1>5, <2>1
    <3>2. ahead = aheadNext
      <4>1. \A k \in i + 2 .. n : k = j + 1 \/ k \in j + 2 .. n
        BY <1>1, <1>5, <3>1
      <4>2. \A k \in j + 2 .. n : k \in i + 2 .. n
        BY <1>1, <1>5, <3>1
      <4>3. ~(heavy(j + 1) >= w)
        BY <1>5, <1>6, <3>1
      <4> QED
        BY <3>1, <4>1, <4>2, <4>3
    <3> HIDE DEF ahead, aheadNext
    <3> DEFINE x == IF w - m > 0 THEN (w - m) * n ELSE IF ahead # {} THEN 0 ELSE n
    <3>3. x \in Nat
      <4>1. w - m > 0 => (w - m) * n \in Nat
        BY <1>1, <1>5, Z3
      <4> QED
        BY <1>1, <4>1
    <3>4. rest(i, w, ahead) = n - 1 - i + x /\ rest(j, v, aheadNext) = n - 1 - j + x
      BY <3>1, <3>2
    <3> HIDE DEF x, rest
    <3> QED
      BY <1>1, <1>2, <1>5, <3>1, <3>3, <3>4
  <2>2. CASE i = n - 1
    <3>1. j = 0 /\ v = (IF w - g <= 0 THEN m ELSE w - g) /\ v > 0
      BY <1>1, <1>2, <1>3, <2>2
    <3>2. ahead = {}
      <4>1. \A k : k \notin i + 2 .. n
        BY <1>1, <2>2
      <4> QED
        BY <4>1
    <3>3. rest(i, w, ahead) = IF w - m > 0 THEN (w - m) * n ELSE n
      <4>1. n - 1 - i = 0
        BY <1>1, <2>2
      <4> DEFINE x == (w - m) * n
      <4>2. w - m > 0 => x \in Int
        BY <1>1, <1>5, Z3
      <4> HIDE DEF x
      <4>3. n - 1 - i + (IF w - m > 0 THEN x ELSE n) = IF w - m > 0 THEN x ELSE n
        BY <1>1, <4>1, <4>2
      <4> QED
        BY <3>2, <4>3 DEF x
    <3>4. CASE v <= m
      <4>1. PICK k \in 1 .. n : heavy(k) = m
        BY <1>1, <1>2, <3>1, <3>4
      <4>2. k \in 2 .. n /\ heavy(k) >= v
        <5>1. k # j + 1
          BY <1>1, <1>2, <1>6, <3>4, <4>1
        <5> QED
          BY <1>1, <1>2, <3>1, <3>4, <4>1, <5>1
      <4>3. aheadNext # {}
        BY <3>1, <4>2
      <4>4. rest(j, v, aheadNext) = n - 1
        <5> HIDE DEF aheadNext
        <5>1. ~(v - m > 0)
          BY <1>1, <1>2, <3>4
        <5> QED
          BY <1>1, <3>1, <4>3, <5>1
      <4>5. w - m > 0 => (w - m) * n >= n
        BY <1>1, <1>5, Z3
      <4> DEFINE x == (w - m) * n
      <4> HIDE DEF rest, aheadNext, ahead, x
      <4>6. rest(i, w, ahead) = IF w - m > 0 THEN x ELSE n
        BY <3>3 DEF x
      <4>7. w - m > 0 => x >= n /\ x \in Int
        <5>1. w - m > 0 => (w - m) * n \in Int
          BY <1>1, <1>5, Z3
        <5> QED
          BY <4>5, <5>1 DEF x
      <4> QED
        BY <1>1, <4>4, <4>6, <4>7
    <3>5. CASE ~(v <= m)
      <4>1. v = w - g /\ w - m > 0 /\ v - m > 0
        BY <1>1, <1>2, <1>5, <3>1, <3>5
      <4> DEFINE x == (w - m) * n
                 y == (v - m) * n
      <4>2. y \in Nat /\ x \in Nat /\ y + n <= x
        <5>1. PICK d \in Nat : w - m = (v - m) + 1 + d
          <6>1. g - 1 \in Nat /\ w - m = (v - m) + 1 + (g - 1)
            BY <1>1, <1>2, <1>5, <4>1
          <6> QED
            BY <6>1
        <5>2. PICK e \in Nat : e = v - m
          BY <1>1, <1>2, <4>1
        <5>3. x = (e + 1 + d) * n /\ y = e * n
          BY <5>1, <5>2
        <5> HIDE DEF x, y
        <5>4. (e + 1 + d) * n = e * n + n + d * n /\ e * n \in Nat /\ d * n \in Nat
          BY <1>1, <5>1, <5>2, Z3
        <5> DEFINE en == e * n
                   dn == d * n
        <5>5. x = en + n + dn /\ y = en /\ en \in Nat /\ dn \in Nat
          BY <5>3, <5>4
        <5> HIDE DEF en, dn
        <5> QED
          BY <1>1, <5>5
      <4>3. rest(i, w, ahead) = x /\ rest(j, v, aheadNext) = n - 1 - j + y
        BY <3>3, <4>1
      <4> HIDE DEF rest, x, y, ahead, aheadNext
      <4> QED
        BY <1>1, <3>1, <4>2, <4>3
    <3> QED
      BY <3>4, <3>5
  <2> QED
    BY <2>1, <2>2
<1> QED
  BY <1>4, <1>7 DEF next

\* The lists are of their route; index and weight of a thread come from lists
\* that were once cached.
StateOK(st) ==
  /\ st.index = -1 \/ \E l \in AllLists : st.index \in 0 .. Len(l) - 1
  /\ st.weight = 0 \/ \E s \in AllEntries : st.weight \in 1 .. s.weight

StateInv ==
  /\ \A r \in Routes : lists[r] \in Lists[r]
  /\ \A t \in Threads : StateOK(state[t])

LEMMA StateTypes ==
  ASSUME WeightsNatural, NEW st, StateOK(st)
  PROVE  st.index \in Nat \cup {-1} /\ st.weight \in Nat
<1>1. st.index \in Nat \cup {-1}
  <2>1. ASSUME NEW l \in AllLists PROVE Len(l) \in Nat
    BY ListShape
  <2> QED
    BY <2>1 DEF StateOK
<1>2. ASSUME NEW s \in AllEntries PROVE s.weight \in Nat
  <2>1. PICK l \in AllLists : s \in Entries(l)
    BY DEF AllEntries
  <2> QED
    BY <2>1 DEF Entries, WeightsNatural
<1> QED
  BY <1>1, <1>2 DEF StateOK

LEMMA NextStateOK ==
  ASSUME WeightsNatural, NEW l \in AllLists, GcdDefined(l), NEW st, StateOK(st)
  PROVE  StateOK(NextState(st, l))
<1> DEFINE next == NextState(st, l)
<1>1. st.index \in Nat \cup {-1} /\ st.weight \in Nat
  BY StateTypes
<1>2. /\ next.index \in 0 .. Len(l) - 1 /\ next.weight \in Nat
      /\ next.weight <= st.weight \/ next.weight = max_weight(l)
  BY <1>1, NextStateIs
<1> HIDE DEF next
<1>3. next.weight = 0 \/ \E s \in AllEntries : next.weight \in 1 .. s.weight
  <2> DEFINE v == next.weight
             w == st.weight
  <2>0. v \in Nat /\ w \in Nat
    BY <1>1, <1>2
  <2>1. CASE v <= w /\ v # 0
    <3>1. PICK s \in AllEntries : w \in 1 .. s.weight
      BY <2>0, <2>1 DEF StateOK
    <3>2. s.weight \in Nat
      <4>1. PICK k \in AllLists : s \in Entries(k)
        BY DEF AllEntries
      <4> QED
        BY <4>1 DEF Entries, WeightsNatural
    <3> HIDE DEF v, w
    <3>3. v \in 1 .. s.weight
      BY <2>0, <2>1, <3>1, <3>2
    <3> QED
      BY <3>3 DEF v
  <2>2. CASE v = max_weight(l) /\ v # 0
    <3>1. PICK i \in 1 .. Len(l) : l[i].weight = v
      BY <2>2, ListWeights
    <3>2. l[i] \in AllEntries
      BY <3>1, ListShape DEF AllEntries
    <3> HIDE DEF v
    <3>3. v \in 1 .. l[i].weight
      BY <2>0, <2>2, <3>1
    <3> QED
      BY <3>2, <3>3 DEF v
  <2> QED
    BY <1>2, <2>1, <2>2
<1> QED
  BY <1>2, <1>3 DEF StateOK, next

\* A step that changes the state of a thread is a turn of its selection loop.
LEMMA StateStep ==
  ASSUME IInv, [Next]_vars, NEW t \in Threads, state'[t] # state[t]
  PROVE  LET l == call[t].servers
             next == NextState(state[t], l)
         IN  /\ call[t].pc = "select" /\ l \in AllLists /\ GcdDefined(l) /\ state'[t] = next
             /\ call'[t] = CASE Turn(next, l) = "none"     -> NextRoute(call[t])
                             [] Turn(next, l) = "selected" -> Selected(call[t], l[next.index + 1])
                             [] Turn(next, l) = "next"     -> call[t]
<1>1. PICK u \in Threads : SelectWeight(u)
  BY DEF Next, vars, Call, Step, ServiceClient, GiveUp, Discover, Select, SelectRoundrobin, GetConnection,
     Process, UpdateServers, Break
<1>2. DOMAIN state = Threads /\ call \in [Threads -> CallRecord]
  BY DEF IInv, Types
<1> DEFINE l == call[u].servers
           next == NextState(state[u], l)
           after == CASE Turn(next, l) = "none"     -> NextRoute(call[u])
                      [] Turn(next, l) = "selected" -> Selected(call[u], l[next.index + 1])
                      [] Turn(next, l) = "next"     -> call[u]
<1>3. ~UNCHANGED state
  OBVIOUS
<1>4. /\ GcdDefined(l) /\ call[u].pc = "select"
      /\ state' = [state EXCEPT ![u] = next] /\ call' = [call EXCEPT ![u] = after]
  BY <1>1, <1>3, Zenon DEF SelectWeight
<1>5. u = t
  <2> HIDE DEF next
  <2> QED
    BY <1>2, <1>4
<1>6. l \in AllLists
  BY <1>4 DEF IInv, CallInv, CallOK
<1>7. state'[u] = next /\ call'[u] = after
  <2> HIDE DEF next, after
  <2> QED
    BY <1>2, <1>4
<1> QED
  BY <1>4, <1>5, <1>6, <1>7, Zenon

LEMMA NextStateInv ==
  ASSUME WeightsNatural
  PROVE  IInv /\ StateInv /\ [Next]_vars => StateInv'
<1> SUFFICES ASSUME IInv, StateInv, [Next]_vars PROVE StateInv'
  OBVIOUS
<1>1. \A r \in Routes : lists'[r] \in Lists[r]
  <2>1. CASE UNCHANGED lists
    BY <2>1 DEF StateInv
  <2>2. ASSUME NEW route \in Routes, UpdateServers(route) PROVE \A r \in Routes : lists'[r] \in Lists[r]
    <3>1. PICK l \in Lists[route] : lists' = [lists EXCEPT ![route] = l]
      BY <2>2 DEF UpdateServers
    <3> QED
      BY <3>1 DEF IInv, Types, StateInv
  <2> QED
    BY <2>1, <2>2 DEF Next, vars, Call, Step, ServiceClient, GiveUp, Discover, Select, SelectRoundrobin,
       SelectWeight, GetConnection, Process, Break
<1>2. ASSUME NEW t \in Threads PROVE StateOK(state'[t])
  <2>0. StateOK(state[t])
    BY DEF StateInv
  <2>1. CASE state'[t] = state[t]
    BY <2>0, <2>1
  <2>2. CASE state'[t] # state[t]
    <3> DEFINE l == call[t].servers
    <3>1. l \in AllLists /\ GcdDefined(l) /\ state'[t] = NextState(state[t], l)
      BY <2>2, StateStep, Zenon
    <3> HIDE DEF l
    <3>2. StateOK(NextState(state[t], l))
      BY <2>0, <3>1, NextStateOK
    <3> QED
      BY <3>1, <3>2
  <2> QED
    BY <2>1, <2>2
<1> QED
  BY <1>1, <1>2 DEF StateInv, StateOK

LEMMA SpecStateInv == ASSUME WeightsNatural PROVE Spec => [](IInv /\ StateInv)
<1>1. Init => StateInv
  <2> SUFFICES ASSUME Init PROVE StateInv
    OBVIOUS
  <2>1. \A r \in Routes : lists[r] \in Lists[r]
    BY DEF Init
  <2>2. FirstState.index = -1 /\ FirstState.weight = 0
    BY DEF FirstState
  <2>3. ASSUME NEW t \in Threads PROVE StateOK(state[t])
    BY <2>2 DEF Init, StateOK
  <2> QED
    BY <2>1, <2>3 DEF StateInv
<1> QED
  BY <1>1, InitIInv, NextIInv, NextStateInv, PTL DEF Spec

---------------------------------------------------------------------------
(* What the program relies on *)

\* However many threads call and whatever the servers answer, a call of
\* thriftServiceCall sends at most thrift_connection_retry +
\* thrift_timeout_retry + 1 requests, provided that no request ends in an
\* exception that the catch clause for std::exception leaves uncounted.
THEOREM RetriesBounded ==
  ASSUME "std" \notin Outcomes
  PROVE  Spec => []AttemptsBounded
<1>1. IInv => AttemptsBounded
  <2> SUFFICES ASSUME IInv, NEW t \in Threads PROVE call[t].attempts <= AttemptLimit
    BY DEF AttemptsBounded
  <2>1. call[t] \in CallRecord /\ CallOK(call[t])
    BY DEF IInv, Types, CallInv
  <2>2. /\ call[t].attempts \in Nat /\ call[t].connection_retry \in Retries
        /\ call[t].timeout_retry \in Retries /\ ConnectionRetry \in Nat /\ TimeoutRetry \in Nat
    BY <2>1, ConstantsAssumption DEF CallRecord
  <2>3. /\ call[t].attempts <= call[t].connection_retry + call[t].timeout_retry + 2
        /\ call[t].connection_retry + call[t].timeout_retry <= ConnectionRetry + TimeoutRetry - 1
    BY <2>1 DEF CallOK
  <2> QED
    BY <2>2, <2>3 DEF AttemptLimit, Retries
<1> QED
  BY <1>1, SpecIInv, PTL

\* ConnectionManager replaces a dead connection under its lock before it hands
\* one out, so a call of thriftServiceCall loses at most one request for each
\* connection that dies while it runs.
THEOREM DeadConnectionsReplaced == Spec => []LostOnlyToBreaks
<1>1. IInv => LostOnlyToBreaks
  BY DEF IInv, CallInv, CallOK, LostOnlyToBreaks
<1> QED
  BY <1>1, SpecIInv, PTL

\* getConnection returns a connection to the server that the load balancer
\* selected, provided that no two servers of one host have ports closer than
\* max_conn_per_server: the keys port + expand_index are then all different.
THEOREM RequestsReachSelected ==
  ASSUME PortsApart
  PROVE  Spec => []RoutedAsSelected
<1>1. IInv => RoutedAsSelected
  BY DEF IInv, CallInv, CallOK, RoutedAsSelected
<1> QED
  BY <1>1, SpecIInv, PTL

\* The shared counter of LoadBalanceRoundrobin::select gives every server of a
\* list that does not change its turn, however the threads that select
\* interleave and however often they retry, provided that the list names no
\* server twice.
THEOREM RoundRobinFair ==
  ASSUME AddressesDistinct
  PROVE  Spec => []RoundRobinEven
<1>1. IInv => RoundRobinEven
  <2> DEFINE l == lists["shard"]
  <2> SUFFICES ASSUME IInv, updates = 0, OneList, NEW s \in Entries(l), NEW r \in Entries(l)
               PROVE  turns[AddressOf(s)] <= turns[AddressOf(r)] + 1
    BY DEF RoundRobinEven, OneList
  <2>1. l \in AllLists /\ requests \in Nat
    BY DEF IInv, Types, OneList, Routes
  <2>2. Len(l) \in Nat \ {0} /\ DOMAIN l = 1 .. Len(l)
    BY <2>1, ListShape
  <2>3. PICK i \in 1 .. Len(l), j \in 1 .. Len(l) : s = l[i] /\ r = l[j]
    BY <2>2 DEF Entries
  <2>4. /\ turns[AddressOf(s)] = EvenTurns(i, Len(l), requests)
        /\ turns[AddressOf(r)] = EvenTurns(j, Len(l), requests)
    BY <2>3 DEF IInv, TurnsInv
  <2>5. requests \div Len(l) \in Nat
    <3> DEFINE n == Len(l)
    <3>1. n \in Nat \ {0}
      BY <2>2
    <3> HIDE DEF n
    <3>2. requests \div n \in Nat
      BY <2>1, <3>1, Z3
    <3> QED
      BY <3>2 DEF n
  <2> HIDE DEF l
  <2> QED
    BY <2>4, <2>5 DEF EvenTurns
<1> QED
  BY <1>1, SpecIInv, PTL

\* A call only ever works on servers, addresses and connections of its lists,
\* and what LoadBalanceConfigurableWeight::select keeps between two selections
\* stays inside the lists that were cached: the index below the length of one
\* of them, the weight at most that of a server, so that no subtraction of
\* gcd_weight takes it below 0.  Provided that no server has a negative weight.
THEOREM CallTypes == ASSUME WeightsNatural PROVE Spec => []TypeOK
<1>1. IInv /\ StateInv => TypeOK
  <2> SUFFICES ASSUME IInv, StateInv PROVE TypeOK
    OBVIOUS
  <2>1. /\ \A r \in Routes : lists[r] \in Lists[r]
        /\ requests \in Nat
    BY DEF IInv, Types, StateInv
  <2>2. \A t \in Threads :
          /\ state[t].index = -1 \/ \E l \in AllLists : state[t].index \in 0 .. Len(l) - 1
          /\ state[t].weight = 0 \/ \E s \in AllEntries : state[t].weight \in 1 .. s.weight
    BY DEF StateInv, StateOK
  <2>3. ASSUME NEW k \in Keys
        PROVE  /\ pool[k].to \in Addresses \cup {NoAddress}
               /\ pool[k].good => pool[k].to # NoAddress
    BY ConstantsAssumption DEF IInv, Types, PoolInv
  <2>4. ASSUME NEW t \in Threads
        PROVE  /\ call[t].pc \in PCs
               /\ call[t].connection_retry \in Nat \cup {-1}
               /\ call[t].timeout_retry \in Nat \cup {-1}
               /\ call[t].pc \in {"connect", "process"} => call[t].address \in Addresses
               /\ call[t].pc = "select" => call[t].servers # NoList
    <3>1. call[t] \in CallRecord /\ CallOK(call[t])
      BY DEF IInv, Types, CallInv
    <3>2. /\ call[t].pc \in PCs
          /\ call[t].connection_retry \in Nat \cup {-1}
          /\ call[t].timeout_retry \in Nat \cup {-1}
      BY <3>1 DEF CallRecord, Retries
    <3>3. /\ call[t].pc \in {"connect", "process"} => call[t].address \in Addresses
          /\ call[t].pc = "select" => call[t].servers \in AllLists
      BY <3>1 DEF CallOK
    <3>4. NoList \notin AllLists
      BY DEF AllLists
    <3> QED
      BY <3>2, <3>3, <3>4
  <2> QED
    BY <2>1, <2>2, <2>3, <2>4 DEF TypeOK
<1> QED
  BY <1>1, SpecStateInv, PTL

\* The loop of LoadBalanceConfigurableWeight::select ends on every list of two
\* or more servers that gcd_weight does not trap on, whatever index and weight
\* the last list left behind: a turn that returns nothing lowers a natural
\* number, since gcd_weight is at least 1 and some server has the greatest
\* weight.  Provided that no server has a negative weight.
THEOREM SelectionEnds == ASSUME WeightsNatural PROVE Spec => SelectionAdvances
<1> DEFINE Advances(t) ==
      ( /\ state'[t] # state[t] /\ call'[t] = call[t]
        /\ Len(call[t].servers) > 1 /\ state[t].index \in 0 .. Len(call[t].servers) - 1 )
      => TurnsLeft(state'[t], call[t].servers) \in 0 .. TurnsLeft(state[t], call[t].servers) - 1
<1>1. IInv /\ StateInv /\ [Next]_vars => [\A t \in Threads : Advances(t)]_vars
  <2> SUFFICES ASSUME IInv, StateInv, [Next]_vars, NEW t \in Threads,
                      state'[t] # state[t], call'[t] = call[t], Len(call[t].servers) > 1,
                      state[t].index \in 0 .. Len(call[t].servers) - 1
               PROVE  TurnsLeft(state'[t], call[t].servers) \in 0 .. TurnsLeft(state[t], call[t].servers) - 1
    OBVIOUS
  <2> DEFINE c == call[t]
             l == c.servers
             next == NextState(state[t], l)
  <2>1. /\ c.pc = "select" /\ l \in AllLists /\ GcdDefined(l) /\ state'[t] = next
        /\ c = CASE Turn(next, l) = "none"     -> NextRoute(c)
                 [] Turn(next, l) = "selected" -> Selected(c, l[next.index + 1])
                 [] Turn(next, l) = "next"     -> c
    BY StateStep, Zenon
  <2>2. c \in CallRecord /\ CallOK(c)
    BY DEF IInv, Types, CallInv
  <2>3. Turn(next, l) \in {"none", "selected", "next"}
    BY DEF Turn
  <2>4. Turn(next, l) # "none"
    <3> SUFFICES ASSUME Turn(next, l) = "none" PROVE FALSE
      OBVIOUS
    <3>1. c = NextRoute(c)
      BY <2>1
    <3>2. NextRoute(c).pc \in {"client", "shard"}
      BY <2>1, <2>2, NextRouteOK DEF CallOK
    <3> HIDE DEF c
    <3> QED
      BY <2>1, <3>1, <3>2
  <2>5. Turn(next, l) # "selected"
    <3> SUFFICES ASSUME Turn(next, l) = "selected" PROVE FALSE
      OBVIOUS
    <3>1. c = Selected(c, l[next.index + 1])
      BY <2>1
    <3>2. Selected(c, l[next.index + 1]).pc = "connect"
      BY <2>2 DEF Selected, CallRecord
    <3> HIDE DEF c
    <3> QED
      BY <2>1, <3>1, <3>2
  <2>6. Turn(next, l) = "next" /\ state[t].weight \in Nat
    BY <2>3, <2>4, <2>5, StateTypes DEF StateInv
  <2>7. TurnsLeft(next, l) \in 0 .. TurnsLeft(state[t], l) - 1
    <3> DEFINE st == state[t]
    <3>1. st.index \in 0 .. Len(l) - 1 /\ Len(l) > 1 /\ st.weight \in Nat /\ Turn(NextState(st, l), l) = "next"
      BY <2>6
    <3> HIDE DEF st, l
    <3>2. TurnsLeft(NextState(st, l), l) \in 0 .. TurnsLeft(st, l) - 1
      BY <2>1, <3>1, TurnAdvances
    <3> QED
      BY <3>2 DEF st
  <2> QED
    BY <2>1, <2>7, Zenon
<1> QED
  BY <1>1, SpecStateInv, PTL DEF Spec, SelectionAdvances
=============================================================================
