------------------------- MODULE VulkanObjectsProofs -------------------------
(***************************************************************************)
(* That no call of the Vulkan adapter loses, overwrites or half stores an  *)
(* object, whichever of its steps fails, in any sequence of calls: proofs  *)
(* for VulkanCalls, VulkanPipelines and VulkanObjects.                     *)
(*                                                                         *)
(* The argument follows the calls as they are composed.  Leads says what a *)
(* list of steps makes of the objects owned and local, and that wherever   *)
(* it fails the caller can destroy what there is.  Each way of composing   *)
(* steps has a lemma, each operator that makes a list of steps another,    *)
(* and the machine that runs them is looked at only at the end.  The last  *)
(* part is about the descriptor sets those calls take.                     *)
(***************************************************************************)
EXTENDS VulkanObjects, TLAPS, SequenceTheorems

-----------------------------------------------------------------------------
(* What a device owns between calls, and what a failing call may leave *)

Base == {Instance, Device}

Singles ==
  {CommandPool, TimelineSemaphore, Sampler, DescriptorPool, Instance, Device,
   <<"builtin", "pipeline">>, <<"user", "pipeline">>, <<"user", "program">>,
   <<"raster", "pipeline">>}
    \cup Part("raster", {"set layout", "layout", "vertex", "fragment"})
    \cup Part("sample", {"set layout", "layout", "module", "plain", "checked"})
    \cup Part("storage", {"set layout", "layout", "module", "pipeline"})
Known == Singles \cup UNION Records

Whole(o) ==
  /\ Base \subseteq o /\ o \subseteq Known
  /\ \A r \in Records : r \cap o \in {{}, r}
  /\ \A m \in MadeFrom : m[1] \in o => m[2] \subseteq o

Leftovers == Pipes \cup {Commands("draw"), Commands("tier2")}

-----------------------------------------------------------------------------
(* Lists of steps *)

Fields == {"op", "objects", "undo", "unless"}
AreSteps(s) == (\E S : s \in Seq(S)) /\ \A i \in 1 .. Len(s) : DOMAIN s[i] = Fields

(* A step x that succeeds, or is passed over, with o owned and l local     *)
(* goes on with p and m.  If it fails, no object of the device is          *)
(* destroyed, and the caller destroys what is left, but for Leftovers.     *)
Passes(x, o, l, p, m, R) ==
  IF x.unless \cap o # {} THEN p = o /\ m = l
  ELSE /\ x.op = "make" => x.objects \cap (o \cup l) = {}
       /\ x.op \in {"make", "attempt", "set"} =>
            Whole(o) /\ x.undo \cap o = {} /\ l \ x.undo \subseteq R \cup Leftovers
       /\ \/ x.op \in {"make", "attempt"} /\ p = o /\ m = l \cup x.objects
          \/ x.op = "keep" /\ p = o \cup x.objects /\ m = l \ x.objects
          \/ x.op = "drop" /\ p = o \ x.objects /\ m = l \ x.objects
          \/ x.op \in {"set", "reset"} /\ p = o /\ m = l

(* The steps s go from o and l to p and m, and nothing of N is owned       *)
(* before the last has been taken.                                         *)
Goes(s, o, l, p, m, R, N) ==
  \E O, L :
    /\ O[1] = o /\ L[1] = l
    /\ O[Len(s) + 1] = p /\ L[Len(s) + 1] = m
    /\ \A i \in 1 .. Len(s) :
         /\ Base \subseteq O[i] /\ O[i] \cap N = {}
         /\ Passes(s[i], O[i], L[i], O[i + 1], L[i + 1], R)

LEMMA ConcatenatedSteps ==
  ASSUME NEW s, NEW t, AreSteps(s), AreSteps(t)
  PROVE  /\ AreSteps(s \o t)
         /\ Len(s) \in Nat /\ Len(t) \in Nat /\ Len(s \o t) = Len(s) + Len(t)
         /\ \A i \in 1 .. Len(s) : (s \o t)[i] = s[i]
         /\ \A i \in Len(s) + 1 .. Len(s) + Len(t) : (s \o t)[i] = t[i - Len(s)]
<1>1. PICK S : s \in Seq(S)
  BY DEF AreSteps
<1>2. PICK T : t \in Seq(T)
  BY DEF AreSteps
<1>3. PICK V : V = S \cup T
  OBVIOUS
<1>4. s \in Seq(V) /\ t \in Seq(V)
  BY <1>1, <1>2, <1>3, SeqMonotonic
<1>5. Len(s) \in Nat /\ Len(t) \in Nat
  BY <1>4, LenProperties
<1>6. PICK n, k : n = Len(s) /\ k = Len(t) /\ n \in Nat /\ k \in Nat
  BY <1>5
<1>7. /\ s \o t \in Seq(V) /\ Len(s \o t) = n + k
      /\ \A i \in 1 .. n + k : (s \o t)[i] = IF i <= n THEN s[i] ELSE t[i - n]
  BY <1>4, <1>6, ConcatProperties
<1>8. \A i \in 1 .. n : (s \o t)[i] = s[i]
  BY <1>6, <1>7
<1>9. \A i \in n + 1 .. n + k : (s \o t)[i] = t[i - n] /\ i - n \in 1 .. k
  BY <1>6, <1>7
<1>10. \A i \in 1 .. n + k : DOMAIN (s \o t)[i] = Fields
  <2> SUFFICES ASSUME NEW i \in 1 .. n + k PROVE DOMAIN (s \o t)[i] = Fields
    OBVIOUS
  <2>1. i \in 1 .. n \/ i \in n + 1 .. n + k
    BY <1>6
  <2> QED
    BY <1>6, <1>8, <1>9, <2>1 DEF AreSteps
<1> QED
  BY <1>6, <1>7, <1>8, <1>9, <1>10 DEF AreSteps

LEMMA GoesThen ==
  ASSUME NEW s, NEW t, NEW o, NEW l, NEW p, NEW m, NEW q, NEW k, NEW R, NEW N,
         AreSteps(s), AreSteps(t), Goes(s, o, l, p, m, R, N), Goes(t, p, m, q, k, R, N)
  PROVE  Goes(s \o t, o, l, q, k, R, N)
<1>0. PICK a, b, c : a = Len(s) /\ b = Len(t) /\ c = s \o t
  OBVIOUS
<1>1. /\ a = Len(s) /\ b = Len(t) /\ a \in Nat /\ b \in Nat
      /\ Len(c) = a + b
      /\ \A i \in 1 .. a : c[i] = s[i]
      /\ \A i \in a + 1 .. a + b : c[i] = t[i - a]
  BY <1>0, ConcatenatedSteps
<1>2. PICK O, L : /\ O[1] = o /\ L[1] = l /\ O[a + 1] = p /\ L[a + 1] = m
                  /\ \A i \in 1 .. a :
                       /\ Base \subseteq O[i] /\ O[i] \cap N = {}
                       /\ Passes(s[i], O[i], L[i], O[i + 1], L[i + 1], R)
  BY <1>1 DEF Goes
<1>3. PICK P, M : /\ P[1] = p /\ M[1] = m /\ P[b + 1] = q /\ M[b + 1] = k
                  /\ \A i \in 1 .. b :
                       /\ Base \subseteq P[i] /\ P[i] \cap N = {}
                       /\ Passes(t[i], P[i], M[i], P[i + 1], M[i + 1], R)
  BY <1>1 DEF Goes
<1> DEFINE Q == [i \in 1 .. a + b + 1 |-> IF i <= a THEN O[i] ELSE P[i - a]]
           K == [i \in 1 .. a + b + 1 |-> IF i <= a THEN L[i] ELSE M[i - a]]
<1>4. \A i \in 1 .. a + 1 : Q[i] = O[i] /\ K[i] = L[i]
  BY <1>1, <1>2, <1>3
<1>5. \A i \in a + 1 .. a + b + 1 : Q[i] = P[i - a] /\ K[i] = M[i - a]
  BY <1>1
<1> HIDE DEF Q, K
<1>6. Q[1] = o /\ K[1] = l
  BY <1>1, <1>2, <1>4
<1>7. Q[a + b + 1] = q /\ K[a + b + 1] = k
  BY <1>1, <1>3, <1>5
<1>8. ASSUME NEW i \in 1 .. a + b
      PROVE  /\ Base \subseteq Q[i] /\ Q[i] \cap N = {}
             /\ Passes(c[i], Q[i], K[i], Q[i + 1], K[i + 1], R)
  <2>1. CASE i <= a
    <3>1. i \in 1 .. a /\ i \in 1 .. a + 1 /\ i + 1 \in 1 .. a + 1
      BY <1>1, <2>1
    <3> QED
      BY <1>1, <1>2, <1>4, <3>1
  <2>2. CASE i > a
    <3>1. PICK j : j = i - a /\ j \in 1 .. b /\ (i + 1) - a = j + 1
      BY <1>1, <2>2
    <3>2. i \in a + 1 .. a + b /\ i \in a + 1 .. a + b + 1 /\ i + 1 \in a + 1 .. a + b + 1
      BY <1>1, <2>2
    <3>3. c[i] = t[j] /\ Q[i] = P[j] /\ K[i] = M[j] /\ Q[i + 1] = P[j + 1] /\ K[i + 1] = M[j + 1]
      BY <1>1, <1>5, <3>1, <3>2
    <3> QED
      BY <1>3, <3>1, <3>3
  <2> QED
    BY <1>1, <2>1, <2>2
<1>9. Goes(c, o, l, q, k, R, N)
  <2>1. Len(c) = a + b
    BY <1>1
  <2> SUFFICES \E G, H : /\ G[1] = o /\ H[1] = l
                         /\ G[a + b + 1] = q /\ H[a + b + 1] = k
                         /\ \A i \in 1 .. a + b :
                              /\ Base \subseteq G[i] /\ G[i] \cap N = {}
                              /\ Passes(c[i], G[i], H[i], G[i + 1], H[i + 1], R)
    BY <2>1 DEF Goes
  <2> WITNESS Q, K
  <2> QED
    BY <1>6, <1>7, <1>8
<1> QED
  BY <1>0, <1>9

(* None of U is owned by a whole device without N.                         *)
NotOwned(U, N) == \A w : Whole(w) /\ w \cap N = {} => w \cap U = {}

LEMMA ChangedSteps ==
  ASSUME NEW s, AreSteps(s), NEW u,
         \/ \E U : u = Undoing(U, s)
         \/ \E K : u = Unless(K, s)
  PROVE  AreSteps(u) /\ Len(u) = Len(s) /\ Len(s) \in Nat
<1>1. PICK S : s \in Seq(S)
  BY DEF AreSteps
<1>2. Len(s) \in Nat /\ DOMAIN s = 1 .. Len(s)
  BY <1>1, LenProperties
<1>3. DOMAIN u = 1 .. Len(s) /\ \A i \in 1 .. Len(s) : DOMAIN u[i] = Fields
  <2>1. CASE \E U : u = Undoing(U, s)
    BY <1>2, <2>1 DEF Undoing, AreSteps
  <2>2. CASE \E K : u = Unless(K, s)
    BY <1>2, <2>2 DEF Unless, AreSteps
  <2> QED
    BY <2>1, <2>2
<1>4. PICK n, T : n = Len(s) /\ T = {u[i] : i \in 1 .. n}
  OBVIOUS
<1>5. u = [i \in DOMAIN u |-> u[i]]
  <2>1. CASE \E U : u = Undoing(U, s)
    BY <2>1 DEF Undoing
  <2>2. CASE \E K : u = Unless(K, s)
    BY <2>2 DEF Unless
  <2> QED
    BY <2>1, <2>2
<1>6. u \in [1 .. n -> T]
  BY <1>3, <1>4, <1>5
<1>7. u \in Seq(T) /\ n \in Nat
  BY <1>2, <1>4, <1>6, SeqDef
<1>8. Len(u) = n
  <2>1. PICK k \in Nat : k = Len(u) /\ DOMAIN u = 1 .. k
    BY <1>7, LenProperties
  <2>2. \A i : i \in 1 .. k <=> i \in 1 .. n
    BY <1>3, <1>4, <2>1
  <2>3. (k = 0 \/ k \in 1 .. k) /\ (n = 0 \/ n \in 1 .. n)
    BY <1>7, <2>1
  <2>4. k <= n /\ n <= k
    BY <1>7, <2>1, <2>2, <2>3
  <2> QED
    BY <1>7, <2>1, <2>4
<1> QED
  BY <1>2, <1>3, <1>4, <1>7, <1>8 DEF AreSteps

LEMMA GoesUndoing ==
  ASSUME NEW s, AreSteps(s), NEW U, NEW o, NEW l, NEW p, NEW m, NEW R, NEW N,
         Goes(s, o, l, p, m, R \cup U, N), NotOwned(U, N)
  PROVE  Goes(Undoing(U, s), o, l, p, m, R, N)
<1>1. PICK n, u : n = Len(s) /\ u = Undoing(U, s)
  OBVIOUS
<1>2. n \in Nat /\ Len(u) = n /\ DOMAIN s = 1 .. n
  BY <1>1, ChangedSteps, LenProperties DEF AreSteps
<1>3. PICK O, L : /\ O[1] = o /\ L[1] = l /\ O[n + 1] = p /\ L[n + 1] = m
                  /\ \A i \in 1 .. n :
                       /\ Base \subseteq O[i] /\ O[i] \cap N = {}
                       /\ Passes(s[i], O[i], L[i], O[i + 1], L[i + 1], R \cup U)
  BY <1>1 DEF Goes
<1>4. ASSUME NEW i \in 1 .. n PROVE Passes(u[i], O[i], L[i], O[i + 1], L[i + 1], R)
  <2>1. u[i] = [s[i] EXCEPT !.undo = @ \cup U]
    BY <1>1, <1>2 DEF Undoing
  <2>2. DOMAIN s[i] = Fields
    BY <1>1 DEF AreSteps
  <2>3. /\ u[i].op = s[i].op /\ u[i].objects = s[i].objects /\ u[i].unless = s[i].unless
        /\ u[i].undo = s[i].undo \cup U
    BY <2>1, <2>2 DEF Fields
  <2>4. PICK x, y, a, b, c, d : /\ x = s[i] /\ y = u[i] /\ a = O[i] /\ b = L[i]
                                /\ c = O[i + 1] /\ d = L[i + 1]
    OBVIOUS
  <2>5. Whole(a) => a \cap U = {}
    BY <1>3, <2>4 DEF NotOwned
  <2>6. Passes(x, a, b, c, d, R \cup U)
    BY <1>3, <2>4
  <2>7. y.op = x.op /\ y.objects = x.objects /\ y.unless = x.unless /\ y.undo = x.undo \cup U
    BY <2>3, <2>4
  <2>8. Passes(y, a, b, c, d, R)
    BY <2>5, <2>6, <2>7 DEF Passes
  <2> QED
    BY <2>4, <2>8
<1> QED
  BY <1>1, <1>2, <1>3, <1>4 DEF Goes

LEMMA GoesUnless ==
  ASSUME NEW s, AreSteps(s), NEW K, NEW o, NEW l, NEW p, NEW m, NEW R, NEW N,
         Goes(s, o, l, p, m, R, N), K \in N
  PROVE  Goes(Unless(K, s), o, l, p, m, R, N)
<1>1. PICK n, u : n = Len(s) /\ u = Unless(K, s)
  OBVIOUS
<1>2. n \in Nat /\ Len(u) = n /\ DOMAIN s = 1 .. n
  BY <1>1, ChangedSteps, LenProperties DEF AreSteps
<1>3. PICK O, L : /\ O[1] = o /\ L[1] = l /\ O[n + 1] = p /\ L[n + 1] = m
                  /\ \A i \in 1 .. n :
                       /\ Base \subseteq O[i] /\ O[i] \cap N = {}
                       /\ Passes(s[i], O[i], L[i], O[i + 1], L[i + 1], R)
  BY <1>1 DEF Goes
<1>4. ASSUME NEW i \in 1 .. n PROVE Passes(u[i], O[i], L[i], O[i + 1], L[i + 1], R)
  <2>1. u[i] = [s[i] EXCEPT !.unless = @ \cup {K}]
    BY <1>1, <1>2 DEF Unless
  <2>2. DOMAIN s[i] = Fields
    BY <1>1 DEF AreSteps
  <2>3. /\ u[i].op = s[i].op /\ u[i].objects = s[i].objects /\ u[i].undo = s[i].undo
        /\ u[i].unless = s[i].unless \cup {K}
    BY <2>1, <2>2 DEF Fields
  <2>4. u[i].unless \cap O[i] = s[i].unless \cap O[i]
    BY <1>3, <2>3
  <2> QED
    BY <1>3, <2>3, <2>4 DEF Passes
<1> QED
  BY <1>1, <1>2, <1>3, <1>4 DEF Goes

LEMMA GoesPast ==
  ASSUME NEW s, AreSteps(s), NEW K, NEW o, NEW l, NEW R, NEW N,
         K \in o, Base \subseteq o, o \cap N = {}
  PROVE  Goes(Unless(K, s), o, l, o, l, R, N)
<1>1. PICK n, u : n = Len(s) /\ u = Unless(K, s)
  OBVIOUS
<1>2. n \in Nat /\ Len(u) = n /\ DOMAIN s = 1 .. n
  BY <1>1, ChangedSteps, LenProperties DEF AreSteps
<1> DEFINE O == [i \in 1 .. n + 1 |-> o]
           L == [i \in 1 .. n + 1 |-> l]
<1>3. ASSUME NEW i \in 1 .. n PROVE Passes(u[i], o, l, o, l, R)
  <2>1. u[i] = [s[i] EXCEPT !.unless = @ \cup {K}] /\ DOMAIN s[i] = Fields
    BY <1>1, <1>2 DEF Unless, AreSteps
  <2>2. K \in u[i].unless
    BY <2>1 DEF Fields
  <2> QED
    BY <2>2 DEF Passes
<1>4. /\ O[1] = o /\ L[1] = l /\ O[n + 1] = o /\ L[n + 1] = l
      /\ \A i \in 1 .. n : O[i] = o /\ L[i] = l /\ O[i + 1] = o /\ L[i + 1] = l
  BY <1>2
<1> HIDE DEF O, L
<1>5. \A i \in 1 .. n : /\ Base \subseteq O[i] /\ O[i] \cap N = {}
                        /\ Passes(u[i], O[i], L[i], O[i + 1], L[i + 1], R)
  BY <1>3, <1>4
<1> QED
  BY <1>1, <1>2, <1>4, <1>5 DEF Goes

LEMMA GoesWeaker ==
  ASSUME NEW s, NEW o, NEW l, NEW p, NEW m, NEW R, NEW N, NEW W,
         Goes(s, o, l, p, m, R, N), W \subseteq N
  PROVE  Goes(s, o, l, p, m, R, W)
BY DEF Goes

LEMMA GoesNowhere ==
  ASSUME NEW o, NEW l, NEW R, NEW N
  PROVE  AreSteps(<<>>) /\ Goes(<<>>, o, l, o, l, R, N)
<1>1. <<>> \in Seq({}) /\ Len(<<>>) = 0
  BY EmptySeq
<1>2. AreSteps(<<>>)
  BY <1>1 DEF AreSteps
<1>3. PICK n : n = Len(<<>>) /\ n = 0
  BY <1>1
<1>4. PICK O : O = [i \in {1} |-> o]
  OBVIOUS
<1>5. PICK L : L = [i \in {1} |-> l]
  OBVIOUS
<1>6. O[1] = o /\ L[1] = l /\ n + 1 = 1 /\ 1 .. n = {}
  BY <1>3, <1>4, <1>5
<1> QED
  BY <1>2, <1>3, <1>6 DEF Goes

LEMMA OneStep ==
  ASSUME NEW x, DOMAIN x = Fields
  PROVE  AreSteps(<<x>>)
<1>1. PICK s : s = <<x>>
  OBVIOUS
<1>2. s \in Seq({x}) /\ Len(s) = 1 /\ s[1] = x
  BY <1>1
<1>3. AreSteps(s)
  BY <1>2 DEF AreSteps
<1> QED
  BY <1>1, <1>3

LEMMA GoesStep ==
  ASSUME NEW x, DOMAIN x = Fields, NEW o, NEW l, NEW p, NEW m, NEW R, NEW N,
         Base \subseteq o, o \cap N = {}, Passes(x, o, l, p, m, R)
  PROVE  AreSteps(<<x>>) /\ Goes(<<x>>, o, l, p, m, R, N)
<1>1. PICK s : s = <<x>>
  OBVIOUS
<1>2. s \in Seq({x}) /\ Len(s) = 1 /\ s[1] = x
  BY <1>1
<1>3. AreSteps(<<x>>)
  BY OneStep
<1> DEFINE O == [i \in 1 .. 2 |-> IF i = 1 THEN o ELSE p]
           L == [i \in 1 .. 2 |-> IF i = 1 THEN l ELSE m]
<1>4. O[1] = o /\ L[1] = l /\ O[1 + 1] = p /\ L[1 + 1] = m
  OBVIOUS
<1> HIDE DEF O, L
<1>5. \A i \in 1 .. 1 : /\ Base \subseteq O[i] /\ O[i] \cap N = {}
                        /\ Passes(s[i], O[i], L[i], O[i + 1], L[i + 1], R)
  BY <1>2, <1>4
<1>6. Goes(s, o, l, p, m, R, N)
  BY <1>2, <1>4, <1>5 DEF Goes
<1> QED
  BY <1>1, <1>3, <1>6

-----------------------------------------------------------------------------
(* Lists of steps, from any whole device.  Leads: from all devices that    *)
(* own C and nothing of N, with l local, s goes to one that owns E and     *)
(* still nothing of N, with m local.  Stores: s also stores the objects M, *)
(* and they are not owned before its end.                                  *)
Leads(s, C, l, E, m, R, N) ==
  /\ AreSteps(s)
  /\ \A o : Whole(o) /\ C \subseteq o /\ o \cap N = {} =>
       \E p : Whole(p) /\ E \subseteq p /\ p \cap N = {} /\ Goes(s, o, l, p, m, R, N)

Stores(s, C, l, m, M, R, N) ==
  /\ AreSteps(s)
  /\ \A o : Whole(o) /\ C \subseteq o /\ o \cap (N \cup M) = {} =>
       \E p : Whole(p) /\ C \cup M \subseteq p /\ p \cap N = {} /\ Goes(s, o, l, p, m, R, N \cup M)

LEMMA Then ==
  ASSUME NEW s, NEW t, NEW C, NEW l, NEW E, NEW m, NEW F, NEW k, NEW R, NEW N,
         Leads(s, C, l, E, m, R, N), Leads(t, E, m, F, k, R, N)
  PROVE  Leads(s \o t, C, l, F, k, R, N)
<1>1. AreSteps(s) /\ AreSteps(t) /\ AreSteps(s \o t)
  BY ConcatenatedSteps DEF Leads
<1>2. ASSUME NEW o, Whole(o) /\ C \subseteq o /\ o \cap N = {}
      PROVE  \E q : Whole(q) /\ F \subseteq q /\ q \cap N = {} /\ Goes(s \o t, o, l, q, k, R, N)
  <2>1. PICK p : Whole(p) /\ E \subseteq p /\ p \cap N = {} /\ Goes(s, o, l, p, m, R, N)
    BY <1>2 DEF Leads
  <2>2. PICK q : Whole(q) /\ F \subseteq q /\ q \cap N = {} /\ Goes(t, p, m, q, k, R, N)
    BY <2>1 DEF Leads
  <2>3. Goes(s \o t, o, l, q, k, R, N)
    BY <1>1, <2>1, <2>2, GoesThen
  <2> QED
    BY <2>2, <2>3
<1> QED
  BY <1>1, <1>2 DEF Leads

LEMMA ThenStores ==
  ASSUME NEW s, NEW t, NEW C, NEW l, NEW E, NEW m, NEW k, NEW M, NEW R, NEW N,
         Leads(s, C, l, E, m, R, N \cup M), Stores(t, E, m, k, M, R, N), C \subseteq E
  PROVE  Stores(s \o t, C, l, k, M, R, N)
<1>1. AreSteps(s) /\ AreSteps(t) /\ AreSteps(s \o t)
  BY ConcatenatedSteps DEF Leads, Stores
<1>2. ASSUME NEW o, Whole(o) /\ C \subseteq o /\ o \cap (N \cup M) = {}
      PROVE  \E q : /\ Whole(q) /\ C \cup M \subseteq q /\ q \cap N = {}
                    /\ Goes(s \o t, o, l, q, k, R, N \cup M)
  <2>1. PICK p : /\ Whole(p) /\ E \subseteq p /\ p \cap (N \cup M) = {}
                 /\ Goes(s, o, l, p, m, R, N \cup M)
    BY <1>2 DEF Leads
  <2>2. PICK q : /\ Whole(q) /\ E \cup M \subseteq q /\ q \cap N = {}
                 /\ Goes(t, p, m, q, k, R, N \cup M)
    BY <2>1 DEF Stores
  <2>3. Goes(s \o t, o, l, q, k, R, N \cup M)
    BY <1>1, <2>1, <2>2, GoesThen
  <2>4. C \cup M \subseteq q
    BY <2>2
  <2> QED
    BY <2>2, <2>3, <2>4
<1> QED
  BY <1>1, <1>2 DEF Stores

LEMMA UndoingLeads ==
  ASSUME NEW s, NEW C, NEW l, NEW E, NEW m, NEW R, NEW N, NEW U,
         Leads(s, C, l, E, m, R \cup U, N), NotOwned(U, N)
  PROVE  Leads(Undoing(U, s), C, l, E, m, R, N)
<1>1. AreSteps(s) /\ AreSteps(Undoing(U, s))
  BY ChangedSteps DEF Leads
<1>2. ASSUME NEW o, Whole(o) /\ C \subseteq o /\ o \cap N = {}
      PROVE  \E p : /\ Whole(p) /\ E \subseteq p /\ p \cap N = {}
                    /\ Goes(Undoing(U, s), o, l, p, m, R, N)
  <2>1. PICK p : /\ Whole(p) /\ E \subseteq p /\ p \cap N = {}
                 /\ Goes(s, o, l, p, m, R \cup U, N)
    BY <1>2 DEF Leads
  <2>2. Goes(Undoing(U, s), o, l, p, m, R, N)
    BY <1>1, <2>1, GoesUndoing
  <2> QED
    BY <2>1, <2>2
<1> QED
  BY <1>1, <1>2 DEF Leads

(* What is stored together with K is passed over together with K.          *)
LEMMA UnlessLeads ==
  ASSUME NEW s, NEW C, NEW l, NEW M, NEW R, NEW N, NEW K \in M,
         Stores(s, C, l, l, M, R, N),
         \A w : Whole(w) => IF K \in w THEN M \subseteq w ELSE w \cap M = {}
  PROVE  Leads(Unless(K, s), C, l, C \cup M, l, R, N)
<1>1. AreSteps(s) /\ AreSteps(Unless(K, s))
  BY ChangedSteps DEF Stores
<1>2. ASSUME NEW o, Whole(o) /\ C \subseteq o /\ o \cap N = {}
      PROVE  \E p : /\ Whole(p) /\ C \cup M \subseteq p /\ p \cap N = {}
                    /\ Goes(Unless(K, s), o, l, p, l, R, N)
  <2>1. CASE K \in o
    <3>1. C \cup M \subseteq o /\ Base \subseteq o
      BY <1>2, <2>1 DEF Whole
    <3>2. Goes(Unless(K, s), o, l, o, l, R, N)
      BY <1>1, <1>2, <2>1, <3>1, GoesPast
    <3> QED
      BY <1>2, <3>1, <3>2
  <2>2. CASE K \notin o
    <3>1. o \cap (N \cup M) = {}
      BY <1>2, <2>2
    <3>2. PICK p : /\ Whole(p) /\ C \cup M \subseteq p /\ p \cap N = {}
                   /\ Goes(s, o, l, p, l, R, N \cup M)
      BY <1>2, <3>1 DEF Stores
    <3>3. K \in N \cup M /\ N \subseteq N \cup M
      OBVIOUS
    <3>4. Goes(Unless(K, s), o, l, p, l, R, N \cup M)
      BY <1>1, <3>2, <3>3, GoesUnless
    <3>5. Goes(Unless(K, s), o, l, p, l, R, N)
      BY <3>3, <3>4, GoesWeaker
    <3> QED
      BY <3>2, <3>5
  <2> QED
    BY <2>1, <2>2
<1> QED
  BY <1>1, <1>2 DEF Leads

LEMMA UnlessStores ==
  ASSUME NEW s, NEW C, NEW l, NEW m, NEW M, NEW R, NEW N, NEW K \in M,
         Stores(s, C, l, m, M, R, N)
  PROVE  Stores(Unless(K, s), C, l, m, M, R, N)
<1>1. AreSteps(s) /\ AreSteps(Unless(K, s)) /\ K \in N \cup M
  BY ChangedSteps DEF Stores
<1>2. ASSUME NEW o, Whole(o) /\ C \subseteq o /\ o \cap (N \cup M) = {}
      PROVE  \E p : /\ Whole(p) /\ C \cup M \subseteq p /\ p \cap N = {}
                    /\ Goes(Unless(K, s), o, l, p, m, R, N \cup M)
  <2>1. PICK p : /\ Whole(p) /\ C \cup M \subseteq p /\ p \cap N = {}
                 /\ Goes(s, o, l, p, m, R, N \cup M)
    BY <1>2 DEF Stores
  <2>2. Goes(Unless(K, s), o, l, p, m, R, N \cup M)
    BY <1>1, <2>1, GoesUnless
  <2> QED
    BY <2>1, <2>2
<1> QED
  BY <1>1, <1>2 DEF Stores

-----------------------------------------------------------------------------
(* The steps themselves *)

LEMMA StepIs ==
  ASSUME NEW x, DOMAIN x = Fields, NEW C, NEW l, NEW E, NEW m, NEW R, NEW N,
         \A o : Whole(o) /\ C \subseteq o /\ o \cap N = {} =>
           \E p : Whole(p) /\ E \subseteq p /\ p \cap N = {} /\ Passes(x, o, l, p, m, R)
  PROVE  Leads(<<x>>, C, l, E, m, R, N)
<1>1. AreSteps(<<x>>)
  BY OneStep
<1>2. ASSUME NEW o, Whole(o) /\ C \subseteq o /\ o \cap N = {}
      PROVE  \E p : Whole(p) /\ E \subseteq p /\ p \cap N = {} /\ Goes(<<x>>, o, l, p, m, R, N)
  <2>1. PICK p : Whole(p) /\ E \subseteq p /\ p \cap N = {} /\ Passes(x, o, l, p, m, R)
    BY <1>2
  <2>2. Goes(<<x>>, o, l, p, m, R, N)
    BY <1>2, <2>1, GoesStep DEF Whole
  <2> QED
    BY <2>1, <2>2
<1> QED
  BY <1>1, <1>2 DEF Leads

LEMMA MakeLeads ==
  ASSUME NEW x, NEW C, NEW l, NEW R, NEW N,
         x \notin l, NotOwned({x}, N), l \subseteq R \cup Leftovers
  PROVE  Leads(Make(x), C, l, C, l \cup {x}, R, N)
<1>1. PICK d : d = [op |-> "make", objects |-> {x}, undo |-> {}, unless |-> {}]
  OBVIOUS
<1>2. Make(x) = <<d>> /\ DOMAIN d = Fields
  BY <1>1 DEF Make, Step, Fields
<1>3. ASSUME NEW o, Whole(o) /\ C \subseteq o /\ o \cap N = {}
      PROVE  Passes(d, o, l, o, l \cup {x}, R)
  <2>1. o \cap {x} = {}
    BY <1>3 DEF NotOwned
  <2> QED
    BY <1>1, <1>3, <2>1 DEF Passes
<1>4. Leads(<<d>>, C, l, C, l \cup {x}, R, N)
  BY <1>2, <1>3, StepIs
<1> QED
  BY <1>2, <1>4

LEMMA AttemptLeads ==
  ASSUME NEW C, NEW l, NEW R, NEW N, l \subseteq R \cup Leftovers
  PROVE  /\ Leads(Attempt, C, l, C, l, R, N)
         /\ Leads(AllocateSet, C, l, C, l, R, N)
<1>1. ASSUME NEW op \in {"attempt", "set"} PROVE Leads(Step(op, {}), C, l, C, l, R, N)
  <2>1. PICK d : d = [op |-> op, objects |-> {}, undo |-> {}, unless |-> {}]
    OBVIOUS
  <2>2. Step(op, {}) = <<d>> /\ DOMAIN d = Fields
    BY <2>1 DEF Step, Fields
  <2>3. ASSUME NEW o, Whole(o) /\ C \subseteq o /\ o \cap N = {}
        PROVE  Passes(d, o, l, o, l, R)
    BY <2>1, <2>3 DEF Passes
  <2>4. Leads(<<d>>, C, l, C, l, R, N)
    BY <2>2, <2>3, StepIs
  <2> QED
    BY <2>2, <2>4
<1> QED
  BY <1>1 DEF Attempt, AllocateSet

LEMMA ResetLeads ==
  ASSUME NEW C, NEW l, NEW R, NEW N
  PROVE  Leads(ResetSets, C, l, C, l, R, N)
<1>1. PICK d : d = [op |-> "reset", objects |-> {}, undo |-> {}, unless |-> {}]
  OBVIOUS
<1>2. ResetSets = <<d>> /\ DOMAIN d = Fields
  BY <1>1 DEF ResetSets, Step, Fields
<1>3. ASSUME NEW o, Whole(o) /\ C \subseteq o /\ o \cap N = {}
      PROVE  Passes(d, o, l, o, l, R)
  BY <1>1 DEF Passes
<1>4. Leads(<<d>>, C, l, C, l, R, N)
  BY <1>2, <1>3, StepIs
<1> QED
  BY <1>2, <1>4

(* A drop of objects whose absence leaves the device whole *)
LEMMA DropLeads ==
  ASSUME NEW D, NEW C, NEW l, NEW R, NEW N,
         \A w : Whole(w) /\ w \cap N = {} => Whole(w \ D)
  PROVE  Leads(Drop(D), C, l, C \ D, l \ D, R, N)
<1>1. PICK d : d = [op |-> "drop", objects |-> D, undo |-> {}, unless |-> {}]
  OBVIOUS
<1>2. Drop(D) = <<d>> /\ DOMAIN d = Fields
  BY <1>1 DEF Drop, Step, Fields
<1>3. ASSUME NEW o, Whole(o) /\ C \subseteq o /\ o \cap N = {}
      PROVE  Whole(o \ D) /\ C \ D \subseteq o \ D /\ (o \ D) \cap N = {} /\ Passes(d, o, l, o \ D, l \ D, R)
  BY <1>1, <1>3 DEF Passes
<1>4. Leads(<<d>>, C, l, C \ D, l \ D, R, N)
  BY <1>2, <1>3, StepIs
<1> QED
  BY <1>2, <1>4

LEMMA DropUnowned ==
  ASSUME NEW D, NEW C, NEW l, NEW R, NEW N, NotOwned(D, N)
  PROVE  Leads(Drop(D), C, l, C, l \ D, R, N)
<1>1. PICK d : d = [op |-> "drop", objects |-> D, undo |-> {}, unless |-> {}]
  OBVIOUS
<1>2. Drop(D) = <<d>> /\ DOMAIN d = Fields
  BY <1>1 DEF Drop, Step, Fields
<1>3. ASSUME NEW o, Whole(o) /\ C \subseteq o /\ o \cap N = {}
      PROVE  Passes(d, o, l, o, l \ D, R)
  <2>1. o \ D = o
    BY <1>3 DEF NotOwned
  <2> QED
    BY <1>1, <2>1 DEF Passes
<1>4. Leads(<<d>>, C, l, C, l \ D, R, N)
  BY <1>2, <1>3, StepIs
<1> QED
  BY <1>2, <1>4

(* The objects M may be stored where those of C are *)
Storable(M, C) == \A w : Whole(w) /\ C \subseteq w /\ w \cap M = {} => Whole(w \cup M)

LEMMA KeepStores ==
  ASSUME NEW M, NEW C, NEW l, NEW R, NEW N, Storable(M, C), M \cap N = {}
  PROVE  Stores(Keep(M), C, l, l \ M, M, R, N)
<1>1. PICK d : d = [op |-> "keep", objects |-> M, undo |-> {}, unless |-> {}]
  OBVIOUS
<1>2. Keep(M) = <<d>> /\ DOMAIN d = Fields
  BY <1>1 DEF Keep, Step, Fields
<1>3. AreSteps(<<d>>)
  BY <1>2, OneStep
<1>4. ASSUME NEW o, Whole(o) /\ C \subseteq o /\ o \cap (N \cup M) = {}
      PROVE  \E p : /\ Whole(p) /\ C \cup M \subseteq p /\ p \cap N = {}
                    /\ Goes(<<d>>, o, l, p, l \ M, R, N \cup M)
  <2>1. Whole(o \cup M)
    BY <1>4 DEF Storable
  <2>2. Passes(d, o, l, o \cup M, l \ M, R)
    BY <1>1 DEF Passes
  <2>3. Goes(<<d>>, o, l, o \cup M, l \ M, R, N \cup M)
    BY <1>2, <1>4, <2>2, GoesStep DEF Whole
  <2>4. C \cup M \subseteq o \cup M /\ (o \cup M) \cap N = {}
    BY <1>4
  <2> QED
    BY <2>1, <2>3, <2>4
<1>5. Stores(<<d>>, C, l, l \ M, M, R, N)
  BY <1>3, <1>4 DEF Stores
<1> QED
  BY <1>2, <1>5

-----------------------------------------------------------------------------
(* Who owns what a whole device owns *)

Owners ==
  {"device", "a", "node", "ring", "target", "source", "depth", "sample", "storage", "raster",
   "plan", "builtin", "user", "bucket", "fill"}

(* The record the objects of an owner are in *)
IsRecordOf(r, n) ==
  /\ n \in {"a", "node", "ring", "plan", "user", "bucket", "fill", "target", "source", "depth"}
  /\ n = "a" => r = Raw("a")
  /\ n \in {"node", "ring"} => r = ComputePipeline(n)
  /\ n = "plan" => r = PlanRasterCache
  /\ n = "user" => r = UserModules
  /\ n \in {"bucket", "fill"} => r = PlanIndirectCache
  /\ n \in {"target", "source", "depth"} => r = Image(n)

LEMMA RawOwner == \A b : \A x \in Raw(b) : x[1] = b
BY DEF Raw

LEMMA PartOwner == \A n, s : \A x \in Part(n, s) : x[1] = n /\ x[2] \in s
BY DEF Part

LEMMA ImageOwner == \A f : \A x \in Image(f) : x[1] = f
<1>1. \A f : Image(f) = Part(f, {"image", "image memory", "view"})
  BY DEF Image, Part
<1> QED
  BY <1>1, PartOwner

LEMMA SingleOwners ==
  \A x \in Singles : /\ x[1] \in {"device", "builtin", "user", "raster", "sample", "storage"}
                     /\ x[1] = "user" => x[2] \in {"pipeline", "program"}
<1> SUFFICES ASSUME NEW x \in Singles
             PROVE  /\ x[1] \in {"device", "builtin", "user", "raster", "sample", "storage"}
                    /\ x[1] = "user" => x[2] \in {"pipeline", "program"}
  OBVIOUS
<1>1. CASE x \in {CommandPool, TimelineSemaphore, Sampler, DescriptorPool, Instance, Device}
  <2>1. /\ CommandPool[1] = "device" /\ TimelineSemaphore[1] = "device" /\ Sampler[1] = "device"
        /\ DescriptorPool[1] = "device" /\ Instance[1] = "device" /\ Device[1] = "device"
    BY DEF CommandPool, TimelineSemaphore, Sampler, DescriptorPool, Instance, Device
  <2> QED
    BY <1>1, <2>1
<1>2. CASE x \in {<<"builtin", "pipeline">>, <<"user", "pipeline">>, <<"user", "program">>,
                  <<"raster", "pipeline">>}
  BY <1>2
<1>3. CASE \E n \in {"raster", "sample", "storage"} : \E s : x \in Part(n, s)
  BY <1>3, PartOwner
<1> QED
  BY <1>1, <1>2, <1>3 DEF Singles

(* A record is told by the owner of any of its objects *)
LEMMA RecordsApart ==
  ASSUME NEW r \in Records
  PROVE  \A x \in r : IsRecordOf(r, x[1]) /\ x \notin Singles
<1>1. r = Raw("a") \/ r = ComputePipeline("node") \/ r = ComputePipeline("ring")
        \/ r = PlanRasterCache \/ r = UserModules \/ r = PlanIndirectCache
        \/ r = Image("target") \/ r = Image("source") \/ r = Image("depth")
  BY DEF Records
<1>2. CASE r = Raw("a")
  BY <1>2, RawOwner, SingleOwners DEF IsRecordOf
<1>3. CASE r = ComputePipeline("node")
  BY <1>3, PartOwner, SingleOwners DEF ComputePipeline, IsRecordOf
<1>4. CASE r = ComputePipeline("ring")
  BY <1>4, PartOwner, SingleOwners DEF ComputePipeline, IsRecordOf
<1>5. CASE r = PlanRasterCache
  <2>1. \A x \in r : x[1] = "plan"
    BY <1>5, PartOwner DEF PlanRasterCache
  <2> QED
    BY <1>5, <2>1, SingleOwners DEF IsRecordOf
<1>6. CASE r = UserModules
  BY <1>6, PartOwner, SingleOwners DEF UserModules, IsRecordOf
<1>7. CASE r = PlanIndirectCache
  BY <1>7, PartOwner, SingleOwners DEF PlanIndirectCache, IsRecordOf
<1>8. CASE r = Image("target")
  BY <1>8, ImageOwner, SingleOwners DEF IsRecordOf
<1>9. CASE r = Image("source")
  BY <1>9, ImageOwner, SingleOwners DEF IsRecordOf
<1>10. CASE r = Image("depth")
  BY <1>10, ImageOwner, SingleOwners DEF IsRecordOf
<1> QED
  BY <1>1, <1>2, <1>3, <1>4, <1>5, <1>6, <1>7, <1>8, <1>9, <1>10

(* Whatever is of another owner, or excluded, is not owned *)
LEMMA OthersUnowned ==
  ASSUME NEW U, NEW N, \A x \in U : x[1] \notin Owners \/ x \in N
  PROVE  NotOwned(U, N)
<1>1. \A x \in Known : x[1] \in Owners
  BY RecordsApart, SingleOwners DEF Known, Owners, IsRecordOf
<1> QED
  BY <1>1 DEF NotOwned, Whole

(* A pipeline that needs what it was made from is no part of a record *)
LEMMA MadeFromSingles == \A m \in MadeFrom : m[1] \in Singles
<1>1. \A n, s : \A p \in s : <<n, p>> \in Part(n, s)
  BY DEF Part
<1>2. /\ <<"sample", "checked">>
           \in Part("sample", {"set layout", "layout", "module", "plain", "checked"})
      /\ <<"storage", "pipeline">>
           \in Part("storage", {"set layout", "layout", "module", "pipeline"})
  BY <1>1
<1>3. /\ <<"user", "pipeline">> \in Singles /\ <<"builtin", "pipeline">> \in Singles
      /\ <<"raster", "pipeline">> \in Singles /\ <<"sample", "checked">> \in Singles
      /\ <<"storage", "pipeline">> \in Singles
  BY <1>2 DEF Singles
<1> SUFFICES ASSUME NEW m \in MadeFrom PROVE m[1] \in Singles
  OBVIOUS
<1>4. \E S : m \in {<<<<"user", "pipeline">>, S>>, <<<<"builtin", "pipeline">>, S>>,
                    <<<<"raster", "pipeline">>, S>>, <<<<"sample", "checked">>, S>>,
                    <<<<"storage", "pipeline">>, S>>}
  BY DEF MadeFrom
<1> QED
  BY <1>3, <1>4

(* The pipelines that need what they were made from, told by their names  *)
LEMMA Parents ==
  \A m \in MadeFrom :
    \/ m[1][1] = "user" /\ m[1][2] = "pipeline" /\ m[2] = UserModules \cup PlanRasterCache
    \/ m[1][1] = "builtin" /\ m[1][2] = "pipeline" /\ m[2] = PlanRasterCache
    \/ /\ m[1][1] = "raster" /\ m[1][2] = "pipeline"
       /\ m[2] = Part("raster", {"set layout", "layout", "vertex", "fragment"})
    \/ /\ m[1][1] = "sample" /\ m[1][2] = "checked"
       /\ m[2] = Part("sample", {"set layout", "layout", "module"})
    \/ /\ m[1][1] = "storage" /\ m[1][2] = "pipeline"
       /\ m[2] = Part("storage", {"set layout", "layout", "module"})
<1> DEFINE Named(m, a, b, S) == m[1][1] = a /\ m[1][2] = b /\ m[2] = S
<1>1. \A a, b, S : Named(<<<<a, b>>, S>>, a, b, S)
  OBVIOUS
<1> HIDE DEF Named
<1> SUFFICES ASSUME NEW m \in MadeFrom
             PROVE  \/ Named(m, "user", "pipeline", UserModules \cup PlanRasterCache)
                    \/ Named(m, "builtin", "pipeline", PlanRasterCache)
                    \/ Named(m, "raster", "pipeline", Part("raster", {"set layout", "layout", "vertex", "fragment"}))
                    \/ Named(m, "sample", "checked", Part("sample", {"set layout", "layout", "module"}))
                    \/ Named(m, "storage", "pipeline", Part("storage", {"set layout", "layout", "module"}))
  BY DEF Named
<1>2. \/ m = <<<<"user", "pipeline">>, UserModules \cup PlanRasterCache>>
      \/ m = <<<<"builtin", "pipeline">>, PlanRasterCache>>
      \/ m = <<<<"raster", "pipeline">>, Part("raster", {"set layout", "layout", "vertex", "fragment"})>>
      \/ m = <<<<"sample", "checked">>, Part("sample", {"set layout", "layout", "module"})>>
      \/ m = <<<<"storage", "pipeline">>, Part("storage", {"set layout", "layout", "module"})>>
  BY DEF MadeFrom
<1>3. CASE m = <<<<"user", "pipeline">>, UserModules \cup PlanRasterCache>>
  BY <1>1, <1>3
<1>4. CASE m = <<<<"builtin", "pipeline">>, PlanRasterCache>>
  BY <1>1, <1>4
<1>5. CASE m = <<<<"raster", "pipeline">>, Part("raster", {"set layout", "layout", "vertex", "fragment"})>>
  BY <1>1, <1>5
<1>6. CASE m = <<<<"sample", "checked">>, Part("sample", {"set layout", "layout", "module"})>>
  BY <1>1, <1>6
<1>7. CASE m = <<<<"storage", "pipeline">>, Part("storage", {"set layout", "layout", "module"})>>
  BY <1>1, <1>7
<1> QED
  BY <1>2, <1>3, <1>4, <1>5, <1>6, <1>7

LEMMA Unparented ==
  ASSUME NEW x, x[2] \notin {"pipeline", "checked"}
  PROVE  \A m \in MadeFrom : m[1] # x
BY Parents

LEMMA SinglesAre ==
  /\ \A t \in {"set layout", "layout", "vertex", "fragment", "pipeline"} : <<"raster", t>> \in Singles
  /\ \A t \in {"set layout", "layout", "module", "plain", "checked"} : <<"sample", t>> \in Singles
  /\ \A t \in {"set layout", "layout", "module", "pipeline"} : <<"storage", t>> \in Singles
  /\ \A n \in {"builtin", "user"} : <<n, "pipeline">> \in Singles
  /\ <<"user", "program">> \in Singles
<1>1. \A n, s : \A t \in s : <<n, t>> \in Part(n, s)
  BY DEF Part
<1>2. \A t \in {"set layout", "layout", "vertex", "fragment", "pipeline"} : <<"raster", t>> \in Singles
  BY <1>1 DEF Singles
<1>3. \A t \in {"set layout", "layout", "module", "plain", "checked"} : <<"sample", t>> \in Singles
  BY <1>1 DEF Singles
<1>4. \A t \in {"set layout", "layout", "module", "pipeline"} : <<"storage", t>> \in Singles
  BY <1>1 DEF Singles
<1>5. (\A n \in {"builtin", "user"} : <<n, "pipeline">> \in Singles) /\ <<"user", "program">> \in Singles
  BY DEF Singles
<1> QED
  BY <1>2, <1>3, <1>4, <1>5

LEMMA PartsMadeFrom ==
  \A m \in MadeFrom : \A x \in m[2] : x[1] \in {"user", "plan", "raster", "sample", "storage"}
<1> SUFFICES ASSUME NEW m \in MadeFrom, NEW x \in m[2]
             PROVE  x[1] \in {"user", "plan", "raster", "sample", "storage"}
  OBVIOUS
<1>1. \/ m[2] = UserModules \cup PlanRasterCache \/ m[2] = PlanRasterCache
      \/ \E n \in {"raster", "sample", "storage"} : \E s : m[2] = Part(n, s)
  <2>1. \E S : \/ m = <<S, UserModules \cup PlanRasterCache>> \/ m = <<S, PlanRasterCache>>
               \/ \E n \in {"raster", "sample", "storage"} : \E s : m = <<S, Part(n, s)>>
    BY DEF MadeFrom
  <2> QED
    BY <2>1
<1>2. \A y \in UserModules : y[1] = "user"
  BY PartOwner DEF UserModules
<1>3. \A y \in PlanRasterCache : y[1] = "plan"
  BY PartOwner DEF PlanRasterCache
<1>4. CASE \E n \in {"raster", "sample", "storage"} : \E s : m[2] = Part(n, s)
  BY <1>4, PartOwner
<1> QED
  BY <1>1, <1>2, <1>3, <1>4

LEMMA RecordStorable ==
  ASSUME NEW r \in Records, NEW C
  PROVE  Storable(r, C)
<1>1. r \subseteq Known
  BY DEF Known
<1>2. \A q \in Records : q = r \/ q \cap r = {}
  BY RecordsApart DEF IsRecordOf
<1>3. \A m \in MadeFrom : m[1] \notin r
  BY RecordsApart, MadeFromSingles
<1> SUFFICES ASSUME NEW w, Whole(w), w \cap r = {} PROVE Whole(w \cup r)
  BY DEF Storable
<1>4. \A q \in Records : q \cap (w \cup r) \in {{}, q}
  BY <1>2 DEF Whole
<1>5. \A m \in MadeFrom : m[1] \in w \cup r => m[2] \subseteq w \cup r
  BY <1>3 DEF Whole
<1> QED
  BY <1>1, <1>4, <1>5 DEF Whole

LEMMA SingleStorable ==
  ASSUME NEW x \in Singles, NEW C, \A m \in MadeFrom : m[1] = x => m[2] \subseteq C
  PROVE  Storable({x}, C)
<1>1. x \in Known
  BY DEF Known
<1>2. \A q \in Records : x \notin q
  BY RecordsApart
<1> SUFFICES ASSUME NEW w, Whole(w), C \subseteq w PROVE Whole(w \cup {x})
  BY DEF Storable
<1>4. \A q \in Records : q \cap (w \cup {x}) \in {{}, q}
  <2> SUFFICES ASSUME NEW q \in Records PROVE q \cap (w \cup {x}) = q \cap w
    BY DEF Whole
  <2> QED
    BY <1>2
<1>5. \A m \in MadeFrom : m[1] \in w \cup {x} => m[2] \subseteq w \cup {x}
  BY DEF Whole
<1> QED
  BY <1>1, <1>4, <1>5 DEF Whole

(* A record no pipeline is made from can go *)
LEMMA RecordDroppable ==
  ASSUME NEW w, Whole(w), NEW r \in {Raw("a"), Image("target"), Image("source"), Image("depth")}
  PROVE  Whole(w \ r)
<1>1. r \in Records
  BY DEF Records
<1>2. \A q \in Records : q = r \/ q \cap r = {}
  BY <1>1, RecordsApart DEF IsRecordOf
<1>3. \A m \in MadeFrom : m[2] \cap r = {}
  <2>1. \A x \in r : x[1] \in {"a", "target", "source", "depth"}
    BY RawOwner, ImageOwner
  <2> QED
    BY <2>1, PartsMadeFrom
<1>4. \A q \in Records : q \cap (w \ r) \in {{}, q}
  <2> SUFFICES ASSUME NEW q \in Records PROVE q \cap (w \ r) = {} \/ q \cap (w \ r) = q \cap w
    BY DEF Whole
  <2> QED
    BY <1>2
<1>5. \A m \in MadeFrom : m[1] \in w \ r => m[2] \subseteq w \ r
  BY <1>3 DEF Whole
<1>6. Base \subseteq w \ r
  <2>1. Base \subseteq Singles
    BY DEF Base, Singles
  <2> QED
    BY <1>1, <2>1, RecordsApart DEF Whole
<1> QED
  BY <1>4, <1>5, <1>6 DEF Whole

-----------------------------------------------------------------------------
(* Members, buffers and command buffers *)

LEMMA Weaker ==
  ASSUME NEW s, NEW C, NEW l, NEW E, NEW m, NEW R, NEW N, NEW D, NEW F,
         Leads(s, C, l, E, m, R, N), C \subseteq D, F \subseteq E
  PROVE  Leads(s, D, l, F, m, R, N)
<1>1. ASSUME NEW o, Whole(o) /\ D \subseteq o /\ o \cap N = {}
      PROVE  \E p : Whole(p) /\ F \subseteq p /\ p \cap N = {} /\ Goes(s, o, l, p, m, R, N)
  <2>1. PICK p : Whole(p) /\ E \subseteq p /\ p \cap N = {} /\ Goes(s, o, l, p, m, R, N)
    BY <1>1 DEF Leads
  <2> QED
    BY <2>1
<1> QED
  BY <1>1 DEF Leads

LEMMA NothingLeads ==
  ASSUME NEW C, NEW l, NEW R, NEW N
  PROVE  Leads(<<>>, C, l, C, l, R, N)
BY GoesNowhere DEF Leads

(* What a failing step of the caller leaves, and who made it *)
Held(l, R, S) == l \subseteq R \cup Leftovers /\ \A x \in l : x[1] \notin S

LEMMA MemberStores ==
  ASSUME NEW x \in Singles, NEW C, NEW l, NEW R, NEW N,
         x \notin l, x \notin N, l \subseteq R \cup Leftovers,
         \A m \in MadeFrom : m[1] = x => m[2] \subseteq C
  PROVE  /\ Stores(Make(x) \o Keep({x}), C, l, l, {x}, R, N)
         /\ Stores(Member(x), C, l, l, {x}, R, N)
<1>1. PICK M : M = {x}
  OBVIOUS
<1>2. PICK W : W = N \cup M
  OBVIOUS
<1>3. PICK k : k = l \cup {x}
  OBVIOUS
<1>4. NotOwned({x}, W)
  BY <1>1, <1>2 DEF NotOwned
<1>5. Leads(Make(x), C, l, C, k, R, W)
  BY <1>3, <1>4, MakeLeads
<1>6. Storable(M, C)
  BY <1>1, SingleStorable
<1>7. M \cap N = {} /\ k \ M = l /\ x \in M
  BY <1>1, <1>3
<1>8. Stores(Keep(M), C, k, l, M, R, N)
  BY <1>6, <1>7, KeepStores
<1>9. Stores(Make(x) \o Keep(M), C, l, l, M, R, N)
  BY <1>2, <1>5, <1>8, ThenStores
<1>10. Stores(Unless(x, Make(x) \o Keep(M)), C, l, l, M, R, N)
  BY <1>7, <1>9, UnlessStores
<1> QED
  BY <1>1, <1>9, <1>10 DEF Member

LEMMA MemberLeads ==
  ASSUME NEW x \in Singles, NEW C, NEW l, NEW R, NEW N,
         x \notin l, x \notin N, l \subseteq R \cup Leftovers,
         \A m \in MadeFrom : m[1] = x => m[2] \subseteq C
  PROVE  Leads(Member(x), C, l, C \cup {x}, l, R, N)
<1>1. PICK M : M = {x}
  OBVIOUS
<1>2. Stores(Make(x) \o Keep(M), C, l, l, M, R, N)
  BY <1>1, MemberStores
<1>3. x \in M /\ \A w : Whole(w) => IF x \in w THEN M \subseteq w ELSE w \cap M = {}
  BY <1>1
<1>4. Leads(Unless(x, Make(x) \o Keep(M)), C, l, C \cup M, l, R, N)
  BY <1>2, <1>3, UnlessLeads
<1> QED
  BY <1>1, <1>4 DEF Member

LEMMA CreateRawBufferLeads ==
  ASSUME NEW b, NEW C, NEW l, NEW R, NEW N,
         Held(l, R, {b}), NotOwned(Raw(b), N)
  PROVE  Leads(CreateRawBuffer(b), C, l, C, l \cup Raw(b), R, N)
<1>1. PICK x, y : x = <<b, "buffer">> /\ y = <<b, "memory">>
  OBVIOUS
<1>2. PICK U : U = Raw(b) /\ U = {x, y} /\ x # y
  BY <1>1 DEF Raw
<1>3. PICK Q : Q = R \cup U
  OBVIOUS
<1>4. PICK k : k = l \cup {x}
  OBVIOUS
<1>5. PICK j : j = l \cup U /\ j = k \cup {y}
  BY <1>2, <1>4
<1>6. x \notin l /\ y \notin k /\ l \subseteq Q \cup Leftovers /\ k \subseteq Q \cup Leftovers
        /\ j \subseteq Q \cup Leftovers
  BY <1>1, <1>2, <1>3, <1>4, <1>5 DEF Held
<1>7. NotOwned({x}, N) /\ NotOwned({y}, N)
  BY <1>2 DEF NotOwned
<1>8. Leads(Make(x), C, l, C, k, Q, N)
  BY <1>4, <1>6, <1>7, MakeLeads
<1>9. Leads(FindMemoryType, C, k, C, k, Q, N)
  BY <1>6, AttemptLeads DEF FindMemoryType
<1>10. Leads(Make(y), C, k, C, j, Q, N)
  BY <1>5, <1>6, <1>7, MakeLeads
<1>11. Leads(Attempt, C, j, C, j, Q, N)
  BY <1>6, AttemptLeads
<1>12. Leads(Make(x) \o FindMemoryType, C, l, C, k, Q, N)
  BY <1>8, <1>9, Then
<1>13. Leads(Make(x) \o FindMemoryType \o Make(y), C, l, C, j, Q, N)
  BY <1>10, <1>12, Then
<1>14. Leads(Make(x) \o FindMemoryType \o Make(y) \o Attempt, C, l, C, j, Q, N)
  BY <1>11, <1>13, Then
<1>15. NotOwned(U, N)
  BY <1>2
<1>16. Leads(Undoing(U, Make(x) \o FindMemoryType \o Make(y) \o Attempt), C, l, C, j, R, N)
  BY <1>3, <1>14, <1>15, UndoingLeads
<1> QED
  BY <1>1, <1>2, <1>5, <1>16 DEF CreateRawBuffer

(* A record is stored by a last step of its own, and told by any object    *)
LEMMA RecordStores ==
  ASSUME NEW s, NEW r \in Records, NEW C, NEW l, NEW k, NEW R, NEW N,
         Leads(s, C, l, C, k, R, N \cup r), k \ r = l, r \cap N = {}
  PROVE  Stores(s \o Keep(r), C, l, l, r, R, N)
<1>1. Stores(Keep(r), C, k, l, r, R, N)
  BY RecordStorable, KeepStores
<1> QED
  BY <1>1, ThenStores

LEMMA RecordLeads ==
  ASSUME NEW s, NEW r \in Records, NEW K \in r, NEW C, NEW l, NEW R, NEW N,
         Stores(s, C, l, l, r, R, N)
  PROVE  Leads(Unless(K, s), C, l, C \cup r, l, R, N)
<1>1. \A w : Whole(w) => IF K \in w THEN r \subseteq w ELSE w \cap r = {}
  BY DEF Whole
<1> QED
  BY <1>1, UnlessLeads

LEMMA EnsureBufferLeads ==
  ASSUME NEW stale \in BOOLEAN
  PROVE  Leads(EnsureBuffer("a", stale), {}, {}, {}, {}, {}, {})
<1>1. PICK Z : Z = {}
  OBVIOUS
<1>2. PICK A : A = Raw("a")
  OBVIOUS
<1>3. PICK K : K = <<"a", "buffer">>
  OBVIOUS
<1>4. A \in Records /\ K \in A
  BY <1>2, <1>3 DEF Records, Raw
<1>5. Leads(When(stale, Drop(A)), Z, Z, Z, Z, Z, Z)
  <2>1. CASE stale
    <3>1. Leads(Drop(A), Z, Z, Z \ A, Z \ A, Z, Z)
      BY <1>2, RecordDroppable, DropLeads
    <3>2. Z \ A = Z
      BY <1>1
    <3> QED
      BY <2>1, <3>1, <3>2 DEF When
  <2>2. CASE ~stale
    BY <2>2, NothingLeads DEF When
  <2> QED
    BY <2>1, <2>2
<1>6. Held(Z, Z, {"a"}) /\ NotOwned(Raw("a"), A) /\ Z \cup Raw("a") = A /\ Z \cup A = A
  BY <1>1, <1>2 DEF Held, NotOwned
<1>7. Leads(CreateRawBuffer("a"), Z, Z, Z, A, Z, Z \cup A)
  BY <1>6, CreateRawBufferLeads
<1>8. Stores(CreateRawBuffer("a") \o Keep(A), Z, Z, Z, A, Z, Z)
  BY <1>1, <1>4, <1>7, RecordStores
<1>9. Leads(Unless(K, CreateRawBuffer("a") \o Keep(A)), Z, Z, Z \cup A, Z, Z, Z)
  BY <1>4, <1>8, RecordLeads
<1>10. Leads(Unless(K, CreateRawBuffer("a") \o Keep(A)), Z, Z, Z, Z, Z, Z)
  BY <1>1, <1>9, Weaker
<1>11. Leads(When(stale, Drop(A)) \o Unless(K, CreateRawBuffer("a") \o Keep(A)), Z, Z, Z, Z, Z, Z)
  BY <1>5, <1>10, Then
<1> QED
  BY <1>1, <1>2, <1>3, <1>11 DEF EnsureBuffer

LEMMA AllocateCommandBufferLeads ==
  ASSUME NEW c, NEW C, NEW l, NEW R, NEW N,
         Held(l, R, {c, "device"}), c \notin Owners, CommandPool \notin N
  PROVE  Leads(AllocateCommandBuffer(c), C, l, C, l \cup {Commands(c)}, R, N)
<1>1. PICK x, y : x = CommandPool /\ y = Commands(c)
  OBVIOUS
<1>2. x[1] = "device" /\ x[2] = "command pool" /\ y[1] = c /\ x \in Singles
  BY <1>1 DEF CommandPool, Commands, Singles
<1>3. x \notin l /\ x \notin N /\ y \notin l /\ l \subseteq R \cup Leftovers
  BY <1>1, <1>2 DEF Held
<1>4. \A m \in MadeFrom : m[1] # x
  BY <1>2, Parents
<1>5. Leads(Member(x), C, l, C \cup {x}, l, R, N)
  BY <1>2, <1>3, <1>4, MemberLeads
<1>6. Leads(EnsureCommandPool, C, l, C, l, R, N)
  BY <1>1, <1>5, Weaker DEF EnsureCommandPool
<1>7. NotOwned({y}, N)
  BY <1>2, OthersUnowned
<1>8. Leads(Make(y), C, l, C, l \cup {y}, R, N)
  BY <1>3, <1>7, MakeLeads
<1> QED
  BY <1>1, <1>6, <1>8, Then DEF AllocateCommandBuffer

LEMMA SubmitAndWaitLeads ==
  ASSUME NEW c, NEW C, NEW k, NEW R, NEW N, Held(k, R, {c}), c \notin Owners
  PROVE  Leads(SubmitAndWait(c), C, k \cup {Commands(c)}, C, k, R, N)
<1>1. PICK f, y : f = <<c, "fence">> /\ y = Commands(c)
  OBVIOUS
<1>2. f[1] = c /\ f[2] = "fence" /\ y[1] = c /\ y[2] = "commands"
  BY <1>1 DEF Commands
<1>3. PICK U, Q : U = {f, y} /\ Q = R \cup U
  OBVIOUS
<1>4. PICK l : l = k \cup {y}
  OBVIOUS
<1>5. PICK j : j = l \cup {f}
  OBVIOUS
<1>6. f \notin l /\ l \subseteq Q \cup Leftovers /\ j \subseteq Q \cup Leftovers /\ j \ U = k
  BY <1>2, <1>3, <1>4, <1>5 DEF Held
<1>7. NotOwned(U, N) /\ NotOwned({f}, N)
  BY <1>2, <1>3, OthersUnowned
<1>8. Leads(Make(f), C, l, C, j, Q, N)
  BY <1>5, <1>6, <1>7, MakeLeads
<1>9. Leads(Attempt, C, j, C, j, Q, N)
  BY <1>6, AttemptLeads
<1>10. Leads(Attempt, C, j, C, j, Q, N)
  BY <1>6, AttemptLeads
<1>11. Leads(Make(f) \o Attempt, C, l, C, j, Q, N)
  BY <1>8, <1>9, Then
<1>12. Leads(Make(f) \o Attempt \o Attempt, C, l, C, j, Q, N)
  BY <1>11, <1>10, Then
<1>13. Leads(Undoing(U, Make(f) \o Attempt \o Attempt), C, l, C, j, R, N)
  BY <1>3, <1>7, <1>12, UndoingLeads
<1>14. Leads(Drop(U), C, j, C, k, R, N)
  BY <1>6, <1>7, DropUnowned
<1>15. Leads(Undoing(U, Make(f) \o Attempt \o Attempt) \o Drop(U), C, l, C, k, R, N)
  BY <1>13, <1>14, Then
<1> QED
  BY <1>1, <1>3, <1>4, <1>15 DEF SubmitAndWait

(* What is recorded into a command buffer between the two *)
LEMMA RecordingLeads ==
  ASSUME NEW c, NEW C, NEW k, NEW R, NEW N, NEW s,
         Held(k, R, {c, "device"}), c \notin Owners, CommandPool \notin N,
         s \in {Attempt, Attempt \o Attempt}
  PROVE  Leads(AllocateCommandBuffer(c) \o Undoing({Commands(c)}, s) \o SubmitAndWait(c),
               C, k, C, k, R, N)
<1>1. PICK y : y = Commands(c)
  OBVIOUS
<1>2. y[1] = c
  BY <1>1 DEF Commands
<1>3. PICK U, Q : U = {y} /\ Q = R \cup U
  OBVIOUS
<1>4. PICK l : l = k \cup {y}
  OBVIOUS
<1>5. l \subseteq Q \cup Leftovers
  BY <1>3, <1>4 DEF Held
<1>6. NotOwned(U, N)
  BY <1>2, <1>3, OthersUnowned
<1>7. Leads(AllocateCommandBuffer(c), C, k, C, l, R, N)
  BY <1>1, <1>4, AllocateCommandBufferLeads
<1>8. Leads(Attempt, C, l, C, l, Q, N)
  BY <1>5, AttemptLeads
<1>9. Leads(s, C, l, C, l, Q, N)
  BY <1>8, Then
<1>10. Leads(Undoing(U, s), C, l, C, l, R, N)
  BY <1>3, <1>6, <1>9, UndoingLeads
<1>11. Held(k, R, {c})
  BY DEF Held
<1>12. Leads(SubmitAndWait(c), C, l, C, k, R, N)
  BY <1>1, <1>4, <1>11, SubmitAndWaitLeads
<1>13. Leads(AllocateCommandBuffer(c) \o Undoing(U, s), C, k, C, l, R, N)
  BY <1>7, <1>10, Then
<1>14. Leads(AllocateCommandBuffer(c) \o Undoing(U, s) \o SubmitAndWait(c), C, k, C, k, R, N)
  BY <1>12, <1>13, Then
<1> QED
  BY <1>1, <1>3, <1>14

-----------------------------------------------------------------------------
(* Facet images *)

LEMMA CreateImageLeads ==
  ASSUME NEW f, NEW C, NEW l, NEW R, NEW N, Held(l, R, {f}), NotOwned(Image(f), N)
  PROVE  Leads(CreateImage(f), C, l, C, l \cup Image(f), R, N)
<1>1. PICK x, y, z : x = <<f, "image">> /\ y = <<f, "image memory">> /\ z = <<f, "view">>
  OBVIOUS
<1>2. /\ x[1] = f /\ y[1] = f /\ z[1] = f
      /\ x[2] = "image" /\ y[2] = "image memory" /\ z[2] = "view"
  BY <1>1
<1>3. PICK U : U = Image(f) /\ U = {x, y, z}
  BY <1>1 DEF Image
<1>4. PICK Q : Q = R \cup U
  OBVIOUS
<1>5. PICK j : j = l \cup {x}
  OBVIOUS
<1>6. PICK k : k = j \cup {y}
  OBVIOUS
<1>7. PICK m : m = k \cup {z}
  OBVIOUS
<1>8. /\ x \notin l /\ y \notin j /\ z \notin k
      /\ l \subseteq Q \cup Leftovers /\ j \subseteq Q \cup Leftovers
      /\ k \subseteq Q \cup Leftovers /\ m = l \cup U
  BY <1>2, <1>3, <1>4, <1>5, <1>6, <1>7 DEF Held
<1>9. NotOwned({x}, N) /\ NotOwned({y}, N) /\ NotOwned({z}, N) /\ NotOwned(U, N)
  BY <1>3 DEF NotOwned
<1>10. Leads(Make(x), C, l, C, j, Q, N)
  BY <1>5, <1>8, <1>9, MakeLeads
<1>11. Leads(FindMemoryType, C, j, C, j, Q, N)
  BY <1>8, AttemptLeads DEF FindMemoryType
<1>12. Leads(Make(y), C, j, C, k, Q, N)
  BY <1>6, <1>8, <1>9, MakeLeads
<1>13. Leads(Attempt, C, k, C, k, Q, N)
  BY <1>8, AttemptLeads
<1>14. Leads(Make(z), C, k, C, m, Q, N)
  BY <1>7, <1>8, <1>9, MakeLeads
<1>15. Leads(Make(x) \o FindMemoryType, C, l, C, j, Q, N)
  BY <1>10, <1>11, Then
<1>16. Leads(Make(x) \o FindMemoryType \o Make(y), C, l, C, k, Q, N)
  BY <1>15, <1>12, Then
<1>17. Leads(Make(x) \o FindMemoryType \o Make(y) \o Attempt, C, l, C, k, Q, N)
  BY <1>16, <1>13, Then
<1>18. Leads(Make(x) \o FindMemoryType \o Make(y) \o Attempt \o Make(z), C, l, C, m, Q, N)
  BY <1>17, <1>14, Then
<1>19. Leads(Undoing(U, Make(x) \o FindMemoryType \o Make(y) \o Attempt \o Make(z)),
               C, l, C, m, R, N)
  BY <1>4, <1>9, <1>18, UndoingLeads
<1> QED
  BY <1>1, <1>3, <1>8, <1>19 DEF CreateImage

(* The image l was made by the caller, and stays with it *)
LEMMA UploadImageLeads ==
  ASSUME NEW f \in {"target", "source", "depth"}, NEW staged \in BOOLEAN,
         NEW C, NEW k, NEW R, NEW N,
         Held(k, R, {"staging", "upload", "device"}), NotOwned(Image(f), N), CommandPool \notin N
  PROVE  Leads(UploadImage(f, staged), C, k \cup Image(f), C, k \cup Image(f), R, N)
<1>1. PICK I, S : I = Image(f) /\ S = Raw("staging")
  OBVIOUS
<1>2. (\A x \in I : x[1] = f) /\ (\A x \in S : x[1] = "staging") /\ f \in Owners
  BY <1>1, ImageOwner, RawOwner DEF Owners
<1>3. PICK U : U = I \cup S
  OBVIOUS
<1>4. PICK Q : Q = R \cup U
  OBVIOUS
<1>5. PICK l : l = k \cup I
  OBVIOUS
<1>6. PICK j : j = IF staged THEN l \cup S ELSE l
  OBVIOUS
<1>7. /\ Held(l, Q, {"staging"}) /\ Held(j, Q, {"upload", "device"}) /\ Held(j, Q, {"upload"})
      /\ j \ S = l /\ l \subseteq Q \cup Leftovers
  BY <1>2, <1>3, <1>4, <1>5, <1>6 DEF Held
<1>8. NotOwned(S, N)
  BY <1>2, OthersUnowned DEF Owners
<1>9. NotOwned(U, N)
  BY <1>1, <1>3, <1>8 DEF NotOwned
<1>10. PICK y : y = j \cup {Commands("upload")}
  OBVIOUS
<1>11. Leads(When(staged, Attempt \o CreateRawBuffer("staging")), C, l, C, j, Q, N)
  <2>1. CASE staged
    <3>1. Leads(Attempt, C, l, C, l, Q, N)
      BY <1>7, AttemptLeads
    <3>2. Leads(CreateRawBuffer("staging"), C, l, C, j, Q, N)
      BY <1>1, <1>6, <1>7, <1>8, <2>1, CreateRawBufferLeads
    <3> QED
      BY <2>1, <3>1, <3>2, Then DEF When
  <2>2. CASE ~staged
    BY <1>6, <2>2, NothingLeads DEF When
  <2> QED
    BY <2>1, <2>2
<1>12. "upload" \notin Owners
  BY DEF Owners
<1>13. Leads(AllocateCommandBuffer("upload"), C, j, C, y, Q, N)
  BY <1>7, <1>10, <1>12, AllocateCommandBufferLeads
<1>14. Leads(SubmitAndWait("upload"), C, y, C, j, Q, N)
  BY <1>7, <1>10, <1>12, SubmitAndWaitLeads
<1>15. PICK a, b, c : /\ a = When(staged, Attempt \o CreateRawBuffer("staging"))
                      /\ b = AllocateCommandBuffer("upload") /\ c = SubmitAndWait("upload")
  OBVIOUS
<1>16. Leads(a \o b, C, l, C, y, Q, N)
  BY <1>11, <1>13, <1>15, Then
<1>17. Leads(a \o b \o c, C, l, C, j, Q, N)
  BY <1>14, <1>15, <1>16, Then
<1>18. Leads(Undoing(U, a \o b \o c), C, l, C, j, R, N)
  BY <1>4, <1>9, <1>17, UndoingLeads
<1>19. Leads(Drop(S), C, j, C, l, R, N)
  BY <1>7, <1>8, DropUnowned
<1>20. Leads(Undoing(U, a \o b \o c) \o Drop(S), C, l, C, l, R, N)
  BY <1>18, <1>19, Then
<1> QED
  BY <1>1, <1>3, <1>5, <1>15, <1>20 DEF UploadImage

(* An image that is dropped, or none *)
LEMMA DropImages ==
  ASSUME NEW f \in {"target", "source", "depth"}, NEW l, NEW R, NEW N,
         \A x \in l : x[1] # f
  PROVE  Leads(Drop(Image(f)), {}, l, {}, l, R, N)
<1>1. PICK I, C : I = Image(f) /\ C = {}
  OBVIOUS
<1>2. l \ I = l /\ C \ I = C
  BY <1>1, ImageOwner
<1>3. \A w : Whole(w) => Whole(w \ I)
  BY <1>1, RecordDroppable
<1>4. Leads(Drop(I), C, l, C \ I, l \ I, R, N)
  BY <1>3, DropLeads
<1> QED
  BY <1>1, <1>2, <1>4

LEMMA EnsureFacetImageLeads ==
  ASSUME NEW f \in {"target", "source", "depth"}, NEW stale \in BOOLEAN, NEW staged \in BOOLEAN,
         NEW l, NEW R, Held(l, R, {f, "staging", "upload", "device"})
  PROVE  Leads(EnsureFacetImage(f, stale, staged), {}, l, {}, l, R, {})
<1>1. PICK Z : Z = {}
  OBVIOUS
<1>2. PICK I : I = Image(f)
  OBVIOUS
<1>3. PICK K : K = <<f, "image">>
  OBVIOUS
<1>4. I \in Records /\ K \in I /\ CommandPool \notin I
  <2>1. CommandPool[1] = "device" /\ f # "device"
    BY DEF CommandPool
  <2>2. CommandPool \notin I
    BY <1>2, <2>1, ImageOwner
  <2> QED
    BY <1>2, <1>3, <2>2 DEF Records, Image
<1>5. \A x \in l : x[1] # f
  BY DEF Held
<1>6. Leads(Attempt, Z, l, Z, l, R, Z)
  BY AttemptLeads DEF Held
<1>7. Leads(When(stale, Drop(I)), Z, l, Z, l, R, Z)
  <2>1. CASE stale
    BY <1>1, <1>2, <1>5, <2>1, DropImages DEF When
  <2>2. CASE ~stale
    BY <2>2, NothingLeads DEF When
  <2> QED
    BY <2>1, <2>2
<1>8. PICK j : j = l \cup I
  OBVIOUS
<1>9. Held(l, R, {f}) /\ Held(l, R, {"staging", "upload", "device"}) /\ j \ I = l
  BY <1>2, <1>5, <1>8, ImageOwner DEF Held
<1>10. PICK W : W = Z \cup I
  OBVIOUS
<1>11. NotOwned(I, W) /\ CommandPool \notin W
  BY <1>1, <1>4, <1>10 DEF NotOwned
<1>12. Leads(CreateImage(f), Z, l, Z, j, R, W)
  BY <1>2, <1>8, <1>9, <1>11, CreateImageLeads
<1>13. Leads(UploadImage(f, staged), Z, j, Z, j, R, W)
  BY <1>2, <1>8, <1>9, <1>11, UploadImageLeads
<1>14. Leads(CreateImage(f) \o UploadImage(f, staged), Z, l, Z, j, R, W)
  BY <1>12, <1>13, Then
<1>15. PICK a : a = CreateImage(f) \o UploadImage(f, staged)
  OBVIOUS
<1>16. Stores(a \o Keep(I), Z, l, l, I, R, Z)
  BY <1>1, <1>4, <1>9, <1>10, <1>14, <1>15, RecordStores
<1>17. Leads(Unless(K, a \o Keep(I)), Z, l, Z \cup I, l, R, Z)
  BY <1>4, <1>16, RecordLeads
<1>18. Leads(Unless(K, a \o Keep(I)), Z, l, Z, l, R, Z)
  BY <1>1, <1>17, Weaker
<1>19. Leads(Attempt \o When(stale, Drop(I)), Z, l, Z, l, R, Z)
  BY <1>6, <1>7, Then
<1>20. Leads(Attempt \o When(stale, Drop(I)) \o Unless(K, a \o Keep(I)), Z, l, Z, l, R, Z)
  BY <1>18, <1>19, Then
<1> QED
  BY <1>1, <1>2, <1>3, <1>15, <1>20 DEF EnsureFacetImage

-----------------------------------------------------------------------------
(* Shaders and pipelines *)

(* A part of a call that leaves what the caller made as it was *)
Leaves(s, l, R) == Leads(s, {}, l, {}, l, R, {})

LEMMA LeavesThen ==
  ASSUME NEW s, NEW t, NEW l, NEW R, Leaves(s, l, R), Leaves(t, l, R)
  PROVE  Leaves(s \o t, l, R)
BY Then DEF Leaves

(* The pipes of a glslc that is not started are left over *)
LEMMA CompileGlslStageLeads ==
  ASSUME NEW C, NEW l, NEW R, NEW N, Held(l, R, {"glslc"})
  PROVE  Leads(CompileGlslStage, C, l, C, l, R, N)
<1>1. PICK x, y, z : x = <<"glslc", "stdin">> /\ y = <<"glslc", "stdout">> /\ z = <<"glslc", "stderr">>
  OBVIOUS
<1>2. /\ x[1] = "glslc" /\ y[1] = "glslc" /\ z[1] = "glslc"
      /\ x[2] = "stdin" /\ y[2] = "stdout" /\ z[2] = "stderr"
  BY <1>1
<1>3. PICK U : U = Pipes /\ U = {x, y, z}
  BY <1>1 DEF Pipes, Part
<1>4. PICK Q : Q = R \cup U
  OBVIOUS
<1>5. PICK j : j = l \cup {x}
  OBVIOUS
<1>6. PICK k : k = j \cup {y}
  OBVIOUS
<1>7. PICK m : m = k \cup {z}
  OBVIOUS
<1>8. /\ x \notin l /\ y \notin j /\ z \notin k
      /\ l \subseteq R \cup Leftovers /\ j \subseteq R \cup Leftovers
      /\ k \subseteq R \cup Leftovers /\ m \subseteq Q \cup Leftovers /\ m \ U = l
  BY <1>2, <1>3, <1>4, <1>5, <1>6, <1>7 DEF Held, Leftovers
<1>9. NotOwned({x}, N) /\ NotOwned({y}, N) /\ NotOwned({z}, N) /\ NotOwned(U, N)
  BY <1>2, <1>3, OthersUnowned DEF Owners
<1>10. Leads(Attempt, C, m, C, m, Q, N)
  BY <1>8, AttemptLeads
<1>11. Leads(Make(x), C, l, C, j, R, N)
  BY <1>5, <1>8, <1>9, MakeLeads
<1>12. Leads(Make(y), C, j, C, k, R, N)
  BY <1>6, <1>8, <1>9, MakeLeads
<1>13. Leads(Make(z), C, k, C, m, R, N)
  BY <1>7, <1>8, <1>9, MakeLeads
<1>14. Leads(Undoing(U, Attempt), C, m, C, m, R, N)
  BY <1>4, <1>9, <1>10, UndoingLeads
<1>15. Leads(Drop(U), C, m, C, l, R, N)
  BY <1>8, <1>9, DropUnowned
<1>16. Leads(Attempt, C, l, C, l, R, N)
  BY <1>8, AttemptLeads
<1>17. Leads(Make(x) \o Make(y), C, l, C, k, R, N)
  BY <1>11, <1>12, Then
<1>18. Leads(Make(x) \o Make(y) \o Make(z), C, l, C, m, R, N)
  BY <1>17, <1>13, Then
<1>19. Leads(Make(x) \o Make(y) \o Make(z) \o Undoing(U, Attempt), C, l, C, m, R, N)
  BY <1>18, <1>14, Then
<1>20. Leads(Make(x) \o Make(y) \o Make(z) \o Undoing(U, Attempt) \o Drop(U), C, l, C, l, R, N)
  BY <1>19, <1>15, Then
<1>21. Leads(Make(x) \o Make(y) \o Make(z) \o Undoing(U, Attempt) \o Drop(U) \o Attempt,
             C, l, C, l, R, N)
  BY <1>20, <1>16, Then
<1> QED
  BY <1>1, <1>3, <1>21 DEF CompileGlslStage

LEMMA CreateComputePipelineStores ==
  ASSUME NEW n \in {"node", "ring"}
  PROVE  Stores(CreateComputePipeline(n), {}, {}, {}, ComputePipeline(n), {}, {})
<1>1. PICK x, y, z : x = <<n, "module">> /\ y = <<n, "layout">> /\ z = <<n, "pipeline">>
  OBVIOUS
<1>2. x[2] = "module" /\ y[2] = "layout" /\ z[2] = "pipeline"
  BY <1>1
<1>3. PICK U : U = ComputePipeline(n) /\ U = {x, y, z}
  BY <1>1 DEF ComputePipeline, Part
<1>4. PICK Z, W : Z = {} /\ W = Z \cup U
  OBVIOUS
<1>5. PICK j : j = Z \cup {x}
  OBVIOUS
<1>6. PICK k : k = j \cup {y}
  OBVIOUS
<1>7. U = k \cup {z}
  BY <1>3, <1>4, <1>5, <1>6
<1>8. /\ x \notin Z /\ y \notin j /\ z \notin k /\ U \ U = Z /\ W = U /\ U \cap Z = {}
      /\ Z \subseteq W \cup Leftovers /\ j \subseteq W \cup Leftovers
      /\ k \subseteq W \cup Leftovers /\ Held(Z, Z, {"glslc"})
  BY <1>2, <1>3, <1>4, <1>5, <1>6 DEF Held
<1>9. NotOwned({x}, W) /\ NotOwned({y}, W) /\ NotOwned({z}, W) /\ NotOwned(U, W)
  BY <1>3, <1>4 DEF NotOwned
<1>10. Leads(Make(x), Z, Z, Z, j, W, W)
  BY <1>5, <1>8, <1>9, MakeLeads
<1>11. Leads(Make(y), Z, j, Z, k, W, W)
  BY <1>6, <1>8, <1>9, MakeLeads
<1>12. Leads(Make(z), Z, k, Z, U, W, W)
  BY <1>7, <1>8, <1>9, MakeLeads
<1>13. Leads(Make(x) \o Make(y), Z, Z, Z, k, W, W)
  BY <1>10, <1>11, Then
<1>14. Leads(Make(x) \o Make(y) \o Make(z), Z, Z, Z, U, W, W)
  BY <1>13, <1>12, Then
<1>15. PICK s : s = Make(x) \o Make(y) \o Make(z)
  OBVIOUS
<1>16. Leads(Undoing(U, s), Z, Z, Z, U, Z, W)
  BY <1>4, <1>9, <1>14, <1>15, UndoingLeads
<1>17. Leads(CompileGlslStage, Z, Z, Z, Z, Z, W)
  BY <1>8, CompileGlslStageLeads
<1>18. Leads(CompileGlslStage \o Undoing(U, s), Z, Z, Z, U, Z, W)
  BY <1>16, <1>17, Then
<1>19. U \in Records
  BY <1>3 DEF Records
<1>20. Stores(CompileGlslStage \o Undoing(U, s) \o Keep(U), Z, Z, Z, U, Z, Z)
  BY <1>4, <1>8, <1>18, <1>19, RecordStores
<1> QED
  BY <1>1, <1>3, <1>4, <1>15, <1>20 DEF CreateComputePipeline

LEMMA EnsurePipelineLeads == Leaves(EnsurePipeline("node"), {}, {})
<1>1. PICK Z, K, U : Z = {} /\ K = <<"node", "pipeline">> /\ U = ComputePipeline("node")
  OBVIOUS
<1>2. U \in Records /\ K \in U
  BY <1>1 DEF Records, ComputePipeline, Part
<1>3. Leads(Unless(K, CreateComputePipeline("node")), Z, Z, Z \cup U, Z, Z, Z)
  BY <1>1, <1>2, CreateComputePipelineStores, RecordLeads
<1>4. Leads(Unless(K, CreateComputePipeline("node")), Z, Z, Z, Z, Z, Z)
  BY <1>1, <1>3, Weaker
<1> QED
  BY <1>1, <1>4 DEF Leaves, EnsurePipeline

LEMMA EnsureTaskRingPipelineLeads == Leaves(EnsureTaskRingPipeline, {}, {})
<1>1. PICK Z, K, U : Z = {} /\ K = <<"ring", "pipeline">> /\ U = ComputePipeline("ring")
  OBVIOUS
<1>2. U \in Records /\ K \in U
  BY <1>1 DEF Records, ComputePipeline, Part
<1>3. PICK D : D = Part("ring", {"layout", "module"})
  OBVIOUS
<1>4. D \subseteq U
  BY <1>1, <1>3 DEF ComputePipeline, Part
<1>5. PICK W : W = Z \cup U
  OBVIOUS
<1>6. NotOwned(D, W) /\ Z \ D = Z
  BY <1>1, <1>4, <1>5 DEF NotOwned
<1>7. Leads(Drop(D), Z, Z, Z, Z, Z, W)
  BY <1>6, DropUnowned
<1>8. Stores(CreateComputePipeline("ring"), Z, Z, Z, U, Z, Z)
  BY <1>1, CreateComputePipelineStores
<1>9. Stores(Drop(D) \o CreateComputePipeline("ring"), Z, Z, Z, U, Z, Z)
  BY <1>5, <1>7, <1>8, ThenStores
<1>10. Leads(Unless(K, Drop(D) \o CreateComputePipeline("ring")), Z, Z, Z \cup U, Z, Z, Z)
  BY <1>2, <1>9, RecordLeads
<1>11. Leads(Unless(K, Drop(D) \o CreateComputePipeline("ring")), Z, Z, Z, Z, Z, Z)
  BY <1>1, <1>10, Weaker
<1> QED
  BY <1>1, <1>3, <1>11 DEF Leaves, EnsureTaskRingPipeline

(* The module of a shader, a member of its own *)
LEMMA ShaderModuleLeads ==
  ASSUME NEW x \in Singles, NEW C, NEW l, NEW R, NEW N,
         Held(l, R, {"glslc"}), x \notin l, x \notin N, \A m \in MadeFrom : m[1] # x
  PROVE  Leads(ShaderModule(x), C, l, C \cup {x}, l, R, N)
<1>1. PICK M : M = {x}
  OBVIOUS
<1>2. PICK W : W = N \cup M
  OBVIOUS
<1>3. PICK k : k = l \cup {x}
  OBVIOUS
<1>4. NotOwned({x}, W) /\ Storable(M, C) /\ M \cap N = {} /\ k \ M = l
  BY <1>1, <1>2, <1>3, SingleStorable DEF NotOwned
<1>5. Leads(CompileGlslStage, C, l, C, l, R, W)
  BY CompileGlslStageLeads
<1>6. Leads(Make(x), C, l, C, k, R, W)
  BY <1>3, <1>4, MakeLeads DEF Held
<1>7. Leads(CompileGlslStage \o Make(x), C, l, C, k, R, W)
  BY <1>5, <1>6, Then
<1>8. Stores(Keep(M), C, k, l, M, R, N)
  BY <1>4, KeepStores
<1>9. PICK s : s = CompileGlslStage \o Make(x)
  OBVIOUS
<1>10. Stores(s \o Keep(M), C, l, l, M, R, N)
  BY <1>2, <1>7, <1>8, <1>9, ThenStores
<1>11. x \in M /\ \A w : Whole(w) => IF x \in w THEN M \subseteq w ELSE w \cap M = {}
  BY <1>1
<1>12. Leads(Unless(x, s \o Keep(M)), C, l, C \cup M, l, R, N)
  BY <1>10, <1>11, UnlessLeads
<1> QED
  BY <1>1, <1>9, <1>12 DEF ShaderModule

-----------------------------------------------------------------------------
(* The kernels of the facets, and the raster pass *)

LEMMA EnsureSampleFacetPipelineLeads ==
  ASSUME NEW profile \in {"plain", "checked"}
  PROVE  Leaves(EnsureSampleFacetPipeline(profile), {}, {})
<1>1. PICK x, y, z, v : /\ x = <<"sample", "set layout">> /\ y = <<"sample", "layout">>
                        /\ z = <<"sample", "module">> /\ v = <<"sample", profile>>
  OBVIOUS
<1>2. x[2] = "set layout" /\ y[2] = "layout" /\ z[2] = "module" /\ v[1] = "sample"
  BY <1>1
<1>3. x \in Singles /\ y \in Singles /\ z \in Singles /\ v \in Singles
  BY <1>1, SinglesAre
<1>4. PICK Z : Z = {}
  OBVIOUS
<1>5. PICK A : A = Z \cup {x}
  OBVIOUS
<1>6. PICK B : B = A \cup {y}
  OBVIOUS
<1>7. PICK C : C = B \cup {z}
  OBVIOUS
<1>8. \A m \in MadeFrom : m[1] # x /\ m[1] # y /\ m[1] # z
  BY <1>2, Unparented
<1>9. \A m \in MadeFrom : m[1] = v => m[2] \subseteq C
  <2>1. C = Part("sample", {"set layout", "layout", "module"})
    BY <1>1, <1>4, <1>5, <1>6, <1>7 DEF Part
  <2> QED
    BY <1>2, <2>1, Parents
<1>10. Held(Z, Z, {"glslc"}) /\ Z \subseteq Z \cup Leftovers
         /\ x \notin Z /\ y \notin Z /\ z \notin Z /\ v \notin Z
  BY <1>4 DEF Held
<1>11. Leads(Member(x), Z, Z, A, Z, Z, Z)
  BY <1>3, <1>5, <1>8, <1>10, MemberLeads
<1>12. Leads(Member(y), A, Z, B, Z, Z, Z)
  BY <1>3, <1>6, <1>8, <1>10, MemberLeads
<1>13. Leads(ShaderModule(z), B, Z, C, Z, Z, Z)
  BY <1>3, <1>7, <1>8, <1>10, ShaderModuleLeads
<1>14. Leads(Member(v), C, Z, C \cup {v}, Z, Z, Z)
  BY <1>3, <1>9, <1>10, MemberLeads
<1>15. Leads(Member(x) \o Member(y), Z, Z, B, Z, Z, Z)
  BY <1>11, <1>12, Then
<1>16. Leads(Member(x) \o Member(y) \o ShaderModule(z), Z, Z, C, Z, Z, Z)
  BY <1>15, <1>13, Then
<1>17. Leads(Member(x) \o Member(y) \o ShaderModule(z) \o Member(v), Z, Z, C \cup {v}, Z, Z, Z)
  BY <1>16, <1>14, Then
<1>18. Leads(Member(x) \o Member(y) \o ShaderModule(z) \o Member(v), Z, Z, Z, Z, Z, Z)
  BY <1>4, <1>17, Weaker
<1> QED
  BY <1>1, <1>4, <1>18 DEF Leaves, EnsureSampleFacetPipeline

LEMMA EnsureStorageFacetPipelineLeads == Leaves(EnsureStorageFacetPipeline, {}, {})
<1>1. PICK x, y, z, v : /\ x = <<"storage", "set layout">> /\ y = <<"storage", "layout">>
                        /\ z = <<"storage", "module">> /\ v = <<"storage", "pipeline">>
  OBVIOUS
<1>2. x[2] = "set layout" /\ y[2] = "layout" /\ z[2] = "module" /\ v[2] = "pipeline" /\ v[1] = "storage"
  BY <1>1
<1>3. x \in Singles /\ y \in Singles /\ z \in Singles /\ v \in Singles
  BY <1>1, SinglesAre
<1>4. PICK Z : Z = {}
  OBVIOUS
<1>5. PICK A : A = Z \cup {x}
  OBVIOUS
<1>6. PICK B : B = A \cup {y}
  OBVIOUS
<1>7. PICK C : C = B \cup {z}
  OBVIOUS
<1>8. \A m \in MadeFrom : m[1] # x /\ m[1] # y /\ m[1] # z
  BY <1>2, Unparented
<1>9. \A m \in MadeFrom : m[1] = v => m[2] \subseteq C
  <2>1. C = Part("storage", {"set layout", "layout", "module"})
    BY <1>1, <1>4, <1>5, <1>6, <1>7 DEF Part
  <2> QED
    BY <1>2, <2>1, Parents
<1>10. PICK V, W : V = {v} /\ W = Z \cup V
  OBVIOUS
<1>11. /\ Held(Z, Z, {"glslc"}) /\ Z \subseteq Z \cup Leftovers
       /\ x \notin Z /\ y \notin Z /\ z \notin Z /\ v \notin Z /\ z \notin W
  BY <1>2, <1>4, <1>10 DEF Held
<1>12. Leads(Member(x), Z, Z, A, Z, Z, Z)
  BY <1>3, <1>5, <1>8, <1>11, MemberLeads
<1>13. Leads(Member(y), A, Z, B, Z, Z, Z)
  BY <1>3, <1>6, <1>8, <1>11, MemberLeads
<1>14. Leads(ShaderModule(z), B, Z, C, Z, Z, W)
  BY <1>3, <1>7, <1>8, <1>11, ShaderModuleLeads
<1>15. Stores(Member(v), C, Z, Z, V, Z, Z)
  BY <1>3, <1>9, <1>10, <1>11, MemberStores
<1>16. B \subseteq C
  BY <1>7
<1>17. Stores(ShaderModule(z) \o Member(v), B, Z, Z, V, Z, Z)
  BY <1>10, <1>14, <1>15, <1>16, ThenStores
<1>18. v \in V /\ \A w : Whole(w) => IF v \in w THEN V \subseteq w ELSE w \cap V = {}
  BY <1>10
<1>19. PICK u : u = Unless(v, ShaderModule(z) \o Member(v))
  OBVIOUS
<1>20. Leads(u, B, Z, B \cup V, Z, Z, Z)
  BY <1>17, <1>18, <1>19, UnlessLeads
<1>21. Leads(u, B, Z, Z, Z, Z, Z)
  BY <1>4, <1>20, Weaker
<1>22. Leads(Member(x) \o Member(y), Z, Z, B, Z, Z, Z)
  BY <1>12, <1>13, Then
<1>23. Leads(Member(x) \o Member(y) \o u, Z, Z, Z, Z, Z, Z)
  BY <1>21, <1>22, Then
<1> QED
  BY <1>1, <1>4, <1>19, <1>23 DEF Leaves, EnsureStorageFacetPipeline

LEMMA EnsureRasterPipelineLeads == Leaves(EnsureRasterPipeline, {}, {})
<1>1. PICK x, y, z, t, v : /\ x = <<"raster", "set layout">> /\ y = <<"raster", "layout">>
                           /\ z = <<"raster", "vertex">> /\ t = <<"raster", "fragment">>
                           /\ v = <<"raster", "pipeline">>
  OBVIOUS
<1>2. /\ x[2] = "set layout" /\ y[2] = "layout" /\ z[2] = "vertex" /\ t[2] = "fragment"
      /\ v[2] = "pipeline" /\ v[1] = "raster"
  BY <1>1
<1>3. x \in Singles /\ y \in Singles /\ z \in Singles /\ t \in Singles /\ v \in Singles
  BY <1>1, SinglesAre
<1>4. PICK Z : Z = {}
  OBVIOUS
<1>5. PICK A : A = Z \cup {x}
  OBVIOUS
<1>6. PICK B : B = A \cup {y}
  OBVIOUS
<1>7. PICK C : C = B \cup {z}
  OBVIOUS
<1>8. PICK D : D = C \cup {t}
  OBVIOUS
<1>9. \A m \in MadeFrom : m[1] # x /\ m[1] # y /\ m[1] # z /\ m[1] # t
  BY <1>2, Unparented
<1>10. \A m \in MadeFrom : m[1] = v => m[2] \subseteq D
  <2>1. D = Part("raster", {"set layout", "layout", "vertex", "fragment"})
    BY <1>1, <1>4, <1>5, <1>6, <1>7, <1>8 DEF Part
  <2> QED
    BY <1>2, <2>1, Parents
<1>11. /\ Held(Z, Z, {"glslc"}) /\ Z \subseteq Z \cup Leftovers
       /\ x \notin Z /\ y \notin Z /\ z \notin Z /\ t \notin Z /\ v \notin Z
  BY <1>4 DEF Held
<1>12. Leads(Member(x), Z, Z, A, Z, Z, Z)
  BY <1>3, <1>5, <1>9, <1>11, MemberLeads
<1>13. Leads(Member(y), A, Z, B, Z, Z, Z)
  BY <1>3, <1>6, <1>9, <1>11, MemberLeads
<1>14. Leads(ShaderModule(z), B, Z, C, Z, Z, Z)
  BY <1>3, <1>7, <1>9, <1>11, ShaderModuleLeads
<1>15. Leads(ShaderModule(t), C, Z, D, Z, Z, Z)
  BY <1>3, <1>8, <1>9, <1>11, ShaderModuleLeads
<1>16. Leads(Member(x) \o Member(y), Z, Z, B, Z, Z, Z)
  BY <1>12, <1>13, Then
<1>17. Leads(Member(x) \o Member(y) \o ShaderModule(z), Z, Z, C, Z, Z, Z)
  BY <1>16, <1>14, Then
<1>18. Leads(Member(x) \o Member(y) \o ShaderModule(z) \o ShaderModule(t), Z, Z, D, Z, Z, Z)
  BY <1>17, <1>15, Then
<1>19. Leads(EnsureRasterShaderModules, Z, Z, D, Z, Z, Z)
  BY <1>1, <1>18 DEF EnsureRasterShaderModules
<1>20. Leads(Member(v), D, Z, D \cup {v}, Z, Z, Z)
  BY <1>3, <1>10, <1>11, MemberLeads
<1>21. Leads(Member(v), D, Z, Z, Z, Z, Z)
  BY <1>4, <1>20, Weaker
<1>22. Leads(Attempt, Z, Z, Z, Z, Z, Z)
  BY <1>11, AttemptLeads
<1>23. Leads(Attempt \o EnsureRasterShaderModules, Z, Z, D, Z, Z, Z)
  BY <1>19, <1>22, Then
<1>24. Leads(Attempt \o EnsureRasterShaderModules \o Member(v), Z, Z, Z, Z, Z, Z)
  BY <1>21, <1>23, Then
<1> QED
  BY <1>1, <1>4, <1>24 DEF Leaves, EnsureRasterPipeline

-----------------------------------------------------------------------------
(* The caches of the raster plans *)

LEMMA EnsurePlanRasterCacheLeads ==
  ASSUME NEW C, NEW l, NEW R, Held(l, R, {"plan", "glslc"})
  PROVE  Leads(EnsurePlanRasterCache, C, l, C \cup PlanRasterCache, l, R, {})
<1>1. PICK x, y, z, t : /\ x = <<"plan", "set layout">> /\ y = <<"plan", "layout">>
                        /\ z = <<"plan", "vertex">> /\ t = <<"plan", "fragment">>
  OBVIOUS
<1>2. /\ x[1] = "plan" /\ y[1] = "plan" /\ z[1] = "plan" /\ t[1] = "plan"
      /\ x[2] = "set layout" /\ y[2] = "layout" /\ z[2] = "vertex" /\ t[2] = "fragment"
  BY <1>1
<1>3. PICK U : U = PlanRasterCache /\ U = {x, y, z, t} /\ U \in Records
  BY <1>1 DEF PlanRasterCache, Part, Records
<1>4. PICK N, W : N = {} /\ W = N \cup U
  OBVIOUS
<1>5. PICK Q : Q = R \cup U
  OBVIOUS
<1>6. PICK h : h = l \cup {x}
  OBVIOUS
<1>7. PICK i : i = h \cup {y}
  OBVIOUS
<1>8. PICK j : j = i \cup {z}
  OBVIOUS
<1>9. PICK k : k = j \cup {t}
  OBVIOUS
<1>10. x \notin l /\ y \notin h /\ z \notin i /\ t \notin j
  BY <1>2, <1>6, <1>7, <1>8 DEF Held
<1>11. /\ l \subseteq Q \cup Leftovers /\ h \subseteq Q \cup Leftovers
       /\ i \subseteq Q \cup Leftovers /\ j \subseteq Q \cup Leftovers
       /\ Held(i, Q, {"glslc"}) /\ Held(j, Q, {"glslc"})
  BY <1>2, <1>3, <1>5, <1>6, <1>7, <1>8 DEF Held
<1>12. k \ U = l /\ U \cap N = {}
  BY <1>2, <1>3, <1>4, <1>6, <1>7, <1>8, <1>9 DEF Held
<1>13. /\ NotOwned({x}, W) /\ NotOwned({y}, W) /\ NotOwned({z}, W) /\ NotOwned({t}, W)
       /\ NotOwned(U, W)
  BY <1>3, <1>4 DEF NotOwned
<1>14. Leads(Make(x), C, l, C, h, Q, W)
  BY <1>6, <1>10, <1>11, <1>13, MakeLeads
<1>15. Leads(Make(y), C, h, C, i, Q, W)
  BY <1>7, <1>10, <1>11, <1>13, MakeLeads
<1>16. Leads(CompileGlslStage, C, i, C, i, Q, W)
  BY <1>11, CompileGlslStageLeads
<1>17. Leads(Make(z), C, i, C, j, Q, W)
  BY <1>8, <1>10, <1>11, <1>13, MakeLeads
<1>18. Leads(CompileGlslStage, C, j, C, j, Q, W)
  BY <1>11, CompileGlslStageLeads
<1>19. Leads(Make(t), C, j, C, k, Q, W)
  BY <1>9, <1>10, <1>11, <1>13, MakeLeads
<1>20. Leads(Make(x) \o Make(y), C, l, C, i, Q, W)
  BY <1>14, <1>15, Then
<1>21. Leads(Make(x) \o Make(y) \o CompileGlslStage, C, l, C, i, Q, W)
  BY <1>20, <1>16, Then
<1>22. Leads(Make(x) \o Make(y) \o CompileGlslStage \o Make(z), C, l, C, j, Q, W)
  BY <1>21, <1>17, Then
<1>23. Leads(Make(x) \o Make(y) \o CompileGlslStage \o Make(z) \o CompileGlslStage,
             C, l, C, j, Q, W)
  BY <1>22, <1>18, Then
<1>24. Leads(Make(x) \o Make(y) \o CompileGlslStage \o Make(z) \o CompileGlslStage
               \o Make(t),
             C, l, C, k, Q, W)
  BY <1>23, <1>19, Then
<1>25. PICK s : s = Make(x) \o Make(y) \o CompileGlslStage \o Make(z) \o CompileGlslStage \o Make(t)
  OBVIOUS
<1>26. Leads(Undoing(U, s), C, l, C, k, R, W)
  BY <1>5, <1>13, <1>24, <1>25, UndoingLeads
<1>27. Stores(Undoing(U, s) \o Keep(U), C, l, l, U, R, N)
  BY <1>3, <1>4, <1>12, <1>26, RecordStores
<1>28. x \in U
  BY <1>3
<1>29. Leads(Unless(x, Undoing(U, s) \o Keep(U)), C, l, C \cup U, l, R, N)
  BY <1>3, <1>27, <1>28, RecordLeads
<1> QED
  BY <1>1, <1>3, <1>4, <1>25, <1>29 DEF EnsurePlanRasterCache

LEMMA GetOrCompileUserRasterGlslLeads ==
  ASSUME NEW l, NEW R, Held(l, R, {"glslc", "user"})
  PROVE  Leaves(GetOrCompileUserRasterGlsl, l, R)
<1>1. PICK Z, x, V : Z = {} /\ x = <<"user", "program">> /\ V = {x}
  OBVIOUS
<1>2. PICK W : W = Z \cup V
  OBVIOUS
<1>3. x \in Singles /\ x[1] = "user" /\ x[2] = "program"
  BY <1>1, SinglesAre
<1>4. /\ x \notin l /\ x \notin Z /\ l \subseteq R \cup Leftovers /\ Held(l, R, {"glslc"})
      /\ \A m \in MadeFrom : m[1] # x
  BY <1>1, <1>3, Unparented DEF Held
<1>5. Leads(Attempt, Z, l, Z, l, R, W)
  BY <1>4, AttemptLeads
<1>6. Leads(CompileGlslStage, Z, l, Z, l, R, W)
  BY <1>4, CompileGlslStageLeads
<1>7. Leads(CompileGlslStage, Z, l, Z, l, R, W)
  BY <1>4, CompileGlslStageLeads
<1>8. Leads(Attempt, Z, l, Z, l, R, W)
  BY <1>4, AttemptLeads
<1>9. Leads(Attempt, Z, l, Z, l, R, W)
  BY <1>4, AttemptLeads
<1>10. Leads(Attempt \o CompileGlslStage, Z, l, Z, l, R, W)
  BY <1>5, <1>6, Then
<1>11. Leads(Attempt \o CompileGlslStage \o CompileGlslStage, Z, l, Z, l, R, W)
  BY <1>10, <1>7, Then
<1>12. Leads(Attempt \o CompileGlslStage \o CompileGlslStage \o Attempt, Z, l, Z, l, R, W)
  BY <1>11, <1>8, Then
<1>13. Leads(Attempt \o CompileGlslStage \o CompileGlslStage \o Attempt \o Attempt,
             Z, l, Z, l, R, W)
  BY <1>12, <1>9, Then
<1>14. Leads(CompileUserRasterGlsl, Z, l, Z, l, R, W)
  BY <1>13 DEF CompileUserRasterGlsl, ValidateUserRasterContract, ValidateSpirvDescriptorStage
<1>15. Stores(Member(x), Z, l, l, V, R, Z)
  BY <1>1, <1>3, <1>4, MemberStores
<1>16. Stores(CompileUserRasterGlsl \o Member(x), Z, l, l, V, R, Z)
  BY <1>2, <1>14, <1>15, ThenStores
<1>17. x \in V /\ \A w : Whole(w) => IF x \in w THEN V \subseteq w ELSE w \cap V = {}
  BY <1>1
<1>18. PICK u : u = Unless(x, CompileUserRasterGlsl \o Member(x))
  OBVIOUS
<1>19. Leads(u, Z, l, Z \cup V, l, R, Z)
  BY <1>16, <1>17, <1>18, UnlessLeads
<1>20. Leads(u, Z, l, Z, l, R, Z)
  BY <1>1, <1>19, Weaker
<1>21. Leads(ValidateUserRasterContract, Z, l, Z, l, R, Z)
  BY <1>4, AttemptLeads DEF ValidateUserRasterContract
<1>22. Leads(ValidateUserRasterContract \o u, Z, l, Z, l, R, Z)
  BY <1>20, <1>21, Then
<1> QED
  BY <1>1, <1>18, <1>22 DEF Leaves, GetOrCompileUserRasterGlsl

LEMMA CreateUserRasterShaderModulesLeads ==
  ASSUME NEW C, NEW l, NEW R, Held(l, R, {"user"})
  PROVE  Leads(Unless(<<"user", "vertex">>, CreateUserRasterShaderModules),
               C, l, C \cup UserModules, l, R, {})
<1>1. PICK x, y : x = <<"user", "vertex">> /\ y = <<"user", "fragment">>
  OBVIOUS
<1>2. x[1] = "user" /\ y[1] = "user" /\ x[2] = "vertex" /\ y[2] = "fragment"
  BY <1>1
<1>3. PICK U : U = UserModules /\ U = {x, y} /\ U \in Records
  BY <1>1 DEF UserModules, Part, Records
<1>4. PICK N, W : N = {} /\ W = N \cup U
  OBVIOUS
<1>5. PICK Q : Q = R \cup U
  OBVIOUS
<1>6. PICK j : j = l \cup {x}
  OBVIOUS
<1>7. PICK k : k = j \cup {y}
  OBVIOUS
<1>8. /\ x \notin l /\ y \notin j /\ l \subseteq Q \cup Leftovers /\ j \subseteq Q \cup Leftovers
      /\ k \ U = l /\ U \cap N = {} /\ x \in U
  BY <1>2, <1>3, <1>4, <1>5, <1>6, <1>7 DEF Held
<1>9. NotOwned({x}, W) /\ NotOwned({y}, W) /\ NotOwned(U, W)
  BY <1>3, <1>4 DEF NotOwned
<1>10. Leads(Make(x), C, l, C, j, Q, W)
  BY <1>6, <1>8, <1>9, MakeLeads
<1>11. Leads(Make(y), C, j, C, k, Q, W)
  BY <1>7, <1>8, <1>9, MakeLeads
<1>12. PICK s : s = Make(x) \o Make(y)
  OBVIOUS
<1>13. Leads(s, C, l, C, k, Q, W)
  BY <1>10, <1>11, <1>12, Then
<1>14. Leads(Undoing(U, s), C, l, C, k, R, W)
  BY <1>5, <1>9, <1>13, UndoingLeads
<1>15. Stores(Undoing(U, s) \o Keep(U), C, l, l, U, R, N)
  BY <1>3, <1>4, <1>8, <1>14, RecordStores
<1>16. Leads(Unless(x, Undoing(U, s) \o Keep(U)), C, l, C \cup U, l, R, N)
  BY <1>3, <1>8, <1>15, RecordLeads
<1> QED
  BY <1>1, <1>3, <1>4, <1>12, <1>16 DEF CreateUserRasterShaderModules

(* The pipeline of a user's program is made after its modules *)
LEMMA EnsurePlanRasterPipelineLeads ==
  ASSUME NEW program \in {"builtin", "user"}, NEW C, program = "user" => UserModules \subseteq C,
         NEW l, NEW R, Held(l, R, {"plan", "glslc", "builtin", "user"})
  PROVE  Leads(EnsurePlanRasterPipeline(program), C, l, {}, l, R, {})
<1>1. PICK N, x : N = {} /\ x = <<program, "pipeline">>
  OBVIOUS
<1>2. x[1] = program /\ x \in Singles
  BY <1>1, SinglesAre
<1>3. PICK D : D = C \cup PlanRasterCache
  OBVIOUS
<1>4. \A m \in MadeFrom : m[1] = x => m[2] \subseteq D
  BY <1>2, <1>3, Parents
<1>5. x \notin l /\ x \notin N /\ l \subseteq R \cup Leftovers /\ Held(l, R, {"plan", "glslc"})
  BY <1>1, <1>2 DEF Held
<1>6. Leads(EnsurePlanRasterCache, C, l, D, l, R, N)
  BY <1>1, <1>3, <1>5, EnsurePlanRasterCacheLeads
<1>7. Leads(Member(x), D, l, D \cup {x}, l, R, N)
  BY <1>2, <1>4, <1>5, MemberLeads
<1>8. Leads(Member(x), D, l, N, l, R, N)
  BY <1>1, <1>7, Weaker
<1> QED
  BY <1>1, <1>6, <1>8, Then DEF EnsurePlanRasterPipeline

LEMMA EnsurePlanUserRasterPipelineLeads ==
  ASSUME NEW l, NEW R, Held(l, R, {"plan", "glslc", "builtin", "user"})
  PROVE  Leaves(EnsurePlanUserRasterPipeline, l, R)
<1>1. PICK Z, A, B : Z = {} /\ A = Z \cup PlanRasterCache /\ B = A \cup UserModules
  OBVIOUS
<1>2. Held(l, R, {"plan", "glslc"}) /\ Held(l, R, {"user"}) /\ UserModules \subseteq B
  BY <1>1 DEF Held
<1>3. Leads(EnsurePlanRasterCache, Z, l, A, l, R, Z)
  BY <1>1, <1>2, EnsurePlanRasterCacheLeads
<1>4. PICK u : u = Unless(<<"user", "vertex">>, CreateUserRasterShaderModules)
  OBVIOUS
<1>5. Leads(u, A, l, B, l, R, Z)
  BY <1>1, <1>2, <1>4, CreateUserRasterShaderModulesLeads
<1>6. Leads(EnsurePlanRasterPipeline("user"), B, l, Z, l, R, Z)
  BY <1>1, <1>2, EnsurePlanRasterPipelineLeads
<1>7. Leads(EnsurePlanRasterCache \o u, Z, l, B, l, R, Z)
  BY <1>3, <1>5, Then
<1>8. Leads(EnsurePlanRasterCache \o u \o EnsurePlanRasterPipeline("user"), Z, l, Z, l, R, Z)
  BY <1>6, <1>7, Then
<1> QED
  BY <1>1, <1>4, <1>8 DEF Leaves, EnsurePlanUserRasterPipeline

LEMMA EnsurePlanIndirectCacheLeads == Leaves(EnsurePlanIndirectCache, {}, {})
<1>1. PICK x, y, z, t, p, q : /\ x = <<"bucket", "module">> /\ y = <<"fill", "module">>
                              /\ z = <<"bucket", "layout">> /\ t = <<"fill", "layout">>
                              /\ p = <<"bucket", "pipeline">> /\ q = <<"fill", "pipeline">>
  OBVIOUS
<1>2. /\ x[1] = "bucket" /\ y[1] = "fill" /\ z[1] = "bucket" /\ t[1] = "fill"
      /\ p[1] = "bucket" /\ q[1] = "fill"
      /\ x[2] = "module" /\ y[2] = "module" /\ z[2] = "layout" /\ t[2] = "layout"
      /\ p[2] = "pipeline" /\ q[2] = "pipeline"
  BY <1>1
<1>3. PICK U : U = PlanIndirectCache /\ U = {x, y, z, t, p, q} /\ U \in Records
  BY <1>1 DEF PlanIndirectCache, Part, Records
<1>4. PICK Z, W : Z = {} /\ W = Z \cup U
  OBVIOUS
<1>5. PICK h : h = Z \cup {x}
  OBVIOUS
<1>6. PICK i : i = h \cup {y}
  OBVIOUS
<1>7. PICK j : j = i \cup {z}
  OBVIOUS
<1>8. PICK k : k = j \cup {t}
  OBVIOUS
<1>9. PICK m : m = k \cup {p}
  OBVIOUS
<1>10. U = m \cup {q}
  BY <1>3, <1>4, <1>5, <1>6, <1>7, <1>8, <1>9
<1>11. x \notin Z /\ y \notin h /\ z \notin i /\ t \notin j /\ p \notin k /\ q \notin m
  BY <1>2, <1>4, <1>5, <1>6, <1>7, <1>8, <1>9
<1>12. /\ Z \subseteq W \cup Leftovers /\ h \subseteq W \cup Leftovers
       /\ i \subseteq W \cup Leftovers /\ j \subseteq W \cup Leftovers
       /\ k \subseteq W \cup Leftovers /\ m \subseteq W \cup Leftovers
       /\ Held(Z, W, {"glslc"}) /\ Held(h, W, {"glslc"})
  BY <1>2, <1>3, <1>4, <1>5, <1>6, <1>7, <1>8, <1>9 DEF Held
<1>13. /\ NotOwned({x}, W) /\ NotOwned({y}, W) /\ NotOwned({z}, W) /\ NotOwned({t}, W)
       /\ NotOwned({p}, W) /\ NotOwned({q}, W) /\ NotOwned(U, W)
  BY <1>3, <1>4 DEF NotOwned
<1>14. Leads(CompileGlslStage, Z, Z, Z, Z, W, W)
  BY <1>12, CompileGlslStageLeads
<1>15. Leads(Make(x), Z, Z, Z, h, W, W)
  BY <1>5, <1>11, <1>12, <1>13, MakeLeads
<1>16. Leads(CompileGlslStage, Z, h, Z, h, W, W)
  BY <1>12, CompileGlslStageLeads
<1>17. Leads(Make(y), Z, h, Z, i, W, W)
  BY <1>6, <1>11, <1>12, <1>13, MakeLeads
<1>18. Leads(Make(z), Z, i, Z, j, W, W)
  BY <1>7, <1>11, <1>12, <1>13, MakeLeads
<1>19. Leads(Make(t), Z, j, Z, k, W, W)
  BY <1>8, <1>11, <1>12, <1>13, MakeLeads
<1>20. Leads(Make(p), Z, k, Z, m, W, W)
  BY <1>9, <1>11, <1>12, <1>13, MakeLeads
<1>21. Leads(Make(q), Z, m, Z, U, W, W)
  BY <1>10, <1>11, <1>12, <1>13, MakeLeads
<1>22. Leads(CompileGlslStage \o Make(x), Z, Z, Z, h, W, W)
  BY <1>14, <1>15, Then
<1>23. Leads(CompileGlslStage \o Make(x) \o CompileGlslStage, Z, Z, Z, h, W, W)
  BY <1>22, <1>16, Then
<1>24. Leads(CompileGlslStage \o Make(x) \o CompileGlslStage \o Make(y), Z, Z, Z, i, W, W)
  BY <1>23, <1>17, Then
<1>25. Leads(CompileGlslStage \o Make(x) \o CompileGlslStage \o Make(y) \o Make(z),
             Z, Z, Z, j, W, W)
  BY <1>24, <1>18, Then
<1>26. Leads(CompileGlslStage \o Make(x) \o CompileGlslStage \o Make(y) \o Make(z)
               \o Make(t),
             Z, Z, Z, k, W, W)
  BY <1>25, <1>19, Then
<1>27. Leads(CompileGlslStage \o Make(x) \o CompileGlslStage \o Make(y) \o Make(z)
               \o Make(t) \o Make(p),
             Z, Z, Z, m, W, W)
  BY <1>26, <1>20, Then
<1>28. Leads(CompileGlslStage \o Make(x) \o CompileGlslStage \o Make(y) \o Make(z)
               \o Make(t) \o Make(p) \o Make(q),
             Z, Z, Z, U, W, W)
  BY <1>27, <1>21, Then
<1>29. PICK s : s = CompileGlslStage \o Make(x) \o CompileGlslStage \o Make(y) \o Make(z) \o Make(t)
                   \o Make(p) \o Make(q)
  OBVIOUS
<1>30. Leads(Undoing(U, s), Z, Z, Z, U, Z, W)
  BY <1>4, <1>13, <1>28, <1>29, UndoingLeads
<1>31. U \ U = Z /\ U \cap Z = {} /\ x \in U
  BY <1>3, <1>4
<1>32. Stores(Undoing(U, s) \o Keep(U), Z, Z, Z, U, Z, Z)
  BY <1>3, <1>4, <1>30, <1>31, RecordStores
<1>33. Leads(Unless(x, Undoing(U, s) \o Keep(U)), Z, Z, Z \cup U, Z, Z, Z)
  BY <1>3, <1>31, <1>32, RecordLeads
<1>34. Leads(Unless(x, Undoing(U, s) \o Keep(U)), Z, Z, Z, Z, Z, Z)
  BY <1>4, <1>33, Weaker
<1> QED
  BY <1>1, <1>3, <1>4, <1>29, <1>34 DEF Leaves, EnsurePlanIndirectCache

LEMMA DeviceMembersLead ==
  ASSUME NEW l, NEW R, Held(l, R, {"device"})
  PROVE  Leaves(EnsureSampler, l, R) /\ Leaves(EnsureDescriptorPool, l, R)
<1>1. PICK Z : Z = {}
  OBVIOUS
<1>2. ASSUME NEW x \in Singles, x[1] = "device", x[2] \notin {"pipeline", "checked"}
      PROVE  Leads(Member(x), Z, l, Z, l, R, Z)
  <2>1. x \notin l /\ x \notin Z /\ l \subseteq R \cup Leftovers /\ \A m \in MadeFrom : m[1] # x
    BY <1>1, <1>2, Unparented DEF Held
  <2>2. Leads(Member(x), Z, l, Z \cup {x}, l, R, Z)
    BY <2>1, MemberLeads
  <2> QED
    BY <1>1, <2>2, Weaker
<1>3. Sampler \in Singles /\ DescriptorPool \in Singles
  BY DEF Singles
<1>4. /\ Sampler[1] = "device" /\ Sampler[2] = "sampler"
      /\ DescriptorPool[1] = "device" /\ DescriptorPool[2] = "descriptor pool"
  BY DEF Sampler, DescriptorPool
<1>5. Leads(Member(Sampler), Z, l, Z, l, R, Z) /\ Leads(Member(DescriptorPool), Z, l, Z, l, R, Z)
  BY <1>2, <1>3, <1>4
<1> QED
  BY <1>1, <1>5 DEF Leaves, EnsureSampler, EnsureDescriptorPool

-----------------------------------------------------------------------------
(* The submissions of compute tasks *)

LEMMA Nothing ==
  /\ \A S : Held({}, {}, S)
  /\ Leaves(Attempt, {}, {})
<1>1. \A S : Held({}, {}, S)
  BY DEF Held
<1>2. Leaves(Attempt, {}, {})
  BY AttemptLeads DEF Leaves
<1> QED
  BY <1>1, <1>2

LEMMA DispatchLeads ==
  ASSUME NEW l, NEW R, Held(l, R, {"dispatch", "publication", "marker", "device"})
  PROVE  /\ Leaves(DispatchTaskGraph, l, R)
         /\ Leaves(DispatchTaskRingPublication, l, R)
         /\ Leaves(SubmitTimelineMarker, l, R)
<1>1. PICK Z : Z = {}
  OBVIOUS
<1>2. CommandPool \notin Z
  BY <1>1
<1>3. ASSUME NEW c \in {"dispatch", "publication", "marker"}, NEW s \in {Attempt, Attempt \o Attempt}
      PROVE  Leads(AllocateCommandBuffer(c) \o Undoing({Commands(c)}, s) \o SubmitAndWait(c),
                   Z, l, Z, l, R, Z)
  <2>1. Held(l, R, {c, "device"}) /\ c \notin Owners
    BY DEF Held, Owners
  <2> QED
    BY <1>2, <2>1, RecordingLeads
<1> QED
  BY <1>1, <1>3 DEF Leaves, DispatchTaskGraph, DispatchTaskRingPublication, SubmitTimelineMarker

LEMMA ComputeTasksLead ==
  ASSUME NEW stale \in BOOLEAN
  PROVE  Leaves(ComputeTasks(stale), {}, {})
<1>1. PICK Z : Z = {}
  OBVIOUS
<1>2. Leaves(EnsureBuffer("a", stale), Z, Z)
  BY <1>1, EnsureBufferLeads DEF Leaves
<1>3. Leaves(DispatchTaskGraph, Z, Z) /\ Leaves(Attempt, Z, Z)
  BY <1>1, Nothing, DispatchLeads
<1>4. Leaves(Attempt \o EnsureBuffer("a", stale), Z, Z)
  BY <1>2, <1>3, LeavesThen
<1>5. Leaves(Attempt \o EnsureBuffer("a", stale) \o DispatchTaskGraph, Z, Z)
  BY <1>3, <1>4, LeavesThen
<1> QED
  BY <1>1, <1>5 DEF ComputeTasks

(* Buffers made for one call are no part of the device *)
LEMMA RawApart ==
  ASSUME NEW b, b \notin Owners, NEW N
  PROVE  NotOwned(Raw(b), N)
BY RawOwner, OthersUnowned

LEMMA CreateTaskRingBuffersLeads ==
  Leads(CreateTaskRingBuffers, {}, {}, {}, AllRaw(RingBuffers), {}, {})
<1>1. PICK S, F, I : S = Raw("state") /\ F = Raw("fields") /\ I = Raw("inputs")
  OBVIOUS
<1>2. (\A x \in S : x[1] = "state") /\ (\A x \in F : x[1] = "fields") /\ (\A x \in I : x[1] = "inputs")
  BY <1>1, RawOwner
<1>3. PICK Z, j : Z = {} /\ j = S \cup F
  OBVIOUS
<1>4. PICK k : k = j \cup I
  OBVIOUS
<1>5. AllRaw({"state", "fields"}) = j /\ AllRaw(RingBuffers) = k
  BY <1>1, <1>3, <1>4 DEF AllRaw, RingBuffers
<1>6. S = Z \cup S /\ Held(Z, Z, {"state"}) /\ Held(S, Z \cup S, {"fields"}) /\ Held(j, Z \cup j, {"inputs"})
  BY <1>2, <1>3 DEF Held
<1>7. NotOwned(S, Z) /\ NotOwned(F, Z) /\ NotOwned(I, Z)
  BY <1>1, RawApart DEF Owners
<1>8. NotOwned(j, Z)
  BY <1>3, <1>7 DEF NotOwned
<1>9. Leads(CreateRawBuffer("state"), Z, Z, Z, S, Z, Z)
  BY <1>1, <1>3, <1>6, <1>7, CreateRawBufferLeads
<1>10. Leads(CreateRawBuffer("fields"), Z, S, Z, j, Z \cup S, Z)
  BY <1>1, <1>3, <1>6, <1>7, CreateRawBufferLeads
<1>11. Leads(CreateRawBuffer("inputs"), Z, j, Z, k, Z \cup j, Z)
  BY <1>1, <1>4, <1>6, <1>7, CreateRawBufferLeads
<1>12. Leads(Undoing(S, CreateRawBuffer("fields")), Z, S, Z, j, Z, Z)
  BY <1>7, <1>10, UndoingLeads
<1>13. Leads(Undoing(j, CreateRawBuffer("inputs")), Z, j, Z, k, Z, Z)
  BY <1>8, <1>11, UndoingLeads
<1>14. Leads(CreateRawBuffer("state") \o Undoing(S, CreateRawBuffer("fields")), Z, Z, Z, j, Z, Z)
  BY <1>9, <1>12, Then
<1>15. Leads(CreateRawBuffer("state") \o Undoing(S, CreateRawBuffer("fields"))
               \o Undoing(j, CreateRawBuffer("inputs")), Z, Z, Z, k, Z, Z)
  BY <1>13, <1>14, Then
<1> QED
  BY <1>1, <1>3, <1>5, <1>15 DEF CreateTaskRingBuffers

LEMMA PublishTasksLead == Leaves(PublishTasks, {}, {})
<1>1. PICK Z, B : Z = {} /\ B = AllRaw(RingBuffers)
  OBVIOUS
<1>2. \A x \in B : x[1] \in RingBuffers
  BY <1>1, RawOwner DEF AllRaw
<1>3. PICK Q : Q = Z \cup B
  OBVIOUS
<1>4. Held(B, Q, {"dispatch", "publication", "marker", "device"}) /\ B \subseteq Q \cup Leftovers
        /\ B \ B = Z
  BY <1>1, <1>2, <1>3 DEF Held, RingBuffers
<1>5. NotOwned(B, Z)
  BY <1>2, OthersUnowned DEF RingBuffers, Owners
<1>6. Leads(EnsureTaskRingPipeline, Z, Z, Z, Z, Z, Z)
  BY <1>1, EnsureTaskRingPipelineLeads DEF Leaves
<1>7. Leads(CreateTaskRingBuffers, Z, Z, Z, B, Z, Z)
  BY <1>1, CreateTaskRingBuffersLeads
<1>8. Leads(Attempt, Z, B, Z, B, Q, Z)
  BY <1>4, AttemptLeads
<1>9. Leads(DispatchTaskRingPublication, Z, B, Z, B, Q, Z)
  BY <1>1, <1>4, DispatchLeads DEF Leaves
<1>10. Leads(Attempt \o DispatchTaskRingPublication, Z, B, Z, B, Q, Z)
  BY <1>8, <1>9, Then
<1>11. PICK s : s = Attempt \o DispatchTaskRingPublication \o Attempt
  OBVIOUS
<1>12. Leads(s, Z, B, Z, B, Q, Z)
  BY <1>8, <1>10, <1>11, Then
<1>13. Leads(Undoing(B, s), Z, B, Z, B, Z, Z)
  BY <1>3, <1>5, <1>12, UndoingLeads
<1>14. Leads(DestroyTaskRingBuffers, Z, B, Z, Z, Z, Z)
  BY <1>1, <1>4, <1>5, DropUnowned DEF DestroyTaskRingBuffers
<1>15. Leads(EnsureTaskRingPipeline \o CreateTaskRingBuffers, Z, Z, Z, B, Z, Z)
  BY <1>6, <1>7, Then
<1>16. Leads(EnsureTaskRingPipeline \o CreateTaskRingBuffers \o Undoing(B, s), Z, Z, Z, B, Z, Z)
  BY <1>13, <1>15, Then
<1>17. Leads(EnsureTaskRingPipeline \o CreateTaskRingBuffers \o Undoing(B, s) \o DestroyTaskRingBuffers,
             Z, Z, Z, Z, Z, Z)
  BY <1>14, <1>16, Then
<1> QED
  BY <1>1, <1>11, <1>17 DEF Leaves, PublishTasks

-----------------------------------------------------------------------------
(* The draws *)

IsDraw(d) ==
  /\ d.program \in {"builtin", "user"}
  /\ d.depth \in BOOLEAN /\ d.indexed \in BOOLEAN /\ d.stale \in BOOLEAN /\ d.tier2 \in BOOLEAN

DrawOwners ==
  {"device", "target", "source", "depth", "staging", "upload", "vertices", "tint", "root", "index",
   "plan", "glslc", "builtin", "user", "draw", "readback", "depth readback"}

LEMMA BindingBuffersLead ==
  ASSUME NEW indexed \in BOOLEAN, NEW l, NEW R, Held(l, R, DrawOwners), NEW e,
         e = IF indexed THEN l \cup Bindings ELSE l \cup AllRaw({"vertices", "tint", "root"})
  PROVE  Leads(Undoing(Bindings,
                 CreateRawBuffer("vertices") \o CreateRawBuffer("tint") \o CreateRawBuffer("root")
                   \o When(indexed, Attempt \o CreateRawBuffer("index"))
                   \o EnsureDescriptorPool \o AllocateSet \o EnsureSampler),
               {}, l, {}, e, R, {})
<1>1. PICK V, T, O, I : V = Raw("vertices") /\ T = Raw("tint") /\ O = Raw("root") /\ I = Raw("index")
  OBVIOUS
<1>2. /\ \A x \in V : x[1] = "vertices"
      /\ \A x \in T : x[1] = "tint"
      /\ \A x \in O : x[1] = "root"
      /\ \A x \in I : x[1] = "index"
  BY <1>1, RawOwner
<1>3. PICK Z : Z = {}
  OBVIOUS
<1>4. PICK U : U = Bindings
  OBVIOUS
<1>5. U = V \cup T \cup O \cup I /\ AllRaw({"vertices", "tint", "root"}) = V \cup T \cup O
  BY <1>1, <1>4 DEF Bindings, AllRaw
<1>6. PICK Q : Q = R \cup U
  OBVIOUS
<1>7. PICK a : a = l \cup V
  OBVIOUS
<1>8. PICK b : b = a \cup T
  OBVIOUS
<1>9. PICK c : c = b \cup O
  OBVIOUS
<1>10. e = IF indexed THEN c \cup I ELSE c
  BY <1>4, <1>5, <1>7, <1>8, <1>9
<1>11. /\ Held(l, Q, {"vertices"}) /\ Held(a, Q, {"tint"}) /\ Held(b, Q, {"root"})
       /\ Held(c, Q, {"index"}) /\ Held(e, Q, {"device"})
       /\ c \subseteq Q \cup Leftovers /\ e \subseteq Q \cup Leftovers
  BY <1>2, <1>5, <1>6, <1>7, <1>8, <1>9, <1>10 DEF Held, DrawOwners
<1>12. /\ NotOwned(V, Z) /\ NotOwned(T, Z) /\ NotOwned(O, Z) /\ NotOwned(I, Z)
  BY <1>1, RawApart DEF Owners
<1>13. NotOwned(U, Z)
  BY <1>5, <1>12 DEF NotOwned
<1>14. Leads(When(indexed, Attempt \o CreateRawBuffer("index")), Z, c, Z, e, Q, Z)
  <2>1. CASE indexed
    <3>1. Leads(Attempt, Z, c, Z, c, Q, Z)
      BY <1>11, AttemptLeads
    <3>2. Leads(CreateRawBuffer("index"), Z, c, Z, e, Q, Z)
      BY <1>1, <1>10, <1>11, <1>12, <2>1, CreateRawBufferLeads
    <3> QED
      BY <2>1, <3>1, <3>2, Then DEF When
  <2>2. CASE ~indexed
    BY <1>10, <2>2, NothingLeads DEF When
  <2> QED
    BY <2>1, <2>2
<1>15. PICK w : w = When(indexed, Attempt \o CreateRawBuffer("index"))
  OBVIOUS
<1>16. Leads(CreateRawBuffer("vertices"), Z, l, Z, a, Q, Z)
  BY <1>1, <1>7, <1>11, <1>12, CreateRawBufferLeads
<1>17. Leads(CreateRawBuffer("tint"), Z, a, Z, b, Q, Z)
  BY <1>1, <1>8, <1>11, <1>12, CreateRawBufferLeads
<1>18. Leads(CreateRawBuffer("root"), Z, b, Z, c, Q, Z)
  BY <1>1, <1>9, <1>11, <1>12, CreateRawBufferLeads
<1>19. Leads(w, Z, c, Z, e, Q, Z)
  BY <1>14, <1>15
<1>20. Leads(EnsureDescriptorPool, Z, e, Z, e, Q, Z)
  BY <1>3, <1>11, DeviceMembersLead DEF Leaves
<1>21. Leads(AllocateSet, Z, e, Z, e, Q, Z)
  BY <1>11, AttemptLeads
<1>22. Leads(EnsureSampler, Z, e, Z, e, Q, Z)
  BY <1>3, <1>11, DeviceMembersLead DEF Leaves
<1>23. Leads(CreateRawBuffer("vertices") \o CreateRawBuffer("tint"), Z, l, Z, b, Q, Z)
  BY <1>16, <1>17, Then
<1>24. Leads(CreateRawBuffer("vertices") \o CreateRawBuffer("tint")
               \o CreateRawBuffer("root"),
             Z, l, Z, c, Q, Z)
  BY <1>23, <1>18, Then
<1>25. Leads(CreateRawBuffer("vertices") \o CreateRawBuffer("tint")
               \o CreateRawBuffer("root") \o w,
             Z, l, Z, e, Q, Z)
  BY <1>24, <1>19, Then
<1>26. Leads(CreateRawBuffer("vertices") \o CreateRawBuffer("tint")
               \o CreateRawBuffer("root") \o w \o EnsureDescriptorPool,
             Z, l, Z, e, Q, Z)
  BY <1>25, <1>20, Then
<1>27. Leads(CreateRawBuffer("vertices") \o CreateRawBuffer("tint")
               \o CreateRawBuffer("root") \o w \o EnsureDescriptorPool \o AllocateSet,
             Z, l, Z, e, Q, Z)
  BY <1>26, <1>21, Then
<1>28. Leads(CreateRawBuffer("vertices") \o CreateRawBuffer("tint")
               \o CreateRawBuffer("root") \o w \o EnsureDescriptorPool \o AllocateSet
               \o EnsureSampler,
             Z, l, Z, e, Q, Z)
  BY <1>27, <1>22, Then
<1>29. PICK s : s = CreateRawBuffer("vertices") \o CreateRawBuffer("tint") \o CreateRawBuffer("root")
                   \o w \o EnsureDescriptorPool \o AllocateSet \o EnsureSampler
  OBVIOUS
<1>30. Leads(Undoing(U, s), Z, l, Z, e, R, Z)
  BY <1>6, <1>13, <1>28, <1>29, UndoingLeads
<1> QED
  BY <1>3, <1>4, <1>15, <1>29, <1>30

LEMMA PreparePlanRasterBindingsLeads ==
  ASSUME NEW d, IsDraw(d), NEW l, NEW R, Held(l, R, DrawOwners), NEW e,
         e = IF d.indexed THEN l \cup Bindings ELSE l \cup AllRaw({"vertices", "tint", "root"})
  PROVE  Leads(PreparePlanRasterBindings(d), {}, l, {}, e, R, {})
<1>1. PICK Z : Z = {}
  OBVIOUS
<1>2. PICK indexed \in BOOLEAN : indexed = d.indexed
  BY DEF IsDraw
<1>3. PICK stale \in BOOLEAN : stale = d.stale
  BY DEF IsDraw
<1>4. PICK depth \in BOOLEAN : depth = d.depth
  BY DEF IsDraw
<1>5. ASSUME NEW f \in {"target", "source", "depth"}, NEW old \in BOOLEAN
      PROVE  Leads(EnsureFacetImage(f, old, TRUE), Z, l, Z, l, R, Z)
  <2>1. Held(l, R, {f, "staging", "upload", "device"})
    BY DEF Held, DrawOwners
  <2> QED
    BY <1>1, <2>1, EnsureFacetImageLeads
<1>6. Leads(EnsureFacetImage("target", FALSE, TRUE), Z, l, Z, l, R, Z)
  BY <1>5
<1>7. Leads(EnsureFacetImage("source", stale, TRUE), Z, l, Z, l, R, Z)
  BY <1>5
<1>8. PICK w : w = When(depth, EnsureFacetImage("depth", FALSE, TRUE))
  OBVIOUS
<1>9. Leads(w, Z, l, Z, l, R, Z)
  BY <1>5, <1>8, NothingLeads DEF When
<1>10. PICK u : u = Undoing(Bindings,
                      CreateRawBuffer("vertices") \o CreateRawBuffer("tint") \o CreateRawBuffer("root")
                        \o When(indexed, Attempt \o CreateRawBuffer("index"))
                        \o EnsureDescriptorPool \o AllocateSet \o EnsureSampler)
  OBVIOUS
<1>11. Leads(u, Z, l, Z, e, R, Z)
  BY <1>1, <1>2, <1>10, BindingBuffersLead
<1>12. Leads(Attempt, Z, l, Z, l, R, Z)
  BY AttemptLeads DEF Held
<1>13. PICK a, b : a = EnsureFacetImage("target", FALSE, TRUE) /\ b = EnsureFacetImage("source", stale, TRUE)
  OBVIOUS
<1>14. Leads(Attempt \o a, Z, l, Z, l, R, Z)
  BY <1>6, <1>12, <1>13, Then
<1>15. Leads(Attempt \o a \o b, Z, l, Z, l, R, Z)
  BY <1>7, <1>13, <1>14, Then
<1>16. Leads(Attempt \o a \o b \o w, Z, l, Z, l, R, Z)
  BY <1>9, <1>15, Then
<1>17. Leads(Attempt \o a \o b \o w \o u, Z, l, Z, e, R, Z)
  BY <1>11, <1>16, Then
<1> QED
  BY <1>1, <1>2, <1>3, <1>4, <1>8, <1>10, <1>13, <1>17 DEF PreparePlanRasterBindings

LEMMA RasterPipelineOfLeads ==
  ASSUME NEW program \in {"builtin", "user"}, NEW l, NEW R,
         Held(l, R, {"plan", "glslc", "builtin", "user"})
  PROVE  Leaves(RasterPipelineOf(program), l, R)
<1>1. CASE program = "user"
  <2>1. Held(l, R, {"glslc", "user"})
    BY DEF Held
  <2>2. Leaves(GetOrCompileUserRasterGlsl \o EnsurePlanUserRasterPipeline, l, R)
    BY <2>1, GetOrCompileUserRasterGlslLeads, EnsurePlanUserRasterPipelineLeads, LeavesThen
  <2> QED
    BY <1>1, <2>2 DEF RasterPipelineOf
<1>2. CASE program # "user"
  <2>1. PICK Z : Z = {}
    OBVIOUS
  <2>2. Leads(EnsurePlanRasterPipeline(program), Z, l, Z, l, R, Z)
    BY <1>2, <2>1, EnsurePlanRasterPipelineLeads
  <2> QED
    BY <1>2, <2>1, <2>2 DEF RasterPipelineOf, Leaves
<1> QED
  BY <1>1, <1>2

(* A command buffer that could not be used stays with the pool *)
LEMMA RecordAndSubmitLeads ==
  ASSUME NEW d, IsDraw(d), NEW l, NEW R, Held(l, R, {"device", "draw", "readback", "depth readback"}),
         NEW e, e = IF d.depth THEN l \cup Readbacks ELSE l \cup Raw("readback")
  PROVE  Leads(RecordAndSubmit(d), {}, l, {}, e, R, {})
<1>1. PICK Z, y, A, B : Z = {} /\ y = Commands("draw") /\ A = Raw("readback") /\ B = Raw("depth readback")
  OBVIOUS
<1>2. /\ y[1] = "draw" /\ y \in Leftovers
      /\ \A x \in A : x[1] = "readback"
      /\ \A x \in B : x[1] = "depth readback"
  BY <1>1, RawOwner DEF Commands, Leftovers
<1>3. PICK U : U = Readbacks
  OBVIOUS
<1>4. U = A \cup B
  BY <1>1, <1>3 DEF Readbacks, AllRaw
<1>5. PICK Q : Q = R \cup U
  OBVIOUS
<1>6. PICK depth \in BOOLEAN : depth = d.depth
  BY DEF IsDraw
<1>7. PICK tier2 \in BOOLEAN : tier2 = d.tier2
  BY DEF IsDraw
<1>8. PICK j : j = l \cup {y}
  OBVIOUS
<1>9. PICK k : k = j \cup A
  OBVIOUS
<1>10. PICK m : m = IF depth THEN k \cup B ELSE k
  OBVIOUS
<1>11. m = e \cup {y}
  BY <1>1, <1>3, <1>4, <1>6, <1>8, <1>9, <1>10
<1>12. /\ Held(l, R, {"draw", "device"}) /\ Held(j, Q, {"readback"}) /\ Held(k, Q, {"depth readback"})
       /\ m \subseteq Q \cup Leftovers /\ Held(e, Q, {"draw"})
  <2>1. e \subseteq l \cup A \cup B
    BY <1>1, <1>3, <1>4
  <2> QED
    BY <1>2, <1>4, <1>5, <1>8, <1>9, <1>10, <2>1 DEF Held
<1>13. NotOwned(A, Z) /\ NotOwned(B, Z) /\ "draw" \notin Owners /\ CommandPool \notin Z
  BY <1>1, RawApart DEF Owners
<1>14. NotOwned(U, Z)
  BY <1>4, <1>13 DEF NotOwned
<1>15. Leads(AllocateCommandBuffer("draw"), Z, l, Z, j, R, Z)
  BY <1>1, <1>8, <1>12, <1>13, AllocateCommandBufferLeads
<1>16. PICK w : w = When(depth, CreateRawBuffer("depth readback"))
  OBVIOUS
<1>17. PICK t : t = When(tier2, RecordPlanTier2DrawConsumer)
  OBVIOUS
<1>18. Leads(CreateRawBuffer("depth readback"), Z, k, Z, k \cup B, Q, Z)
  BY <1>1, <1>12, <1>13, CreateRawBufferLeads
<1>19. Leads(RecordPlanTier2DrawConsumer, Z, m, Z, m, Q, Z)
  BY <1>12, AttemptLeads DEF RecordPlanTier2DrawConsumer
<1>20. Leads(w, Z, k, Z, m, Q, Z)
  <2>1. CASE depth
    BY <1>10, <1>16, <1>18, <2>1 DEF When
  <2>2. CASE ~depth
    BY <1>10, <1>16, <2>2, NothingLeads DEF When
  <2> QED
    BY <2>1, <2>2
<1>21. Leads(t, Z, m, Z, m, Q, Z)
  BY <1>17, <1>19, NothingLeads DEF When
<1>22. Leads(CreateRawBuffer("readback"), Z, j, Z, k, Q, Z)
  BY <1>1, <1>9, <1>12, <1>13, CreateRawBufferLeads
<1>23. Leads(w, Z, k, Z, m, Q, Z)
  BY <1>20
<1>24. Leads(t, Z, m, Z, m, Q, Z)
  BY <1>21
<1>25. Leads(SubmitAndWait("draw"), Z, m, Z, e, Q, Z)
  BY <1>1, <1>11, <1>12, <1>13, SubmitAndWaitLeads
<1>26. Leads(CreateRawBuffer("readback") \o w, Z, j, Z, m, Q, Z)
  BY <1>22, <1>23, Then
<1>27. Leads(CreateRawBuffer("readback") \o w \o t, Z, j, Z, m, Q, Z)
  BY <1>26, <1>24, Then
<1>28. Leads(CreateRawBuffer("readback") \o w \o t \o SubmitAndWait("draw"), Z, j, Z, e, Q, Z)
  BY <1>27, <1>25, Then
<1>29. PICK s : s = CreateRawBuffer("readback") \o w \o t \o SubmitAndWait("draw")
  OBVIOUS
<1>30. Leads(Undoing(U, s), Z, j, Z, e, R, Z)
  BY <1>5, <1>14, <1>28, <1>29, UndoingLeads
<1>31. Leads(AllocateCommandBuffer("draw") \o Undoing(U, s), Z, l, Z, e, R, Z)
  BY <1>15, <1>30, Then
<1> QED
  BY <1>1, <1>3, <1>6, <1>7, <1>16, <1>17, <1>29, <1>31 DEF RecordAndSubmit

LEMMA SubmitPlanRasterStepLeads ==
  ASSUME NEW d, IsDraw(d), NEW l, NEW R, Held(l, R, DrawOwners)
  PROVE  Leaves(SubmitPlanRasterStep(d), l, R)
<1>1. PICK Z, B, A : Z = {} /\ B = Bindings /\ A = Readbacks
  OBVIOUS
<1>2. \A x \in B : x[1] \in {"vertices", "tint", "root", "index"}
  BY <1>1, RawOwner DEF Bindings, AllRaw
<1>3. \A x \in A : x[1] \in {"readback", "depth readback"}
  BY <1>1, RawOwner DEF Readbacks, AllRaw
<1>4. PICK j : j = IF d.indexed THEN l \cup B ELSE l \cup AllRaw({"vertices", "tint", "root"})
  OBVIOUS
<1>5. PICK k : k = IF d.depth THEN j \cup A ELSE j \cup Raw("readback")
  OBVIOUS
<1>6. AllRaw({"vertices", "tint", "root"}) \subseteq B /\ Raw("readback") \subseteq A
  BY <1>1 DEF Bindings, Readbacks, AllRaw
<1>7. l \subseteq j /\ j \subseteq l \cup B /\ j \subseteq k /\ k \subseteq j \cup A
  BY <1>4, <1>5, <1>6
<1>8. PICK D : D = A \cup B
  OBVIOUS
<1>9. PICK Q : Q = R \cup B
  OBVIOUS
<1>10. /\ k \ D = l /\ l \subseteq R \cup Leftovers /\ Held(l, R, {"plan", "glslc"})
       /\ Held(j, Q, {"plan", "glslc", "builtin", "user"})
       /\ Held(j, Q, {"device", "draw", "readback", "depth readback"})
  BY <1>2, <1>3, <1>7, <1>8, <1>9 DEF Held, DrawOwners
<1>11. NotOwned(B, Z) /\ NotOwned(D, Z)
  BY <1>2, <1>3, <1>8, OthersUnowned DEF Owners
<1>12. PICK program \in {"builtin", "user"} : program = d.program
  BY DEF IsDraw
<1>13. Leads(ValidateRasterTask, Z, l, Z, l, R, Z)
  BY <1>10, AttemptLeads DEF ValidateRasterTask
<1>14. Leads(EnsurePlanRasterCache, Z, l, Z \cup PlanRasterCache, l, R, Z)
  BY <1>1, <1>10, EnsurePlanRasterCacheLeads
<1>15. Leads(EnsurePlanRasterCache, Z, l, Z, l, R, Z)
  BY <1>1, <1>14, Weaker
<1>16. Leads(PreparePlanRasterBindings(d), Z, l, Z, j, R, Z)
  BY <1>1, <1>4, PreparePlanRasterBindingsLeads
<1>17. Leads(RasterPipelineOf(program), Z, j, Z, j, Q, Z)
  BY <1>1, <1>10, RasterPipelineOfLeads DEF Leaves
<1>18. Leads(RecordAndSubmit(d), Z, j, Z, k, Q, Z)
  BY <1>1, <1>5, <1>10, RecordAndSubmitLeads
<1>19. PICK s : s = RasterPipelineOf(program) \o RecordAndSubmit(d)
  OBVIOUS
<1>20. Leads(s, Z, j, Z, k, Q, Z)
  BY <1>17, <1>18, <1>19, Then
<1>21. Leads(Undoing(B, s), Z, j, Z, k, R, Z)
  BY <1>9, <1>11, <1>20, UndoingLeads
<1>22. Leads(Drop(D), Z, k, Z, l, R, Z)
  BY <1>10, <1>11, DropUnowned
<1>23. Leads(ValidateRasterTask \o EnsurePlanRasterCache, Z, l, Z, l, R, Z)
  BY <1>13, <1>15, Then
<1>24. PICK p : p = PreparePlanRasterBindings(d)
  OBVIOUS
<1>25. Leads(ValidateRasterTask \o EnsurePlanRasterCache \o p, Z, l, Z, j, R, Z)
  BY <1>16, <1>23, <1>24, Then
<1>26. Leads(ValidateRasterTask \o EnsurePlanRasterCache \o p \o Undoing(B, s), Z, l, Z, k, R, Z)
  BY <1>21, <1>25, Then
<1>27. Leads(ValidateRasterTask \o EnsurePlanRasterCache \o p \o Undoing(B, s) \o Drop(D), Z, l, Z, l, R, Z)
  BY <1>22, <1>26, Then
<1> QED
  BY <1>1, <1>8, <1>12, <1>19, <1>24, <1>27 DEF Leaves, SubmitPlanRasterStep

-----------------------------------------------------------------------------
(* Tier-2 draws and the raster pass *)

LEMMA CreateSelectionBuffersLeads ==
  Leads(CreateSelectionBuffers, {}, {}, {}, AllRaw(Selection) \cup DrawCommands, {}, {})
<1>1. PICK A, B, C : A = Raw("selected") /\ B = Raw("authorized") /\ C = Raw("counts")
  OBVIOUS
<1>2. PICK D, E, F : D = Raw("matched") /\ E = Raw("inputs") /\ F = Raw("draw commands")
  OBVIOUS
<1>3. /\ \A x \in A : x[1] = "selected"
      /\ \A x \in B : x[1] = "authorized"
      /\ \A x \in C : x[1] = "counts"
      /\ \A x \in D : x[1] = "matched"
      /\ \A x \in E : x[1] = "inputs"
  BY <1>1, <1>2, RawOwner
<1>4. PICK Z : Z = {}
  OBVIOUS
<1>5. PICK U : U = AllRaw(Selection) \cup DrawCommands
  OBVIOUS
<1>6. U = A \cup B \cup C \cup D \cup E \cup F
  BY <1>1, <1>2, <1>5 DEF AllRaw, Selection, DrawCommands
<1>7. PICK b : b = A \cup B
  OBVIOUS
<1>8. PICK c : c = b \cup C
  OBVIOUS
<1>9. PICK d : d = c \cup D
  OBVIOUS
<1>10. PICK e : e = d \cup E
  OBVIOUS
<1>11. U = e \cup F
  BY <1>6, <1>7, <1>8, <1>9, <1>10
<1>12. PICK Q : Q = Z \cup U
  OBVIOUS
<1>13. /\ A = Z \cup A /\ Held(Z, Q, {"selected"}) /\ Held(A, Q, {"authorized"})
       /\ Held(b, Q, {"counts"}) /\ Held(c, Q, {"matched"}) /\ Held(d, Q, {"inputs"})
       /\ Held(e, Q, {"draw commands"})
  BY <1>3, <1>4, <1>6, <1>7, <1>8, <1>9, <1>10, <1>12 DEF Held
<1>14. /\ NotOwned(A, Z) /\ NotOwned(B, Z) /\ NotOwned(C, Z)
       /\ NotOwned(D, Z) /\ NotOwned(E, Z) /\ NotOwned(F, Z)
  BY <1>1, <1>2, RawApart DEF Owners
<1>15. NotOwned(U, Z)
  BY <1>6, <1>14 DEF NotOwned
<1>16. Leads(CreateRawBuffer("selected"), Z, Z, Z, A, Q, Z)
  BY <1>1, <1>13, <1>14, CreateRawBufferLeads
<1>17. Leads(CreateRawBuffer("authorized"), Z, A, Z, b, Q, Z)
  BY <1>1, <1>7, <1>13, <1>14, CreateRawBufferLeads
<1>18. Leads(CreateRawBuffer("counts"), Z, b, Z, c, Q, Z)
  BY <1>1, <1>8, <1>13, <1>14, CreateRawBufferLeads
<1>19. Leads(CreateRawBuffer("matched"), Z, c, Z, d, Q, Z)
  BY <1>2, <1>9, <1>13, <1>14, CreateRawBufferLeads
<1>20. Leads(CreateRawBuffer("inputs"), Z, d, Z, e, Q, Z)
  BY <1>2, <1>10, <1>13, <1>14, CreateRawBufferLeads
<1>21. Leads(CreateRawBuffer("draw commands"), Z, e, Z, U, Q, Z)
  BY <1>2, <1>11, <1>13, <1>14, CreateRawBufferLeads
<1>22. Leads(CreateRawBuffer("selected") \o CreateRawBuffer("authorized"), Z, Z, Z, b, Q, Z)
  BY <1>16, <1>17, Then
<1>23. Leads(CreateRawBuffer("selected") \o CreateRawBuffer("authorized")
               \o CreateRawBuffer("counts"),
             Z, Z, Z, c, Q, Z)
  BY <1>22, <1>18, Then
<1>24. Leads(CreateRawBuffer("selected") \o CreateRawBuffer("authorized")
               \o CreateRawBuffer("counts") \o CreateRawBuffer("matched"),
             Z, Z, Z, d, Q, Z)
  BY <1>23, <1>19, Then
<1>25. Leads(CreateRawBuffer("selected") \o CreateRawBuffer("authorized")
               \o CreateRawBuffer("counts") \o CreateRawBuffer("matched")
               \o CreateRawBuffer("inputs"),
             Z, Z, Z, e, Q, Z)
  BY <1>24, <1>20, Then
<1>26. Leads(CreateRawBuffer("selected") \o CreateRawBuffer("authorized")
               \o CreateRawBuffer("counts") \o CreateRawBuffer("matched")
               \o CreateRawBuffer("inputs") \o CreateRawBuffer("draw commands"),
             Z, Z, Z, U, Q, Z)
  BY <1>25, <1>21, Then
<1>27. PICK s : s = CreateRawBuffer("selected") \o CreateRawBuffer("authorized")
                   \o CreateRawBuffer("counts") \o CreateRawBuffer("matched")
                   \o CreateRawBuffer("inputs") \o CreateRawBuffer("draw commands")
  OBVIOUS
<1>28. Leads(Undoing(U, s), Z, Z, Z, U, Z, Z)
  BY <1>12, <1>15, <1>26, <1>27, UndoingLeads
<1> QED
  BY <1>4, <1>5, <1>27, <1>28 DEF CreateSelectionBuffers

LEMMA RunSelectionLeads ==
  Leads(RunSelection, {}, AllRaw(Selection) \cup DrawCommands, {}, DrawCommands, {}, {})
<1>1. PICK Z, S, W : Z = {} /\ S = AllRaw(Selection) /\ W = DrawCommands
  OBVIOUS
<1>2. PICK y, V : y = Commands("tier2") /\ V = {y}
  OBVIOUS
<1>3. /\ y[1] = "tier2" /\ y \in Leftovers
      /\ \A x \in S : x[1] \in Selection
      /\ \A x \in W : x[1] = "draw commands"
  <2>1. y[1] = "tier2" /\ y \in Leftovers
    BY <1>2 DEF Commands, Leftovers
  <2>2. \A x \in S : x[1] \in Selection
    BY <1>1, RawOwner DEF AllRaw
  <2>3. \A x \in W : x[1] = "draw commands"
    BY <1>1, RawOwner DEF DrawCommands
  <2> QED
    BY <2>1, <2>2, <2>3
<1>4. PICK U : U = S \cup W
  OBVIOUS
<1>5. PICK Q : Q = Z \cup U
  OBVIOUS
<1>6. PICK X : X = Q \cup V
  OBVIOUS
<1>7. PICK j : j = U \cup V
  OBVIOUS
<1>8. /\ Held(U, Q, {"tier2", "device"}) /\ Held(U, Q, {"tier2"})
      /\ j \subseteq X \cup Leftovers /\ j \subseteq Q \cup Leftovers /\ U \ S = W
  BY <1>2, <1>3, <1>4, <1>5, <1>6, <1>7 DEF Held, Selection
<1>9. /\ NotOwned(U, Z) /\ NotOwned(V, Z) /\ NotOwned(S, Z)
      /\ "tier2" \notin Owners /\ CommandPool \notin Z
  BY <1>1, <1>2, <1>3, <1>4, OthersUnowned DEF Owners, Selection
<1>10. Leads(Attempt, Z, j, Z, j, X, Z)
  BY <1>8, AttemptLeads
<1>11. Leads(AllocateCommandBuffer("tier2"), Z, U, Z, j, Q, Z)
  BY <1>2, <1>7, <1>8, <1>9, AllocateCommandBufferLeads
<1>12. Leads(Undoing(V, Attempt), Z, j, Z, j, Q, Z)
  BY <1>6, <1>9, <1>10, UndoingLeads
<1>13. Leads(Attempt, Z, j, Z, j, Q, Z)
  BY <1>8, AttemptLeads
<1>14. Leads(SubmitAndWait("tier2"), Z, j, Z, U, Q, Z)
  BY <1>2, <1>7, <1>8, <1>9, SubmitAndWaitLeads
<1>15. Leads(AllocateCommandBuffer("tier2") \o Undoing(V, Attempt), Z, U, Z, j, Q, Z)
  BY <1>11, <1>12, Then
<1>16. Leads(AllocateCommandBuffer("tier2") \o Undoing(V, Attempt) \o Attempt, Z, U, Z, j, Q, Z)
  BY <1>15, <1>13, Then
<1>17. Leads(AllocateCommandBuffer("tier2") \o Undoing(V, Attempt) \o Attempt
               \o SubmitAndWait("tier2"),
             Z, U, Z, U, Q, Z)
  BY <1>16, <1>14, Then
<1>18. PICK s : s = AllocateCommandBuffer("tier2") \o Undoing(V, Attempt) \o Attempt \o SubmitAndWait("tier2")
  OBVIOUS
<1>19. Leads(Undoing(U, s), Z, U, Z, U, Z, Z)
  BY <1>5, <1>9, <1>17, <1>18, UndoingLeads
<1>20. Leads(Drop(S), Z, U, Z, W, Z, Z)
  BY <1>8, <1>9, DropUnowned
<1>21. Leads(Undoing(U, s) \o Drop(S), Z, U, Z, W, Z, Z)
  BY <1>19, <1>20, Then
<1> QED
  BY <1>1, <1>2, <1>4, <1>18, <1>21 DEF RunSelection

LEMMA SubmitPlanTier2IndirectLeads ==
  Leads(SubmitPlanTier2Indirect, {}, {}, {}, DrawCommands, {}, {})
<1>1. PICK Z, U, W : Z = {} /\ U = AllRaw(Selection) \cup DrawCommands /\ W = DrawCommands
  OBVIOUS
<1>2. Leads(Attempt, Z, Z, Z, Z, Z, Z)
  BY <1>1, Nothing DEF Leaves
<1>3. Leads(ValidatePreAuthorizedSelection, Z, Z, Z, Z, Z, Z)
  BY <1>1, Nothing DEF Leaves, ValidatePreAuthorizedSelection
<1>4. Leads(EnsurePlanIndirectCache, Z, Z, Z, Z, Z, Z)
  BY <1>1, EnsurePlanIndirectCacheLeads DEF Leaves
<1>5. Leads(CreateSelectionBuffers, Z, Z, Z, U, Z, Z)
  BY <1>1, CreateSelectionBuffersLeads
<1>6. Leads(RunSelection, Z, U, Z, W, Z, Z)
  BY <1>1, RunSelectionLeads
<1>7. Leads(Attempt \o ValidatePreAuthorizedSelection, Z, Z, Z, Z, Z, Z)
  BY <1>2, <1>3, Then
<1>8. Leads(Attempt \o ValidatePreAuthorizedSelection \o EnsurePlanIndirectCache, Z, Z, Z, Z, Z, Z)
  BY <1>7, <1>4, Then
<1>9. Leads(Attempt \o ValidatePreAuthorizedSelection \o EnsurePlanIndirectCache
              \o CreateSelectionBuffers,
            Z, Z, Z, U, Z, Z)
  BY <1>8, <1>5, Then
<1>10. Leads(Attempt \o ValidatePreAuthorizedSelection \o EnsurePlanIndirectCache
               \o CreateSelectionBuffers \o RunSelection,
             Z, Z, Z, W, Z, Z)
  BY <1>9, <1>6, Then
<1> QED
  BY <1>1, <1>10 DEF SubmitPlanTier2Indirect

LEMMA RasterPassBindingsLead ==
  Leads(RasterPassBindings, {}, {}, {}, PassBuffers, {}, {})
<1>1. PICK A, B, C : A = Raw("pass vertices") /\ B = Raw("pass tint") /\ C = Raw("pass readback")
  OBVIOUS
<1>2. /\ \A x \in A : x[1] = "pass vertices"
      /\ \A x \in B : x[1] = "pass tint"
  BY <1>1, RawOwner
<1>3. PICK Z, U : Z = {} /\ U = PassBuffers
  OBVIOUS
<1>4. U = A \cup B \cup C
  BY <1>1, <1>3 DEF PassBuffers, AllRaw
<1>5. PICK Q : Q = Z \cup U
  OBVIOUS
<1>6. PICK b : b = A \cup B
  OBVIOUS
<1>7. U = b \cup C
  BY <1>4, <1>6
<1>8. /\ A = Z \cup A /\ Held(Z, Q, {"pass vertices"}) /\ Held(A, Q, {"pass tint"})
      /\ Held(b, Q, {"pass readback"}) /\ b \subseteq Q \cup Leftovers
  BY <1>2, <1>3, <1>4, <1>5, <1>6 DEF Held
<1>9. NotOwned(A, Z) /\ NotOwned(B, Z) /\ NotOwned(C, Z)
  BY <1>1, RawApart DEF Owners
<1>10. NotOwned(U, Z)
  BY <1>4, <1>9 DEF NotOwned
<1>11. Leads(CreateRawBuffer("pass vertices"), Z, Z, Z, A, Q, Z)
  BY <1>1, <1>8, <1>9, CreateRawBufferLeads
<1>12. Leads(CreateRawBuffer("pass tint"), Z, A, Z, b, Q, Z)
  BY <1>1, <1>6, <1>8, <1>9, CreateRawBufferLeads
<1>13. Leads(ResetSets, Z, b, Z, b, Q, Z)
  BY ResetLeads
<1>14. Leads(AllocateSet, Z, b, Z, b, Q, Z)
  BY <1>8, AttemptLeads
<1>15. Leads(CreateRawBuffer("pass readback"), Z, b, Z, U, Q, Z)
  BY <1>1, <1>7, <1>8, <1>9, CreateRawBufferLeads
<1>16. Leads(CreateRawBuffer("pass vertices") \o CreateRawBuffer("pass tint"), Z, Z, Z, b, Q, Z)
  BY <1>11, <1>12, Then
<1>17. Leads(CreateRawBuffer("pass vertices") \o CreateRawBuffer("pass tint") \o ResetSets,
             Z, Z, Z, b, Q, Z)
  BY <1>16, <1>13, Then
<1>18. Leads(CreateRawBuffer("pass vertices") \o CreateRawBuffer("pass tint") \o ResetSets
               \o AllocateSet,
             Z, Z, Z, b, Q, Z)
  BY <1>17, <1>14, Then
<1>19. Leads(CreateRawBuffer("pass vertices") \o CreateRawBuffer("pass tint") \o ResetSets
               \o AllocateSet \o CreateRawBuffer("pass readback"),
             Z, Z, Z, U, Q, Z)
  BY <1>18, <1>15, Then
<1>20. PICK s : s = CreateRawBuffer("pass vertices") \o CreateRawBuffer("pass tint")
                   \o ResetSets \o AllocateSet \o CreateRawBuffer("pass readback")
  OBVIOUS
<1>21. Leads(EnsureRasterPipeline, Z, Z, Z, Z, Z, Z)
  BY <1>3, EnsureRasterPipelineLeads DEF Leaves
<1>22. Leads(EnsureSampler, Z, Z, Z, Z, Z, Z)
  BY <1>3, Nothing, DeviceMembersLead DEF Leaves
<1>23. Leads(EnsureDescriptorPool, Z, Z, Z, Z, Z, Z)
  BY <1>3, Nothing, DeviceMembersLead DEF Leaves
<1>24. Leads(Undoing(U, s), Z, Z, Z, U, Z, Z)
  BY <1>5, <1>10, <1>19, <1>20, UndoingLeads
<1>25. Leads(EnsureRasterPipeline \o EnsureSampler, Z, Z, Z, Z, Z, Z)
  BY <1>21, <1>22, Then
<1>26. Leads(EnsureRasterPipeline \o EnsureSampler \o EnsureDescriptorPool, Z, Z, Z, Z, Z, Z)
  BY <1>25, <1>23, Then
<1>27. Leads(EnsureRasterPipeline \o EnsureSampler \o EnsureDescriptorPool \o Undoing(U, s),
             Z, Z, Z, U, Z, Z)
  BY <1>26, <1>24, Then
<1> QED
  BY <1>3, <1>20, <1>27 DEF RasterPassBindings

LEMMA RunRasterPassLeads == Leaves(RunRasterPass, {}, {})
<1>1. PICK Z, P, I : Z = {} /\ P = PassBuffers /\ I = Multisample
  OBVIOUS
<1>2. (\A x \in P : x[1] \in {"pass vertices", "pass tint", "pass readback"})
        /\ (\A x \in I : x[1] = "multisample")
  BY <1>1, RawOwner, ImageOwner DEF PassBuffers, AllRaw, Multisample
<1>3. PICK U : U = I \cup P
  OBVIOUS
<1>4. PICK Q : Q = Z \cup U
  OBVIOUS
<1>5. PICK j : j = U \cup {Commands("pass")}
  OBVIOUS
<1>6. /\ U = P \cup I /\ U \ U = Z /\ Held(P, Q, {"multisample"})
      /\ Held(U, Q, {"pass", "device"}) /\ Held(U, Q, {"pass"})
  BY <1>1, <1>2, <1>3, <1>4 DEF Held
<1>7. NotOwned(U, Z) /\ NotOwned(I, Z) /\ "pass" \notin Owners /\ CommandPool \notin Z
  BY <1>1, <1>2, <1>3, OthersUnowned DEF Owners
<1>8. Leads(CreateImage("multisample"), Z, P, Z, U, Q, Z)
  BY <1>1, <1>6, <1>7, CreateImageLeads DEF Multisample
<1>9. Leads(AllocateCommandBuffer("pass"), Z, U, Z, j, Q, Z)
  BY <1>5, <1>6, <1>7, AllocateCommandBufferLeads
<1>10. Leads(SubmitAndWait("pass"), Z, j, Z, U, Q, Z)
  BY <1>5, <1>6, <1>7, SubmitAndWaitLeads
<1>11. Leads(CreateImage("multisample") \o AllocateCommandBuffer("pass"), Z, P, Z, j, Q, Z)
  BY <1>8, <1>9, Then
<1>12. Leads(CreateImage("multisample") \o AllocateCommandBuffer("pass")
               \o SubmitAndWait("pass"),
             Z, P, Z, U, Q, Z)
  BY <1>11, <1>10, Then
<1>13. PICK s : s = CreateImage("multisample") \o AllocateCommandBuffer("pass") \o SubmitAndWait("pass")
  OBVIOUS
<1>14. ASSUME NEW f \in {"target", "source"}
       PROVE  Leads(EnsureFacetImage(f, FALSE, TRUE), Z, Z, Z, Z, Z, Z)
  BY <1>1, Nothing, EnsureFacetImageLeads
<1>15. PICK a, b : a = EnsureFacetImage("target", FALSE, TRUE) /\ b = EnsureFacetImage("source", FALSE, TRUE)
  OBVIOUS
<1>16. Leads(a, Z, Z, Z, Z, Z, Z) /\ Leads(b, Z, Z, Z, Z, Z, Z) /\ Leads(Attempt, Z, Z, Z, Z, Z, Z)
  BY <1>1, <1>14, <1>15, Nothing DEF Leaves
<1>17. Leads(Attempt \o a, Z, Z, Z, Z, Z, Z)
  BY <1>16, Then
<1>18. Leads(Attempt \o a \o b, Z, Z, Z, Z, Z, Z)
  BY <1>16, <1>17, Then
<1>19. Leads(RasterPassImages, Z, Z, Z, Z, Z, Z)
  BY <1>15, <1>18 DEF RasterPassImages
<1>20. Leads(RasterPassBindings, Z, Z, Z, P, Z, Z)
  BY <1>1, RasterPassBindingsLead
<1>21. Leads(Undoing(U, s), Z, P, Z, U, Z, Z)
  BY <1>4, <1>7, <1>12, <1>13, UndoingLeads
<1>22. Leads(Drop(U), Z, U, Z, Z, Z, Z)
  BY <1>6, <1>7, DropUnowned
<1>23. Leads(RasterPassImages \o RasterPassBindings, Z, Z, Z, P, Z, Z)
  BY <1>19, <1>20, Then
<1>24. Leads(RasterPassImages \o RasterPassBindings \o Undoing(U, s), Z, Z, Z, U, Z, Z)
  BY <1>23, <1>21, Then
<1>25. Leads(RasterPassImages \o RasterPassBindings \o Undoing(U, s) \o Drop(U), Z, Z, Z, Z, Z, Z)
  BY <1>24, <1>22, Then
<1> QED
  BY <1>1, <1>3, <1>13, <1>25 DEF Leaves, RunRasterPass

-----------------------------------------------------------------------------
(* The calls *)

Ordinary ==
  {"compile", "compute", "timeline", "commit", "draw", "draw user", "draw tier2", "pass", "kernels"}

LEMMA StepsOfCalls ==
  /\ StepsOf("compile") = EnsurePipeline("node") \o CompilePlanRasterPackage("user")
  /\ StepsOf("compute") = ComputeTasks(FALSE) \o PublishTasks
  /\ StepsOf("timeline") = SubmitTimelineMarker \o ComputeTasks(TRUE) \o SubmitTimelineMarker
  /\ StepsOf("commit") =
       TransformRepresentation("a", "target") \o RetireStaleFacetImages({"source"}) \o ConsumeInput("a")
  /\ StepsOf("draw") = SubmitPlanRasterStep([Plain EXCEPT !.stale = TRUE])
  /\ StepsOf("draw user") =
       SubmitPlanRasterStep([Plain EXCEPT !.program = "user", !.depth = TRUE, !.indexed = TRUE])
  /\ StepsOf("draw tier2") =
       SubmitPlanTier2Indirect
         \o Undoing(DrawCommands, SubmitPlanRasterStep([Plain EXCEPT !.tier2 = TRUE]))
         \o Drop(DrawCommands)
  /\ StepsOf("pass") = RunRasterPass
  /\ StepsOf("kernels") =
       EnsureSampleFacetPipeline("plain") \o EnsureSampleFacetPipeline("checked")
         \o EnsureStorageFacetPipeline
  /\ StepsOf("create") = CreateImpl
  /\ StepsOf("destroy") = DestroyDeviceState
BY DEF StepsOf

LEMMA CompileLeaves == Leaves(StepsOf("compile"), {}, {})
<1>1. PICK Z : Z = {}
  OBVIOUS
<1>2. Held(Z, Z, {"plan", "glslc"}) /\ Held(Z, Z, {"glslc", "user"})
  BY <1>1, Nothing
<1>3. Leads(EnsurePlanRasterCache, Z, Z, Z \cup PlanRasterCache, Z, Z, Z)
  BY <1>1, <1>2, EnsurePlanRasterCacheLeads
<1>4. Leads(EnsurePlanRasterCache, Z, Z, Z, Z, Z, Z)
  BY <1>1, <1>3, Weaker
<1>5. Leaves(EnsurePlanRasterCache, Z, Z)
  BY <1>1, <1>4 DEF Leaves
<1>6. Leaves(EnsurePlanRasterCache \o GetOrCompileUserRasterGlsl, Z, Z)
  BY <1>2, <1>5, GetOrCompileUserRasterGlslLeads, LeavesThen
<1>7. Leaves(Attempt, Z, Z)
  BY <1>1, Nothing
<1>8. Leaves(CompilePlanRasterPackage("user"), Z, Z)
  BY <1>6, <1>7, LeavesThen DEF CompilePlanRasterPackage, When
<1>9. Leaves(EnsurePipeline("node"), Z, Z)
  BY <1>1, EnsurePipelineLeads
<1>10. Leaves(EnsurePipeline("node") \o CompilePlanRasterPackage("user"), Z, Z)
  BY <1>8, <1>9, LeavesThen
<1> QED
  BY <1>1, <1>10, StepsOfCalls

LEMMA ComputeAndTimelineLeave ==
  Leaves(StepsOf("compute"), {}, {}) /\ Leaves(StepsOf("timeline"), {}, {})
<1>1. PICK Z : Z = {}
  OBVIOUS
<1>2. Leaves(ComputeTasks(FALSE), Z, Z) /\ Leaves(ComputeTasks(TRUE), Z, Z) /\ Leaves(PublishTasks, Z, Z)
  BY <1>1, ComputeTasksLead, PublishTasksLead
<1>3. Leaves(SubmitTimelineMarker, Z, Z)
  BY <1>1, Nothing, DispatchLeads
<1>4. Leaves(ComputeTasks(FALSE) \o PublishTasks, Z, Z)
  BY <1>2, LeavesThen
<1>5. Leaves(SubmitTimelineMarker \o ComputeTasks(TRUE), Z, Z)
  BY <1>2, <1>3, LeavesThen
<1>6. Leaves(SubmitTimelineMarker \o ComputeTasks(TRUE) \o SubmitTimelineMarker, Z, Z)
  BY <1>3, <1>5, LeavesThen
<1> QED
  BY <1>1, <1>4, <1>6, StepsOfCalls

LEMMA CommitLeaves == Leaves(StepsOf("commit"), {}, {})
<1>1. PICK Z, A, S : Z = {} /\ A = Raw("a") /\ S = Image("source")
  OBVIOUS
<1>2. UNION {Image(f) : f \in {"source"}} = S
  BY <1>1
<1>3. Z \ A = Z
  BY <1>1
<1>4. Leads(Drop(A), Z, Z, Z \ A, Z \ A, Z, Z)
  BY <1>1, RecordDroppable, DropLeads
<1>5. Leaves(ConsumeInput("a"), Z, Z)
  BY <1>1, <1>3, <1>4 DEF Leaves, ConsumeInput, DestroyRawBuffer
<1>6. Leads(Drop(S), Z, Z, Z, Z, Z, Z)
  BY <1>1, DropImages
<1>7. Leaves(RetireStaleFacetImages({"source"}), Z, Z)
  BY <1>1, <1>2, <1>6 DEF Leaves, RetireStaleFacetImages
<1>8. Leaves(EnsureBuffer("a", FALSE), Z, Z) /\ Leaves(Attempt, Z, Z)
  BY <1>1, Nothing, EnsureBufferLeads DEF Leaves
<1>9. Leaves(EnsureFacetImage("target", FALSE, FALSE), Z, Z)
  BY <1>1, Nothing, EnsureFacetImageLeads DEF Leaves
<1>10. Leaves(Attempt \o EnsureBuffer("a", FALSE), Z, Z)
  BY <1>8, LeavesThen
<1>11. Leaves(Attempt \o EnsureBuffer("a", FALSE) \o EnsureFacetImage("target", FALSE, FALSE), Z, Z)
  BY <1>9, <1>10, LeavesThen
<1>12. PICK t : t = TransformRepresentation("a", "target")
  OBVIOUS
<1>13. Leaves(t, Z, Z)
  BY <1>11, <1>12 DEF TransformRepresentation
<1>14. Leaves(t \o RetireStaleFacetImages({"source"}), Z, Z)
  BY <1>7, <1>13, LeavesThen
<1>15. Leaves(t \o RetireStaleFacetImages({"source"}) \o ConsumeInput("a"), Z, Z)
  BY <1>5, <1>14, LeavesThen
<1> QED
  BY <1>1, <1>12, <1>15, StepsOfCalls

LEMMA DrawsLeave ==
  /\ Leaves(StepsOf("draw"), {}, {})
  /\ Leaves(StepsOf("draw user"), {}, {})
  /\ Leaves(StepsOf("draw tier2"), {}, {})
<1>1. PICK a : a = [Plain EXCEPT !.stale = TRUE]
  OBVIOUS
<1>2. PICK b : b = [Plain EXCEPT !.program = "user", !.depth = TRUE, !.indexed = TRUE]
  OBVIOUS
<1>3. PICK c : c = [Plain EXCEPT !.tier2 = TRUE]
  OBVIOUS
<1>4. IsDraw(a) /\ IsDraw(b) /\ IsDraw(c)
  BY <1>1, <1>2, <1>3 DEF IsDraw, Plain
<1>5. PICK Z, W : Z = {} /\ W = DrawCommands
  OBVIOUS
<1>6. Leaves(SubmitPlanRasterStep(a), Z, Z) /\ Leaves(SubmitPlanRasterStep(b), Z, Z)
  BY <1>4, <1>5, Nothing, SubmitPlanRasterStepLeads
<1>7. \A x \in W : x[1] = "draw commands"
  BY <1>5, RawOwner DEF DrawCommands
<1>8. PICK Q : Q = Z \cup W
  OBVIOUS
<1>9. Held(W, Q, DrawOwners) /\ W \ W = Z
  BY <1>5, <1>7, <1>8 DEF Held, DrawOwners
<1>10. NotOwned(W, Z)
  BY <1>7, OthersUnowned DEF Owners
<1>11. PICK s : s = SubmitPlanRasterStep(c)
  OBVIOUS
<1>12. Leads(s, Z, W, Z, W, Q, Z)
  BY <1>4, <1>5, <1>9, <1>11, SubmitPlanRasterStepLeads DEF Leaves
<1>13. Leads(SubmitPlanTier2Indirect, Z, Z, Z, W, Z, Z)
  BY <1>5, SubmitPlanTier2IndirectLeads
<1>14. Leads(Undoing(W, s), Z, W, Z, W, Z, Z)
  BY <1>8, <1>10, <1>12, UndoingLeads
<1>15. Leads(Drop(W), Z, W, Z, Z, Z, Z)
  BY <1>9, <1>10, DropUnowned
<1>16. Leads(SubmitPlanTier2Indirect \o Undoing(W, s), Z, Z, Z, W, Z, Z)
  BY <1>13, <1>14, Then
<1>17. Leads(SubmitPlanTier2Indirect \o Undoing(W, s) \o Drop(W), Z, Z, Z, Z, Z, Z)
  BY <1>15, <1>16, Then
<1>18. StepsOf("draw tier2") = SubmitPlanTier2Indirect \o Undoing(W, s) \o Drop(W)
  BY <1>3, <1>5, <1>11, StepsOfCalls
<1>19. Leaves(StepsOf("draw tier2"), Z, Z)
  BY <1>5, <1>17, <1>18 DEF Leaves
<1>20. Leaves(StepsOf("draw"), Z, Z) /\ Leaves(StepsOf("draw user"), Z, Z)
  BY <1>1, <1>2, <1>6, StepsOfCalls
<1> QED
  BY <1>5, <1>19, <1>20

(* Each of the host's calls, whatever came before it, goes from a whole     *)
(* device to a whole one with nothing local; and at whichever step it      *)
(* fails, its error path leaves the device whole and nothing else behind   *)
(* but Leftovers (the functions of src/src/backends/vulkan/).              *)
THEOREM CallsLeave == \A c \in Ordinary : Leaves(StepsOf(c), {}, {})
<1>1. PICK Z : Z = {}
  OBVIOUS
<1>2. /\ Leaves(EnsureSampleFacetPipeline("plain"), Z, Z)
      /\ Leaves(EnsureSampleFacetPipeline("checked"), Z, Z)
      /\ Leaves(EnsureStorageFacetPipeline, Z, Z)
  BY <1>1, EnsureSampleFacetPipelineLeads, EnsureStorageFacetPipelineLeads
<1>3. Leaves(EnsureSampleFacetPipeline("plain") \o EnsureSampleFacetPipeline("checked"), Z, Z)
  BY <1>2, LeavesThen
<1>4. Leaves(EnsureSampleFacetPipeline("plain") \o EnsureSampleFacetPipeline("checked")
               \o EnsureStorageFacetPipeline, Z, Z)
  BY <1>2, <1>3, LeavesThen
<1>5. Leaves(StepsOf("kernels"), {}, {}) /\ Leaves(StepsOf("pass"), {}, {})
  BY <1>1, <1>4, RunRasterPassLeads, StepsOfCalls
<1> QED
  BY <1>5, CompileLeaves, ComputeAndTimelineLeave, CommitLeaves, DrawsLeave DEF Ordinary

-----------------------------------------------------------------------------
(* The machine that takes the steps.  Follows: the steps of s from the     *)
(* i-th on go from o and l to a whole device.                              *)

Follows(s, i, o, l) ==
  \E O, L :
    /\ O[i] = o /\ L[i] = l
    /\ Whole(O[Len(s) + 1]) /\ L[Len(s) + 1] = {}
    /\ \A j \in i .. Len(s) :
         Base \subseteq O[j] /\ Passes(s[j], O[j], L[j], O[j + 1], L[j + 1], {})

LEMMA FollowsFirst ==
  ASSUME NEW s, Leaves(s, {}, {}), NEW o, Whole(o)
  PROVE  AreSteps(s) /\ Len(s) \in Nat /\ Follows(s, 1, o, {})
<1>1. PICK Z : Z = {}
  OBVIOUS
<1>2. Leads(s, Z, Z, Z, Z, Z, Z) /\ Z \subseteq o /\ o \cap Z = {}
  BY <1>1 DEF Leaves
<1>3. PICK p : Whole(p) /\ Goes(s, o, Z, p, Z, Z, Z)
  BY <1>2 DEF Leads
<1>4. AreSteps(s) /\ Len(s) \in Nat
  BY <1>2, ConcatenatedSteps DEF Leads
<1>5. Follows(s, 1, o, Z)
  BY <1>1, <1>3 DEF Goes, Follows
<1> QED
  BY <1>1, <1>4, <1>5

LEMMA FollowsOn ==
  ASSUME NEW s, Len(s) \in Nat, NEW i \in 1 .. Len(s), NEW o, NEW l, Follows(s, i, o, l)
  PROVE  /\ Base \subseteq o
         /\ \E p, m : Passes(s[i], o, l, p, m, {}) /\ Follows(s, i + 1, p, m)
<1>1. PICK n \in Nat : n = Len(s)
  OBVIOUS
<1>2. PICK O, L : /\ O[i] = o /\ L[i] = l /\ Whole(O[n + 1]) /\ L[n + 1] = {}
                  /\ \A j \in i .. n :
                       Base \subseteq O[j] /\ Passes(s[j], O[j], L[j], O[j + 1], L[j + 1], {})
  BY <1>1 DEF Follows
<1>3. i \in i .. n /\ (i + 1) .. n \subseteq i .. n
  BY <1>1
<1>4. Base \subseteq o /\ Passes(s[i], o, l, O[i + 1], L[i + 1], {})
  BY <1>2, <1>3
<1>5. PICK k : k = i + 1
  OBVIOUS
<1>6. Follows(s, k, O[k], L[k])
  BY <1>1, <1>2, <1>3, <1>5 DEF Follows
<1> QED
  BY <1>4, <1>5, <1>6

LEMMA FollowsLast ==
  ASSUME NEW s, NEW o, NEW l, Follows(s, Len(s) + 1, o, l)
  PROVE  Whole(o) /\ l = {}
BY DEF Follows

LEMMA OneMoreStep ==
  ASSUME NEW s, AreSteps(s), NEW n \in Nat, Len(s) = n, NEW x, DOMAIN x = Fields
  PROVE  /\ AreSteps(s \o <<x>>) /\ Len(s \o <<x>>) = n + 1
         /\ (s \o <<x>>)[n + 1] = x
         /\ \A i \in 1 .. n : (s \o <<x>>)[i] = s[i]
<1>1. PICK t : t = <<x>>
  OBVIOUS
<1>2. Len(t) = 1 /\ t[1] = x /\ AreSteps(t)
  BY <1>1, OneStep
<1>3. PICK u : u = s \o t
  OBVIOUS
<1>4. AreSteps(u) /\ Len(u) = n + 1 /\ (\A i \in 1 .. n : u[i] = s[i])
        /\ \A i \in n + 1 .. n + 1 : u[i] = t[i - n]
  <2>1. /\ AreSteps(u) /\ Len(u) = Len(s) + Len(t)
        /\ \A i \in 1 .. Len(s) : u[i] = s[i]
        /\ \A i \in Len(s) + 1 .. Len(s) + Len(t) : u[i] = t[i - Len(s)]
    BY <1>2, <1>3, ConcatenatedSteps
  <2> QED
    BY <1>2, <2>1
<1>5. u[n + 1] = x
  <2>1. PICK k : k = n + 1 /\ k \in n + 1 .. n + 1 /\ k - n = 1
    OBVIOUS
  <2> QED
    BY <1>2, <1>4, <2>1
<1> QED
  BY <1>1, <1>3, <1>4, <1>5

(* The creation, step by step *)
Created == {Instance, Device, TimelineSemaphore}

LEMMA CreationSteps ==
  /\ AreSteps(StepsOf("create")) /\ Len(StepsOf("create")) = 5
  /\ StepsOf("create")[1] = [op |-> "make", objects |-> {Instance}, undo |-> Created, unless |-> {}]
  /\ StepsOf("create")[2] = [op |-> "attempt", objects |-> {}, undo |-> Created, unless |-> {}]
  /\ StepsOf("create")[3] = [op |-> "make", objects |-> {Device}, undo |-> Created, unless |-> {}]
  /\ StepsOf("create")[4] =
       [op |-> "make", objects |-> {TimelineSemaphore}, undo |-> Created, unless |-> {}]
  /\ StepsOf("create")[5] = [op |-> "keep", objects |-> Created, undo |-> {}, unless |-> {}]
<1>1. PICK a, b, c, d, e :
         /\ a = [op |-> "make", objects |-> {Instance}, undo |-> {}, unless |-> {}]
         /\ b = [op |-> "attempt", objects |-> {}, undo |-> {}, unless |-> {}]
         /\ c = [op |-> "make", objects |-> {Device}, undo |-> {}, unless |-> {}]
         /\ d = [op |-> "make", objects |-> {TimelineSemaphore}, undo |-> {}, unless |-> {}]
         /\ e = [op |-> "keep", objects |-> Created, undo |-> {}, unless |-> {}]
  OBVIOUS
<1>2. /\ DOMAIN a = Fields /\ DOMAIN b = Fields /\ DOMAIN c = Fields /\ DOMAIN d = Fields
      /\ DOMAIN e = Fields
  BY <1>1 DEF Fields
<1>3. PICK f : f = <<a>>
  OBVIOUS
<1>4. AreSteps(f) /\ Len(f) = 1 /\ f[1] = a
  BY <1>2, <1>3, OneStep
<1>5. PICK g : g = f \o <<b>>
  OBVIOUS
<1>6. AreSteps(g) /\ Len(g) = 2 /\ g[2] = b /\ \A i \in 1 .. 1 : g[i] = f[i]
  <2>1. PICK n \in Nat : n = 1
    OBVIOUS
  <2>2. n \in Nat /\ AreSteps(f) /\ Len(f) = n /\ DOMAIN b = Fields
    BY <1>2, <1>4, <2>1
  <2>3. AreSteps(g) /\ Len(g) = n + 1 /\ g[n + 1] = b /\ \A i \in 1 .. n : g[i] = f[i]
    BY <1>5, <2>2, OneMoreStep
  <2> QED
    BY <2>1, <2>3
<1>7. AreSteps(g) /\ Len(g) = 2 /\ g[1] = a /\ g[2] = b
  BY <1>4, <1>6
<1>8. PICK h : h = g \o <<c>>
  OBVIOUS
<1>9. AreSteps(h) /\ Len(h) = 3 /\ h[3] = c /\ \A i \in 1 .. 2 : h[i] = g[i]
  <2>1. PICK n \in Nat : n = 2
    OBVIOUS
  <2>2. n \in Nat /\ AreSteps(g) /\ Len(g) = n /\ DOMAIN c = Fields
    BY <1>2, <1>7, <2>1
  <2>3. AreSteps(h) /\ Len(h) = n + 1 /\ h[n + 1] = c /\ \A i \in 1 .. n : h[i] = g[i]
    BY <1>8, <2>2, OneMoreStep
  <2> QED
    BY <2>1, <2>3
<1>10. AreSteps(h) /\ Len(h) = 3 /\ h[1] = a /\ h[2] = b /\ h[3] = c
  BY <1>7, <1>9
<1>11. PICK k : k = h \o <<d>>
  OBVIOUS
<1>12. AreSteps(k) /\ Len(k) = 4 /\ k[4] = d /\ \A i \in 1 .. 3 : k[i] = h[i]
  <2>1. PICK n \in Nat : n = 3
    OBVIOUS
  <2>2. n \in Nat /\ AreSteps(h) /\ Len(h) = n /\ DOMAIN d = Fields
    BY <1>2, <1>10, <2>1
  <2>3. AreSteps(k) /\ Len(k) = n + 1 /\ k[n + 1] = d /\ \A i \in 1 .. n : k[i] = h[i]
    BY <1>11, <2>2, OneMoreStep
  <2> QED
    BY <2>1, <2>3
<1>13. AreSteps(k) /\ Len(k) = 4 /\ k[1] = a /\ k[2] = b /\ k[3] = c /\ k[4] = d
  BY <1>10, <1>12
<1>14. PICK u : u = Undoing(Created, k)
  OBVIOUS
<1>15. AreSteps(u) /\ Len(u) = 4
  BY <1>13, <1>14, ChangedSteps
<1>16. DOMAIN k = 1 .. 4
  BY <1>13, LenProperties DEF AreSteps
<1>17. /\ u[1] = [a EXCEPT !.undo = @ \cup Created] /\ u[2] = [b EXCEPT !.undo = @ \cup Created]
       /\ u[3] = [c EXCEPT !.undo = @ \cup Created] /\ u[4] = [d EXCEPT !.undo = @ \cup Created]
  <2>1. 1 \in 1 .. 4 /\ 2 \in 1 .. 4 /\ 3 \in 1 .. 4 /\ 4 \in 1 .. 4
    OBVIOUS
  <2>2. \A i \in 1 .. 4 : u[i] = [k[i] EXCEPT !.undo = @ \cup Created]
    BY <1>14, <1>16 DEF Undoing
  <2> QED
    BY <1>13, <2>1, <2>2
<1>18. PICK s : s = u \o <<e>>
  OBVIOUS
<1>19. AreSteps(s) /\ Len(s) = 5 /\ s[5] = e /\ \A i \in 1 .. 4 : s[i] = u[i]
  <2>1. PICK n \in Nat : n = 4
    OBVIOUS
  <2>2. n \in Nat /\ AreSteps(u) /\ Len(u) = n /\ DOMAIN e = Fields
    BY <1>2, <1>15, <2>1
  <2>3. AreSteps(s) /\ Len(s) = n + 1 /\ s[n + 1] = e /\ \A i \in 1 .. n : s[i] = u[i]
    BY <1>18, <2>2, OneMoreStep
  <2> QED
    BY <2>1, <2>3
<1>20. AreSteps(s) /\ Len(s) = 5 /\ s[1] = u[1] /\ s[2] = u[2] /\ s[3] = u[3] /\ s[4] = u[4] /\ s[5] = e
  BY <1>19
<1>21. /\ s[1] = [op |-> "make", objects |-> {Instance}, undo |-> Created, unless |-> {}]
       /\ s[2] = [op |-> "attempt", objects |-> {}, undo |-> Created, unless |-> {}]
       /\ s[3] = [op |-> "make", objects |-> {Device}, undo |-> Created, unless |-> {}]
       /\ s[4] = [op |-> "make", objects |-> {TimelineSemaphore}, undo |-> Created, unless |-> {}]
       /\ s[5] = e
  <2>1. [a EXCEPT !.undo = @ \cup Created]
          = [op |-> "make", objects |-> {Instance}, undo |-> Created, unless |-> {}]
    BY <1>1
  <2>2. [b EXCEPT !.undo = @ \cup Created]
          = [op |-> "attempt", objects |-> {}, undo |-> Created, unless |-> {}]
    BY <1>1
  <2>3. [c EXCEPT !.undo = @ \cup Created]
          = [op |-> "make", objects |-> {Device}, undo |-> Created, unless |-> {}]
    BY <1>1
  <2>4. [d EXCEPT !.undo = @ \cup Created]
          = [op |-> "make", objects |-> {TimelineSemaphore}, undo |-> Created, unless |-> {}]
    BY <1>1
  <2> QED
    BY <1>17, <1>20, <2>1, <2>2, <2>3, <2>4
<1>22. StepsOf("create") = s
  <2>1. CreateImpl = Undoing(Created, <<a>> \o <<b>> \o <<c>> \o <<d>>) \o <<e>>
    BY <1>1 DEF CreateImpl, Created, Make, ChooseAdapter, Attempt, Keep, Step
  <2> QED
    BY <1>3, <1>5, <1>8, <1>11, <1>14, <1>18, <2>1, StepsOfCalls
<1> QED
  BY <1>1, <1>20, <1>21, <1>22

(* The destruction: steps that only drop.  What D holds goes, and no more. *)
Sheds(s, D) ==
  /\ AreSteps(s)
  /\ \A i \in 1 .. Len(s) : s[i].op = "drop" /\ s[i].unless = {} /\ s[i].objects \subseteq D
  /\ \A x \in D : \E i \in 1 .. Len(s) : x \in s[i].objects

LEMMA DropSheds ==
  ASSUME NEW D
  PROVE  Sheds(Drop(D), D) /\ Len(Drop(D)) = 1 /\ Drop(D)[1].objects = D
<1>1. PICK d : d = [op |-> "drop", objects |-> D, undo |-> {}, unless |-> {}]
  OBVIOUS
<1>2. Drop(D) = <<d>> /\ DOMAIN d = Fields
  BY <1>1 DEF Drop, Step, Fields
<1>3. PICK s : s = <<d>>
  OBVIOUS
<1>4. Len(s) = 1 /\ s[1] = d /\ AreSteps(s)
  BY <1>2, <1>3, OneStep
<1>5. d.op = "drop" /\ d.unless = {} /\ d.objects = D
  BY <1>1
<1>6. Sheds(s, D)
  <2>1. \A i \in 1 .. 1 : s[i] = d
    BY <1>4
  <2>2. 1 \in 1 .. 1
    OBVIOUS
  <2> QED
    BY <1>4, <1>5, <2>1, <2>2 DEF Sheds
<1> QED
  BY <1>2, <1>3, <1>4, <1>5, <1>6

LEMMA ShedsThen ==
  ASSUME NEW s, NEW t, NEW D, NEW E, Sheds(s, D), Sheds(t, E)
  PROVE  Sheds(s \o t, D \cup E)
<1>1. PICK u : u = s \o t
  OBVIOUS
<1>2. PICK F : F = D \cup E
  OBVIOUS
<1>3. /\ AreSteps(u) /\ Len(s) \in Nat /\ Len(t) \in Nat /\ Len(u) = Len(s) + Len(t)
      /\ \A i \in 1 .. Len(s) : u[i] = s[i]
      /\ \A i \in Len(s) + 1 .. Len(s) + Len(t) : u[i] = t[i - Len(s)]
  BY <1>1, ConcatenatedSteps DEF Sheds
<1>4. PICK n \in Nat, k \in Nat : n = Len(s) /\ k = Len(t)
  BY <1>3
<1>5. ASSUME NEW i \in 1 .. n + k
      PROVE  u[i].op = "drop" /\ u[i].unless = {} /\ u[i].objects \subseteq F
  <2>1. CASE i \in 1 .. n
    BY <1>2, <1>3, <1>4, <2>1 DEF Sheds
  <2>2. CASE i \notin 1 .. n
    <3>1. PICK j \in 1 .. k : j = i - n
      BY <1>4, <2>2
    <3>2. u[i] = t[j]
      BY <1>3, <1>4, <2>2, <3>1
    <3> QED
      BY <1>2, <1>4, <3>2 DEF Sheds
  <2> QED
    BY <2>1, <2>2
<1>6. ASSUME NEW x \in F
      PROVE  \E i \in 1 .. n + k : x \in u[i].objects
  <2>1. CASE x \in D
    <3>1. PICK i \in 1 .. n : x \in s[i].objects
      BY <1>4, <2>1 DEF Sheds
    <3>2. i \in 1 .. n + k /\ u[i] = s[i]
      BY <1>3, <1>4
    <3> QED
      BY <3>1, <3>2
  <2>2. CASE x \in E
    <3>1. PICK j \in 1 .. k : x \in t[j].objects
      BY <1>4, <2>2 DEF Sheds
    <3>2. PICK i : i = n + j /\ i \in n + 1 .. n + k /\ i \in 1 .. n + k /\ i - n = j
      BY <1>4
    <3>3. u[i] = t[j]
      BY <1>3, <1>4, <3>2
    <3> QED
      BY <3>1, <3>2, <3>3
  <2> QED
    BY <1>2, <2>1, <2>2
<1>7. Sheds(u, F)
  BY <1>3, <1>4, <1>5, <1>6 DEF Sheds
<1> QED
  BY <1>1, <1>2, <1>7

(* All but the device and the instance *)
LEMMA RestSheds ==
  \E t, D :
    /\ StepsOf("destroy") = t \o Drop({Device}) \o Drop({Instance})
    /\ Sheds(t, D) /\ D \cap Base = {} /\ Known \subseteq D \cup Base
<1>1. PICK D1, D2, D3, D4, D5, D6, D7, D8, D9 :
        /\ D1 = {<<"builtin", "pipeline">>, <<"user", "pipeline">>}
        /\ D2 = UserModules
        /\ D3 = PlanRasterCache \cup {<<"user", "program">>}
        /\ D4 = PlanIndirectCache
        /\ D5 = Raw("a")
        /\ D6 = {CommandPool}
        /\ D7 = ComputePipeline("node")
        /\ D8 = ComputePipeline("ring")
        /\ D9 = {TimelineSemaphore}
  OBVIOUS
<1>2. PICK D10, D11, D12, D13, D14, D15, D16, D17, D18 :
        /\ D10 = UNION {Image(f) : f \in {"target", "source", "depth"}}
        /\ D11 = {Sampler}
        /\ D12 = Part("sample", {"plain", "checked"})
        /\ D13 = Part("storage", {"pipeline", "module"})
        /\ D14 = {<<"raster", "pipeline">>}
        /\ D15 = Part("raster", {"fragment", "vertex", "layout", "set layout"})
        /\ D16 = Part("storage", {"layout", "set layout"})
        /\ D17 = Part("sample", {"module", "layout", "set layout"})
        /\ D18 = {DescriptorPool}
  OBVIOUS
<1>3. PICK t1, E1 : t1 = Drop(D1) /\ E1 = D1
  OBVIOUS
<1>4. Sheds(t1, E1)
  BY <1>3, DropSheds
<1>5. PICK t2, E2 : t2 = t1 \o Drop(D2) /\ E2 = E1 \cup D2
  OBVIOUS
<1>6. Sheds(t2, E2)
  BY <1>4, <1>5, DropSheds, ShedsThen
<1>7. PICK t3, E3 : t3 = t2 \o Drop(D3) /\ E3 = E2 \cup D3
  OBVIOUS
<1>8. Sheds(t3, E3)
  BY <1>6, <1>7, DropSheds, ShedsThen
<1>9. PICK t4, E4 : t4 = t3 \o Drop(D4) /\ E4 = E3 \cup D4
  OBVIOUS
<1>10. Sheds(t4, E4)
  BY <1>8, <1>9, DropSheds, ShedsThen
<1>11. PICK t5, E5 : t5 = t4 \o Drop(D5) /\ E5 = E4 \cup D5
  OBVIOUS
<1>12. Sheds(t5, E5)
  BY <1>10, <1>11, DropSheds, ShedsThen
<1>13. PICK t6, E6 : t6 = t5 \o Drop(D6) /\ E6 = E5 \cup D6
  OBVIOUS
<1>14. Sheds(t6, E6)
  BY <1>12, <1>13, DropSheds, ShedsThen
<1>15. PICK t7, E7 : t7 = t6 \o Drop(D7) /\ E7 = E6 \cup D7
  OBVIOUS
<1>16. Sheds(t7, E7)
  BY <1>14, <1>15, DropSheds, ShedsThen
<1>17. PICK t8, E8 : t8 = t7 \o Drop(D8) /\ E8 = E7 \cup D8
  OBVIOUS
<1>18. Sheds(t8, E8)
  BY <1>16, <1>17, DropSheds, ShedsThen
<1>19. PICK t9, E9 : t9 = t8 \o Drop(D9) /\ E9 = E8 \cup D9
  OBVIOUS
<1>20. Sheds(t9, E9)
  BY <1>18, <1>19, DropSheds, ShedsThen
<1>21. PICK t10, E10 : t10 = t9 \o Drop(D10) /\ E10 = E9 \cup D10
  OBVIOUS
<1>22. Sheds(t10, E10)
  BY <1>20, <1>21, DropSheds, ShedsThen
<1>23. PICK t11, E11 : t11 = t10 \o Drop(D11) /\ E11 = E10 \cup D11
  OBVIOUS
<1>24. Sheds(t11, E11)
  BY <1>22, <1>23, DropSheds, ShedsThen
<1>25. PICK t12, E12 : t12 = t11 \o Drop(D12) /\ E12 = E11 \cup D12
  OBVIOUS
<1>26. Sheds(t12, E12)
  BY <1>24, <1>25, DropSheds, ShedsThen
<1>27. PICK t13, E13 : t13 = t12 \o Drop(D13) /\ E13 = E12 \cup D13
  OBVIOUS
<1>28. Sheds(t13, E13)
  BY <1>26, <1>27, DropSheds, ShedsThen
<1>29. PICK t14, E14 : t14 = t13 \o Drop(D14) /\ E14 = E13 \cup D14
  OBVIOUS
<1>30. Sheds(t14, E14)
  BY <1>28, <1>29, DropSheds, ShedsThen
<1>31. PICK t15, E15 : t15 = t14 \o Drop(D15) /\ E15 = E14 \cup D15
  OBVIOUS
<1>32. Sheds(t15, E15)
  BY <1>30, <1>31, DropSheds, ShedsThen
<1>33. PICK t16, E16 : t16 = t15 \o Drop(D16) /\ E16 = E15 \cup D16
  OBVIOUS
<1>34. Sheds(t16, E16)
  BY <1>32, <1>33, DropSheds, ShedsThen
<1>35. PICK t17, E17 : t17 = t16 \o Drop(D17) /\ E17 = E16 \cup D17
  OBVIOUS
<1>36. Sheds(t17, E17)
  BY <1>34, <1>35, DropSheds, ShedsThen
<1>37. PICK t18, E18 : t18 = t17 \o Drop(D18) /\ E18 = E17 \cup D18
  OBVIOUS
<1>38. Sheds(t18, E18)
  BY <1>36, <1>37, DropSheds, ShedsThen
<1>39. DestroyPlanRasterCache = t3 /\ DestroyPlanIndirectCache = Drop(D4)
  BY <1>1, <1>3, <1>5, <1>7 DEF DestroyPlanRasterCache, DestroyPlanIndirectCache
<1>40. StepsOf("destroy") = t18 \o Drop({Device}) \o Drop({Instance})
  BY <1>1, <1>2, <1>9, <1>11, <1>13, <1>15, <1>17, <1>19, <1>21, <1>23, <1>25, <1>27, <1>29, <1>31, <1>33, <1>35, <1>37, <1>39, StepsOfCalls DEF DestroyDeviceState, RetireStaleFacetImages
<1>41. E18 = D1 \cup D2 \cup D3 \cup D4 \cup D5 \cup D6 \cup D7 \cup D8 \cup D9 \cup D10 \cup D11 \cup D12
               \cup D13 \cup D14 \cup D15 \cup D16 \cup D17 \cup D18
  BY <1>3, <1>5, <1>7, <1>9, <1>11, <1>13, <1>15, <1>17, <1>19, <1>21, <1>23, <1>25, <1>27, <1>29, <1>31, <1>33, <1>35, <1>37
<1>42. \A x \in E18 : x[1] # "device" \/ x[2] \notin {"instance", "device"}
  <2>1. /\ CommandPool[2] = "command pool" /\ TimelineSemaphore[2] = "timeline"
        /\ Sampler[2] = "sampler" /\ DescriptorPool[2] = "descriptor pool"
    BY DEF CommandPool, TimelineSemaphore, Sampler, DescriptorPool
  <2>2. \A x \in D6 \cup D9 \cup D11 \cup D18 : x[2] \notin {"instance", "device"}
    BY <1>1, <1>2, <2>1
  <2>3. \A x \in D1 \cup D14 : x[2] = "pipeline"
    <3>1. PICK v, w, r : /\ v = <<"builtin", "pipeline">> /\ w = <<"user", "pipeline">>
                         /\ r = <<"raster", "pipeline">>
      OBVIOUS
    <3>2. v[2] = "pipeline" /\ w[2] = "pipeline" /\ r[2] = "pipeline"
      BY <3>1
    <3>3. D1 = {v, w} /\ D14 = {r}
      BY <1>1, <1>2, <3>1
    <3> QED
      BY <3>2, <3>3
  <2>4. \A x \in D2 \cup D4 : x[1] # "device"
    BY <1>1, PartOwner DEF UserModules, PlanIndirectCache
  <2>5. \A x \in D3 : x[1] # "device"
    <3>1. \A x \in PlanRasterCache : x[1] # "device"
      <4>1. PICK S : PlanRasterCache = Part("plan", S)
        BY DEF PlanRasterCache
      <4> QED
        BY <4>1, PartOwner
    <3>2. PICK v : v = <<"user", "program">>
      OBVIOUS
    <3>3. D3 = PlanRasterCache \cup {v}
      BY <1>1, <3>2
    <3>4. v[1] = "user"
      BY <3>2
    <3> QED
      BY <3>1, <3>3, <3>4
  <2>6. \A x \in D5 \cup D7 \cup D8 : x[1] # "device"
    BY <1>1, PartOwner, RawOwner DEF ComputePipeline
  <2>7. \A x \in D10 : x[1] # "device"
    <3>1. ASSUME NEW x \in D10 PROVE x[1] # "device"
      <4>1. PICK f \in {"target", "source", "depth"} : x \in Image(f)
        BY <1>2
      <4>2. x[1] = f
        BY <4>1, ImageOwner
      <4> QED
        BY <4>2
    <3> QED
      BY <3>1
  <2>8. \A x \in D12 \cup D13 \cup D15 \cup D16 \cup D17 : x[1] # "device"
    <3>1. \A x \in D12 : x[1] = "sample"
      BY <1>2, PartOwner
    <3>2. \A x \in D13 : x[1] = "storage"
      BY <1>2, PartOwner
    <3>3. \A x \in D15 : x[1] = "raster"
      <4>1. PICK S : D15 = Part("raster", S)
        BY <1>2
      <4> QED
        BY <4>1, PartOwner
    <3>4. \A x \in D16 : x[1] = "storage"
      BY <1>2, PartOwner
    <3>5. \A x \in D17 : x[1] = "sample"
      BY <1>2, PartOwner
    <3> QED
      BY <3>1, <3>2, <3>3, <3>4, <3>5
  <2> QED
    BY <1>41, <2>2, <2>3, <2>4, <2>5, <2>6, <2>7, <2>8
<1>43. E18 \cap Base = {}
  <2>1. \A x \in Base : x[1] = "device" /\ x[2] \in {"instance", "device"}
    BY DEF Base, Instance, Device
  <2> QED
    BY <1>42, <2>1
<1>44. Singles \subseteq E18 \cup Base
  <2>1. Part("sample", {"set layout", "layout", "module", "plain", "checked"}) \subseteq D12 \cup D17
    BY <1>2 DEF Part
  <2>2. Part("storage", {"set layout", "layout", "module", "pipeline"}) \subseteq D13 \cup D16
    BY <1>2 DEF Part
  <2>3. Part("raster", {"set layout", "layout", "vertex", "fragment"}) \subseteq D15
    BY <1>2 DEF Part
  <2>4. {CommandPool, TimelineSemaphore, Sampler, DescriptorPool, Instance, Device,
         <<"builtin", "pipeline">>, <<"user", "pipeline">>, <<"user", "program">>,
         <<"raster", "pipeline">>} \subseteq D1 \cup D3 \cup D6 \cup D9 \cup D11 \cup D14 \cup D18 \cup Base
    BY <1>1, <1>2 DEF Base
  <2> QED
    BY <1>41, <2>1, <2>2, <2>3, <2>4 DEF Singles
<1>45. \A r \in Records : r \subseteq E18
  <2>1. \A f \in {"target", "source", "depth"} : Image(f) \subseteq D10
    BY <1>2
  <2> QED
    BY <1>1, <1>41, <2>1 DEF Records
<1> QED
  BY <1>38, <1>40, <1>43, <1>44, <1>45 DEF Known

LEMMA DestructionSteps ==
  ASSUME NEW s, s = StepsOf("destroy")
  PROVE  /\ AreSteps(s) /\ Len(s) \in Nat /\ Len(s) >= 2
         /\ \A i \in 1 .. Len(s) : s[i].op = "drop" /\ s[i].unless = {}
         /\ \A x \in Known : \E i \in 1 .. Len(s) : x \in s[i].objects
         /\ \A i \in 1 .. Len(s) - 2 : s[i].objects \cap Base = {}
         /\ s[Len(s) - 1].objects = {Device} /\ s[Len(s)].objects = {Instance}
<1>1. PICK t, D : /\ s = t \o Drop({Device}) \o Drop({Instance})
                  /\ Sheds(t, D) /\ D \cap Base = {} /\ Known \subseteq D \cup Base
  BY RestSheds
<1>2. PICK V, I : V = Drop({Device}) /\ I = Drop({Instance})
  OBVIOUS
<1>3. /\ Sheds(V, {Device}) /\ Len(V) = 1 /\ V[1].objects = {Device}
      /\ Sheds(I, {Instance}) /\ Len(I) = 1 /\ I[1].objects = {Instance}
  BY <1>2, DropSheds
<1>4. PICK u, F : u = t \o V /\ F = D \cup {Device}
  OBVIOUS
<1>5. Sheds(u, F)
  BY <1>1, <1>3, <1>4, ShedsThen
<1>6. PICK G, A : G = F \cup A /\ A = {Instance}
  OBVIOUS
<1>21. AreSteps(t) /\ AreSteps(V) /\ AreSteps(u) /\ AreSteps(I)
  BY <1>1, <1>3, <1>5 DEF Sheds
<1>7. s = u \o I
  BY <1>1, <1>2, <1>4
<1>8. Sheds(s, G)
  <2>1. Sheds(I, A)
    BY <1>3, <1>6
  <2>2. Sheds(u \o I, F \cup A)
    BY <1>5, <2>1, ShedsThen
  <2> QED
    BY <1>6, <1>7, <2>2
<1>9. Known \subseteq G
  BY <1>1, <1>4, <1>6 DEF Base
<1>10. PICK n : n = Len(t)
  OBVIOUS
<1>11. /\ n \in Nat /\ Len(u) = n + 1 /\ (\A i \in 1 .. n : u[i] = t[i])
       /\ \A i \in n + 1 .. n + 1 : u[i] = V[i - n]
  <2>1. /\ Len(t) \in Nat /\ Len(u) = Len(t) + Len(V) /\ (\A i \in 1 .. Len(t) : u[i] = t[i])
        /\ \A i \in Len(t) + 1 .. Len(t) + Len(V) : u[i] = V[i - Len(t)]
    BY <1>4, <1>21, ConcatenatedSteps
  <2> QED
    BY <1>3, <1>10, <2>1
<1>12. PICK k : k = n + 1 /\ k \in Nat /\ k \in n + 1 .. n + 1 /\ k - n = 1
  BY <1>11
<1>13. u[k] = V[1] /\ Len(u) = k
  BY <1>11, <1>12
<1>14. /\ Len(s) = k + 1 /\ (\A i \in 1 .. k : s[i] = u[i])
       /\ \A i \in k + 1 .. k + 1 : s[i] = I[i - k]
  <2>1. /\ Len(s) = Len(u) + Len(I) /\ (\A i \in 1 .. Len(u) : s[i] = u[i])
        /\ \A i \in Len(u) + 1 .. Len(u) + Len(I) : s[i] = I[i - Len(u)]
    BY <1>7, <1>21, ConcatenatedSteps
  <2> QED
    BY <1>3, <1>13, <2>1
<1>15. PICK m : m = k + 1 /\ m \in Nat /\ m \in k + 1 .. k + 1 /\ m - k = 1 /\ m - 1 = k /\ m - 2 = n /\ m >= 2
  BY <1>11, <1>12
<1>16. s[m].objects = {Instance} /\ Len(s) = m
  BY <1>3, <1>14, <1>15
<1>17. s[k].objects = {Device}
  <2>1. k \in 1 .. k
    BY <1>11, <1>12
  <2> QED
    BY <1>3, <1>13, <1>14, <2>1
<1>18. ASSUME NEW i \in 1 .. n PROVE s[i].objects \cap Base = {}
  <2>1. i \in 1 .. k
    BY <1>11, <1>12
  <2>2. s[i] = t[i]
    BY <1>11, <1>14, <2>1
  <2> QED
    BY <1>1, <1>10, <2>2 DEF Sheds
<1>19. /\ AreSteps(s) /\ \A i \in 1 .. m : s[i].op = "drop" /\ s[i].unless = {}
  BY <1>8, <1>16 DEF Sheds
<1>20. \A x \in Known : \E i \in 1 .. m : x \in s[i].objects
  BY <1>8, <1>9, <1>16 DEF Sheds
<1> QED
  BY <1>15, <1>16, <1>17, <1>18, <1>19, <1>20

-----------------------------------------------------------------------------
(* The machine: between two calls, in one of the host's calls, in the      *)
(* creation or in the destruction of the device                            *)

Between ==
  /\ Idle /\ local = {}
  /\ (owned = {} /\ lost \subseteq Pipes) \/ Whole(owned)

(* What is left of the call goes from here to a whole device *)
InCall ==
  /\ call \in Calls /\ at \in 1 .. Len(Steps[call]) + 1
  /\ Follows(Steps[call], at, owned, local)

Creating ==
  /\ call = "create" /\ at \in 1 .. 6 /\ lost \subseteq Pipes
  /\ at <= 5 => owned = {}
  /\ at = 1 => local = {}
  /\ at \in {2, 3} => local = {Instance}
  /\ at = 4 => local = {Instance, Device}
  /\ at = 5 => local = Created
  /\ at = 6 => owned = Created /\ local = {}

(* What is owned has its turn, and so has the pool of what was left *)
Ahead(x) == \E i \in at .. Len(Steps[call]) : x \in Steps[call][i].objects

Destroying ==
  /\ call = "destroy" /\ at \in 1 .. Len(Steps[call]) + 1 /\ local = {}
  /\ \A x \in owned : Ahead(x)
  /\ at < Len(Steps[call]) => Base \subseteq owned
  /\ at = Len(Steps[call]) => Instance \in owned
  /\ (\E x \in lost : x[2] = "commands") => Ahead(CommandPool)

ObjectsInv ==
  /\ lost \subseteq Leftovers
  /\ Between \/ InCall \/ Creating \/ Destroying

LEMMA StepsAre == \A c \in Calls \cup {"create", "destroy"} : Steps[c] = StepsOf(c)
BY DEF Steps

LEMMA CallNames ==
  /\ Calls \subseteq Ordinary
  /\ NoCall \notin Calls \cup {"create", "destroy"}
  /\ "create" \notin Calls /\ "destroy" \notin Calls
BY CallsAssumption DEF NoCall, Ordinary

(* The two kinds of leftovers *)
LEMMA LeftoversAre ==
  /\ \A x \in Leftovers : x[2] = "commands" \/ x \in Pipes
  /\ \A x \in Pipes : x[2] # "commands" /\ x \notin {Instance, Device, TimelineSemaphore}
<1>1. \A n : Commands(n)[2] = "commands"
  BY DEF Commands
<1>2. \A x \in Leftovers : x[2] = "commands" \/ x \in Pipes
  BY <1>1 DEF Leftovers
<1>3. \A x \in Pipes : x[2] # "commands" /\ x[1] # "device"
  BY PartOwner DEF Pipes
<1>4. Instance[1] = "device" /\ Device[1] = "device" /\ TimelineSemaphore[1] = "device"
  BY DEF Instance, Device, TimelineSemaphore
<1> QED
  BY <1>2, <1>3, <1>4

LEMMA CallIsFinite == InCall => Len(Steps[call]) \in Nat
<1> SUFFICES ASSUME InCall PROVE Len(Steps[call]) \in Nat
  OBVIOUS
<1>1. PICK s : s = Steps[call]
  OBVIOUS
<1>2. s = StepsOf(call) /\ call \in Ordinary
  BY <1>1, StepsAre, CallNames DEF InCall
<1>3. Leaves(s, {}, {})
  BY <1>2, CallsLeave
<1>4. AreSteps(s)
  BY <1>3 DEF Leaves, Leads
<1> QED
  BY <1>1, <1>4, ConcatenatedSteps

(* A step of one of the host's calls *)
LEMMA CallSteps ==
  ASSUME lost \subseteq Leftovers, InCall, VulkanNext
  PROVE  lost' \subseteq Leftovers /\ (Between' \/ InCall')
<1>1. PICK s : s = Steps[call]
  OBVIOUS
<1>2. PICK n \in Nat : n = Len(s)
  BY <1>1, CallIsFinite
<1>3. ~Idle /\ at \in 1 .. n + 1 /\ Follows(s, at, owned, local) /\ Current = s[at]
  BY <1>1, <1>2, CallNames DEF InCall, Idle, Current
<1>4. CASE Running
  <2>1. at \in 1 .. n
    BY <1>1, <1>2, <1>3, <1>4 DEF Running
  <2>2. PICK d : d = s[at]
    OBVIOUS
  <2>3. PICK p, m : Passes(d, owned, local, p, m, {}) /\ Follows(s, at + 1, p, m)
    BY <1>2, <1>3, <2>1, <2>2, FollowsOn
  <2>4. Current = d /\ (Due <=> d.unless \cap owned = {})
    BY <1>3, <1>4, <2>2 DEF Due
  <2>5. ASSUME Advance, owned' = p, local' = m PROVE InCall'
    <3>1. call' = call /\ at' = at + 1
      BY <2>5 DEF Advance
    <3>2. at' \in 1 .. n + 1
      BY <2>1, <3>1
    <3>3. Follows(s, at', owned', local')
      BY <2>3, <2>5, <3>1
    <3> QED
      BY <1>1, <1>2, <3>1, <3>2, <3>3 DEF InCall
  <2>6. ASSUME PassOver PROVE lost' \subseteq Leftovers /\ InCall'
    <3>1. Advance /\ owned' = p /\ local' = m /\ lost' = lost
      BY <2>3, <2>4, <2>6 DEF PassOver, Passes
    <3> QED
      BY <2>5, <3>1
  <2>7. ASSUME Succeed PROVE lost' \subseteq Leftovers /\ InCall'
    <3>1. Advance /\ owned' = p /\ local' = m /\ lost' = lost
      BY <2>3, <2>4, <2>7 DEF Succeed, Passes
    <3> QED
      BY <2>5, <3>1
  <2>8. ASSUME Store PROVE lost' \subseteq Leftovers /\ InCall'
    <3>1. Advance /\ owned' = p /\ local' = m /\ lost' = lost
      BY <2>3, <2>4, <2>8 DEF Store, Passes
    <3> QED
      BY <2>5, <3>1
  <2>9. ASSUME DestroyObjects PROVE lost' \subseteq Leftovers /\ InCall'
    <3>1. Advance /\ owned' = p /\ local' = m /\ lost' \subseteq lost
      BY <2>3, <2>4, <2>9 DEF DestroyObjects, Passes
    <3> QED
      BY <2>5, <3>1
  <2>10. ASSUME AllocateDescriptorSet PROVE lost' \subseteq Leftovers /\ InCall'
    <3>1. Advance /\ owned' = p /\ local' = m /\ lost' = lost
      BY <2>3, <2>4, <2>10 DEF AllocateDescriptorSet, Passes
    <3> QED
      BY <2>5, <3>1
  <2>11. ASSUME ResetDescriptorPool PROVE lost' \subseteq Leftovers /\ InCall'
    <3>1. Advance /\ owned' = p /\ local' = m /\ lost' = lost
      BY <2>3, <2>4, <2>11 DEF ResetDescriptorPool, Passes
    <3> QED
      BY <2>5, <3>1
  <2>12. ASSUME Fail PROVE lost' \subseteq Leftovers /\ Between'
    <3>1. Whole(owned) /\ d.undo \cap owned = {} /\ local \ d.undo \subseteq Leftovers
      BY <2>3, <2>4, <2>12 DEF Fail, Passes
    <3>2. owned' = owned /\ lost' \subseteq Leftovers /\ local' = {} /\ call' = NoCall
      BY <2>4, <2>12, <3>1 DEF Fail
    <3> QED
      BY <3>1, <3>2 DEF Between, Idle
  <2>13. ~Complete /\ \A c : ~Begin(c)
    BY <1>1, <1>2, <1>3, <2>1 DEF Complete, Begin
  <2> QED
    BY <2>6, <2>7, <2>8, <2>9, <2>10, <2>11, <2>12, <2>13 DEF VulkanNext
<1>5. CASE ~Running
  <2>1. at = n + 1
    BY <1>1, <1>2, <1>3, <1>5 DEF Running
  <2>2. Whole(owned) /\ local = {}
    BY <1>2, <1>3, <2>1, FollowsLast
  <2>3. Complete
    BY <1>3, <1>5 DEF VulkanNext, Begin, PassOver, Succeed, Store, DestroyObjects,
                      AllocateDescriptorSet, ResetDescriptorPool, Fail, Due
  <2>4. owned' = owned /\ lost' = lost /\ local' = {} /\ call' = NoCall
    BY <2>2, <2>3 DEF Complete
  <2> QED
    BY <2>2, <2>4 DEF Between, Idle
<1> QED
  BY <1>4, <1>5

(* A device just created owns no record yet *)
LEMMA CreatedWhole == Whole(Created)
<1>1. Base \subseteq Created /\ Created \subseteq Singles
  BY DEF Base, Created, Singles
<1>2. \A r \in Records : r \cap Created = {}
  BY <1>1, RecordsApart
<1>3. \A x \in Created : x[2] \notin {"pipeline", "checked"}
  BY DEF Created, Instance, Device, TimelineSemaphore
<1>4. \A m \in MadeFrom : m[1] \notin Created
  BY <1>3, Unparented
<1> QED
  BY <1>1, <1>2, <1>4 DEF Whole, Known

(* A call begins *)
LEMMA BeginSteps ==
  ASSUME lost \subseteq Leftovers, Between, NEW c \in DOMAIN Steps, Begin(c)
  PROVE  lost' \subseteq Leftovers /\ (InCall' \/ Creating' \/ Destroying')
<1>1. /\ call' = c /\ at' = 1 /\ owned' = owned /\ local' = {} /\ lost' = lost
      /\ IF c = "create" THEN owned = {} ELSE Device \in owned
  BY DEF Begin, Between
<1>2. c \in Calls \cup {"create", "destroy"}
  BY DEF Steps
<1>3. ASSUME c = "create" PROVE Creating'
  <2>1. ~Whole(owned)
    BY <1>1, <1>3 DEF Whole, Base
  <2> QED
    BY <1>1, <1>3, <2>1 DEF Between, Creating
<1>4. ASSUME c # "create" PROVE Whole(owned)
  BY <1>1, <1>4 DEF Between
<1>5. ASSUME c \in Calls PROVE InCall'
  <2>1. PICK s : s = Steps[c]
    OBVIOUS
  <2>2. Leaves(s, {}, {})
    BY <1>2, <1>5, <2>1, StepsAre, CallNames, CallsLeave
  <2>3. Len(s) \in Nat /\ Follows(s, 1, owned, {})
    BY <1>4, <1>5, <2>2, CallNames, FollowsFirst
  <2>4. at' \in 1 .. Len(s) + 1 /\ Follows(s, at', owned', local')
    BY <1>1, <2>3
  <2> QED
    BY <1>1, <1>5, <2>1, <2>4 DEF InCall
<1>6. ASSUME c = "destroy" PROVE Destroying'
  <2>1. PICK s : s = Steps[c]
    OBVIOUS
  <2>2. s = StepsOf("destroy")
    BY <1>6, <2>1, StepsAre
  <2>3. /\ Len(s) \in Nat /\ Len(s) >= 2
        /\ \A x \in Known : \E i \in 1 .. Len(s) : x \in s[i].objects
    BY <2>2, DestructionSteps
  <2>4. Base \subseteq owned /\ owned \subseteq Known
    BY <1>4, <1>6 DEF Whole
  <2>5. CommandPool \in Known
    <3>1. CommandPool \in Singles
      BY DEF Singles
    <3> QED
      BY <3>1 DEF Known
  <2>6. at' \in 1 .. Len(s) + 1 /\ at' # Len(s)
    <3>1. PICK n \in Nat : n = Len(s) /\ n >= 2
      BY <2>3
    <3> QED
      BY <1>1, <3>1
  <2>7. \A x \in owned' \cup {CommandPool} : \E i \in at' .. Len(s) : x \in s[i].objects
    BY <1>1, <2>3, <2>4, <2>5
  <2> QED
    BY <1>1, <1>6, <2>1, <2>4, <2>6, <2>7 DEF Destroying, Ahead
<1> QED
  BY <1>1, <1>2, <1>3, <1>5, <1>6

(* A step of the creation *)
LEMMA CreationKeeps ==
  ASSUME Creating, VulkanNext
  PROVE  lost' \subseteq Leftovers /\ (Between' \/ Creating')
<1>1. PICK s : s = Steps[call]
  OBVIOUS
<1>2. s = StepsOf("create")
  BY <1>1, StepsAre DEF Creating
<1>3. Len(s) = 5 /\ ~Idle /\ Current = s[at] /\ (Running <=> at <= 5)
  BY <1>1, <1>2, CreationSteps, CallNames DEF Creating, Idle, Current, Running
<1>4. Pipes \subseteq Leftovers /\ lost \subseteq Pipes
  BY DEF Leftovers, Creating
<1>5. ASSUME NEW k \in 2 .. 5, at = k - 1, NEW X, NEW Y, local = X, Y \subseteq Created,
             X \subseteq Created,
             NEW o \in {"make", "attempt"},
             s[at] = [op |-> o, objects |-> Y, undo |-> Created, unless |-> {}]
      PROVE  \/ Between' /\ lost' = lost
             \/ at' = k /\ call' = call /\ owned' = owned /\ lost' = lost /\ local' = X \cup Y
  <2>1. PICK d : d = s[at]
    OBVIOUS
  <2>2. /\ d.op \in {"make", "attempt"} /\ d.objects = Y /\ d.undo = Created /\ d.unless = {}
        /\ Current = d
    BY <1>3, <1>5, <2>1
  <2>3. Due /\ Running
    <3>1. at <= 5
      BY <1>5
    <3> QED
      BY <1>3, <2>2, <3>1 DEF Due
  <2>4. Succeed \/ Fail
    <3>1. Current.op \notin {"keep", "drop", "set", "reset"}
      BY <2>2
    <3>2. ~Store /\ ~DestroyObjects /\ ~AllocateDescriptorSet /\ ~ResetDescriptorPool
      BY <3>1 DEF Store, DestroyObjects, AllocateDescriptorSet, ResetDescriptorPool
    <3>3. ~PassOver /\ \A c : ~Begin(c)
      BY <1>3, <2>3 DEF PassOver, Begin
    <3>4. ~Complete
      <4>1. at <= 5 /\ at \in 1 .. 6
        BY <1>3, <2>3 DEF Creating
      <4> QED
        BY <1>1, <1>3, <4>1 DEF Complete
    <3> QED
      BY <3>2, <3>3, <3>4 DEF VulkanNext
  <2>5. CASE Succeed
    BY <1>5, <2>2, <2>5 DEF Succeed, Advance
  <2>6. CASE Fail
    <3>1. owned = {}
      BY <1>5 DEF Creating
    <3>2. owned' = {} /\ lost' = lost /\ local' = {} /\ call' = NoCall
      BY <1>5, <2>2, <2>6, <3>1 DEF Fail
    <3> QED
      BY <1>4, <3>2 DEF Between, Idle
  <2> QED
    BY <2>4, <2>5, <2>6
<1>6. ASSUME at <= 5, at' \in 2 .. 5, call' = call, owned' = owned, lost' = lost,
             at' \in {2, 3} => local' = {Instance},
             at' = 4 => local' = {Instance, Device},
             at' = 5 => local' = Created
      PROVE  Creating'
  <2>1. call = "create" /\ lost \subseteq Pipes /\ owned = {}
    BY <1>6 DEF Creating
  <2> QED
    BY <1>6, <2>1 DEF Creating
<1>7. PICK Z, I, B : Z = {} /\ I = {Instance} /\ B = {Instance, Device}
  OBVIOUS
<1>8. PICK D, T : D = {Device} /\ T = {TimelineSemaphore}
  OBVIOUS
<1>9. /\ Z \subseteq Created /\ I \subseteq Created /\ B \subseteq Created /\ D \subseteq Created
      /\ T \subseteq Created
  BY <1>7, <1>8 DEF Created
<1>10. Z \cup I = I /\ I \cup Z = I /\ I \cup D = B /\ B \cup T = Created
  BY <1>7, <1>8 DEF Created
<1>11. /\ s[1] = [op |-> "make", objects |-> I, undo |-> Created, unless |-> {}]
       /\ s[2] = [op |-> "attempt", objects |-> Z, undo |-> Created, unless |-> {}]
       /\ s[3] = [op |-> "make", objects |-> D, undo |-> Created, unless |-> {}]
       /\ s[4] = [op |-> "make", objects |-> T, undo |-> Created, unless |-> {}]
  BY <1>2, <1>7, <1>8, CreationSteps
<1>12. CASE at = 1
  <2>1. local = Z
    BY <1>7, <1>12 DEF Creating
  <2>2. PICK k \in 2 .. 5, o \in {"make", "attempt"} : k = 2 /\ o = "make"
    OBVIOUS
  <2>3. at = k - 1 /\ s[at] = [op |-> o, objects |-> I, undo |-> Created, unless |-> {}]
    BY <1>11, <1>12, <2>2
  <2>4. \/ Between' /\ lost' = lost
        \/ at' = k /\ call' = call /\ owned' = owned /\ lost' = lost /\ local' = Z \cup I
    BY <1>5, <1>9, <2>1, <2>3
  <2>5. lost' \subseteq Leftovers
    BY <1>4, <2>4
  <2>6. Z \cup I = I
    BY <1>10
  <2> QED
    BY <1>6, <1>7, <1>12, <2>2, <2>4, <2>5, <2>6
<1>13. CASE at = 2
  <2>1. local = I
    BY <1>7, <1>13 DEF Creating
  <2>2. PICK k \in 2 .. 5, o \in {"make", "attempt"} : k = 3 /\ o = "attempt"
    OBVIOUS
  <2>3. at = k - 1 /\ s[at] = [op |-> o, objects |-> Z, undo |-> Created, unless |-> {}]
    BY <1>11, <1>13, <2>2
  <2>4. \/ Between' /\ lost' = lost
        \/ at' = k /\ call' = call /\ owned' = owned /\ lost' = lost /\ local' = I \cup Z
    BY <1>5, <1>9, <2>1, <2>3
  <2>5. lost' \subseteq Leftovers
    BY <1>4, <2>4
  <2>6. I \cup Z = I
    BY <1>10
  <2> QED
    BY <1>6, <1>7, <1>13, <2>2, <2>4, <2>5, <2>6
<1>14. CASE at = 3
  <2>1. local = I
    BY <1>7, <1>14 DEF Creating
  <2>2. PICK k \in 2 .. 5, o \in {"make", "attempt"} : k = 4 /\ o = "make"
    OBVIOUS
  <2>3. at = k - 1 /\ s[at] = [op |-> o, objects |-> D, undo |-> Created, unless |-> {}]
    BY <1>11, <1>14, <2>2
  <2>4. \/ Between' /\ lost' = lost
        \/ at' = k /\ call' = call /\ owned' = owned /\ lost' = lost /\ local' = I \cup D
    BY <1>5, <1>9, <2>1, <2>3
  <2>5. lost' \subseteq Leftovers
    BY <1>4, <2>4
  <2>6. I \cup D = B
    BY <1>10
  <2> QED
    BY <1>6, <1>7, <1>14, <2>2, <2>4, <2>5, <2>6
<1>15. CASE at = 4
  <2>1. local = B
    BY <1>7, <1>15 DEF Creating
  <2>2. PICK k \in 2 .. 5, o \in {"make", "attempt"} : k = 5 /\ o = "make"
    OBVIOUS
  <2>3. at = k - 1 /\ s[at] = [op |-> o, objects |-> T, undo |-> Created, unless |-> {}]
    BY <1>11, <1>15, <2>2
  <2>4. \/ Between' /\ lost' = lost
        \/ at' = k /\ call' = call /\ owned' = owned /\ lost' = lost /\ local' = B \cup T
    BY <1>5, <1>9, <2>1, <2>3
  <2>5. lost' \subseteq Leftovers
    BY <1>4, <2>4
  <2>6. B \cup T = Created
    BY <1>10
  <2> QED
    BY <1>6, <1>7, <1>15, <2>2, <2>4, <2>5, <2>6
<1>16. CASE at = 5
  <2>1. s[at] = [op |-> "keep", objects |-> Created, undo |-> {}, unless |-> {}]
    BY <1>2, <1>16, CreationSteps
  <2>2. PICK d : d = s[at]
    OBVIOUS
  <2>3. d.op = "keep" /\ d.objects = Created /\ d.unless = {} /\ Current = d
    BY <1>3, <2>1, <2>2
  <2>4. Due /\ Running
    BY <1>3, <1>16, <2>3 DEF Due
  <2>5. Store
    <3>1. ~Succeed /\ ~DestroyObjects /\ ~AllocateDescriptorSet /\ ~ResetDescriptorPool /\ ~Fail
      BY <2>3 DEF Succeed, DestroyObjects, AllocateDescriptorSet, ResetDescriptorPool, Fail
    <3>2. ~PassOver /\ (\A c : ~Begin(c)) /\ ~Complete
      BY <1>1, <1>3, <1>16, <2>4 DEF PassOver, Begin, Complete
    <3> QED
      BY <3>1, <3>2 DEF VulkanNext
  <2>6. owned = {} /\ local = Created /\ call = "create"
    BY <1>16 DEF Creating
  <2>7. owned' = Created /\ local' = {} /\ lost' = lost /\ at' = 6 /\ call' = "create"
    BY <1>16, <2>3, <2>5, <2>6 DEF Store, Advance
  <2>8. lost' \subseteq Pipes
    BY <1>4, <2>7
  <2> QED
    BY <1>4, <2>7, <2>8 DEF Creating
<1>17. CASE at = 6
  <2>1. owned = Created /\ local = {}
    BY <1>17 DEF Creating
  <2>2. ~Running /\ ~Idle
    BY <1>3, <1>17
  <2>3. Complete
    BY <2>2 DEF VulkanNext, Begin, PassOver, Succeed, Store, DestroyObjects,
                AllocateDescriptorSet, ResetDescriptorPool, Fail, Due
  <2>4. owned' = Created /\ lost' = lost /\ local' = {} /\ call' = NoCall
    BY <2>1, <2>3 DEF Complete
  <2> QED
    BY <1>4, <2>4, CreatedWhole DEF Between, Idle
<1>18. at \in 1 .. 6
  BY DEF Creating
<1> QED
  BY <1>12, <1>13, <1>14, <1>15, <1>16, <1>17, <1>18

(* A step of the destruction *)
LEMMA DestructionKeeps ==
  ASSUME lost \subseteq Leftovers, Destroying, VulkanNext
  PROVE  lost' \subseteq Leftovers /\ (Between' \/ Destroying')
<1>1. PICK s : s = Steps[call]
  OBVIOUS
<1>2. s = StepsOf("destroy") /\ call = "destroy" /\ local = {}
  BY <1>1, StepsAre DEF Destroying
<1>3. /\ Len(s) \in Nat /\ Len(s) >= 2
      /\ \A i \in 1 .. Len(s) : s[i].op = "drop" /\ s[i].unless = {}
      /\ \A i \in 1 .. Len(s) - 2 : s[i].objects \cap Base = {}
      /\ s[Len(s) - 1].objects = {Device} /\ s[Len(s)].objects = {Instance}
  BY <1>2, DestructionSteps
<1>4. PICK n \in Nat : n = Len(s) /\ n >= 2
  BY <1>3
<1>5. /\ ~Idle /\ Current = s[at] /\ (Running <=> at <= n)
  BY <1>1, <1>2, <1>4, CallNames DEF Idle, Current, Running
<1>6. at \in 1 .. n + 1
  BY <1>1, <1>4 DEF Destroying
<1>7. /\ \A x \in owned : \E i \in at .. n : x \in s[i].objects
      /\ at < n => Base \subseteq owned
      /\ at = n => Instance \in owned
      /\ (\E x \in lost : x[2] = "commands") => \E i \in at .. n : CommandPool \in s[i].objects
  BY <1>1, <1>4 DEF Destroying, Ahead
<1>8. CASE at \in 1 .. n
  <2>1. PICK d : d = s[at] /\ d.op = "drop" /\ d.unless = {}
    BY <1>3, <1>4, <1>8
  <2>2. Running /\ Due /\ Current = d
    BY <1>5, <1>8, <2>1 DEF Due
  <2>3. DestroyObjects
    <3>1. ~Succeed /\ ~Store /\ ~AllocateDescriptorSet /\ ~ResetDescriptorPool /\ ~Fail
      BY <2>1, <2>2 DEF Succeed, Store, AllocateDescriptorSet, ResetDescriptorPool, Fail
    <3>2. ~PassOver /\ (\A c : ~Begin(c)) /\ ~Complete
      BY <1>1, <1>4, <1>5, <1>8, <2>2 DEF PassOver, Begin, Complete
    <3> QED
      BY <3>1, <3>2 DEF VulkanNext
  <2>4. /\ owned' = owned \ d.objects /\ local' = {} /\ lost' \subseteq lost
        /\ lost' = lost \ WithPool(d.objects) /\ at' = at + 1 /\ call' = call
    BY <1>2, <2>2, <2>3 DEF DestroyObjects, Advance
  <2>5. ASSUME NEW x, x \notin d.objects, \E i \in at .. n : x \in s[i].objects
        PROVE  \E i \in at' .. n : x \in s[i].objects
    <3>1. PICK i \in at .. n : x \in s[i].objects
      BY <2>5
    <3>2. i # at
      BY <2>1, <2>5, <3>1
    <3>3. i \in at' .. n
      BY <1>8, <2>4, <3>2
    <3> QED
      BY <3>1, <3>3
  <2>6. \A x \in owned' : \E i \in at' .. n : x \in s[i].objects
    BY <1>7, <2>4, <2>5
  <2>7. ASSUME at' < n PROVE Base \subseteq owned'
    <3>1. at \in 1 .. n - 2 /\ at < n
      BY <1>8, <2>4, <2>7
    <3>2. d.objects \cap Base = {}
      BY <1>3, <1>4, <2>1, <3>1
    <3> QED
      BY <1>7, <2>4, <3>1, <3>2
  <2>8. ASSUME at' = n PROVE Instance \in owned'
    <3>1. at = n - 1 /\ at < n
      BY <1>8, <2>4, <2>8
    <3>2. d.objects = {Device}
      BY <1>3, <1>4, <2>1, <3>1
    <3>3. Instance # Device
      BY DEF Instance, Device
    <3>4. Instance \in Base
      BY DEF Base
    <3> QED
      BY <1>7, <2>4, <3>1, <3>2, <3>3, <3>4
  <2>9. ASSUME NEW x \in lost', x[2] = "commands"
        PROVE  \E i \in at' .. n : CommandPool \in s[i].objects
    <3>1. x \in lost
      BY <2>4
    <3>2. CommandPool \notin d.objects
      BY <2>4, <2>9 DEF WithPool
    <3> QED
      BY <1>7, <2>5, <2>9, <3>1, <3>2
  <2>10. at' \in 1 .. n + 1 /\ call' = "destroy"
    BY <1>2, <1>8, <2>4
  <2>11. Destroying'
    BY <1>1, <1>4, <2>4, <2>6, <2>7, <2>8, <2>9, <2>10 DEF Destroying, Ahead
  <2> QED
    BY <2>4, <2>11
<1>9. CASE at \notin 1 .. n
  <2>1. at = n + 1
    BY <1>6, <1>9
  <2>2. at .. n = {}
    BY <2>1
  <2>3. owned = {} /\ ~(\E x \in lost : x[2] = "commands")
    BY <1>7, <2>2
  <2>4. lost \subseteq Pipes
    BY <2>3, LeftoversAre
  <2>5. ~Running
    BY <1>5, <2>1
  <2>6. Complete
    BY <1>5, <2>5 DEF VulkanNext, Begin, PassOver, Succeed, Store, DestroyObjects,
                      AllocateDescriptorSet, ResetDescriptorPool, Fail, Due
  <2>7. owned' = {} /\ lost' = lost /\ local' = {} /\ call' = NoCall
    BY <1>2, <2>3, <2>6 DEF Complete
  <2> QED
    BY <2>4, <2>7 DEF Between, Idle
<1> QED
  BY <1>8, <1>9

-----------------------------------------------------------------------------
(* The invariant *)

(* Of any sequence of calls of the host (vulkan_device.cpp), each of which *)
(* may fail at any of its steps: the device is absent or whole between two *)
(* calls, the rest of a running call leads to a whole device, and a device *)
(* being created or destroyed has the objects of the steps taken.          *)
THEOREM ObjectsInvariant == VulkanSpec => []ObjectsInv
<1>1. VulkanInit => ObjectsInv
  <2> SUFFICES ASSUME VulkanInit PROVE ObjectsInv
    OBVIOUS
  <2>1. Between /\ lost = {}
    BY DEF VulkanInit, Between, Idle
  <2> QED
    BY <2>1 DEF ObjectsInv
<1>2. ObjectsInv /\ [VulkanNext]_vars => ObjectsInv'
  <2> SUFFICES ASSUME ObjectsInv, [VulkanNext]_vars PROVE ObjectsInv'
    OBVIOUS
  <2>1. CASE VulkanNext
    <3>1. lost \subseteq Leftovers
      BY DEF ObjectsInv
    <3>2. CASE Between
      <4>1. Idle /\ ~Running /\ ~Due
        BY <3>2 DEF Between, Running, Due
      <4>2. PICK c \in DOMAIN Steps : Begin(c)
        BY <2>1, <4>1 DEF VulkanNext, PassOver, Succeed, Store, DestroyObjects,
                          AllocateDescriptorSet, ResetDescriptorPool, Fail, Complete
      <4> QED
        BY <3>1, <3>2, <4>2, BeginSteps DEF ObjectsInv
    <3>3. CASE InCall
      BY <2>1, <3>1, <3>3, CallSteps DEF ObjectsInv
    <3>4. CASE Creating
      BY <2>1, <3>4, CreationKeeps DEF ObjectsInv
    <3>5. CASE Destroying
      BY <2>1, <3>1, <3>5, DestructionKeeps DEF ObjectsInv
    <3> QED
      BY <3>2, <3>3, <3>4, <3>5 DEF ObjectsInv
  <2>2. CASE UNCHANGED vars
    BY <2>2 DEF vars, ObjectsInv, Between, Idle, InCall, Creating, Destroying, Ahead
  <2> QED
    BY <2>1, <2>2
<1> QED
  BY <1>1, <1>2, PTL DEF VulkanSpec

(* In a call of the host, the next step makes only what nobody holds *)
LEMMA CallMakesNew ==
  ASSUME InCall, Due, Current.op = "make"
  PROVE  Current.objects \cap (owned \cup local) = {}
<1>1. PICK s : s = Steps[call]
  OBVIOUS
<1>2. PICK n \in Nat : n = Len(s)
  BY <1>1, CallIsFinite
<1>3. at \in 1 .. n /\ Follows(s, at, owned, local) /\ Current = s[at]
  BY <1>1, <1>2 DEF InCall, Due, Running, Current
<1>4. PICK d : d = s[at]
  OBVIOUS
<1>5. PICK p, m : Passes(d, owned, local, p, m, {})
  BY <1>2, <1>3, <1>4, FollowsOn
<1>6. d.unless \cap owned = {} /\ d.op = "make" /\ Current = d
  BY <1>3, <1>4 DEF Due
<1> QED
  BY <1>5, <1>6 DEF Passes

LEMMA CallOwnsBase == InCall => Base \subseteq owned
<1> SUFFICES ASSUME InCall PROVE Base \subseteq owned
  OBVIOUS
<1>1. PICK s : s = Steps[call]
  OBVIOUS
<1>2. PICK n \in Nat : n = Len(s)
  BY <1>1, CallIsFinite
<1>3. at \in 1 .. n + 1 /\ Follows(s, at, owned, local)
  BY <1>1, <1>2 DEF InCall
<1>4. CASE at \in 1 .. n
  BY <1>2, <1>3, <1>4, FollowsOn
<1>5. CASE at = n + 1
  BY <1>2, <1>3, <1>5, FollowsLast DEF Whole
<1> QED
  BY <1>3, <1>4, <1>5

(* Whatever step of whatever call fails, it leaves nothing behind but a    *)
(* command buffer that the pool knows and the pipes of a glslc that was    *)
(* never started, and no handle is overwritten while its object exists     *)
(* (the error paths of src/src/backends/vulkan/).                          *)
THEOREM NothingIsLost == VulkanSpec => []NothingLost
<1>1. ObjectsInv => NothingLost
  <2> SUFFICES ASSUME ObjectsInv PROVE NothingLost
    OBVIOUS
  <2>1. \A x \in lost : x[2] = "commands" \/ x \in Pipes
    BY LeftoversAre DEF ObjectsInv
  <2>2. ASSUME Due, Current.op = "make" PROVE Current.objects \cap (owned \cup local) = {}
    <3>1. ~Idle
      BY <2>2 DEF Due, Running
    <3>2. CASE InCall
      BY <2>2, <3>2, CallMakesNew
    <3>3. CASE Creating
      <4>1. PICK s : s = Steps[call]
        OBVIOUS
      <4>2. s = StepsOf("create")
        BY <3>3, <4>1, StepsAre DEF Creating
      <4>3. Len(s) = 5 /\ Current = s[at]
        BY <4>1, <4>2, CreationSteps DEF Current
      <4>4. at \in 1 .. 5
        BY <2>2, <3>3, <4>1, <4>3 DEF Due, Running, Creating
      <4>5. owned = {}
        BY <3>3, <4>4 DEF Creating
      <4>6. PICK I, D, T, Z : I = {Instance} /\ D = {Device} /\ T = {TimelineSemaphore} /\ Z = {}
        OBVIOUS
      <4>7. /\ s[1] = [op |-> "make", objects |-> I, undo |-> Created, unless |-> {}]
            /\ s[2] = [op |-> "attempt", objects |-> Z, undo |-> Created, unless |-> {}]
            /\ s[3] = [op |-> "make", objects |-> D, undo |-> Created, unless |-> {}]
            /\ s[4] = [op |-> "make", objects |-> T, undo |-> Created, unless |-> {}]
            /\ s[5] = [op |-> "keep", objects |-> Created, undo |-> {}, unless |-> {}]
        BY <4>2, <4>6, CreationSteps
      <4>8. PICK d : d = s[at]
        OBVIOUS
      <4>9. d.op = "make" /\ Current = d
        BY <2>2, <4>3, <4>8
      <4>10. Instance # Device /\ Instance # TimelineSemaphore /\ Device # TimelineSemaphore
        BY DEF Instance, Device, TimelineSemaphore
      <4>11. CASE at = 1
        BY <3>3, <4>5, <4>11 DEF Creating
      <4>12. CASE at = 3
        <5>1. d.objects = D /\ local = I
          BY <3>3, <4>6, <4>7, <4>8, <4>12 DEF Creating
        <5> QED
          BY <4>5, <4>6, <4>9, <4>10, <5>1
      <4>13. CASE at = 4
        <5>1. d.objects = T
          BY <4>7, <4>8, <4>13
        <5>2. local = {Instance, Device}
          BY <3>3, <4>13 DEF Creating
        <5> QED
          BY <4>5, <4>6, <4>9, <4>10, <5>1, <5>2
      <4>14. at # 2
        BY <4>7, <4>8, <4>9
      <4>15. at # 5
        BY <4>7, <4>8, <4>9
      <4> QED
        BY <4>4, <4>11, <4>12, <4>13, <4>14, <4>15
    <3>4. CASE Destroying
      <4>1. PICK s : s = Steps[call]
        OBVIOUS
      <4>2. s = StepsOf("destroy")
        BY <3>4, <4>1, StepsAre DEF Destroying
      <4>3. Len(s) \in Nat /\ \A i \in 1 .. Len(s) : s[i].op = "drop"
        BY <4>2, DestructionSteps
      <4>4. at \in 1 .. Len(s) /\ Current = s[at]
        BY <2>2, <3>4, <4>1, <4>3 DEF Due, Running, Destroying, Current
      <4> QED
        BY <2>2, <4>3, <4>4
    <3> QED
      BY <3>1, <3>2, <3>3, <3>4 DEF ObjectsInv, Between
  <2> QED
    BY <2>1, <2>2 DEF NothingLost
<1> QED
  BY <1>1, ObjectsInvariant, PTL

(* What was made on the device or the instance is gone when they are       *)
(* destroyed, and nothing is left of a destroyed device (~DeviceState and  *)
(* the error paths of create_impl).                                        *)
THEOREM TeardownIsInOrder == VulkanSpec => []TeardownInOrder
<1>1. ObjectsInv => TeardownInOrder
  <2> SUFFICES ASSUME ObjectsInv PROVE TeardownInOrder
    OBVIOUS
  <2>1. PICK alive : alive = (owned \cup local \cup lost) \ Pipes
    OBVIOUS
  <2> SUFFICES /\ Instance \notin alive => alive = {}
               /\ Device \notin alive => alive \subseteq {Instance}
               /\ Idle /\ Device \notin owned => owned = {}
    BY <2>1 DEF TeardownInOrder
  <2>2. Instance \notin Pipes /\ Device \notin Pipes /\ TimelineSemaphore \notin Pipes
    BY LeftoversAre
  <2>3. ASSUME Instance \in owned \cup local, Device \in owned \cup local
        PROVE  Instance \in alive /\ Device \in alive
    BY <2>1, <2>2, <2>3
  <2>4. ASSUME Base \subseteq owned PROVE Instance \in alive /\ Device \in alive /\ Device \in owned
    BY <2>1, <2>2, <2>4 DEF Base
  <2>5. ASSUME ~Base \subseteq owned, Between \/ InCall
        PROVE  owned = {} /\ local = {} /\ lost \subseteq Pipes
    BY <2>5, CallOwnsBase DEF Between, Whole
  <2>6. CASE Between \/ InCall
    <3>1. CASE Base \subseteq owned
      BY <2>4, <3>1
    <3>2. CASE ~Base \subseteq owned
      <4>1. alive = {} /\ owned = {}
        BY <2>1, <2>5, <2>6, <3>2
      <4> QED
        BY <4>1
    <3> QED
      BY <3>1, <3>2
  <2>7. CASE Creating
    <3>1. ~Idle /\ lost \subseteq Pipes /\ at \in 1 .. 6
      BY <2>7, CallNames DEF Creating, Idle
    <3>2. CASE at = 1
      <4>1. alive = {}
        BY <2>1, <2>7, <3>1, <3>2 DEF Creating
      <4> QED
        BY <3>1, <4>1
    <3>3. CASE at \in {2, 3}
      <4>1. owned = {} /\ local = {Instance}
        BY <2>7, <3>3 DEF Creating
      <4>2. alive = {Instance}
        BY <2>1, <2>2, <3>1, <4>1
      <4> QED
        BY <3>1, <4>2
    <3>4. CASE at \in {4, 5, 6}
      <4>1. Instance \in owned \cup local /\ Device \in owned \cup local
        BY <2>7, <3>4 DEF Creating, Created
      <4> QED
        BY <2>3, <3>1, <4>1
    <3> QED
      BY <3>1, <3>2, <3>3, <3>4
  <2>8. CASE Destroying
    <3>1. PICK s : s = Steps[call]
      OBVIOUS
    <3>2. s = StepsOf("destroy") /\ ~Idle /\ local = {}
      BY <2>8, <3>1, StepsAre, CallNames DEF Destroying, Idle
    <3>3. PICK n \in Nat : n = Len(s) /\ s[n].objects = {Instance}
      BY <3>2, DestructionSteps
    <3>4. at \in 1 .. n + 1
      BY <2>8, <3>1, <3>3 DEF Destroying
    <3>5. CASE at < n
      <4>1. Base \subseteq owned
        BY <2>8, <3>1, <3>3, <3>5 DEF Destroying
      <4> QED
        BY <2>4, <3>2, <4>1
    <3>6. /\ \A x \in owned : \E i \in at .. n : x \in s[i].objects
          /\ (\E x \in lost : x[2] = "commands") => \E i \in at .. n : CommandPool \in s[i].objects
      BY <2>8, <3>1, <3>3 DEF Destroying, Ahead
    <3>7. CASE at >= n
      <4>1. \A i \in at .. n : i = n
        BY <3>4, <3>7
      <4>2. owned \subseteq {Instance}
        BY <3>3, <3>6, <4>1
      <4>3. CommandPool # Instance
        BY DEF CommandPool, Instance
      <4>4. ~(\E x \in lost : x[2] = "commands")
        BY <3>3, <3>6, <4>1, <4>3
      <4>5. lost \subseteq Pipes
        BY <4>4, LeftoversAre DEF ObjectsInv
      <4>6. alive = owned
        BY <2>1, <2>2, <3>2, <4>2, <4>5
      <4> QED
        BY <3>2, <4>2, <4>6
    <3> QED
      BY <3>4, <3>5, <3>7
  <2> QED
    BY <2>6, <2>7, <2>8 DEF ObjectsInv
<1> QED
  BY <1>1, ObjectsInvariant, PTL

(* Between calls every record of the device is complete or absent, and a   *)
(* cached pipeline has what it was made from, whichever calls ended and    *)
(* whichever failed on the way (vulkan_resources.cpp, vulkan_pipelines.cpp).*)
THEOREM RecordsAreWhole == VulkanSpec => []RecordsWhole
<1>1. ObjectsInv => RecordsWhole
  <2> SUFFICES ASSUME ObjectsInv, Idle
               PROVE  /\ \A r \in Records : r \cap owned \in {{}, r}
                      /\ \A m \in MadeFrom : m[1] \in owned => m[2] \subseteq owned
    BY DEF RecordsWhole
  <2>1. ~InCall /\ ~Creating /\ ~Destroying
    BY CallNames DEF Idle, InCall, Creating, Destroying
  <2>2. owned = {} \/ Whole(owned)
    BY <2>1 DEF ObjectsInv, Between
  <2> QED
    BY <2>2 DEF Whole
<1> QED
  BY <1>1, ObjectsInvariant, PTL

-----------------------------------------------------------------------------
(* Descriptor sets.  The pool is never grown, and only run_raster_pass     *)
(* resets it.                                                              *)

NoSets(s) == AreSteps(s) /\ \A i \in 1 .. Len(s) : s[i].op # "set"

(* A set is taken right after the pool was reset *)
AfterReset(s, i) == i > 1 /\ s[i - 1].op = "reset" /\ s[i - 1].unless = {}
FreshSets(s) == AreSteps(s) /\ \A i \in 1 .. Len(s) : s[i].op = "set" => AfterReset(s, i)

LEMMA NoSetsThen == \A s, t : NoSets(s) /\ NoSets(t) => NoSets(s \o t)
<1> SUFFICES ASSUME NEW s, NEW t, NoSets(s), NoSets(t) PROVE NoSets(s \o t)
  OBVIOUS
<1>1. PICK u : u = s \o t
  OBVIOUS
<1>2. /\ AreSteps(u) /\ Len(s) \in Nat /\ Len(t) \in Nat /\ Len(u) = Len(s) + Len(t)
      /\ \A i \in 1 .. Len(s) : u[i] = s[i]
      /\ \A i \in Len(s) + 1 .. Len(s) + Len(t) : u[i] = t[i - Len(s)]
  BY <1>1, ConcatenatedSteps DEF NoSets
<1>3. PICK n \in Nat, k \in Nat : n = Len(s) /\ k = Len(t)
  BY <1>2
<1>5. (\A i \in 1 .. n : s[i].op # "set") /\ \A i \in 1 .. k : t[i].op # "set"
  BY <1>3 DEF NoSets
<1>4. ASSUME NEW i \in 1 .. n + k PROVE u[i].op # "set"
  <2>1. CASE i \in 1 .. n
    <3>1. u[i] = s[i]
      BY <1>2, <1>3, <2>1
    <3> QED
      BY <1>5, <2>1, <3>1
  <2>2. CASE i \notin 1 .. n
    <3>1. PICK j : j = i - n
      OBVIOUS
    <3>3. i \in n + 1 .. n + k /\ j \in 1 .. k
      BY <2>2, <3>1
    <3>2. u[i] = t[j]
      BY <1>2, <1>3, <3>1, <3>3
    <3> QED
      BY <1>5, <3>2, <3>3
  <2> QED
    BY <2>1, <2>2
<1> QED
  BY <1>1, <1>2, <1>3, <1>4 DEF NoSets

LEMMA NoSetsChanged == \A s, x : NoSets(s) => NoSets(Undoing(x, s)) /\ NoSets(Unless(x, s))
<1> SUFFICES ASSUME NEW s, NEW x, NoSets(s) PROVE NoSets(Undoing(x, s)) /\ NoSets(Unless(x, s))
  OBVIOUS
<1>1. AreSteps(s) /\ DOMAIN s = 1 .. Len(s)
  BY LenProperties DEF NoSets, AreSteps
<1>2. PICK u, v : u = Undoing(x, s) /\ v = Unless(x, s)
  OBVIOUS
<1>3. AreSteps(u) /\ AreSteps(v) /\ Len(u) = Len(s) /\ Len(v) = Len(s)
  BY <1>1, <1>2, ChangedSteps
<1>4. ASSUME NEW i \in 1 .. Len(s) PROVE u[i].op = s[i].op /\ v[i].op = s[i].op
  <2>1. DOMAIN s[i] = Fields
    BY <1>1 DEF AreSteps
  <2>2. u[i] = [s[i] EXCEPT !.undo = @ \cup x] /\ v[i] = [s[i] EXCEPT !.unless = @ \cup {x}]
    BY <1>1, <1>2 DEF Undoing, Unless
  <2> QED
    BY <2>1, <2>2 DEF Fields
<1>5. NoSets(u)
  BY <1>3, <1>4 DEF NoSets
<1>6. NoSets(v)
  BY <1>3, <1>4 DEF NoSets
<1> QED
  BY <1>2, <1>5, <1>6

LEMMA NoSetsSteps ==
  /\ \A x : NoSets(Make(x)) /\ NoSets(Keep(x)) /\ NoSets(Drop(x))
  /\ NoSets(Attempt) /\ NoSets(ResetSets)
  /\ \A c, s : NoSets(s) => NoSets(When(c, s))
<1>1. ASSUME NEW op, op # "set", NEW x PROVE NoSets(Step(op, x))
  <2>1. PICK d : d = [op |-> op, objects |-> x, undo |-> {}, unless |-> {}]
    OBVIOUS
  <2>2. PICK s : s = <<d>>
    OBVIOUS
  <2>3. Step(op, x) = s /\ DOMAIN d = Fields /\ d.op = op
    BY <2>1, <2>2 DEF Step, Fields
  <2>4. Len(s) = 1 /\ s[1] = d /\ AreSteps(s)
    BY <2>2, <2>3, OneStep
  <2>5. \A i \in 1 .. 1 : s[i] = d
    BY <2>4
  <2> QED
    BY <1>1, <2>3, <2>4, <2>5 DEF NoSets
<1>2. \A x : NoSets(Make(x)) /\ NoSets(Keep(x)) /\ NoSets(Drop(x))
  BY <1>1 DEF Make, Keep, Drop
<1>3. NoSets(Attempt) /\ NoSets(ResetSets)
  BY <1>1 DEF Attempt, ResetSets
<1>4. NoSets(<<>>)
  <2>1. PICK e, S : e = <<>> /\ S = {}
    OBVIOUS
  <2>2. e \in Seq(S) /\ Len(e) = 0
    BY <2>1
  <2>3. 1 .. Len(e) = {}
    BY <2>2
  <2> QED
    BY <2>1, <2>2, <2>3 DEF NoSets, AreSteps
<1>5. \A c, s : NoSets(s) => NoSets(When(c, s))
  BY <1>4 DEF When
<1> QED
  BY <1>2, <1>3, <1>5

(* Nothing but AllocateSet takes a set: the functions in the order of the *)
(* modules                                                                 *)
LEMMA NoSetsCalls ==
  /\ \A o : NoSets(Member(o))
  /\ \A b : NoSets(CreateRawBuffer(b))
  /\ \A a, stale : NoSets(EnsureBuffer(a, stale))
  /\ \A c : NoSets(AllocateCommandBuffer(c)) /\ NoSets(SubmitAndWait(c))
<1>1. \A o : NoSets(Member(o))
  BY NoSetsThen, NoSetsChanged, NoSetsSteps DEF Member
<1>2. \A b : NoSets(CreateRawBuffer(b))
  BY NoSetsThen, NoSetsChanged, NoSetsSteps DEF CreateRawBuffer, FindMemoryType
<1>3. \A a, stale : NoSets(EnsureBuffer(a, stale))
  BY <1>2, NoSetsThen, NoSetsChanged, NoSetsSteps DEF EnsureBuffer
<1>4. \A c : NoSets(AllocateCommandBuffer(c))
  BY <1>1, NoSetsThen, NoSetsSteps DEF AllocateCommandBuffer, EnsureCommandPool
<1>5. \A c : NoSets(SubmitAndWait(c))
  BY NoSetsThen, NoSetsChanged, NoSetsSteps DEF SubmitAndWait
<1> QED
  BY <1>1, <1>2, <1>3, <1>4, <1>5

LEMMA NoSetsImages ==
  /\ \A f : NoSets(CreateImage(f))
  /\ \A f, staged : NoSets(UploadImage(f, staged))
  /\ \A f, stale, staged : NoSets(EnsureFacetImage(f, stale, staged))
<1>1. \A f : NoSets(CreateImage(f))
  BY NoSetsThen, NoSetsChanged, NoSetsSteps DEF CreateImage, FindMemoryType
<1>2. \A f, staged : NoSets(UploadImage(f, staged))
  BY NoSetsCalls, NoSetsThen, NoSetsChanged, NoSetsSteps DEF UploadImage
<1>3. \A f, stale, staged : NoSets(EnsureFacetImage(f, stale, staged))
  BY <1>1, <1>2, NoSetsThen, NoSetsChanged, NoSetsSteps DEF EnsureFacetImage
<1> QED
  BY <1>1, <1>2, <1>3

LEMMA NoSetsPipelines ==
  /\ NoSets(CompileGlslStage)
  /\ \A n : NoSets(CreateComputePipeline(n)) /\ NoSets(EnsurePipeline(n))
  /\ NoSets(EnsureTaskRingPipeline)
  /\ \A profile : NoSets(EnsureSampleFacetPipeline(profile))
  /\ NoSets(EnsureStorageFacetPipeline) /\ NoSets(EnsureRasterPipeline)
  /\ NoSets(EnsurePlanRasterCache) /\ NoSets(GetOrCompileUserRasterGlsl)
<1>1. NoSets(CompileGlslStage)
  BY NoSetsThen, NoSetsChanged, NoSetsSteps DEF CompileGlslStage
<1>2. \A n : NoSets(CreateComputePipeline(n))
  BY <1>1, NoSetsThen, NoSetsChanged, NoSetsSteps DEF CreateComputePipeline
<1>3. \A n : NoSets(EnsurePipeline(n))
  BY <1>2, NoSetsChanged DEF EnsurePipeline
<1>4. NoSets(EnsureTaskRingPipeline)
  BY <1>2, NoSetsThen, NoSetsChanged, NoSetsSteps DEF EnsureTaskRingPipeline
<1>5. \A o : NoSets(ShaderModule(o))
  BY <1>1, NoSetsThen, NoSetsChanged, NoSetsSteps DEF ShaderModule
<1>6. \A profile : NoSets(EnsureSampleFacetPipeline(profile))
  BY <1>5, NoSetsCalls, NoSetsThen DEF EnsureSampleFacetPipeline
<1>7. NoSets(EnsureStorageFacetPipeline)
  BY <1>5, NoSetsCalls, NoSetsThen, NoSetsChanged DEF EnsureStorageFacetPipeline
<1>8. NoSets(EnsureRasterPipeline)
  BY <1>5, NoSetsCalls, NoSetsThen, NoSetsSteps DEF EnsureRasterPipeline, EnsureRasterShaderModules
<1>9. NoSets(EnsurePlanRasterCache)
  BY <1>1, NoSetsThen, NoSetsChanged, NoSetsSteps DEF EnsurePlanRasterCache
<1>10. NoSets(CompileUserRasterGlsl)
  BY <1>1, NoSetsThen, NoSetsSteps
     DEF CompileUserRasterGlsl, ValidateUserRasterContract, ValidateSpirvDescriptorStage
<1>11. NoSets(GetOrCompileUserRasterGlsl)
  BY <1>10, NoSetsCalls, NoSetsThen, NoSetsChanged, NoSetsSteps
     DEF GetOrCompileUserRasterGlsl, ValidateUserRasterContract
<1> QED
  BY <1>1, <1>2, <1>3, <1>4, <1>6, <1>7, <1>8, <1>9, <1>11

LEMMA NoSetsSubmissions ==
  /\ \A stale : NoSets(ComputeTasks(stale))
  /\ NoSets(PublishTasks) /\ NoSets(SubmitTimelineMarker)
<1>1. NoSets(DispatchTaskGraph)
  BY NoSetsCalls, NoSetsThen, NoSetsChanged, NoSetsSteps DEF DispatchTaskGraph
<1>2. \A stale : NoSets(ComputeTasks(stale))
  BY <1>1, NoSetsCalls, NoSetsThen, NoSetsSteps DEF ComputeTasks
<1>3. NoSets(SubmitTimelineMarker)
  BY NoSetsCalls, NoSetsThen, NoSetsChanged, NoSetsSteps DEF SubmitTimelineMarker
<1>4. NoSets(DispatchTaskRingPublication)
  BY NoSetsCalls, NoSetsThen, NoSetsChanged, NoSetsSteps DEF DispatchTaskRingPublication
<1>5. NoSets(CreateTaskRingBuffers)
  BY NoSetsCalls, NoSetsThen, NoSetsChanged DEF CreateTaskRingBuffers
<1>6. NoSets(PublishTasks)
  BY <1>4, <1>5, NoSetsPipelines, NoSetsThen, NoSetsChanged, NoSetsSteps
     DEF PublishTasks, DestroyTaskRingBuffers
<1> QED
  BY <1>2, <1>3, <1>6

LEMMA FreshSetsOf == \A s : NoSets(s) => FreshSets(s)
BY DEF NoSets, FreshSets

LEMMA FreshSetsThen == \A s, t : FreshSets(s) /\ FreshSets(t) => FreshSets(s \o t)
<1> SUFFICES ASSUME NEW s, NEW t, FreshSets(s), FreshSets(t) PROVE FreshSets(s \o t)
  OBVIOUS
<1>1. PICK u : u = s \o t
  OBVIOUS
<1>2. /\ AreSteps(u) /\ Len(s) \in Nat /\ Len(t) \in Nat /\ Len(u) = Len(s) + Len(t)
      /\ \A i \in 1 .. Len(s) : u[i] = s[i]
      /\ \A i \in Len(s) + 1 .. Len(s) + Len(t) : u[i] = t[i - Len(s)]
  BY <1>1, ConcatenatedSteps DEF FreshSets
<1>3. PICK n \in Nat, k \in Nat : n = Len(s) /\ k = Len(t)
  BY <1>2
<1>4. /\ \A i \in 1 .. n : s[i].op = "set" => AfterReset(s, i)
      /\ \A i \in 1 .. k : t[i].op = "set" => AfterReset(t, i)
  BY <1>3 DEF FreshSets
<1>5. ASSUME NEW i \in 1 .. n + k, u[i].op = "set" PROVE AfterReset(u, i)
  <2>1. CASE i \in 1 .. n
    <3>1. u[i] = s[i]
      BY <1>2, <1>3, <2>1
    <3>2. i > 1 /\ s[i - 1].op = "reset" /\ s[i - 1].unless = {}
      BY <1>4, <1>5, <2>1, <3>1 DEF AfterReset
    <3>3. PICK j : j = i - 1
      OBVIOUS
    <3>4. j \in 1 .. n
      BY <2>1, <3>2, <3>3
    <3>5. u[j] = s[j]
      BY <1>2, <1>3, <3>4
    <3> QED
      BY <3>2, <3>3, <3>5 DEF AfterReset
  <2>2. CASE i \notin 1 .. n
    <3>1. PICK j : j = i - n
      OBVIOUS
    <3>2. i \in n + 1 .. n + k /\ j \in 1 .. k
      BY <2>2, <3>1
    <3>3. u[i] = t[j]
      BY <1>2, <1>3, <3>1, <3>2
    <3>4. j > 1 /\ t[j - 1].op = "reset" /\ t[j - 1].unless = {}
      BY <1>4, <1>5, <3>2, <3>3 DEF AfterReset
    <3>5. PICK h : h = i - 1
      OBVIOUS
    <3>6. h \in n + 1 .. n + k /\ h - n = j - 1 /\ i > 1
      BY <3>1, <3>2, <3>4, <3>5
    <3>7. u[h] = t[h - n]
      BY <1>2, <1>3, <3>6
    <3>8. u[h].op = "reset" /\ u[h].unless = {}
      BY <3>4, <3>6, <3>7
    <3> QED
      BY <3>5, <3>6, <3>8 DEF AfterReset
  <2> QED
    BY <2>1, <2>2
<1> QED
  BY <1>1, <1>2, <1>3, <1>5 DEF FreshSets

LEMMA FreshSetsUndoing == \A s, U : FreshSets(s) => FreshSets(Undoing(U, s))
<1> SUFFICES ASSUME NEW s, NEW U, FreshSets(s) PROVE FreshSets(Undoing(U, s))
  OBVIOUS
<1>1. AreSteps(s) /\ DOMAIN s = 1 .. Len(s)
  BY LenProperties DEF FreshSets, AreSteps
<1>2. PICK u : u = Undoing(U, s)
  OBVIOUS
<1>3. AreSteps(u) /\ Len(u) = Len(s) /\ Len(s) \in Nat
  BY <1>1, <1>2, ChangedSteps
<1>4. PICK n \in Nat : n = Len(s)
  BY <1>3
<1>5. ASSUME NEW i \in 1 .. n PROVE u[i].op = s[i].op /\ u[i].unless = s[i].unless
  <2>1. DOMAIN s[i] = Fields
    BY <1>1, <1>4 DEF AreSteps
  <2>2. u[i] = [s[i] EXCEPT !.undo = @ \cup U]
    BY <1>1, <1>2, <1>4 DEF Undoing
  <2> QED
    BY <2>1, <2>2 DEF Fields
<1>6. ASSUME NEW i \in 1 .. n, u[i].op = "set" PROVE AfterReset(u, i)
  <2>1. i > 1 /\ s[i - 1].op = "reset" /\ s[i - 1].unless = {}
    BY <1>4, <1>5, <1>6 DEF FreshSets, AfterReset
  <2>2. PICK j \in 1 .. n : j = i - 1
    BY <2>1
  <2>3. u[j].op = s[j].op /\ u[j].unless = s[j].unless
    BY <1>5
  <2> QED
    BY <2>1, <2>2, <2>3 DEF AfterReset
<1> QED
  BY <1>2, <1>3, <1>4, <1>6 DEF FreshSets

(* The pass resets the pool and takes its set *)
LEMMA ResetThenSet == \A s : NoSets(s) => FreshSets(s \o ResetSets \o AllocateSet)
<1> SUFFICES ASSUME NEW s, NoSets(s) PROVE FreshSets(s \o ResetSets \o AllocateSet)
  OBVIOUS
<1>1. PICK r, a : /\ r = [op |-> "reset", objects |-> {}, undo |-> {}, unless |-> {}]
                  /\ a = [op |-> "set", objects |-> {}, undo |-> {}, unless |-> {}]
  OBVIOUS
<1>2. /\ ResetSets = <<r>> /\ AllocateSet = <<a>> /\ DOMAIN r = Fields /\ DOMAIN a = Fields
      /\ r.op = "reset" /\ r.unless = {}
  BY <1>1 DEF ResetSets, AllocateSet, Step, Fields
<1>3. PICK n \in Nat : n = Len(s)
  BY ConcatenatedSteps DEF NoSets
<1>4. PICK t : t = s \o <<r>>
  OBVIOUS
<1>5. AreSteps(s)
  BY DEF NoSets
<1>6. AreSteps(t) /\ Len(t) = n + 1 /\ t[n + 1] = r /\ \A i \in 1 .. n : t[i] = s[i]
  BY <1>2, <1>3, <1>4, <1>5, OneMoreStep
<1>7. PICK k \in Nat : k = n + 1
  OBVIOUS
<1>8. PICK u : u = t \o <<a>>
  OBVIOUS
<1>9. AreSteps(t) /\ Len(t) = k
  BY <1>6, <1>7
<1>10. AreSteps(u) /\ Len(u) = k + 1 /\ u[k + 1] = a /\ \A i \in 1 .. k : u[i] = t[i]
  BY <1>2, <1>8, <1>9, OneMoreStep
<1>11. k \in 1 .. k /\ k = k + 1 - 1 /\ k + 1 > 1
  BY <1>7
<1>12. u[k] = r
  BY <1>6, <1>7, <1>10, <1>11
<1>13. AfterReset(u, k + 1)
  BY <1>2, <1>11, <1>12 DEF AfterReset
<1>14. ASSUME NEW i \in 1 .. k + 1, u[i].op = "set" PROVE AfterReset(u, i)
  <2>1. CASE i = k + 1
    BY <1>13, <2>1
  <2>2. CASE i = k
    BY <1>2, <1>12, <1>14, <2>2
  <2>3. CASE i \in 1 .. n
    <3>1. u[i] = s[i]
      BY <1>6, <1>7, <1>10, <2>3
    <3>2. s[i].op # "set"
      BY <1>3, <2>3 DEF NoSets
    <3> QED
      BY <1>14, <3>1, <3>2
  <2> QED
    BY <1>7, <2>1, <2>2, <2>3
<1>15. FreshSets(u)
  BY <1>10, <1>14 DEF FreshSets
<1> QED
  BY <1>2, <1>4, <1>8, <1>15

LEMMA PassIsFresh == FreshSets(RunRasterPass)
<1>1. NoSets(RasterPassImages)
  BY NoSetsImages, NoSetsThen, NoSetsSteps DEF RasterPassImages
<1>2. FreshSets(RasterPassBindings)
  <2>1. PICK s : s = CreateRawBuffer("pass vertices") \o CreateRawBuffer("pass tint")
    OBVIOUS
  <2>2. NoSets(s)
    BY <2>1, NoSetsCalls, NoSetsThen
  <2>3. FreshSets(s \o ResetSets \o AllocateSet)
    BY <2>2, ResetThenSet
  <2>4. FreshSets(s \o ResetSets \o AllocateSet \o CreateRawBuffer("pass readback"))
    BY <2>3, NoSetsCalls, FreshSetsOf, FreshSetsThen
  <2>5. NoSets(EnsureRasterPipeline \o EnsureSampler \o EnsureDescriptorPool)
    BY NoSetsCalls, NoSetsPipelines, NoSetsThen DEF EnsureSampler, EnsureDescriptorPool
  <2> QED
    BY <2>1, <2>4, <2>5, FreshSetsOf, FreshSetsThen, FreshSetsUndoing DEF RasterPassBindings
<1>3. NoSets(Undoing(Multisample \cup PassBuffers,
               CreateImage("multisample") \o AllocateCommandBuffer("pass") \o SubmitAndWait("pass")))
  BY NoSetsCalls, NoSetsImages, NoSetsThen, NoSetsChanged
<1>4. NoSets(Drop(Multisample \cup PassBuffers))
  BY NoSetsSteps
<1> QED
  BY <1>1, <1>2, <1>3, <1>4, FreshSetsOf, FreshSetsThen DEF RunRasterPass

(* The calls that draw plans *)
PlanDraws == {"draw", "draw user", "draw tier2"}

LEMMA OtherCallsAreFresh ==
  \A c \in (Ordinary \cup {"create", "destroy"}) \ PlanDraws : FreshSets(StepsOf(c))
<1>1. FreshSets(StepsOf("compile"))
  <2>1. NoSets(CompilePlanRasterPackage("user"))
    BY NoSetsPipelines, NoSetsThen, NoSetsSteps DEF CompilePlanRasterPackage
  <2> QED
    BY <2>1, NoSetsPipelines, NoSetsThen, FreshSetsOf, StepsOfCalls
<1>2. FreshSets(StepsOf("compute")) /\ FreshSets(StepsOf("timeline"))
  BY NoSetsSubmissions, NoSetsThen, FreshSetsOf, StepsOfCalls
<1>3. FreshSets(StepsOf("commit"))
  <2>1. NoSets(TransformRepresentation("a", "target"))
    BY NoSetsCalls, NoSetsImages, NoSetsThen, NoSetsSteps DEF TransformRepresentation
  <2>2. NoSets(RetireStaleFacetImages({"source"})) /\ NoSets(ConsumeInput("a"))
    BY NoSetsSteps DEF RetireStaleFacetImages, ConsumeInput, DestroyRawBuffer
  <2> QED
    BY <2>1, <2>2, NoSetsThen, FreshSetsOf, StepsOfCalls
<1>4. FreshSets(StepsOf("pass"))
  BY PassIsFresh, StepsOfCalls
<1>5. FreshSets(StepsOf("kernels"))
  BY NoSetsPipelines, NoSetsThen, FreshSetsOf, StepsOfCalls
<1>6. FreshSets(StepsOf("create"))
  BY NoSetsSteps, NoSetsThen, NoSetsChanged, FreshSetsOf, StepsOfCalls DEF CreateImpl, ChooseAdapter
<1>7. FreshSets(StepsOf("destroy"))
  <2>1. PICK s : s = StepsOf("destroy")
    OBVIOUS
  <2>2. AreSteps(s) /\ \A i \in 1 .. Len(s) : s[i].op = "drop"
    BY <2>1, DestructionSteps
  <2> QED
    BY <2>1, <2>2 DEF FreshSets
<1> QED
  BY <1>1, <1>2, <1>3, <1>4, <1>5, <1>6, <1>7 DEF Ordinary, PlanDraws

(* After a reset there is no set, until one is taken *)
SetsInv ==
  \/ Idle
  \/ /\ call \in DOMAIN Steps /\ at \in Nat \ {0}
     /\ AfterReset(Steps[call], at) => sets = 0

(* Were there no plans to draw, a set would always be left: of all calls    *)
(* only submit_plan_raster_step takes one without a reset before it        *)
(* (vulkan_plan_raster.cpp:328; run_raster_pass resets).                   *)
THEOREM SetsLastWithoutPlans ==
  ASSUME Calls \cap PlanDraws = {}
  PROVE  VulkanSpec => []SetIsLeft
<1>1. VulkanInit => SetsInv
  BY DEF VulkanInit, SetsInv, Idle
<1>2. SetsInv /\ [VulkanNext]_vars => SetsInv'
  <2> SUFFICES ASSUME SetsInv, [VulkanNext]_vars PROVE SetsInv'
    OBVIOUS
  <2>1. ASSUME call' = NoCall PROVE SetsInv'
    BY <2>1 DEF SetsInv, Idle
  <2>2. ASSUME Running, Advance, sets' = 0 \/ Current.op # "reset" \/ Current.unless # {}
        PROVE  SetsInv'
    <3>1. call \in DOMAIN Steps /\ at \in Nat \ {0}
      BY <2>2 DEF SetsInv, Running
    <3>2. call' = call /\ at' = at + 1
      BY <2>2 DEF Advance
    <3>3. PICK s, i : s = Steps[call] /\ i = at /\ i \in Nat
      BY <3>1
    <3>4. PICK k \in Nat \ {0} : k = i + 1 /\ k - 1 = i
      BY <3>3
    <3>5. AfterReset(s, k) => s[i].op = "reset" /\ s[i].unless = {}
      BY <3>4 DEF AfterReset
    <3>6. Current = s[i]
      BY <3>3 DEF Current
    <3>7. AfterReset(s, k) => sets' = 0
      BY <2>2, <3>5, <3>6
    <3>8. call' \in DOMAIN Steps /\ at' = k /\ Steps[call'] = s
      BY <3>1, <3>2, <3>3, <3>4
    <3>9. AfterReset(Steps[call'], at') => sets' = 0
      BY <3>7, <3>8
    <3> QED
      BY <3>4, <3>8, <3>9 DEF SetsInv
  <2>3. ASSUME NEW c \in DOMAIN Steps, Begin(c) PROVE SetsInv'
    <3>1. call' = c /\ at' = 1
      BY <2>3 DEF Begin
    <3> QED
      BY <3>1 DEF SetsInv, AfterReset
  <2>4. ASSUME PassOver PROVE SetsInv'
    <3>1. Running /\ Advance /\ ~Due
      BY <2>4 DEF PassOver
    <3>2. Current.unless # {}
      BY <3>1 DEF Due
    <3> QED
      BY <2>2, <3>1, <3>2
  <2>5. ASSUME Succeed PROVE SetsInv'
    <3>1. Running /\ Advance /\ Current.op # "reset"
      BY <2>5 DEF Succeed, Due
    <3> QED
      BY <2>2, <3>1
  <2>6. ASSUME Store PROVE SetsInv'
    <3>1. Running /\ Advance /\ Current.op # "reset"
      BY <2>6 DEF Store, Due
    <3> QED
      BY <2>2, <3>1
  <2>7. ASSUME DestroyObjects PROVE SetsInv'
    <3>1. Running /\ Advance /\ Current.op # "reset"
      BY <2>7 DEF DestroyObjects, Due
    <3> QED
      BY <2>2, <3>1
  <2>8. ASSUME AllocateDescriptorSet PROVE SetsInv'
    <3>1. Running /\ Advance /\ Current.op # "reset"
      BY <2>8 DEF AllocateDescriptorSet, Due
    <3> QED
      BY <2>2, <3>1
  <2>9. ASSUME ResetDescriptorPool PROVE SetsInv'
    <3>1. Running /\ Advance /\ sets' = 0
      BY <2>9 DEF ResetDescriptorPool, Due
    <3> QED
      BY <2>2, <3>1
  <2>10. ASSUME Fail PROVE SetsInv'
    BY <2>1, <2>10 DEF Fail
  <2>11. ASSUME Complete PROVE SetsInv'
    BY <2>1, <2>11 DEF Complete
  <2>12. ASSUME UNCHANGED vars PROVE SetsInv'
    BY <2>12 DEF vars, SetsInv, Idle
  <2> QED
    BY <2>3, <2>4, <2>5, <2>6, <2>7, <2>8, <2>9, <2>10, <2>11, <2>12 DEF VulkanNext
<1>3. SetsInv => SetIsLeft
  <2> SUFFICES ASSUME SetsInv, Due, Current.op = "set" PROVE sets < MaxSets
    BY DEF SetIsLeft
  <2>1. call \in DOMAIN Steps /\ at \in Nat \ {0} /\ Running
    BY DEF SetsInv, Due, Running
  <2>2. call \in (Ordinary \cup {"create", "destroy"}) \ PlanDraws
    <3>1. call \in Calls \cup {"create", "destroy"}
      BY <2>1 DEF Steps
    <3>2. "create" \notin PlanDraws /\ "destroy" \notin PlanDraws
      BY DEF PlanDraws
    <3> QED
      BY <3>1, <3>2, CallNames
  <2>3. PICK s : s = Steps[call]
    OBVIOUS
  <2>4. FreshSets(s) /\ Len(s) \in Nat
    <3>1. s = StepsOf(call)
      BY <2>1, <2>3 DEF Steps
    <3>2. FreshSets(s)
      BY <2>2, <3>1, OtherCallsAreFresh
    <3> QED
      BY <3>2, ConcatenatedSteps DEF FreshSets
  <2>5. at <= Len(s) /\ Current = s[at]
    BY <2>1, <2>3 DEF Running, Current
  <2>6. at \in 1 .. Len(s)
    BY <2>1, <2>4, <2>5
  <2>7. AfterReset(s, at)
    BY <2>4, <2>5, <2>6 DEF FreshSets
  <2>8. sets = 0
    BY <2>1, <2>3, <2>7 DEF SetsInv, Running
  <2> QED
    BY <2>8 DEF MaxSets
<1> QED
  BY <1>1, <1>2, <1>3, PTL DEF VulkanSpec
=============================================================================
