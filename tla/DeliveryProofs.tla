--------------------------- MODULE DeliveryProofs ---------------------------
(***************************************************************************)
(* What the streams, the queues and the threads of Orchestrator carry, and *)
(* that with one replica nothing is abandoned (NothingAbandoned) and no    *)
(* event still in flight changes the status of a job that is over.         *)
(*                                                                         *)
(* Kinds says which events can be where. Backed is the invariant of the    *)
(* delivery: a start that is not handled yet has its result after it in    *)
(* the order in which the replica will handle them, or its task is still   *)
(* at work; so has a task whose row says ready or running; a blocked one   *)
(* may be with the policy gate instead. NoTaskAbandoned alone is not       *)
(* inductive, because a start puts a task to running whatever has become   *)
(* of it: only the order of the entries says that something follows.       *)
(*                                                                         *)
(* Accounted is about the job's status: a refresh comes after a dispatch,  *)
(* and a dispatch leaves something ready or failed, unless all is done.    *)
(* So without a policy gate no refresh plans a job again that the user has *)
(* canceled (CancelFinal) or that is over (OutcomeFinalUngated).           *)
(***************************************************************************)
EXTENDS OrchestratorProofs

-----------------------------------------------------------------------------
(* What entries are about.                                                 *)

\* The tasks that e is about, if e is one of the events K.
One(K, e) == IF e \in K THEN {e.task} ELSE {}

\* The tasks that the events of K in a sequence (or any function) f are about.
About(K, f) == UNION {One(K, f[i]) : i \in DOMAIN f}

\* No two entries of f are events of K about the same task.
Once(K, f) ==
  \A i, j \in DOMAIN f : f[i] \in K /\ f[j] \in K /\ f[i].task = f[j].task => i = j

\* A task is in About when some entry says so.
LEMMA AboutIff ==
  ASSUME NEW K, NEW f, NEW t
  PROVE  t \in About(K, f) <=> \E i \in DOMAIN f : f[i] \in K /\ f[i].task = t
BY DEF About, One

\* Appending.
LEMMA AboutAppend ==
  ASSUME NEW K, NEW S, NEW s \in Seq(S), NEW e \in S
  PROVE  About(K, Append(s, e)) = About(K, s) \cup One(K, e)
<1> DEFINE u == Append(s, e)
<1>1. /\ DOMAIN u = 1 .. Len(s) + 1 /\ DOMAIN s = 1 .. Len(s) /\ Len(s) \in Nat
      /\ \A i \in 1 .. Len(s) : u[i] = s[i]
      /\ u[Len(s) + 1] = e
  OBVIOUS
<1> HIDE DEF u
<1>2. ASSUME NEW t PROVE t \in About(K, u) <=> t \in About(K, s) \cup One(K, e)
  BY <1>1, AboutIff DEF One
<1> QED
  BY <1>2 DEF u

\* Appending what is new.
LEMMA OnceAppend ==
  ASSUME NEW K, NEW S, NEW s \in Seq(S), NEW e \in S,
         Once(K, s), One(K, e) \cap About(K, s) = {}
  PROVE  Once(K, Append(s, e))
<1> DEFINE u == Append(s, e)
<1>1. /\ DOMAIN u = 1 .. Len(s) + 1 /\ DOMAIN s = 1 .. Len(s) /\ Len(s) \in Nat
      /\ \A i \in 1 .. Len(s) : u[i] = s[i]
      /\ u[Len(s) + 1] = e
  OBVIOUS
<1> HIDE DEF u
<1> SUFFICES ASSUME NEW i \in DOMAIN u, NEW j \in DOMAIN u,
                    u[i] \in K, u[j] \in K, u[i].task = u[j].task, i < j
             PROVE  FALSE
  BY <1>1 DEF Once, u
<1>2. i \in DOMAIN s /\ u[i] = s[i]
  BY <1>1
<1>3. CASE j \in DOMAIN s
  BY <1>1, <1>2, <1>3 DEF Once
<1>4. CASE j = Len(s) + 1
  BY <1>1, <1>2, <1>4, AboutIff DEF One
<1> QED
  BY <1>1, <1>3, <1>4

\* Concatenating.
LEMMA AboutConcat ==
  ASSUME NEW K, NEW S, NEW s \in Seq(S), NEW u \in Seq(S)
  PROVE  /\ About(K, s \o u) = About(K, s) \cup About(K, u)
         /\ Once(K, s \o u) <=> /\ Once(K, s) /\ Once(K, u)
                                /\ About(K, s) \cap About(K, u) = {}
<1> DEFINE v == s \o u
<1>1. /\ DOMAIN v = 1 .. Len(s) + Len(u)
      /\ DOMAIN s = 1 .. Len(s) /\ DOMAIN u = 1 .. Len(u)
      /\ Len(s) \in Nat /\ Len(u) \in Nat
      /\ \A i \in 1 .. Len(s) : v[i] = s[i]
      /\ \A i \in 1 .. Len(u) : v[Len(s) + i] = u[i]
  BY ConcatProperties
<1> HIDE DEF v
<1>2. \A i \in DOMAIN v : \/ i \in DOMAIN s
                          \/ \E j \in DOMAIN u : i = Len(s) + j
  <2>1. ASSUME NEW i \in DOMAIN v, i \notin DOMAIN s PROVE i - Len(s) \in DOMAIN u
    BY <1>1, <2>1
  <2>2. ASSUME NEW i \in DOMAIN v, i \notin DOMAIN s PROVE i = Len(s) + (i - Len(s))
    BY <1>1, <2>2
  <2> QED
    BY <2>1, <2>2
<1>3. ASSUME NEW t PROVE t \in About(K, v) <=> t \in About(K, s) \cup About(K, u)
  <2>1. ASSUME t \in About(K, v) PROVE t \in About(K, s) \cup About(K, u)
    <3>1. PICK i \in DOMAIN v : v[i] \in K /\ v[i].task = t
      BY <2>1, AboutIff
    <3>2. CASE i \in DOMAIN s
      BY <1>1, <3>1, <3>2, AboutIff
    <3>3. CASE i \notin DOMAIN s
      <4>1. PICK j \in DOMAIN u : i = Len(s) + j
        BY <1>2, <3>3
      <4>2. u[j] \in K /\ u[j].task = t
        BY <1>1, <3>1, <4>1
      <4> QED
        BY <4>2, AboutIff
    <3> QED
      BY <3>2, <3>3
  <2>2. ASSUME t \in About(K, s) PROVE t \in About(K, v)
    BY <1>1, <2>2, AboutIff
  <2>3. ASSUME t \in About(K, u) PROVE t \in About(K, v)
    <3>1. PICK j \in DOMAIN u : u[j] \in K /\ u[j].task = t
      BY <2>3, AboutIff
    <3>2. Len(s) + j \in DOMAIN v /\ v[Len(s) + j] = u[j]
      BY <1>1
    <3> QED
      BY <3>1, <3>2, AboutIff
  <2> QED
    BY <2>1, <2>2, <2>3
<1>4. ASSUME Once(K, s), Once(K, u), About(K, s) \cap About(K, u) = {} PROVE Once(K, v)
  <2> SUFFICES ASSUME NEW i \in DOMAIN v, NEW j \in DOMAIN v,
                      v[i] \in K, v[j] \in K, v[i].task = v[j].task, i < j
               PROVE  FALSE
    BY <1>1 DEF Once
  <2>1. CASE j \in DOMAIN s
    BY <1>1, <1>4, <2>1 DEF Once
  <2>2. CASE i \notin DOMAIN s
    BY <1>1, <1>2, <1>4, <2>2 DEF Once
  <2>3. CASE i \in DOMAIN s /\ j \notin DOMAIN s
    <3>1. PICK m \in DOMAIN u : j = Len(s) + m
      BY <1>2, <2>3
    <3>2. u[m] \in K /\ u[m].task = v[i].task /\ s[i] \in K /\ s[i].task = v[i].task
      BY <1>1, <2>3, <3>1
    <3>3. v[i].task \in About(K, s) /\ v[i].task \in About(K, u)
      BY <2>3, <3>2, AboutIff
    <3> QED
      BY <1>4, <3>3
  <2> QED
    BY <1>1, <2>1, <2>2, <2>3
<1>5. ASSUME Once(K, v) PROVE Once(K, s) /\ Once(K, u) /\ About(K, s) \cap About(K, u) = {}
  <2>1. Once(K, s)
    BY <1>1, <1>5 DEF Once
  <2>2. Once(K, u)
    <3> SUFFICES ASSUME NEW i \in DOMAIN u, NEW j \in DOMAIN u,
                        u[i] \in K, u[j] \in K, u[i].task = u[j].task
                 PROVE  i = j
      BY DEF Once
    <3>1. Len(s) + i \in DOMAIN v /\ Len(s) + j \in DOMAIN v
      BY <1>1
    <3>2. Len(s) + i = Len(s) + j
      BY <1>1, <1>5, <3>1 DEF Once
    <3> QED
      BY <1>1, <3>2
  <2>3. ASSUME NEW t \in About(K, s) \cap About(K, u) PROVE FALSE
    <3>1. PICK i \in DOMAIN s : s[i] \in K /\ s[i].task = t
      BY AboutIff
    <3>2. PICK j \in DOMAIN u : u[j] \in K /\ u[j].task = t
      BY AboutIff
    <3>3. i \in DOMAIN v /\ Len(s) + j \in DOMAIN v /\ i # Len(s) + j
      BY <1>1
    <3> QED
      BY <1>1, <1>5, <3>1, <3>2, <3>3 DEF Once
  <2> QED
    BY <2>1, <2>2, <2>3
<1> QED
  BY <1>3, <1>4, <1>5 DEF v

\* One entry of a function is replaced: what the function is about then,
LEMMA AboutUpdate ==
  ASSUME NEW K, NEW X, NEW S, NEW f \in [X -> S], NEW x \in X, NEW e \in S
  PROVE  About(K, [f EXCEPT ![x] = e]) \subseteq About(K, f) \cup One(K, e)
<1> DEFINE g == [f EXCEPT ![x] = e]
<1>1. DOMAIN g = X /\ DOMAIN f = X /\ g[x] = e /\ \A y \in X : y # x => g[y] = f[y]
  OBVIOUS
<1> HIDE DEF g
<1>2. About(K, g) \subseteq About(K, f) \cup One(K, e)
  BY <1>1 DEF About
<1> QED
  BY <1>2 DEF g

\* the new entry among it,
LEMMA AboutNew ==
  ASSUME NEW K, NEW X, NEW S, NEW f \in [X -> S], NEW x \in X, NEW e \in S
  PROVE  One(K, e) \subseteq About(K, [f EXCEPT ![x] = e])
<1> DEFINE g == [f EXCEPT ![x] = e]
<1>1. DOMAIN g = X /\ g[x] = e
  OBVIOUS
<1> HIDE DEF g
<1>2. One(K, e) \subseteq About(K, g)
  BY <1>1 DEF About
<1> QED
  BY <1>2 DEF g

\* what it keeps of what it was about,
LEMMA AboutReplaced ==
  ASSUME NEW K, NEW X, NEW S, NEW f \in [X -> S], NEW x \in X, NEW e \in S
  PROVE  About(K, f) \subseteq About(K, [f EXCEPT ![x] = e]) \cup One(K, f[x])
<1> DEFINE g == [f EXCEPT ![x] = e]
<1>1. DOMAIN g = X /\ DOMAIN f = X /\ g[x] = e /\ \A y \in X : y # x => g[y] = f[y]
  OBVIOUS
<1> HIDE DEF g
<1>2. About(K, f) \subseteq About(K, g) \cup One(K, f[x])
  BY <1>1 DEF About
<1> QED
  BY <1>2 DEF g

\* and that it is still about each task once.
LEMMA OnceUpdate ==
  ASSUME NEW K, NEW X, NEW S, NEW f \in [X -> S], NEW x \in X, NEW e \in S,
         Once(K, f), One(K, e) \cap About(K, f) \subseteq One(K, f[x])
  PROVE  /\ Once(K, [f EXCEPT ![x] = e])
         /\ One(K, f[x]) \cap About(K, [f EXCEPT ![x] = e]) \subseteq One(K, e)
<1> DEFINE g == [f EXCEPT ![x] = e]
<1>1. DOMAIN g = X /\ DOMAIN f = X /\ g[x] = e /\ \A y \in X : y # x => g[y] = f[y]
  OBVIOUS
<1> HIDE DEF g
<1>2. One(K, f[x]) \cap About(K, g) \subseteq One(K, e)
  BY <1>1, AboutIff DEF Once, One
<1>3. Once(K, g)
  <2> SUFFICES ASSUME NEW y \in X, e \in K, g[y] \in K, g[y].task = e.task, y # x
               PROVE  FALSE
    BY <1>1 DEF Once
  <2>1. e.task \in One(K, f[x])
    BY <1>1, AboutIff DEF One
  <2> QED
    BY <1>1, <2>1 DEF Once, One
<1> QED
  BY <1>2, <1>3 DEF g

\* What xreadgroup returns and what it leaves make up the stream.
LEMMA BatchSplits ==
  ASSUME NEW S, NEW s \in Seq(S)
  PROVE  /\ Oldest(s) \in Seq(S) /\ Remaining(s) \in Seq(S)
         /\ s = Oldest(s) \o Remaining(s)
         /\ s # <<>> => Oldest(s) # <<>>
<1> DEFINE n == IF Len(s) < ReadCount THEN Len(s) ELSE ReadCount
<1>1. Oldest(s) \in Seq(S) /\ Remaining(s) \in Seq(S)
  BY BatchTyped
<1>2. Len(s) \in Nat /\ n \in Nat /\ n <= Len(s) /\ (s # <<>> => n > 0)
  BY DEF ReadCount
<1>3. Oldest(s) = SubSeq(s, 1, n)
  BY DEF Oldest
<1> HIDE DEF n
<1>4. Len(Oldest(s)) = n /\ \A i \in 1 .. n : Oldest(s)[i] = s[i]
  BY <1>2, <1>3, SubSeqProperties
<1>5. Remaining(s) = SubSeq(s, n + 1, Len(s))
  BY <1>4 DEF Remaining
<1>6. Len(Remaining(s)) = Len(s) - n /\ \A i \in 1 .. Len(s) - n : Remaining(s)[i] = s[n + i]
  BY <1>2, <1>5, SubSeqProperties
<1>7. s = Oldest(s) \o Remaining(s)
  <2> DEFINE u == Oldest(s) \o Remaining(s)
  <2>1. u \in Seq(S) /\ Len(u) = Len(s)
    <3>1. u \in Seq(S) /\ Len(u) = Len(Oldest(s)) + Len(Remaining(s))
      BY <1>1, ConcatProperties
    <3> QED
      BY <1>2, <1>4, <1>6, <3>1
  <2>2. ASSUME NEW i \in 1 .. Len(s) PROVE u[i] = s[i]
    <3>1. CASE i <= n
      BY <1>1, <1>2, <1>4, <3>1, ConcatProperties
    <3>2. CASE i > n
      <4>1. u[i] = Remaining(s)[i - n]
        BY <1>1, <1>2, <1>4, <1>6, <3>2, ConcatProperties
      <4>2. i - n \in 1 .. Len(s) - n /\ n + (i - n) = i
        BY <1>2, <3>2
      <4> QED
        BY <1>6, <4>1, <4>2
    <3> HIDE DEF u
    <3> QED
      BY <1>2, <3>1, <3>2
  <2> HIDE DEF u
  <2>3. s = u
    BY <2>1, <2>2, SeqEqual
  <2> QED
    BY <2>3 DEF u
<1> QED
  BY <1>1, <1>2, <1>4, <1>7

-----------------------------------------------------------------------------
(* The order in which entries come.                                        *)

\* The tasks with an entry of K in s after which there is none of L about them.
Unfollowed(K, L, s) ==
  {t \in About(K, s) : \E i \in DOMAIN s :
     /\ s[i] \in K /\ s[i].task = t
     /\ \A j \in DOMAIN s : s[j] \in L /\ s[j].task = t => j <= i}

\* The tasks with an entry of L in s before which there is none of K about them.
Unpreceded(K, L, s) ==
  {t \in About(L, s) : \E j \in DOMAIN s :
     /\ s[j] \in L /\ s[j].task = t
     /\ \A i \in DOMAIN s : s[i] \in K /\ s[i].task = t => i >= j}

\* The tasks with an entry of K in s that comes after one of L.
Inverted(K, L, s) ==
  {t \in About(K, s) : \E i, j \in DOMAIN s :
     s[i] \in K /\ s[i].task = t /\ s[j] \in L /\ s[j].task = t /\ j < i}

\* The order in a concatenation.
LEMMA OrderConcat ==
  ASSUME NEW K, NEW L, NEW S, NEW s \in Seq(S), NEW u \in Seq(S)
  PROVE  /\ Unfollowed(K, L, s \o u)
              = Unfollowed(K, L, u) \cup (Unfollowed(K, L, s) \ About(L, u))
         /\ Unpreceded(K, L, s \o u)
              = Unpreceded(K, L, s) \cup (Unpreceded(K, L, u) \ About(K, s))
         /\ Inverted(K, L, s \o u)
              = Inverted(K, L, s) \cup Inverted(K, L, u) \cup (About(L, s) \cap About(K, u))
<1> DEFINE v == s \o u
           n == Len(s)
<1>1. /\ DOMAIN v = 1 .. n + Len(u)
      /\ DOMAIN s = 1 .. n /\ DOMAIN u = 1 .. Len(u)
      /\ n \in Nat /\ Len(u) \in Nat
      /\ \A i \in 1 .. n : v[i] = s[i]
      /\ \A i \in 1 .. Len(u) : v[n + i] = u[i]
  BY ConcatProperties
<1> HIDE DEF v, n
<1>2. /\ \A i \in DOMAIN s : i \in DOMAIN v /\ v[i] = s[i]
      /\ \A i \in DOMAIN u : n + i \in DOMAIN v /\ v[n + i] = u[i] /\ n + i \notin DOMAIN s
      /\ \A i \in DOMAIN s, j \in DOMAIN u : i < n + j
      /\ \A i, j \in DOMAIN u : n + i <= n + j <=> i <= j
      /\ \A i, j \in DOMAIN u : n + i < n + j <=> i < j
      /\ DOMAIN s \subseteq Nat /\ DOMAIN u \subseteq Nat /\ DOMAIN v \subseteq Nat
  BY <1>1
<1>3. \A i \in DOMAIN v : i \in DOMAIN s \/ \E j \in DOMAIN u : i = n + j
  <2>1. ASSUME NEW i \in DOMAIN v, i \notin DOMAIN s
        PROVE  i - n \in DOMAIN u /\ i = n + (i - n)
    BY <1>1, <2>1
  <2> QED
    BY <2>1
<1>4. ASSUME NEW t
      PROVE  t \in Unfollowed(K, L, v)
               <=> t \in Unfollowed(K, L, u) \cup (Unfollowed(K, L, s) \ About(L, u))
  <2>1. ASSUME t \in Unfollowed(K, L, u) PROVE t \in Unfollowed(K, L, v)
    <3>1. PICK i \in DOMAIN u : /\ u[i] \in K /\ u[i].task = t
                                /\ \A j \in DOMAIN u : u[j] \in L /\ u[j].task = t => j <= i
      BY <2>1 DEF Unfollowed
    <3>2. n + i \in DOMAIN v /\ v[n + i] \in K /\ v[n + i].task = t
      BY <1>2, <3>1
    <3>3. ASSUME NEW j \in DOMAIN v, v[j] \in L, v[j].task = t PROVE j <= n + i
      BY <1>2, <1>3, <3>1, <3>3
    <3> QED
      BY <3>2, <3>3, AboutIff DEF Unfollowed
  <2>2. ASSUME t \in Unfollowed(K, L, s), t \notin About(L, u) PROVE t \in Unfollowed(K, L, v)
    <3>1. PICK i \in DOMAIN s : /\ s[i] \in K /\ s[i].task = t
                                /\ \A j \in DOMAIN s : s[j] \in L /\ s[j].task = t => j <= i
      BY <2>2 DEF Unfollowed
    <3>2. i \in DOMAIN v /\ v[i] \in K /\ v[i].task = t
      BY <1>2, <3>1
    <3>3. ASSUME NEW j \in DOMAIN v, v[j] \in L, v[j].task = t PROVE j <= i
      BY <1>2, <1>3, <2>2, <3>1, <3>3, AboutIff
    <3> QED
      BY <3>2, <3>3, AboutIff DEF Unfollowed
  <2>3. ASSUME t \in Unfollowed(K, L, v), t \notin Unfollowed(K, L, u)
        PROVE  t \in Unfollowed(K, L, s) /\ t \notin About(L, u)
    <3>1. PICK i \in DOMAIN v : /\ v[i] \in K /\ v[i].task = t
                                /\ \A j \in DOMAIN v : v[j] \in L /\ v[j].task = t => j <= i
      BY <2>3 DEF Unfollowed
    <3>2. i \in DOMAIN s
      <4> SUFFICES ASSUME NEW m \in DOMAIN u, i = n + m PROVE FALSE
        BY <1>3
      <4>1. u[m] \in K /\ u[m].task = t
        BY <1>2, <3>1
      <4>2. ASSUME NEW j \in DOMAIN u, u[j] \in L, u[j].task = t PROVE j <= m
        BY <1>2, <3>1, <4>2
      <4> QED
        BY <2>3, <4>1, <4>2, AboutIff DEF Unfollowed
    <3>3. t \notin About(L, u)
      <4> SUFFICES ASSUME NEW j \in DOMAIN u, u[j] \in L, u[j].task = t PROVE FALSE
        BY AboutIff
      <4>1. n + j <= i /\ i < n + j
        BY <1>2, <3>1, <3>2
      <4> QED
        BY <1>2, <3>2, <4>1
    <3>4. t \in Unfollowed(K, L, s)
      <4>1. s[i] \in K /\ s[i].task = t
        BY <1>2, <3>1, <3>2
      <4>2. \A j \in DOMAIN s : s[j] \in L /\ s[j].task = t => j <= i
        BY <1>2, <3>1
      <4> QED
        BY <3>2, <4>1, <4>2, AboutIff DEF Unfollowed
    <3> QED
      BY <3>3, <3>4
  <2> QED
    BY <2>1, <2>2, <2>3
<1>5. ASSUME NEW t
      PROVE  t \in Unpreceded(K, L, v)
               <=> t \in Unpreceded(K, L, s) \cup (Unpreceded(K, L, u) \ About(K, s))
  <2>1. ASSUME t \in Unpreceded(K, L, s) PROVE t \in Unpreceded(K, L, v)
    <3>1. PICK j \in DOMAIN s : /\ s[j] \in L /\ s[j].task = t
                                /\ \A i \in DOMAIN s : s[i] \in K /\ s[i].task = t => i >= j
      BY <2>1 DEF Unpreceded
    <3>2. j \in DOMAIN v /\ v[j] \in L /\ v[j].task = t
      BY <1>2, <3>1
    <3>3. ASSUME NEW i \in DOMAIN v, v[i] \in K, v[i].task = t PROVE i >= j
      BY <1>2, <1>3, <3>1, <3>3
    <3> QED
      BY <3>2, <3>3, AboutIff DEF Unpreceded
  <2>2. ASSUME t \in Unpreceded(K, L, u), t \notin About(K, s) PROVE t \in Unpreceded(K, L, v)
    <3>1. PICK j \in DOMAIN u : /\ u[j] \in L /\ u[j].task = t
                                /\ \A i \in DOMAIN u : u[i] \in K /\ u[i].task = t => i >= j
      BY <2>2 DEF Unpreceded
    <3>2. n + j \in DOMAIN v /\ v[n + j] \in L /\ v[n + j].task = t
      BY <1>2, <3>1
    <3>3. ASSUME NEW i \in DOMAIN v, v[i] \in K, v[i].task = t PROVE i >= n + j
      <4>1. i \notin DOMAIN s
        BY <1>2, <2>2, <3>3, AboutIff
      <4>2. PICK m \in DOMAIN u : i = n + m
        BY <1>3, <4>1
      <4>3. m >= j
        BY <1>2, <3>1, <3>3, <4>2
      <4> QED
        BY <1>1, <1>2, <4>2, <4>3
    <3> QED
      BY <3>2, <3>3, AboutIff DEF Unpreceded
  <2>3. ASSUME t \in Unpreceded(K, L, v), t \notin Unpreceded(K, L, s)
        PROVE  t \in Unpreceded(K, L, u) /\ t \notin About(K, s)
    <3>1. PICK j \in DOMAIN v : /\ v[j] \in L /\ v[j].task = t
                                /\ \A i \in DOMAIN v : v[i] \in K /\ v[i].task = t => i >= j
      BY <2>3 DEF Unpreceded
    <3>2. j \notin DOMAIN s
      <4> SUFFICES ASSUME j \in DOMAIN s PROVE FALSE
        OBVIOUS
      <4>1. s[j] \in L /\ s[j].task = t
        BY <1>2, <3>1
      <4>2. ASSUME NEW i \in DOMAIN s, s[i] \in K, s[i].task = t PROVE i >= j
        BY <1>2, <3>1, <4>2
      <4> QED
        BY <2>3, <4>1, <4>2, AboutIff DEF Unpreceded
    <3>3. PICK m \in DOMAIN u : j = n + m
      BY <1>3, <3>2
    <3>4. t \notin About(K, s)
      <4> SUFFICES ASSUME NEW i \in DOMAIN s, s[i] \in K, s[i].task = t PROVE FALSE
        BY AboutIff
      <4>1. i >= n + m /\ i < n + m
        BY <1>2, <3>1, <3>3
      <4> QED
        BY <1>1, <1>2, <4>1
    <3>5. t \in Unpreceded(K, L, u)
      <4>1. u[m] \in L /\ u[m].task = t
        BY <1>2, <3>1, <3>3
      <4>2. ASSUME NEW i \in DOMAIN u, u[i] \in K, u[i].task = t PROVE i >= m
        <5>1. n + i >= n + m
          BY <1>2, <3>1, <3>3, <4>2
        <5> QED
          BY <1>1, <1>2, <5>1
      <4> QED
        BY <4>1, <4>2, AboutIff DEF Unpreceded
    <3> QED
      BY <3>4, <3>5
  <2> QED
    BY <2>1, <2>2, <2>3
<1>6. ASSUME NEW t
      PROVE  t \in Inverted(K, L, v)
               <=> t \in Inverted(K, L, s) \cup Inverted(K, L, u) \cup (About(L, s) \cap About(K, u))
  <2>1. ASSUME t \in Inverted(K, L, s) PROVE t \in Inverted(K, L, v)
    BY <1>2, <2>1, AboutIff DEF Inverted
  <2>2. ASSUME t \in Inverted(K, L, u) PROVE t \in Inverted(K, L, v)
    <3>1. PICK i \in DOMAIN u, j \in DOMAIN u :
            u[i] \in K /\ u[i].task = t /\ u[j] \in L /\ u[j].task = t /\ j < i
      BY <2>2 DEF Inverted
    <3>2. /\ n + i \in DOMAIN v /\ v[n + i] \in K /\ v[n + i].task = t
          /\ n + j \in DOMAIN v /\ v[n + j] \in L /\ v[n + j].task = t /\ n + j < n + i
      BY <1>2, <3>1
    <3> QED
      BY <3>2, AboutIff DEF Inverted
  <2>3. ASSUME t \in About(L, s), t \in About(K, u) PROVE t \in Inverted(K, L, v)
    <3>1. PICK j \in DOMAIN s : s[j] \in L /\ s[j].task = t
      BY <2>3, AboutIff
    <3>2. PICK i \in DOMAIN u : u[i] \in K /\ u[i].task = t
      BY <2>3, AboutIff
    <3>3. /\ n + i \in DOMAIN v /\ v[n + i] \in K /\ v[n + i].task = t
          /\ j \in DOMAIN v /\ v[j] \in L /\ v[j].task = t /\ j < n + i
      BY <1>2, <3>1, <3>2
    <3> QED
      BY <3>3, AboutIff DEF Inverted
  <2>4. ASSUME t \in Inverted(K, L, v)
        PROVE  t \in Inverted(K, L, s) \cup Inverted(K, L, u) \cup (About(L, s) \cap About(K, u))
    <3>1. PICK i \in DOMAIN v, j \in DOMAIN v :
            v[i] \in K /\ v[i].task = t /\ v[j] \in L /\ v[j].task = t /\ j < i
      BY <2>4 DEF Inverted
    <3>2. CASE i \in DOMAIN s
      <4>1. j \in DOMAIN s
        BY <1>1, <3>1, <3>2
      <4> QED
        BY <1>2, <3>1, <3>2, <4>1, AboutIff DEF Inverted
    <3>3. CASE i \notin DOMAIN s
      <4>1. PICK m \in DOMAIN u : i = n + m
        BY <1>3, <3>3
      <4>2. u[m] \in K /\ u[m].task = t
        BY <1>2, <3>1, <4>1
      <4>3. CASE j \in DOMAIN s
        BY <1>2, <3>1, <4>2, <4>3, AboutIff
      <4>4. CASE j \notin DOMAIN s
        <5>1. PICK l \in DOMAIN u : j = n + l
          BY <1>3, <4>4
        <5>2. u[l] \in L /\ u[l].task = t /\ l < m
          BY <1>2, <3>1, <4>1, <5>1
        <5> QED
          BY <4>2, <5>2, AboutIff DEF Inverted
      <4> QED
        BY <4>3, <4>4
    <3> QED
      BY <3>2, <3>3
  <2> QED
    BY <2>1, <2>2, <2>3, <2>4
<1> QED
  BY <1>4, <1>5, <1>6 DEF v

\* The order in a sequence of one entry.
LEMMA OrderOne ==
  ASSUME NEW K, NEW L, NEW e
  PROVE  /\ About(K, <<e>>) = One(K, e) /\ About(L, <<e>>) = One(L, e)
         /\ Unfollowed(K, L, <<e>>) = One(K, e)
         /\ Unpreceded(K, L, <<e>>) = One(L, e)
         /\ Inverted(K, L, <<e>>) = {}
BY DEF About, One, Unfollowed, Unpreceded, Inverted

\* The order when an entry is appended: what it leaves without a follower,
LEMMA UnfollowedAppend ==
  ASSUME NEW K, NEW L, NEW S, NEW s \in Seq(S), NEW e \in S
  PROVE  Unfollowed(K, L, Append(s, e)) = One(K, e) \cup (Unfollowed(K, L, s) \ One(L, e))
<1> DEFINE u == <<e>>
<1>1. u \in Seq(S) /\ Append(s, e) = s \o u
  OBVIOUS
<1>2. /\ About(K, u) = One(K, e) /\ About(L, u) = One(L, e)
      /\ Unfollowed(K, L, u) = One(K, e)
      /\ Unpreceded(K, L, u) = One(L, e)
      /\ Inverted(K, L, u) = {}
  BY OrderOne
<1> HIDE DEF u
<1> QED
  BY <1>1, <1>2, OrderConcat

\* without a predecessor,
LEMMA UnprecededAppend ==
  ASSUME NEW K, NEW L, NEW S, NEW s \in Seq(S), NEW e \in S
  PROVE  Unpreceded(K, L, Append(s, e)) = Unpreceded(K, L, s) \cup (One(L, e) \ About(K, s))
<1> DEFINE u == <<e>>
<1>1. u \in Seq(S) /\ Append(s, e) = s \o u
  OBVIOUS
<1>2. /\ About(K, u) = One(K, e) /\ About(L, u) = One(L, e)
      /\ Unfollowed(K, L, u) = One(K, e)
      /\ Unpreceded(K, L, u) = One(L, e)
      /\ Inverted(K, L, u) = {}
  BY OrderOne
<1> HIDE DEF u
<1> QED
  BY <1>1, <1>2, OrderConcat

\* and the wrong way round.
LEMMA InvertedAppend ==
  ASSUME NEW K, NEW L, NEW S, NEW s \in Seq(S), NEW e \in S
  PROVE  Inverted(K, L, Append(s, e)) = Inverted(K, L, s) \cup (About(L, s) \cap One(K, e))
<1> DEFINE u == <<e>>
<1>1. u \in Seq(S) /\ Append(s, e) = s \o u
  OBVIOUS
<1>2. /\ About(K, u) = One(K, e) /\ About(L, u) = One(L, e)
      /\ Unfollowed(K, L, u) = One(K, e)
      /\ Unpreceded(K, L, u) = One(L, e)
      /\ Inverted(K, L, u) = {}
  BY OrderOne
<1> HIDE DEF u
<1> QED
  BY <1>1, <1>2, OrderConcat

\* The sequence of one entry.
Single(e) == <<e>>

\* A sequence is its first entry h and the rest u.
LEMMA FirstAndRest ==
  ASSUME NEW S, NEW s \in Seq(S), s # <<>>
  PROVE  Head(s) \in S /\ Tail(s) \in Seq(S) /\ s = Single(Head(s)) \o Tail(s)
<1>1. Head(s) \in S /\ Tail(s) \in Seq(S)
  BY HeadTailProperties
<1>2. s = Single(Head(s)) \o Tail(s)
  BY HeadTailProperties, ConcatProperties DEF Single
<1> QED
  BY <1>1, <1>2

\* What they are about.
LEMMA AboutFirst ==
  ASSUME NEW K, NEW S, NEW h \in S, NEW u \in Seq(S)
  PROVE  About(K, Single(h) \o u) = One(K, h) \cup About(K, u)
<1> DEFINE q == Single(h)
<1>1. q \in Seq(S)
  BY DEF Single
<1>2. About(K, q) = One(K, h)
  BY OrderOne DEF Single
<1> HIDE DEF q
<1>3. About(K, q \o u) = One(K, h) \cup About(K, u)
  BY <1>1, <1>2, AboutConcat
<1> QED
  BY <1>3 DEF q

\* No entry comes twice: the first is about something else than the rest.
LEMMA OnceFirst ==
  ASSUME NEW K, NEW S, NEW h \in S, NEW u \in Seq(S), Once(K, Single(h) \o u)
  PROVE  Once(K, u) /\ One(K, h) \cap About(K, u) = {}
<1> DEFINE q == Single(h)
<1>1. q \in Seq(S) /\ Once(K, q \o u)
  BY DEF Single
<1>2. About(K, q) = One(K, h)
  BY OrderOne DEF Single
<1> HIDE DEF q
<1> QED
  BY <1>1, <1>2, AboutConcat

\* The order when the first entry is taken away: what it left without a follower,
LEMMA UnfollowedFirst ==
  ASSUME NEW K, NEW L, NEW S, NEW h \in S, NEW u \in Seq(S)
  PROVE  Unfollowed(K, L, Single(h) \o u) = Unfollowed(K, L, u) \cup (One(K, h) \ About(L, u))
<1> DEFINE q == Single(h)
<1>1. q \in Seq(S)
  BY DEF Single
<1>2. /\ About(K, q) = One(K, h) /\ About(L, q) = One(L, h)
      /\ Unfollowed(K, L, q) = One(K, h)
      /\ Unpreceded(K, L, q) = One(L, h)
      /\ Inverted(K, L, q) = {}
  BY OrderOne DEF Single
<1> HIDE DEF q
<1>3. Unfollowed(K, L, q \o u) = Unfollowed(K, L, u) \cup (One(K, h) \ About(L, u))
  BY <1>1, <1>2, OrderConcat
<1> QED
  BY <1>3 DEF q

\* without a predecessor,
LEMMA UnprecededFirst ==
  ASSUME NEW K, NEW L, NEW S, NEW h \in S, NEW u \in Seq(S)
  PROVE  Unpreceded(K, L, Single(h) \o u) = One(L, h) \cup (Unpreceded(K, L, u) \ One(K, h))
<1> DEFINE q == Single(h)
<1>1. q \in Seq(S)
  BY DEF Single
<1>2. /\ About(K, q) = One(K, h) /\ About(L, q) = One(L, h)
      /\ Unfollowed(K, L, q) = One(K, h)
      /\ Unpreceded(K, L, q) = One(L, h)
      /\ Inverted(K, L, q) = {}
  BY OrderOne DEF Single
<1> HIDE DEF q
<1>3. Unpreceded(K, L, q \o u) = One(L, h) \cup (Unpreceded(K, L, u) \ One(K, h))
  BY <1>1, <1>2, OrderConcat
<1> QED
  BY <1>3 DEF q

\* and the wrong way round.
LEMMA InvertedFirst ==
  ASSUME NEW K, NEW L, NEW S, NEW h \in S, NEW u \in Seq(S)
  PROVE  Inverted(K, L, Single(h) \o u) = Inverted(K, L, u) \cup (One(L, h) \cap About(K, u))
<1> DEFINE q == Single(h)
<1>1. q \in Seq(S)
  BY DEF Single
<1>2. /\ About(K, q) = One(K, h) /\ About(L, q) = One(L, h)
      /\ Unfollowed(K, L, q) = One(K, h)
      /\ Unpreceded(K, L, q) = One(L, h)
      /\ Inverted(K, L, q) = {}
  BY OrderOne DEF Single
<1> HIDE DEF q
<1>3. Inverted(K, L, q \o u) = Inverted(K, L, u) \cup (One(L, h) \cap About(K, u))
  BY <1>1, <1>2, OrderConcat
<1> QED
  BY <1>3 DEF q

-----------------------------------------------------------------------------
(* What each stream, queue and hand carries.                               *)

\* The events of some types.
Of(types) == {e \in TaskEvent : e.type \in types}

\* What is on the three streams the orchestrators read, and what a handler emits.
Reports   == {"started", "completed", "failed"}
Reviews   == IF Critic THEN {"accepted", "rework_requested"} ELSE {}
Decisions == IF PolicyGate THEN {"allow", "deny"} ELSE {}
Checks    == IF PolicyGate THEN {"policy_check"} ELSE {}
Heard     == Reports \cup Reviews \cup Decisions
Emitted   == {"ready", "failed"} \cup Checks

\* A thread emits only while it has something to emit, has a batch only between the query and
\* the commit, and the request thread handles no entry.
Hand(x, r) ==
  /\ r.out \subseteq Of(Emitted)
  /\ r.ev \in Of(Heard) \cup {PlanCreated, NoEvent}
  /\ r.out # {} <=> r.pc = "emit"
  /\ r.batch # {} => r.pc = "commit"
  /\ x = Http => r.ev = NoEvent

Kinds ==
  /\ stream["tasks"] \in Seq(Of(Reports))
  /\ stream["critic"] \in Seq(Of(Reviews))
  /\ stream["policy"] \in Seq(Of(Decisions))
  /\ inbox \in [Api -> Seq(Of(Heard))]
  /\ pending \in Seq(Of(Heard) \cup {PlanCreated})
  /\ ready \in Seq(Of({"ready"}))
  /\ held \in [Worker -> Of({"ready"}) \cup {NoEvent}]
  /\ orphaned \in Seq(Of({"ready"}))
  /\ toPolicy \in Seq(Of(Checks))
  /\ toCritic \in Seq(Of(IF Critic THEN {"completed"} ELSE {}))
  /\ \A x \in Thread : Hand(x, thread[x])

\* The types, and the kinds.
State == Inv(Nat, TaskEvent) /\ Kinds

-----------------------------------------------------------------------------
(* What a step does with the thread that takes it.                         *)

\* Thread x goes on with record r, the others stay what they were.
Becomes(x, r) == thread'[x] = r /\ \A y \in Thread : y # x => thread'[y] = thread[y]

\* What a thread keeps in its hands from s to r.
SameHands(r, s) ==
  /\ r.ev = s.ev
  /\ r.out = s.out
  /\ r.batch = s.batch
  /\ r.end = s.end

\* A thread is replaced.
LEMMA BecomesUpdate ==
  ASSUME thread \in Threads(Nat, TaskEvent), NEW x \in Thread, NEW r,
         thread' = [thread EXCEPT ![x] = r]
  PROVE  Becomes(x, r)
BY DEF Becomes, Threads

\* Settle: what is left of the handler.
LEMMA Settled ==
  ASSUME thread \in Threads(Nat, TaskEvent), NEW x \in Thread,
         NEW r \in ThreadRecord(Nat, TaskEvent), Settle(x, r)
  PROVE  /\ Becomes(x, thread'[x])
         /\ SameHands(thread'[x], r)
         /\ thread'[x].refreshes = r.refreshes
         /\ r.out # {} => thread'[x].pc = "emit"
         /\ r.out = {} => thread'[x].pc \in {"refresh", r.end}
<1> DEFINE next == CASE r.out # {}                     -> "emit"
                     [] r.out = {} /\ r.refreshes > 0  -> "refresh"
                     [] r.out = {} /\ r.refreshes = 0  -> r.end
           s == [r EXCEPT !.pc = next]
<1>1. thread' = [thread EXCEPT ![x] = s]
  BY DEF Settle
<1>2. r.refreshes \in Nat
  BY DEF ThreadRecord
<1>3. (r.out # {} => next = "emit") /\ (r.out = {} => next \in {"refresh", r.end})
  BY <1>2
<1> HIDE DEF next
<1>4. SameHands(s, r) /\ s.refreshes = r.refreshes /\ s.pc = next
  BY DEF SameHands, ThreadRecord
<1>5. Becomes(x, s)
  <2> HIDE DEF s
  <2> QED
    BY <1>1, BecomesUpdate
<1> QED
  BY <1>3, <1>4, <1>5 DEF Becomes

\* GoDispatch.
LEMMA Dispatching ==
  ASSUME thread \in Threads(Nat, TaskEvent), NEW x \in Thread,
         NEW r \in ThreadRecord(Nat, TaskEvent), NEW n \in Nat, GoDispatch(x, r, n)
  PROVE  /\ Becomes(x, thread'[x])
         /\ SameHands(thread'[x], r)
         /\ thread'[x].pc = "dispatch"
<1> DEFINE s == [r EXCEPT !.pc = "dispatch", !.refreshes = n]
<1>1. thread' = [thread EXCEPT ![x] = s]
  BY DEF GoDispatch
<1>2. SameHands(s, r) /\ s.pc = "dispatch"
  BY DEF SameHands, ThreadRecord
<1>3. Becomes(x, s)
  <2> HIDE DEF s
  <2> QED
    BY <1>1, BecomesUpdate
<1> QED
  BY <1>2, <1>3 DEF Becomes

\* A handler writes a status of the task its entry is about, and has events to emit.
Writes(a, status, out) ==
  /\ task' = [task EXCEPT ![thread[a].ev.task] = status]
  /\ thread'[a].out = out

\* Every handler, by what it writes and what it will emit.
HandlerEffect(a) ==
  LET e == thread[a].ev
      Emits(type) == \E n \in Nat : Writes(a, IF type = "ready" THEN "ready" ELSE "failed",
                                           {Mk(type, e.task, n, FALSE)})
  IN
  \/ /\ thread[a].pc = "handle" /\ e = PlanCreated
     /\ UNCHANGED <<task, job>> /\ thread'[a].out = {}
  \/ /\ thread[a].pc = "handle" /\ e \in Of({"started"})
     /\ Writes(a, "running", {}) /\ job' = Committed(a, "running")
  \/ /\ thread[a].pc = "handle" /\ e \in Of({"completed"})
     /\ Writes(a, "completed", {}) /\ job' = job
  \/ /\ thread[a].pc = "handle" /\ e \in Of({"failed"}) /\ RetriesSameStep(e)
     /\ \/ Emits("ready") /\ job' = Committed(a, "running") /\ thread'[a].end = thread[a].end
        \/ /\ Emits("failed") /\ job' = Committed(a, "failed")
           /\ e.task \in BadInput /\ thread'[a].end = "giveUp"
  \/ /\ \/ thread[a].pc = "handle" /\ e \in Of({"failed"}) /\ ~RetriesSameStep(e)
        \/ thread[a].pc = "giveUp" /\ thread[a].end = "giveUp"
     /\ Writes(a, "failed", {}) /\ job' = Committed(a, "failed")
  \/ /\ thread[a].pc = "handle" /\ e \in Of({"accepted"})
     /\ Writes(a, "accepted", {}) /\ job' = job
  \/ /\ thread[a].pc = "handle" /\ e \in Of({"rework_requested"})
     /\ \/ Writes(a, "pending", {}) /\ job' = job
        \/ Writes(a, "failed", {}) /\ job' = Committed(a, "failed")
  \/ /\ thread[a].pc = "handle" /\ e \in Of({"allow", "deny"})
     /\ \/ task[e.task] \notin {"pending", "blocked"} /\ task' = task /\ thread'[a].out = {}
        \/ task[e.task] \in {"pending", "blocked"} /\ (Emits("ready") \/ Emits("failed"))
     /\ job' = job /\ thread'[a].end = thread[a].end

\* What every handler has in common.
HandlerFrameOf(a) ==
  /\ Becomes(a, thread'[a])
  /\ thread[a].pc \in {"handle", "giveUp"}
  /\ thread[a].out = {}
  /\ thread[a].ev # NoEvent
  /\ thread[a].ev # PlanCreated => thread[a].ev.task \in Task /\ thread[a].ev \in TaskEvent
  /\ thread'[a].ev = thread[a].ev
  /\ thread'[a].batch = thread[a].batch
  /\ thread'[a].pc \in {"dispatch", "emit", "refresh", "ack", "giveUp"}
  /\ thread'[a].pc = "dispatch" => thread'[a].out = {}
  /\ thread'[a].pc # "dispatch" => (thread'[a].out # {} <=> thread'[a].pc = "emit")
  /\ thread'[a].end \in {thread[a].end, "giveUp", "ack"}
  /\ thread'[a].end = "giveUp" => thread[a].end = "giveUp" \/ thread'[a].out # {}
  /\ UNCHANGED <<job, seen>> \/ Forget(a)
  /\ UNCHANGED <<queues, workers, services, used>>

\* A handler is one of these.
LEMMA HandlerIs ==
  ASSUME State, NEW a \in Api, HandleEvent(a)
  PROVE  HandlerFrameOf(a) /\ HandlerEffect(a)
<1> DEFINE r == thread[a]
           t == r.ev.task
<1>1. /\ a \in Thread /\ a # Http
      /\ thread \in Threads(Nat, TaskEvent)
      /\ r \in ThreadRecord(Nat, TaskEvent)
      /\ Consistent(a, r, TaskEvent)
      /\ Hand(a, r)
      /\ task \in [Task -> TaskStatus]
      /\ attempts \in [Task -> Nat]
  BY OrchestratorAssumption DEF State, Inv, Threads, Thread, Kinds, RowsTyped
<1>2. r.pc \in {"handle", "giveUp"}
  BY DEF HandleEvent, HandlePlanCreated, HandleStarted, HandleCompleted, RetrySameStep, GiveUp,
         HandleAccepted, HandleRework, HandlePolicyDecision, Handling
<1>3. /\ r.out = {} /\ r.end \in {"ack", "giveUp"} /\ r.ev # NoEvent
      /\ r.ev # PlanCreated => r.ev \in TaskEvent /\ t \in Task /\ r.ev.n \in Nat
      /\ r.pc = "giveUp" => r.end = "giveUp"
  <2>1. r.out = {} /\ r.end \in {"ack", "giveUp"} /\ r.ev # NoEvent
    BY <1>1, <1>2 DEF Hand, Consistent, ThreadRecord, End
  <2>2. r.ev # PlanCreated => r.ev \in TaskEvent
    BY <1>1, <2>1 DEF ThreadRecord
  <2> QED
    BY <1>1, <2>1, <2>2 DEF TaskEvent, Consistent
<1>4. \A type \in EventType : Handling(a, type) => r.ev \in Of({type}) /\ r.ev # PlanCreated
  BY <1>3, TaskHandler DEF Handling, Of
<1> DEFINE Common == /\ Becomes(a, thread'[a])
                     /\ thread'[a].ev = r.ev
                     /\ thread'[a].batch = r.batch
                     /\ thread'[a].end \in {r.end, "giveUp", "ack"}
                     /\ thread'[a].end = "giveUp" => r.end = "giveUp" \/ thread'[a].out # {}
                     /\ thread'[a].pc \in {"dispatch", "emit", "refresh", "ack", "giveUp"}
                     /\ thread'[a].pc = "dispatch" => thread'[a].out = {}
                     /\ thread'[a].pc # "dispatch" => (thread'[a].out # {} <=> thread'[a].pc = "emit")
<1>5. ASSUME NEW s \in ThreadRecord(Nat, TaskEvent), Settle(a, s), s.ev = r.ev,
             s.batch = r.batch, s.end \in {"ack", "giveUp"}, s.end \in {r.end, "giveUp", "ack"},
             s.end = "giveUp" => r.end = "giveUp" \/ s.out # {}
      PROVE  Common /\ thread'[a].out = s.out /\ thread'[a].end = s.end
  BY <1>1, <1>3, <1>5, Settled DEF SameHands
<1>6. ASSUME NEW n \in Nat, GoDispatch(a, r, n)
      PROVE  Common /\ thread'[a].out = {} /\ thread'[a].end = r.end
  BY <1>1, <1>3, <1>6, Dispatching DEF SameHands
<1>7. ASSUME Settle(a, r) PROVE Common /\ thread'[a].out = {} /\ thread'[a].end = r.end
  BY <1>1, <1>3, <1>5, <1>7
<1>8. ASSUME Settle(a, [r EXCEPT !.refreshes = 1])
      PROVE  Common /\ thread'[a].out = {}
  <2> DEFINE s == [r EXCEPT !.refreshes = 1]
  <2>1. s \in ThreadRecord(Nat, TaskEvent) /\ s.ev = r.ev /\ s.batch = r.batch /\ s.end = r.end
          /\ s.out = {}
    BY <1>1, <1>3 DEF ThreadRecord
  <2>2. Settle(a, s)
    BY <1>8
  <2> HIDE DEF s
  <2> QED
    BY <1>3, <1>5, <2>1, <2>2
<1>9. ASSUME NEW type \in {"ready", "failed"}, NEW n \in Nat, t \in Task,
             Settle(a, [r EXCEPT !.out = {Mk(type, t, n, FALSE)}, !.refreshes = 1])
      PROVE  Common /\ thread'[a].out = {Mk(type, t, n, FALSE)} /\ thread'[a].end = r.end
  <2> DEFINE s == [r EXCEPT !.out = {Mk(type, t, n, FALSE)}, !.refreshes = 1]
  <2>0. Mk(type, t, n, FALSE) \in TaskEvent
    BY <1>9 DEF Mk, TaskEvent, EventType
  <2>1. s \in ThreadRecord(Nat, TaskEvent) /\ s.ev = r.ev /\ s.batch = r.batch /\ s.end = r.end
          /\ s.out = {Mk(type, t, n, FALSE)}
    BY <1>1, <1>3, <2>0 DEF ThreadRecord
  <2>2. Settle(a, s)
    BY <1>9
  <2> HIDE DEF s
  <2> QED
    BY <1>3, <1>5, <2>1, <2>2
<1>10. ASSUME NEW n \in Nat, t \in Task,
              Settle(a, [r EXCEPT !.out = {Mk("failed", t, n, FALSE)}, !.refreshes = 1,
                                  !.end = "giveUp"])
       PROVE  Common /\ thread'[a].out = {Mk("failed", t, n, FALSE)} /\ thread'[a].end = "giveUp"
  <2> DEFINE s == [r EXCEPT !.out = {Mk("failed", t, n, FALSE)}, !.refreshes = 1, !.end = "giveUp"]
  <2>0. Mk("failed", t, n, FALSE) \in TaskEvent
    BY <1>10 DEF Mk, TaskEvent, EventType
  <2>1. s \in ThreadRecord(Nat, TaskEvent) /\ s.ev = r.ev /\ s.batch = r.batch /\ s.end = "giveUp"
          /\ s.out = {Mk("failed", t, n, FALSE)}
    BY <1>1, <1>3, <2>0 DEF ThreadRecord, End
  <2>2. Settle(a, s)
    BY <1>10
  <2> HIDE DEF s
  <2> QED
    BY <1>3, <1>5, <2>1, <2>2
<1>11. ASSUME Settle(a, [r EXCEPT !.end = "ack"])
       PROVE  Common /\ thread'[a].out = {}
  <2> DEFINE s == [r EXCEPT !.end = "ack"]
  <2>1. s \in ThreadRecord(Nat, TaskEvent) /\ s.ev = r.ev /\ s.batch = r.batch /\ s.end = "ack"
          /\ s.out = {}
    BY <1>1, <1>3 DEF ThreadRecord, End
  <2>2. Settle(a, s)
    BY <1>11
  <2> HIDE DEF s
  <2> QED
    BY <1>5, <2>1, <2>2
<1> HIDE DEF Common
<1> SUFFICES /\ Common /\ HandlerEffect(a)
             /\ UNCHANGED <<job, seen>> \/ Forget(a)
             /\ UNCHANGED <<queues, workers, services, used>>
  BY <1>2, <1>3 DEF HandlerFrameOf, Common
<1>12. CASE HandlePlanCreated(a)
  <2>1. r.ev = PlanCreated
    <3>1. r.ev.type = "plan_created"
      BY <1>12 DEF HandlePlanCreated, Handling
    <3>2. r.ev \notin TaskEvent
      BY <3>1 DEF TaskEvent, EventType
    <3> QED
      BY <1>3, <3>2
  <2> QED
    BY <1>6, <1>12, <2>1 DEF HandlePlanCreated, Handling, HandlerEffect, rows
<1>13. CASE HandleStarted(a)
  BY <1>4, <1>7, <1>13 DEF HandleStarted, Handling, EventType, HandlerEffect, Writes
<1>14. CASE HandleCompleted(a)
  BY <1>4, <1>6, <1>14 DEF HandleCompleted, Handling, EventType, HandlerEffect, Writes
<1>15. CASE RetrySameStep(a)
  <2> DEFINE next == (IF r.ev.n > attempts[t] THEN r.ev.n ELSE attempts[t]) + 1
  <2>1. r.pc = "handle" /\ r.ev \in Of({"failed"}) /\ t \in Task /\ next \in Nat
    BY <1>1, <1>3, <1>4, <1>15 DEF RetrySameStep, Handling, EventType
  <2>2. /\ RetriesSameStep(r.ev) /\ Forget(a) /\ UNCHANGED <<queues, workers, services, used>>
        /\ \/ /\ task' = [task EXCEPT ![t] = "ready"]
              /\ job' = Committed(a, "running")
              /\ Settle(a, [r EXCEPT !.out = {Mk("ready", t, next, FALSE)}, !.refreshes = 1])
           \/ /\ t \in BadInput
              /\ task' = [task EXCEPT ![t] = "failed"]
              /\ job' = Committed(a, "failed")
              /\ Settle(a, [r EXCEPT !.out = {Mk("failed", t, next, FALSE)}, !.refreshes = 1,
                                     !.end = "giveUp"])
    BY <1>15 DEF RetrySameStep
  <2> HIDE DEF next
  <2> QED
    BY <1>9, <1>10, <2>1, <2>2 DEF HandlerEffect, Writes
<1>16. CASE GiveUp(a)
  BY <1>3, <1>4, <1>11, <1>16 DEF GiveUp, Handling, EventType, HandlerEffect, Writes
<1>17. CASE HandleAccepted(a)
  BY <1>4, <1>6, <1>17 DEF HandleAccepted, Handling, EventType, HandlerEffect, Writes
<1>18. CASE HandleRework(a)
  BY <1>4, <1>6, <1>8, <1>18 DEF HandleRework, Handling, EventType, HandlerEffect, Writes
<1>19. CASE HandlePolicyDecision(a)
  <2> DEFINE next == attempts[t] + 1
  <2>1. r.pc = "handle" /\ r.ev \in Of({"allow", "deny"}) /\ t \in Task
          /\ next \in Nat /\ attempts[t] \in Nat
    BY <1>1, <1>3, <1>4, <1>19 DEF HandlePolicyDecision, Handling, EventType, Of
  <2>2. /\ UNCHANGED <<job, seen, queues, workers, services, used>>
        /\ \/ task[t] \notin {"pending", "blocked"} /\ Settle(a, r) /\ UNCHANGED task
           \/ /\ task[t] \in {"pending", "blocked"}
              /\ \E n \in Nat :
                   /\ task' = [task EXCEPT ![t] = "failed"]
                   /\ Settle(a, [r EXCEPT !.out = {Mk("failed", t, n, FALSE)}, !.refreshes = 1])
           \/ /\ task[t] \in {"pending", "blocked"}
              /\ \E n \in Nat :
                   /\ task' = [task EXCEPT ![t] = "ready"]
                   /\ Settle(a, [r EXCEPT !.out = {Mk("ready", t, n, FALSE)}, !.refreshes = 1])
    BY <1>19, <2>1 DEF HandlePolicyDecision
  <2> HIDE DEF next
  <2>3. CASE task[t] \notin {"pending", "blocked"} /\ Settle(a, r) /\ UNCHANGED task
    BY <1>7, <2>1, <2>2, <2>3 DEF HandlerEffect
  <2>4. ASSUME NEW type \in {"ready", "failed"}, NEW n \in Nat,
               task[t] \in {"pending", "blocked"}, task' = [task EXCEPT ![t] = type],
               Settle(a, [r EXCEPT !.out = {Mk(type, t, n, FALSE)}, !.refreshes = 1])
        PROVE  Common /\ HandlerEffect(a) /\ UNCHANGED <<queues, workers, services, used>>
    BY <1>9, <2>1, <2>2, <2>4 DEF HandlerEffect, Writes
  <2> QED
    BY <2>2, <2>3, <2>4
<1> QED
  BY <1>12, <1>13, <1>14, <1>15, <1>16, <1>17, <1>18, <1>19 DEF HandleEvent

\* What enqueue_ready_tasks, emit_event and _refresh_job_status have in common: the thread
\* keeps its entry and its end, and does not begin with an entry.
ProceedFrameOf(x) ==
  /\ Becomes(x, thread'[x])
  /\ thread'[x].ev = thread[x].ev
  /\ thread'[x].end = thread[x].end
  /\ thread'[x].pc \in {"commit", "emit", "refresh", thread[x].end}
  /\ thread'[x].out # {} <=> thread'[x].pc = "emit"
  /\ thread'[x].batch # {} => thread'[x].pc = "commit"
  /\ UNCHANGED <<job, seen>> \/ Forget(x)
  /\ UNCHANGED <<reworks, inbox, pending, held, orphaned, toCritic, used>>

\* The status a task is left in with an event of this type.
StatusFor(type) ==
  IF type = "ready" THEN "ready" ELSE IF type = "failed" THEN "failed" ELSE "blocked"

ReadEffect(x) ==
  /\ thread[x].pc = "dispatch" /\ thread'[x].out = {}
  /\ UNCHANGED <<rows, queues, workers, services>>
  /\ \/ thread'[x].batch = {}
     \/ thread'[x].batch = ReadyTasks(task, Deps) /\ thread'[x].pc = "commit"

\* Of each task of the batch, the commit writes the status that goes with the one event it
\* will emit about it.
CommitEffect(x) ==
  LET S == thread[x].batch IN
  /\ thread[x].pc = "commit" /\ thread[x].out = {} /\ thread'[x].batch = {}
  /\ S \subseteq Task
  /\ task' \in [Task -> TaskStatus]
  /\ \A t \in Task \ S : task'[t] = task[t]
  /\ \A t \in S : \E type \in Emitted, n \in Nat :
       Mk(type, t, n, FALSE) \in thread'[x].out /\ task'[t] = StatusFor(type)
  /\ \A e \in thread'[x].out : e \in Of(Emitted) /\ e.task \in S /\ ~e.retryable
  /\ \A e, f \in thread'[x].out : e.task = f.task => e = f
  /\ UNCHANGED <<job, queues, workers, services>>

EmitEffect(x) ==
  /\ thread[x].pc = "emit" /\ thread'[x].batch = {}
  /\ \E e \in thread[x].out :
       /\ thread'[x].out = thread[x].out \ {e}
       /\ ready' = IF e.type = "ready" THEN Append(ready, e) ELSE ready
       /\ toPolicy' = IF e.type = "policy_check" THEN Append(toPolicy, e) ELSE toPolicy
       /\ stream' = IF e.type = "failed"
                    THEN [stream EXCEPT !["tasks"] = Append(@, e)] ELSE stream
  /\ UNCHANGED rows

RefreshEffect(x) ==
  /\ thread[x].pc = "refresh" /\ thread[x].out = {} /\ thread'[x].out = {} /\ thread'[x].batch = {}
  /\ job' = Committed(x, StatusRead(x)) /\ Forget(x)
  /\ UNCHANGED <<task, queues, workers, services>>

ProceedEffect(x) == ReadEffect(x) \/ CommitEffect(x) \/ EmitEffect(x) \/ RefreshEffect(x)

\* What enqueue_ready_tasks makes of a task it has read, and the event it emits.
LEMMA FateIs ==
  ASSUME NEW n \in Nat, NEW valid \in BOOLEAN
  PROVE  /\ EventOf[Fate(n, valid)] \in Emitted
         /\ Fate(n, valid) = StatusFor(EventOf[Fate(n, valid)])
         /\ Counted(n) \in Nat
BY OrchestratorAssumption DEF Fate, EventOf, Emitted, Checks, StatusFor, Counted

\* A step of a thread within its handler is one of these.
LEMMA ProceedIs ==
  ASSUME State, NEW x \in Thread, Proceed(x)
  PROVE  ProceedFrameOf(x) /\ ProceedEffect(x)
<1> DEFINE r == thread[x]
<1>1. /\ thread \in Threads(Nat, TaskEvent)
      /\ r \in ThreadRecord(Nat, TaskEvent)
      /\ Consistent(x, r, TaskEvent)
      /\ Hand(x, r)
      /\ task \in [Task -> TaskStatus]
      /\ attempts \in [Task -> Nat]
      /\ r.end \in End /\ r.refreshes \in Nat
  BY DEF State, Inv, Threads, Kinds, RowsTyped, ThreadRecord
<1> DEFINE Common == /\ Becomes(x, thread'[x])
                     /\ thread'[x].ev = r.ev
                     /\ thread'[x].end = r.end
                     /\ thread'[x].pc \in {"commit", "emit", "refresh", r.end}
                     /\ thread'[x].out # {} <=> thread'[x].pc = "emit"
                     /\ thread'[x].batch # {} => thread'[x].pc = "commit"
<1>2. ASSUME NEW s \in ThreadRecord(Nat, TaskEvent), Settle(x, s), s.ev = r.ev, s.end = r.end,
             s.batch = {}
      PROVE  Common /\ thread'[x].out = s.out /\ thread'[x].batch = {}
  BY <1>1, <1>2, Settled DEF SameHands, End
<1> HIDE DEF Common
<1>3. CASE DispatchRead(x)
  <2> DEFINE S    == ReadyTasks(task, Deps)
             snap == [t \in Task |-> IF t \in S THEN attempts[t] ELSE 0]
             s    == [r EXCEPT !.pc = "commit", !.refreshes = @ + 1, !.batch = S, !.snap = snap]
  <2>1. r.pc = "dispatch" /\ r.out = {} /\ r.batch = {}
    BY <1>1, <1>3 DEF DispatchRead, Hand
  <2>2. UNCHANGED <<rows, seen, queues, workers, services, used>>
    BY <1>3 DEF DispatchRead
  <2>3. CASE Settle(x, r)
    BY <1>1, <1>2, <2>1, <2>2, <2>3
    DEF Common, ProceedFrameOf, ProceedEffect, ReadEffect, rows, queues, workers, services
  <2>4. CASE thread' = [thread EXCEPT ![x] = s]
    <3> HIDE DEF S, snap
    <3>1. s.ev = r.ev /\ s.end = r.end /\ s.out = r.out /\ s.pc = "commit" /\ s.batch = S
      BY <1>1 DEF ThreadRecord
    <3> HIDE DEF s
    <3>2. Becomes(x, s)
      BY <1>1, <2>4, BecomesUpdate
    <3>3. thread'[x] = s /\ Becomes(x, thread'[x])
      BY <3>2 DEF Becomes
    <3> QED
      BY <2>1, <2>2, <3>1, <3>3
      DEF S, ProceedFrameOf, ProceedEffect, ReadEffect, rows, queues, workers, services
  <2> QED
    BY <1>3, <2>3, <2>4 DEF DispatchRead
<1>4. CASE DispatchCommit(x)
  <2> DEFINE S == r.batch
  <2>1. PICK invalid \in SUBSET (S \cap BadInput) :
          /\ task' = [t \in Task |->
                       IF t \in S THEN Fate(r.snap[t], t \notin invalid) ELSE task[t]]
          /\ Settle(x, [r EXCEPT !.batch = {}, !.snap = NoCount,
               !.out = {Mk(EventOf[Fate(r.snap[t], t \notin invalid)], t, Counted(r.snap[t]), FALSE)
                          : t \in S}])
    BY <1>4 DEF DispatchCommit
  <2> DEFINE type(t) == EventOf[Fate(r.snap[t], t \notin invalid)]
             out == {Mk(EventOf[Fate(r.snap[t], t \notin invalid)], t, Counted(r.snap[t]), FALSE)
                       : t \in S}
             s   == [r EXCEPT !.batch = {}, !.snap = NoCount, !.out = out]
  <2>2. S \subseteq Task /\ r.snap \in [Task -> Nat] /\ r.pc = "commit" /\ r.out = {}
    BY <1>1, <1>4 DEF ThreadRecord, Hand, DispatchCommit
  <2>3. \A t \in S : /\ type(t) \in Emitted
                     /\ Fate(r.snap[t], t \notin invalid) = StatusFor(type(t))
                     /\ Counted(r.snap[t]) \in Nat
    BY <2>2, FateIs
  <2>4. \A t \in Task \ S : task'[t] = task[t]
    BY <2>1
  <2>5. \A t \in S : Mk(type(t), t, Counted(r.snap[t]), FALSE) \in out /\ task'[t] = StatusFor(type(t))
    BY <2>1, <2>2, <2>3
  <2>6. /\ \A e \in out : e \in Of(Emitted) /\ e.task \in S /\ ~e.retryable
        /\ \A e, f \in out : e.task = f.task => e = f
    <3> DEFINE made(t) == Mk(type(t), t, Counted(r.snap[t]), FALSE)
    <3>1. out = {made(t) : t \in S}
      OBVIOUS
    <3>2. ASSUME NEW t \in S
          PROVE  made(t) \in Of(Emitted) /\ made(t).task = t /\ ~made(t).retryable
      <4>1. /\ type(t) \in Emitted /\ Emitted \subseteq EventType
            /\ t \in Task /\ Counted(r.snap[t]) \in Nat
        BY <2>2, <2>3 DEF Emitted, EventType, Checks
      <4> HIDE DEF type
      <4> QED
        BY <4>1 DEF Of, Mk, TaskEvent
    <3> HIDE DEF out, made
    <3> QED
      BY <3>1, <3>2
  <2>7. task' \in [Task -> TaskStatus]
    <3>1. \A t \in S : StatusFor(type(t)) \in TaskStatus
      BY DEF StatusFor, TaskStatus
    <3> QED
      BY <1>1, <2>1, <2>3, <3>1
  <2>8. \A t \in S : \E ty \in Emitted, n \in Nat :
          Mk(ty, t, n, FALSE) \in out /\ task'[t] = StatusFor(ty)
    BY <2>3, <2>5
  <2>9. out \subseteq TaskEvent
    BY <2>6 DEF Of
  <2>10. Settle(x, s)
    BY <2>1
  <2> HIDE DEF out, type
  <2>11. s \in ThreadRecord(Nat, TaskEvent) /\ s.ev = r.ev /\ s.end = r.end /\ s.batch = {}
           /\ s.out = out
    BY <1>1, <2>9 DEF ThreadRecord, NoCount
  <2> HIDE DEF s
  <2>12. Common /\ thread'[x].out = out /\ thread'[x].batch = {}
    BY <1>2, <2>10, <2>11
  <2> QED
    BY <1>4, <2>2, <2>4, <2>6, <2>7, <2>8, <2>12
    DEF DispatchCommit, Common, ProceedFrameOf, ProceedEffect, CommitEffect, queues, workers, services
<1>5. CASE Emit(x)
  <2>1. PICK e \in r.out :
          /\ Settle(x, [r EXCEPT !.out = @ \ {e}])
          /\ ready' = IF e.type = "ready" THEN Append(ready, e) ELSE ready
          /\ toPolicy' = IF e.type = "policy_check" THEN Append(toPolicy, e) ELSE toPolicy
          /\ stream' = IF e.type = "failed"
                       THEN [stream EXCEPT !["tasks"] = Append(@, e)] ELSE stream
    BY <1>5 DEF Emit
  <2> DEFINE s == [r EXCEPT !.out = @ \ {e}]
  <2>2. r.pc = "emit" /\ r.batch = {}
    BY <1>1, <1>5 DEF Emit, Hand
  <2>3. s \in ThreadRecord(Nat, TaskEvent) /\ s.ev = r.ev /\ s.end = r.end /\ s.batch = {}
          /\ s.out = r.out \ {e}
    BY <1>1, <2>2 DEF ThreadRecord
  <2>4. Settle(x, s)
    BY <2>1
  <2> HIDE DEF s
  <2>5. Common /\ thread'[x].out = r.out \ {e} /\ thread'[x].batch = {}
    BY <1>2, <2>3, <2>4
  <2> QED
    BY <1>5, <2>1, <2>2, <2>5
    DEF Emit, Common, ProceedFrameOf, ProceedEffect, EmitEffect, rows
<1>6. CASE Refresh(x)
  <2> DEFINE s == [r EXCEPT !.refreshes = @ - 1]
  <2>1. r.pc = "refresh" /\ r.out = {} /\ r.batch = {} /\ r.refreshes - 1 \in Nat
    BY <1>1, <1>6 DEF Refresh, Hand, Consistent
  <2>2. s \in ThreadRecord(Nat, TaskEvent) /\ s.ev = r.ev /\ s.end = r.end /\ s.batch = {}
          /\ s.out = {}
    BY <1>1, <2>1 DEF ThreadRecord
  <2>3. Settle(x, s)
    BY <1>6 DEF Refresh
  <2> HIDE DEF s
  <2>4. Common /\ thread'[x].out = {} /\ thread'[x].batch = {}
    BY <1>2, <2>2, <2>3
  <2> QED
    BY <1>6, <2>1, <2>4
    DEF Refresh, Common, ProceedFrameOf, ProceedEffect, RefreshEffect, queues, workers, services
<1> QED
  BY <1>3, <1>4, <1>5, <1>6 DEF Proceed

\* A replica with nothing in its hand takes an entry e from where it waits.
Picks(a, e) ==
  /\ thread[a].pc = "idle"
  /\ Becomes(a, Handle(e))

\* An orchestrator takes an entry: the first of a batch just read, the next one of its batch or
\* one that nobody acknowledged; or it acknowledges.
LEMMA LoopIs ==
  ASSUME State, NEW a \in Api, Deliver(a) \/ NextEntry(a) \/ RecoverPending(a) \/ Ack(a)
  PROVE  /\ UNCHANGED <<rows, workers, services, used>>
         /\ \/ \E batch \in Seq(TaskEvent) :
                 /\ batch = Oldest(stream["tasks"]) \o Oldest(stream["critic"])
                              \o Oldest(stream["policy"])
                 /\ batch # <<>> /\ inbox[a] = <<>>
                 /\ Picks(a, Head(batch)) /\ inbox' = [inbox EXCEPT ![a] = Tail(batch)]
                 /\ stream' = [q \in Stream |-> Remaining(stream[q])]
                 /\ pending' = pending
            \/ /\ inbox[a] # <<>> /\ Picks(a, Head(inbox[a]))
               /\ inbox' = [inbox EXCEPT ![a] = Tail(@)]
               /\ UNCHANGED <<stream, pending>>
            \/ /\ inbox[a] = <<>> /\ pending # <<>> /\ Picks(a, Head(pending))
               /\ pending' = Tail(pending)
               /\ UNCHANGED <<stream, inbox>>
            \/ /\ thread[a].pc = "ack" /\ Becomes(a, Idle)
               /\ UNCHANGED queues
<1>1. a \in Thread /\ thread \in Threads(Nat, TaskEvent)
  BY DEF Thread, State, Inv
<1>2. CASE Deliver(a)
  <2> DEFINE batch == Oldest(stream["tasks"]) \o Oldest(stream["critic"])
                        \o Oldest(stream["policy"])
  <2>1. \A q \in Stream : stream[q] \in Seq(TaskEvent)
    BY DEF State, Inv, QueuesTyped
  <2>2. \A q \in Stream : Oldest(stream[q]) \in Seq(TaskEvent)
    BY <2>1, BatchTyped
  <2>3. batch \in Seq(TaskEvent)
    BY <2>2, ConcatProperties DEF Stream
  <2>4. /\ batch # <<>> /\ thread[a].pc = "idle" /\ inbox[a] = <<>>
        /\ thread' = [thread EXCEPT ![a] = Handle(Head(batch))]
        /\ inbox' = [inbox EXCEPT ![a] = Tail(batch)]
        /\ stream' = [q \in Stream |-> Remaining(stream[q])]
        /\ UNCHANGED <<rows, pending, workers, services, used>>
    BY <1>2 DEF Deliver
  <2>5. batch = Oldest(stream["tasks"]) \o Oldest(stream["critic"]) \o Oldest(stream["policy"])
    OBVIOUS
  <2> HIDE DEF batch
  <2>6. Picks(a, Head(batch))
    BY <1>1, <2>4, BecomesUpdate DEF Picks
  <2> QED
    BY <2>3, <2>4, <2>5, <2>6
<1>3. CASE NextEntry(a)
  BY <1>1, <1>3, BecomesUpdate DEF NextEntry, Picks
<1>4. CASE RecoverPending(a)
  BY <1>1, <1>4, BecomesUpdate DEF RecoverPending, Picks
<1>5. CASE Ack(a)
  BY <1>1, <1>5, BecomesUpdate DEF Ack
<1> QED
  BY <1>2, <1>3, <1>4, <1>5

-----------------------------------------------------------------------------
(* The kinds are invariant.                                                *)

\* What the queues carry, apart from the threads.
Queued ==
  /\ stream["tasks"] \in Seq(Of(Reports))
  /\ stream["critic"] \in Seq(Of(Reviews))
  /\ stream["policy"] \in Seq(Of(Decisions))
  /\ inbox \in [Api -> Seq(Of(Heard))]
  /\ pending \in Seq(Of(Heard) \cup {PlanCreated})
  /\ ready \in Seq(Of({"ready"}))
  /\ held \in [Worker -> Of({"ready"}) \cup {NoEvent}]
  /\ orphaned \in Seq(Of({"ready"}))
  /\ toPolicy \in Seq(Of(Checks))
  /\ toCritic \in Seq(Of(IF Critic THEN {"completed"} ELSE {}))

\* The thread that takes a step keeps to what it may carry.
LEMMA HandsKept ==
  ASSUME Kinds, NEW x \in Thread, Becomes(x, thread'[x]), Hand(x, thread'[x]), Queued'
  PROVE  Kinds'
BY DEF Kinds, Queued, Becomes

\* Taking an entry.
LEMMA HandleHand ==
  ASSUME NEW a \in Api, NEW e \in Of(Heard) \cup {PlanCreated}
  PROVE  Hand(a, Handle(e)) /\ Hand(a, Idle) /\ Hand(Http, Idle)
BY OrchestratorAssumption DEF Hand, Handle, Idle

\* The orchestrator's loop carries entries from the streams to its hand.
LEMMA LoopKinds ==
  ASSUME State, NEW a \in Api, Deliver(a) \/ NextEntry(a) \/ RecoverPending(a) \/ Ack(a)
  PROVE  Kinds'
<1>1. a \in Thread /\ Kinds /\ Queued
  BY DEF State, Kinds, Queued, Thread
<1>2. UNCHANGED <<rows, workers, services, used>>
  BY LoopIs
<1>3. CASE \E batch \in Seq(TaskEvent) :
             /\ batch = Oldest(stream["tasks"]) \o Oldest(stream["critic"])
                          \o Oldest(stream["policy"])
             /\ batch # <<>> /\ inbox[a] = <<>>
             /\ Picks(a, Head(batch)) /\ inbox' = [inbox EXCEPT ![a] = Tail(batch)]
             /\ stream' = [q \in Stream |-> Remaining(stream[q])]
             /\ pending' = pending
  <2>1. PICK batch \in Seq(TaskEvent) :
             /\ batch = Oldest(stream["tasks"]) \o Oldest(stream["critic"])
                          \o Oldest(stream["policy"])
             /\ batch # <<>> /\ inbox[a] = <<>>
             /\ Picks(a, Head(batch)) /\ inbox' = [inbox EXCEPT ![a] = Tail(batch)]
             /\ stream' = [q \in Stream |-> Remaining(stream[q])]
             /\ pending' = pending
    BY <1>3
  <2>2. /\ Oldest(stream["tasks"]) \in Seq(Of(Reports)) /\ Remaining(stream["tasks"]) \in Seq(Of(Reports))
        /\ Oldest(stream["critic"]) \in Seq(Of(Reviews)) /\ Remaining(stream["critic"]) \in Seq(Of(Reviews))
        /\ Oldest(stream["policy"]) \in Seq(Of(Decisions)) /\ Remaining(stream["policy"]) \in Seq(Of(Decisions))
    BY <1>1, BatchTyped DEF Queued
  <2>3. Of(Reports) \subseteq Of(Heard) /\ Of(Reviews) \subseteq Of(Heard) /\ Of(Decisions) \subseteq Of(Heard)
    BY DEF Of, Heard
  <2>4. /\ Oldest(stream["tasks"]) \in Seq(Of(Heard))
        /\ Oldest(stream["critic"]) \in Seq(Of(Heard))
        /\ Oldest(stream["policy"]) \in Seq(Of(Heard))
    BY <2>2, <2>3, SeqMonotonic
  <2>5. batch \in Seq(Of(Heard))
    BY <2>1, <2>4, ConcatProperties
  <2>6. Head(batch) \in Of(Heard) /\ Tail(batch) \in Seq(Of(Heard))
    BY <2>1, <2>5, HeadTailProperties
  <2>7. Queued'
    BY <1>1, <1>2, <2>1, <2>2, <2>6 DEF Queued, Stream, workers, services
  <2>8. Hand(a, thread'[a]) /\ Becomes(a, thread'[a])
    BY <2>1, <2>6, HandleHand DEF Picks, Becomes
  <2> QED
    BY <1>1, <2>7, <2>8, HandsKept
<1>4. CASE /\ inbox[a] # <<>> /\ Picks(a, Head(inbox[a]))
           /\ inbox' = [inbox EXCEPT ![a] = Tail(@)]
           /\ UNCHANGED <<stream, pending>>
  <2>1. Head(inbox[a]) \in Of(Heard) /\ Tail(inbox[a]) \in Seq(Of(Heard))
    BY <1>1, <1>4, HeadTailProperties DEF Queued
  <2>2. Queued'
    BY <1>1, <1>2, <1>4, <2>1 DEF Queued, workers, services
  <2>3. Hand(a, thread'[a]) /\ Becomes(a, thread'[a])
    BY <1>4, <2>1, HandleHand DEF Picks, Becomes
  <2> QED
    BY <1>1, <2>2, <2>3, HandsKept
<1>5. CASE /\ inbox[a] = <<>> /\ pending # <<>> /\ Picks(a, Head(pending))
           /\ pending' = Tail(pending)
           /\ UNCHANGED <<stream, inbox>>
  <2>1. Head(pending) \in Of(Heard) \cup {PlanCreated}
          /\ Tail(pending) \in Seq(Of(Heard) \cup {PlanCreated})
    BY <1>1, <1>5, HeadTailProperties DEF Queued
  <2>2. Queued'
    BY <1>1, <1>2, <1>5, <2>1 DEF Queued, workers, services
  <2>3. Hand(a, thread'[a]) /\ Becomes(a, thread'[a])
    BY <1>5, <2>1, HandleHand DEF Picks, Becomes
  <2> QED
    BY <1>1, <2>2, <2>3, HandsKept
<1>6. CASE thread[a].pc = "ack" /\ Becomes(a, Idle) /\ UNCHANGED queues
  <2>1. Queued'
    BY <1>1, <1>2, <1>6 DEF Queued, queues, workers, services
  <2>2. Hand(a, thread'[a]) /\ Becomes(a, thread'[a])
    BY <1>6, HandleHand DEF Becomes
  <2> QED
    BY <1>1, <2>1, <2>2, HandsKept
<1> QED
  BY <1>3, <1>4, <1>5, <1>6, LoopIs

\* A handler has only task.ready and task.failed to emit.
LEMMA HandlerKinds ==
  ASSUME State, NEW a \in Api, HandleEvent(a)
  PROVE  Kinds'
<1>1. a \in Thread /\ a # Http /\ Kinds /\ Queued /\ Hand(a, thread[a])
  BY OrchestratorAssumption DEF State, Kinds, Queued, Thread
<1>2. HandlerFrameOf(a) /\ HandlerEffect(a)
  BY HandlerIs
<1>3. Queued'
  BY <1>1, <1>2 DEF HandlerFrameOf, Queued, queues, workers, services
<1>4. thread'[a].out \subseteq Of(Emitted)
  <2>1. \A type \in {"ready", "failed"}, n \in Nat :
          thread[a].ev \in TaskEvent => Mk(type, thread[a].ev.task, n, FALSE) \in Of(Emitted)
    BY DEF Mk, Of, TaskEvent, EventType, Emitted
  <2> QED
    BY <1>2, <2>1 DEF HandlerEffect, Writes, Of
<1>5. Hand(a, thread'[a])
  BY <1>1, <1>2, <1>4 DEF HandlerFrameOf, Hand
<1> QED
  BY <1>1, <1>2, <1>3, <1>5, HandsKept DEF HandlerFrameOf

\* What a handler emits goes where its kind belongs.
LEMMA ProceedKinds ==
  ASSUME State, NEW x \in Thread, Proceed(x)
  PROVE  Kinds'
<1>1. Kinds /\ Queued /\ Hand(x, thread[x])
  BY DEF State, Kinds, Queued
<1>2. ProceedFrameOf(x) /\ ProceedEffect(x)
  BY ProceedIs
<1>3. thread'[x].out \subseteq Of(Emitted)
  BY <1>1, <1>2 DEF ProceedEffect, ReadEffect, CommitEffect, EmitEffect, RefreshEffect, Hand
<1>4. Hand(x, thread'[x])
  BY <1>1, <1>2, <1>3 DEF ProceedFrameOf, Hand
<1>5. Queued'
  <2>1. CASE EmitEffect(x)
    <3>1. PICK e \in thread[x].out :
            /\ ready' = IF e.type = "ready" THEN Append(ready, e) ELSE ready
            /\ toPolicy' = IF e.type = "policy_check" THEN Append(toPolicy, e) ELSE toPolicy
            /\ stream' = IF e.type = "failed"
                         THEN [stream EXCEPT !["tasks"] = Append(@, e)] ELSE stream
      BY <2>1 DEF EmitEffect
    <3>2. /\ e.type = "ready" => e \in Of({"ready"})
          /\ e.type = "policy_check" => e \in Of(Checks)
          /\ e.type = "failed" => e \in Of(Reports)
      BY <1>1 DEF Hand, Of, Emitted, Reports, Checks
    <3>3. ready' \in Seq(Of({"ready"})) /\ toPolicy' \in Seq(Of(Checks))
      BY <1>1, <3>1, <3>2, QueueTyped DEF Queued
    <3>4. /\ stream'["tasks"] \in Seq(Of(Reports))
          /\ stream'["critic"] = stream["critic"] /\ stream'["policy"] = stream["policy"]
      <4>1. stream \in [Stream -> Seq(TaskEvent)]
        BY DEF State, Inv, QueuesTyped
      <4>2. e.type = "failed" => Append(stream["tasks"], e) \in Seq(Of(Reports))
        BY <1>1, <3>2, QueueTyped DEF Queued
      <4> QED
        BY <1>1, <3>1, <4>1, <4>2 DEF Queued, Stream
    <3> QED
      BY <1>1, <1>2, <2>1, <3>3, <3>4 DEF EmitEffect, ProceedFrameOf, Queued
  <2>2. CASE ReadEffect(x) \/ CommitEffect(x) \/ RefreshEffect(x)
    <3>1. UNCHANGED <<queues, workers, services>>
      BY <2>2 DEF ReadEffect, CommitEffect, RefreshEffect
    <3> QED
      BY <1>1, <3>1 DEF Queued, queues, workers, services
  <2> QED
    BY <1>2, <2>1, <2>2 DEF ProceedEffect
<1> QED
  BY <1>1, <1>2, <1>4, <1>5, HandsKept DEF ProceedFrameOf

\* An error or a crash puts what was in the hand, and in the inbox, where it waits for a claim.
LEMMA ApiFaultKinds ==
  ASSUME State, ApiFault
  PROVE  Kinds'
<1>1. PICK a \in Api : HandlerError(a) \/ ApiCrash(a)
  BY DEF ApiFault
<1>2. /\ a \in Thread /\ Http \in Thread /\ a # Http /\ Kinds /\ Queued /\ Hand(a, thread[a])
      /\ thread \in Threads(Nat, TaskEvent)
  BY OrchestratorAssumption DEF State, Inv, Kinds, Queued, Thread
<1>3. Unacked(a) \in Seq(Of(Heard) \cup {PlanCreated})
  <2>1. thread[a].pc # "idle" => thread[a].ev \in Of(Heard) \cup {PlanCreated}
    BY <1>2 DEF Threads, Consistent, Hand
  <2> QED
    BY <1>2, <2>1, QueueTyped DEF Queued, Unacked
<1>4. CASE HandlerError(a)
  <2>1. Becomes(a, Idle)
    BY <1>2, <1>4, BecomesUpdate DEF HandlerError
  <2>2. Queued'
    BY <1>2, <1>3, <1>4 DEF HandlerError, Queued, workers, services
  <2> QED
    BY <1>2, <2>1, <2>2, HandsKept, HandleHand DEF Becomes
<1>5. CASE ApiCrash(a)
  <2>1. inbox[a] \in Seq(Of(Heard) \cup {PlanCreated})
    <3>1. inbox[a] \in Seq(Of(Heard))
      BY <1>2 DEF Queued
    <3> QED
      BY <3>1, SeqMonotonic
  <2>2. Unacked(a) \o inbox[a] \in Seq(Of(Heard) \cup {PlanCreated})
    BY <1>3, <2>1, ConcatProperties
  <2>3. inbox' = [inbox EXCEPT ![a] = <<>>] /\ pending' = Unacked(a) \o inbox[a]
          /\ UNCHANGED <<stream, workers, services>>
    BY <1>5 DEF ApiCrash
  <2>4. <<>> \in Seq(Of(Heard))
    OBVIOUS
  <2>5. Queued'
    BY <1>2, <2>2, <2>3, <2>4 DEF Queued, workers, services
  <2>6. \A x \in Thread : Hand(x, thread'[x])
    <3>1. Hand(Http, [Idle EXCEPT !.pc = "dispatch"]) /\ Hand(Http, Idle) /\ Hand(a, Idle)
      BY OrchestratorAssumption DEF Hand, Idle
    <3>2. /\ thread'[a] = Idle
          /\ thread'[Http] \in {[Idle EXCEPT !.pc = "dispatch"], Idle}
          /\ \A x \in Thread : x # a /\ x # Http => thread'[x] = thread[x]
      BY <1>2, <1>5 DEF ApiCrash, Threads
    <3> QED
      BY <1>2, <3>1, <3>2 DEF Kinds
  <2> QED
    BY <2>5, <2>6 DEF Kinds, Queued
<1> QED
  BY <1>1, <1>4, <1>5

\* A request hands the request thread nothing but a dispatch.
LEMMA RequestKinds ==
  ASSUME State, HttpRequest
  PROVE  Kinds'
<1>1. /\ Http \in Thread /\ Kinds /\ Queued /\ Hand(Http, thread[Http])
      /\ thread \in Threads(Nat, TaskEvent)
      /\ Idle \in ThreadRecord(Nat, TaskEvent)
  BY IdleTyped, OrchestratorAssumption DEF State, Inv, Kinds, Queued, Thread
<1>2. UNCHANGED <<queues, workers, services>>
  BY DEF HttpRequest, CancelJob, ContinueJob, RetryJob, RetryFailedTasks, RetryTask, Reset
<1>3. Queued'
  BY <1>1, <1>2 DEF Queued, queues, workers, services
<1>4. CASE GoDispatch(Http, Idle, 0)
  <2>1. /\ Becomes(Http, thread'[Http])
        /\ SameHands(thread'[Http], Idle)
        /\ thread'[Http].pc = "dispatch"
    BY <1>1, <1>4, Dispatching
  <2>2. Hand(Http, thread'[Http])
    BY <2>1, OrchestratorAssumption DEF Hand, SameHands, Idle
  <2> QED
    BY <1>1, <1>3, <2>1, <2>2, HandsKept
<1>5. CASE UNCHANGED thread
  BY <1>1, <1>3, <1>5 DEF Kinds, Queued
<1> QED
  BY <1>4, <1>5
  DEF HttpRequest, CancelJob, ContinueJob, RetryJob, RetryFailedTasks, RetryTask, Reset

\* A worker that begins with an entry.
LEMMA BeginKinds ==
  ASSUME State, NEW w \in Worker, NEW e \in Of({"ready"}), Begin(w, e)
  PROVE  /\ held' \in [Worker -> Of({"ready"}) \cup {NoEvent}]
         /\ stream'["tasks"] \in Seq(Of(Reports))
         /\ stream'["critic"] = stream["critic"] /\ stream'["policy"] = stream["policy"]
<1> DEFINE start == Mk("started", e.task, e.n, FALSE)
<1>1. start \in Of(Reports)
  BY DEF Mk, Of, TaskEvent, Reports, EventType
<1>2. held' = [held EXCEPT ![w] = e] /\ stream' = [stream EXCEPT !["tasks"] = Append(@, start)]
  BY DEF Begin
<1> HIDE DEF start
<1>3. stream \in [Stream -> Seq(TaskEvent)] /\ held \in [Worker -> Of({"ready"}) \cup {NoEvent}]
        /\ stream["tasks"] \in Seq(Of(Reports))
  BY DEF State, Inv, QueuesTyped, Kinds
<1>4. Append(stream["tasks"], start) \in Seq(Of(Reports))
  BY <1>1, <1>3, QueueTyped
<1> QED
  BY <1>2, <1>3, <1>4 DEF Stream

\* The workers carry task.ready, and report.
LEMMA WorkerKinds ==
  ASSUME State, WorkerStep \/ WorkerFault
  PROVE  Kinds'
<1>1. /\ Kinds /\ Queued
      /\ stream \in [Stream -> Seq(TaskEvent)]
      /\ held \in [Worker -> Of({"ready"}) \cup {NoEvent}]
      /\ NoEvent \notin Of({"ready"})
      /\ \A w \in Worker : held[w] # NoEvent => held[w] \in Of({"ready"})
  BY OrchestratorAssumption DEF State, Inv, QueuesTyped, Kinds, Queued, Of
<1>2. thread' = thread
  BY DEF WorkerStep, WorkerFault, Finish, Take, Claim, Complete, Fail, WorkerCrash, LoseResult, Steal
<1>3. SUFFICES Queued'
  BY <1>1, <1>2 DEF Kinds, Queued
<1>4. \A type \in {"completed", "failed"}, e \in Of({"ready"}), b \in BOOLEAN :
        Mk(type, e.task, e.n, b) \in Of(Reports)
  BY DEF Mk, Of, TaskEvent, Reports, EventType
<1>5. ASSUME NEW w \in Worker, Take(w) PROVE Queued'
  <2>1. ready # <<>> /\ Begin(w, Head(ready)) /\ ready' = Tail(ready)
          /\ UNCHANGED <<inbox, pending, orphaned, services>>
    BY <1>5 DEF Take
  <2>2. Head(ready) \in Of({"ready"}) /\ Tail(ready) \in Seq(Of({"ready"}))
    BY <1>1, <2>1, HeadTailProperties DEF Queued
  <2> QED
    BY <1>1, <2>1, <2>2, BeginKinds DEF Queued, services
<1>6. ASSUME NEW w \in Worker, Claim(w) PROVE Queued'
  <2>1. orphaned # <<>> /\ Begin(w, Head(orphaned)) /\ orphaned' = Tail(orphaned)
          /\ UNCHANGED <<inbox, pending, ready, services>>
    BY <1>6 DEF Claim
  <2>2. Head(orphaned) \in Of({"ready"}) /\ Tail(orphaned) \in Seq(Of({"ready"}))
    BY <1>1, <2>1, HeadTailProperties DEF Queued
  <2> QED
    BY <1>1, <2>1, <2>2, BeginKinds DEF Queued, services
<1>7. ASSUME NEW w \in Worker, NEW v \in Worker, Steal(w, v) PROVE Queued'
  <2>1. held[v] # NoEvent /\ Begin(w, held[v]) /\ UNCHANGED <<inbox, pending, ready, orphaned, services>>
    BY <1>7 DEF Steal
  <2> QED
    BY <1>1, <2>1, BeginKinds DEF Queued, services
<1>8. ASSUME NEW w \in Worker, NEW e \in Of(Reports), held' = [held EXCEPT ![w] = NoEvent],
             stream' = [stream EXCEPT !["tasks"] = Append(@, e)],
             toCritic' \in Seq(Of(IF Critic THEN {"completed"} ELSE {})),
             UNCHANGED <<inbox, pending, ready, orphaned, toPolicy>>
      PROVE  Queued'
  <2>1. Append(stream["tasks"], e) \in Seq(Of(Reports))
    BY <1>1, <1>8, QueueTyped DEF Queued
  <2> QED
    BY <1>1, <1>8, <2>1 DEF Queued, Stream
<1>9. ASSUME NEW w \in Worker, Complete(w) PROVE Queued'
  <2> DEFINE done == Mk("completed", held[w].task, held[w].n, FALSE)
  <2>1. /\ held[w] # NoEvent /\ held' = [held EXCEPT ![w] = NoEvent]
        /\ stream' = [stream EXCEPT !["tasks"] = Append(@, done)]
        /\ toCritic' = IF Critic THEN Append(toCritic, done) ELSE toCritic
        /\ UNCHANGED <<inbox, pending, ready, orphaned, toPolicy>>
    BY <1>9 DEF Complete
  <2>2. done \in Of(Reports) /\ done \in Of({"completed"})
    BY <1>1, <1>4, <2>1 DEF Of, Mk
  <2> HIDE DEF done
  <2>3. toCritic' \in Seq(Of(IF Critic THEN {"completed"} ELSE {}))
    <3>1. CASE Critic
      BY <1>1, <2>1, <2>2, <3>1, QueueTyped DEF Queued
    <3>2. CASE ~Critic
      BY <1>1, <2>1, <3>2 DEF Queued
    <3> QED
      BY <3>1, <3>2
  <2> QED
    BY <1>8, <2>1, <2>2, <2>3
<1>10. ASSUME NEW w \in Worker, NEW kind \in ErrorKind, Fail(w, kind) PROVE Queued'
  <2> DEFINE retry  == Mk("ready", held[w].task, held[w].n + 1, FALSE)
             failed == Mk("failed", held[w].task, held[w].n, kind = "transient")
  <2>1. /\ held[w] # NoEvent /\ held' = [held EXCEPT ![w] = NoEvent]
        /\ UNCHANGED <<inbox, pending, orphaned, toPolicy, toCritic>>
        /\ \/ ready' = Append(ready, retry) /\ UNCHANGED stream
           \/ stream' = [stream EXCEPT !["tasks"] = Append(@, failed)] /\ UNCHANGED ready
    BY <1>10 DEF Fail, services
  <2>2. failed \in Of(Reports) /\ retry \in Of({"ready"})
    <3>1. held[w] \in Of({"ready"}) /\ (kind = "transient") \in BOOLEAN
      BY <1>1, <2>1
    <3>2. failed \in Of(Reports)
      <4>1. \A b \in BOOLEAN : Mk("failed", held[w].task, held[w].n, b) \in Of(Reports)
        BY <1>4, <3>1
      <4> QED
        BY <3>1, <4>1
    <3>3. held[w].task \in Task /\ held[w].n + 1 \in Nat
      BY <3>1 DEF Of, TaskEvent
    <3> QED
      BY <3>2, <3>3 DEF Of, Mk, TaskEvent, EventType
  <2> HIDE DEF retry, failed
  <2>3. CASE ready' = Append(ready, retry) /\ UNCHANGED stream
    <3>1. ready' \in Seq(Of({"ready"}))
      BY <1>1, <2>2, <2>3, QueueTyped DEF Queued
    <3> QED
      BY <1>1, <2>1, <2>3, <3>1 DEF Queued
  <2>4. CASE stream' = [stream EXCEPT !["tasks"] = Append(@, failed)] /\ UNCHANGED ready
    BY <1>1, <1>8, <2>1, <2>2, <2>4 DEF Queued
  <2> QED
    BY <2>1, <2>3, <2>4
<1>11. ASSUME NEW w \in Worker, WorkerCrash(w) PROVE Queued'
  <2>1. /\ held[w] # NoEvent /\ orphaned' = Append(orphaned, held[w])
        /\ held' = [held EXCEPT ![w] = NoEvent] /\ UNCHANGED <<queues, ready, services>>
    BY <1>11 DEF WorkerCrash
  <2>2. orphaned' \in Seq(Of({"ready"}))
    BY <1>1, <2>1, QueueTyped DEF Queued
  <2> QED
    BY <1>1, <2>1, <2>2 DEF Queued, queues, services
<1>12. ASSUME NEW w \in Worker, LoseResult(w) PROVE Queued'
  BY <1>1, <1>12 DEF LoseResult, Queued, queues, services
<1> QED
  BY <1>5, <1>6, <1>7, <1>9, <1>10, <1>11, <1>12 DEF WorkerStep, WorkerFault, Finish

\* The services answer on their own streams.
LEMMA ServiceKinds ==
  ASSUME State, ServiceStep
  PROVE  Kinds'
<1>1. /\ Kinds /\ Queued /\ stream \in [Stream -> Seq(TaskEvent)]
  BY DEF State, Inv, QueuesTyped, Kinds, Queued
<1>2. thread' = thread
  BY DEF ServiceStep, DecidePolicy, Review, LoseCheck, LoseReview
<1>3. SUFFICES Queued'
  BY <1>1, <1>2 DEF Kinds, Queued
<1>4. CASE DecidePolicy
  <2>1. PICK d \in {"allow", "deny"} :
          stream' = [stream EXCEPT !["policy"] = Append(@, Mk(d, Head(toPolicy).task, 0, FALSE))]
    BY <1>4 DEF DecidePolicy
  <2>2. Head(toPolicy) \in Of(Checks) /\ Tail(toPolicy) \in Seq(Of(Checks))
    BY <1>1, <1>4, HeadTailProperties DEF DecidePolicy, Queued
  <2> DEFINE e == Mk(d, Head(toPolicy).task, 0, FALSE)
  <2>3. e \in Of(Decisions)
    BY <2>2 DEF Mk, Of, TaskEvent, EventType, Checks, Decisions
  <2> HIDE DEF e
  <2>4. Append(stream["policy"], e) \in Seq(Of(Decisions))
    BY <1>1, <2>3, QueueTyped DEF Queued
  <2>5. stream' = [stream EXCEPT !["policy"] = Append(@, e)]
    BY <2>1 DEF e
  <2> QED
    BY <1>1, <1>4, <2>2, <2>4, <2>5 DEF DecidePolicy, Queued, Stream, workers
<1>5. CASE Review
  <2>1. PICK d \in {"accepted", "rework_requested"} :
          stream' = [stream EXCEPT !["critic"] = Append(@, Mk(d, Head(toCritic).task, 0, FALSE))]
    BY <1>5 DEF Review
  <2> DEFINE K == Of(IF Critic THEN {"completed"} ELSE {})
  <2>2. Head(toCritic) \in K /\ Tail(toCritic) \in Seq(K)
    BY <1>1, <1>5, HeadTailProperties DEF Review, Queued
  <2> DEFINE e == Mk(d, Head(toCritic).task, 0, FALSE)
  <2>3. e \in Of(Reviews)
    BY <2>2 DEF Mk, Of, TaskEvent, EventType, Reviews
  <2> HIDE DEF e
  <2>4. Append(stream["critic"], e) \in Seq(Of(Reviews))
    BY <1>1, <2>3, QueueTyped DEF Queued
  <2>5. stream' = [stream EXCEPT !["critic"] = Append(@, e)]
    BY <2>1 DEF e
  <2> QED
    BY <1>1, <1>5, <2>2, <2>4, <2>5 DEF Review, Queued, Stream, workers
<1>6. CASE LoseCheck
  <2>1. Tail(toPolicy) \in Seq(Of(Checks))
    BY <1>1, <1>6, HeadTailProperties DEF LoseCheck, Queued
  <2> QED
    BY <1>1, <1>6, <2>1 DEF LoseCheck, Queued, queues, workers
<1>7. CASE LoseReview
  <2>1. Tail(toCritic) \in Seq(Of(IF Critic THEN {"completed"} ELSE {}))
    BY <1>1, <1>7, HeadTailProperties DEF LoseReview, Queued
  <2> QED
    BY <1>1, <1>7, <2>1 DEF LoseReview, Queued, queues, workers
<1> QED
  BY <1>4, <1>5, <1>6, <1>7 DEF ServiceStep

\* The types are closed under everything the program does.
LEMMA TypesClosed == Closed(Nat, TaskEvent)
BY OrchestratorAssumption DEF Closed, TaskEvent, Mk, EventType, RetriesSameStep, ShouldRetry

\* The state a plan starts in.
LEMMA InitState == Init => State
<1> SUFFICES ASSUME Init PROVE State
  OBVIOUS
<1>1. Inv(Nat, TaskEvent)
  BY TypesClosed, InitTyped
<1>2. \A A : <<>> \in Seq(A)
  OBVIOUS
<1>3. Queued
  BY <1>2 DEF Init, Queued, Stream
<1>4. \A x \in Thread : Hand(x, thread[x])
  <2> DEFINE first == [Handle(PlanCreated) EXCEPT !.pc = "dispatch", !.refreshes = 1]
  <2>1. PICK a \in Api : thread = [x \in Thread |-> IF x = a THEN first ELSE Idle]
    BY DEF Init
  <2>2. Hand(a, first) /\ \A x \in Thread : Hand(x, Idle)
    BY OrchestratorAssumption DEF Hand, Handle, Idle
  <2> HIDE DEF first
  <2> QED
    BY <2>1, <2>2
<1> QED
  BY <1>1, <1>3, <1>4 DEF State, Kinds, Queued

\* Reading changes nothing but what is known of the job.
LEMMA ReadingRests ==
  ASSUME Reading \/ UNCHANGED vars
  PROVE  UNCHANGED <<rows, thread, queues, workers, services, used>>
BY DEF Reading, ReadJob, ReadTasks, vars

\* Every step keeps to types and kinds.
LEMMA NextState == State /\ [Next]_vars => State'
<1> SUFFICES ASSUME State, [Next]_vars PROVE State'
  OBVIOUS
<1>1. Inv(Nat, TaskEvent)'
  BY TypesClosed, NextTyped DEF State
<1>2. CASE ApiStep
  <2>1. Kinds'
    BY <1>2, LoopKinds, HandlerKinds, ProceedKinds DEF ApiStep, Loop
  <2> QED
    BY <1>1, <2>1 DEF State
<1>3. CASE ApiFault
  BY <1>1, <1>3, ApiFaultKinds DEF State
<1>4. CASE HttpRequest
  BY <1>1, <1>4, RequestKinds DEF State
<1>5. CASE WorkerStep \/ WorkerFault
  BY <1>1, <1>5, WorkerKinds DEF State
<1>6. CASE ServiceStep
  BY <1>1, <1>6, ServiceKinds DEF State
<1>7. CASE Reading \/ UNCHANGED vars
  <2>1. Kinds'
    BY <1>7, ReadingRests DEF State, Kinds, queues, workers, services
  <2> QED
    BY <1>1, <2>1 DEF State
<1> QED
  BY <1>2, <1>3, <1>4, <1>5, <1>6, <1>7 DEF Next

-----------------------------------------------------------------------------
(* Nothing is abandoned.                                                   *)

\* Starts and results are what the workers report, work what becomes a result, and asks what
\* goes to and comes from the policy gate.
Starts  == Of({"started"})
Results == Of({"completed", "failed"})
Work    == Of({"ready", "completed", "failed"})
Asks    == Of({"policy_check", "allow", "deny"})

\* The tasks that the events of K in a set are about.
AboutAny(K, S) == UNION {One(K, e) : e \in S}

\* The tasks of events about to be emitted, and of the entry a replica begins with.
Leaving(K) == UNION {AboutAny(K, thread[x].out) : x \in Thread}

InTheHand(a, K) == IF thread[a].pc = "handle" THEN One(K, thread[a].ev) ELSE {}

\* The tasks the workers have, or will get, or that a handler is about to report.
AtWork ==
  About(Work, ready) \cup About(Work, held) \cup About(Work, orphaned) \cup Leaving(Work)

\* The tasks with a result that is not recorded.
Answered(a) ==
  About(Results, stream["tasks"]) \cup About(Results, inbox[a]) \cup InTheHand(a, Results)

\* The tasks the policy gate is asked about.
Asked(a) ==
  Leaving(Asks) \cup About(Asks, toPolicy) \cup About(Asks, stream["policy"])
    \cup About(Asks, inbox[a]) \cup InTheHand(a, Asks)

\* With one replica a, and nothing lost: a start that is not handled yet has its result after
\* it, or the task is still at work; so has a task the database shows as ready or running; and
\* a blocked one may be with the policy gate instead.
Backed(a) ==
  /\ pending = <<>>
  /\ Unfollowed(Starts, Results, stream["tasks"]) \subseteq AtWork
  /\ Unfollowed(Starts, Results, inbox[a]) \subseteq AtWork \cup About(Results, stream["tasks"])
  /\ InTheHand(a, Starts) \subseteq AtWork \cup About(Results, stream["tasks"])
                                      \cup About(Results, inbox[a])
  /\ \A t \in Task :
       /\ task[t] \in {"ready", "running"} => t \in AtWork \cup Answered(a)
       /\ task[t] = "blocked" => PolicyGate /\ t \in AtWork \cup Answered(a) \cup Asked(a)

\* Entries of other types are about nothing here.
LEMMA AboutNone ==
  ASSUME NEW K, NEW L, NEW S, NEW s \in Seq(S), K \cap S = {}
  PROVE  About(K, s) = {} /\ Unfollowed(K, L, s) = {} /\ Inverted(K, L, s) = {}
<1>1. \A i \in DOMAIN s : s[i] \in S
  OBVIOUS
<1>2. About(K, s) = {}
  BY <1>1 DEF About, One
<1> QED
  BY <1>2 DEF Unfollowed, Inverted

\* The starts without a result after them, when the first entry is taken away.
LEMMA StartsFirst ==
  ASSUME NEW h \in TaskEvent, NEW u \in Seq(TaskEvent)
  PROVE  Unfollowed(Starts, Results, Single(h) \o u)
           = Unfollowed(Starts, Results, u) \cup (One(Starts, h) \ About(Results, u))
BY UnfollowedFirst

\* The types of events there are on each stream are told apart.
LEMMA Apart ==
  /\ Starts \cap Of(Reviews) = {} /\ Starts \cap Of(Decisions) = {}
  /\ Results \cap Of(Reviews) = {} /\ Results \cap Of(Decisions) = {}
  /\ Asks \cap Of(Reports) = {} /\ Asks \cap Of(Reviews) = {}
BY DEF Starts, Results, Asks, Of, Reviews, Decisions, Reports

\* A thread moves: what it leaves out and what it takes up.
LEMMA LeavingMoves ==
  ASSUME NEW K, NEW x \in Thread, Becomes(x, thread'[x])
  PROVE  /\ AboutAny(K, thread'[x].out) \subseteq Leaving(K)'
         /\ Leaving(K) \subseteq Leaving(K)' \cup AboutAny(K, thread[x].out)
BY DEF Leaving, Becomes

\* Reading a batch and beginning with the next entry keep everything where it was in order.
LEMMA LoopBacked ==
  ASSUME NEW a \in Api, State, Backed(a),
         Deliver(a) \/ NextEntry(a) \/ RecoverPending(a) \/ Ack(a)
  PROVE  Backed(a)'
<1>1. /\ a \in Thread /\ Kinds /\ pending = <<>>
      /\ stream \in [Stream -> Seq(TaskEvent)] /\ inbox \in [Api -> Seq(TaskEvent)]
  BY DEF State, Inv, QueuesTyped, Backed, Thread
<1>2. UNCHANGED <<rows, workers, services, used>>
  BY LoopIs
<1>3. ASSUME NEW e, Picks(a, e)
      PROVE  /\ Leaving(Work) \subseteq Leaving(Work)' /\ Leaving(Asks) \subseteq Leaving(Asks)'
             /\ \A K : InTheHand(a, K) = {}
             /\ InTheHand(a, Starts)' = One(Starts, e)
             /\ InTheHand(a, Results)' = One(Results, e)
             /\ InTheHand(a, Asks)' = One(Asks, e)
  <2>1. thread[a].out = {} /\ thread[a].pc = "idle"
    BY <1>1, <1>3 DEF Kinds, Hand, Picks
  <2>2. thread'[a].pc = "handle" /\ thread'[a].ev = e /\ Becomes(a, thread'[a])
    BY <1>3 DEF Picks, Becomes, Handle, Idle
  <2>3. Leaving(Work) \subseteq Leaving(Work)' /\ Leaving(Asks) \subseteq Leaving(Asks)'
    BY <1>1, <2>1, <2>2, LeavingMoves DEF AboutAny
  <2> QED
    BY <2>1, <2>2, <2>3 DEF InTheHand
<1>4. CASE \E batch \in Seq(TaskEvent) :
             /\ batch = Oldest(stream["tasks"]) \o Oldest(stream["critic"])
                          \o Oldest(stream["policy"])
             /\ batch # <<>> /\ inbox[a] = <<>>
             /\ Picks(a, Head(batch)) /\ inbox' = [inbox EXCEPT ![a] = Tail(batch)]
             /\ stream' = [q \in Stream |-> Remaining(stream[q])]
             /\ pending' = pending
  <2>1. PICK batch \in Seq(TaskEvent) :
             /\ batch = Oldest(stream["tasks"]) \o Oldest(stream["critic"])
                          \o Oldest(stream["policy"])
             /\ batch # <<>> /\ inbox[a] = <<>>
             /\ Picks(a, Head(batch)) /\ inbox' = [inbox EXCEPT ![a] = Tail(batch)]
             /\ stream' = [q \in Stream |-> Remaining(stream[q])]
             /\ pending' = pending
    BY <1>4
  <2> DEFINE T == stream["tasks"]
             O == Oldest(stream["tasks"])
             R == Remaining(stream["tasks"])
             C == Oldest(stream["critic"])
             P == Oldest(stream["policy"])
             Q == Remaining(stream["policy"])
             h == Head(batch)
             u == Tail(batch)
  <2>2. /\ T \in Seq(Of(Reports)) /\ O \in Seq(Of(Reports)) /\ R \in Seq(Of(Reports)) /\ T = O \o R
        /\ C \in Seq(Of(Reviews))
        /\ P \in Seq(Of(Decisions)) /\ Q \in Seq(Of(Decisions)) /\ stream["policy"] = P \o Q
    BY <1>1, BatchSplits DEF Kinds
  <2>3. O \in Seq(TaskEvent) /\ R \in Seq(TaskEvent) /\ C \in Seq(TaskEvent)
          /\ P \in Seq(TaskEvent) /\ Q \in Seq(TaskEvent)
    BY <1>1, BatchTyped DEF Stream
  <2>4. /\ About(Starts, C) = {} /\ About(Results, C) = {} /\ About(Asks, C) = {}
        /\ About(Starts, P) = {} /\ About(Results, P) = {} /\ About(Asks, O) = {}
        /\ Unfollowed(Starts, Results, C) = {} /\ Unfollowed(Starts, Results, P) = {}
    BY <2>2, Apart, AboutNone
  <2>5. /\ batch = (O \o C) \o P /\ batch # <<>> /\ batch \in Seq(TaskEvent)
        /\ h \in TaskEvent /\ u \in Seq(TaskEvent) /\ batch = Single(h) \o u
        /\ stream'["tasks"] = R /\ stream'["policy"] = Q
        /\ inbox[a] = <<>> /\ inbox'[a] = u
        /\ Picks(a, h)
    <3>1. h \in TaskEvent /\ u \in Seq(TaskEvent) /\ batch = Single(h) \o u
      BY <2>1, FirstAndRest
    <3> QED
      BY <1>1, <2>1, <3>1 DEF Stream
  <2> HIDE DEF O, R, C, P, Q, h, u
  <2>6. /\ About(Results, T) = About(Results, O) \cup About(Results, R)
        /\ About(Asks, stream["policy"]) = About(Asks, P) \cup About(Asks, Q)
        /\ Unfollowed(Starts, Results, T)
             = Unfollowed(Starts, Results, R) \cup (Unfollowed(Starts, Results, O) \ About(Results, R))
    <3>1. About(Results, T) = About(Results, O) \cup About(Results, R)
      BY <2>2, <2>3, AboutConcat
    <3>2. About(Asks, stream["policy"]) = About(Asks, P) \cup About(Asks, Q)
      BY <2>2, <2>3, AboutConcat
    <3>3. Unfollowed(Starts, Results, T)
             = Unfollowed(Starts, Results, R) \cup (Unfollowed(Starts, Results, O) \ About(Results, R))
      BY <2>2, <2>3, OrderConcat
    <3> QED
      BY <3>1, <3>2, <3>3
  <2>7. /\ About(Results, batch) = About(Results, O)
        /\ About(Asks, batch) = About(Asks, P)
        /\ Unfollowed(Starts, Results, batch) = Unfollowed(Starts, Results, O)
    <3> DEFINE v == O \o C
    <3>1. v \in Seq(TaskEvent) /\ batch = v \o P
      BY <2>3, <2>5, ConcatProperties
    <3>2. About(Results, v) = About(Results, O) \cup About(Results, C)
      BY <2>3, AboutConcat
    <3>6. About(Asks, v) = About(Asks, O) \cup About(Asks, C)
      BY <2>3, AboutConcat
    <3>3. Unfollowed(Starts, Results, v)
           = Unfollowed(Starts, Results, C) \cup (Unfollowed(Starts, Results, O) \ About(Results, C))
      BY <2>3, OrderConcat
    <3> HIDE DEF v
    <3>4. About(Results, batch) = About(Results, v) \cup About(Results, P)
      BY <2>3, <3>1, AboutConcat
    <3>7. About(Asks, batch) = About(Asks, v) \cup About(Asks, P)
      BY <2>3, <3>1, AboutConcat
    <3>5. Unfollowed(Starts, Results, batch)
           = Unfollowed(Starts, Results, P) \cup (Unfollowed(Starts, Results, v) \ About(Results, P))
      BY <2>3, <3>1, OrderConcat
    <3> QED
      BY <2>4, <3>2, <3>3, <3>4, <3>5, <3>6, <3>7
  <2>8. /\ About(Results, batch) = One(Results, h) \cup About(Results, u)
        /\ About(Asks, batch) = One(Asks, h) \cup About(Asks, u)
    <3>1. h \in TaskEvent /\ u \in Seq(TaskEvent)
      BY <2>5
    <3>2. About(Results, Single(h) \o u) = One(Results, h) \cup About(Results, u)
      BY <3>1, AboutFirst
    <3>3. About(Asks, Single(h) \o u) = One(Asks, h) \cup About(Asks, u)
      BY <3>1, AboutFirst
    <3> QED
      BY <2>5, <3>2, <3>3
  <2>9. Unfollowed(Starts, Results, batch)
          = Unfollowed(Starts, Results, u) \cup (One(Starts, h) \ About(Results, u))
    BY <2>5, StartsFirst
  <2>10. /\ Leaving(Work) \subseteq Leaving(Work)' /\ Leaving(Asks) \subseteq Leaving(Asks)'
         /\ InTheHand(a, Starts) = {} /\ InTheHand(a, Results) = {} /\ InTheHand(a, Asks) = {}
         /\ InTheHand(a, Starts)' = One(Starts, h)
         /\ InTheHand(a, Results)' = One(Results, h)
         /\ InTheHand(a, Asks)' = One(Asks, h)
    BY <1>3, <2>5
  <2>11. AtWork \subseteq AtWork'
    BY <1>2, <2>10 DEF AtWork, workers
  <2>12. About(Results, inbox[a]) = {} /\ About(Asks, inbox[a]) = {}
    BY <2>5 DEF About
  <2>13. Answered(a)' = About(Results, R) \cup About(Results, u) \cup One(Results, h)
    BY <2>5, <2>10 DEF Answered
  <2>14. Asked(a)' = Leaving(Asks)' \cup About(Asks, toPolicy) \cup About(Asks, Q)
                       \cup About(Asks, u) \cup One(Asks, h)
    BY <1>2, <2>5, <2>10 DEF Asked, services
  <2>15. Answered(a) \subseteq Answered(a)'
    BY <2>6, <2>7, <2>8, <2>10, <2>12, <2>13 DEF Answered
  <2>16. Asked(a) \subseteq Asked(a)'
    BY <2>6, <2>7, <2>8, <2>10, <2>12, <2>14 DEF Asked
  <2>17. Unfollowed(Starts, Results, R) \subseteq AtWork
           /\ Unfollowed(Starts, Results, O) \subseteq AtWork \cup About(Results, R)
    BY <2>6 DEF Backed
  <2>18. /\ Unfollowed(Starts, Results, u) \subseteq AtWork \cup About(Results, R)
         /\ One(Starts, h) \subseteq AtWork \cup About(Results, R) \cup About(Results, u)
    BY <2>7, <2>9, <2>17
  <2> QED
    BY <1>2, <2>1, <2>5, <2>10, <2>11, <2>15, <2>16, <2>17, <2>18 DEF Backed, rows
<1>5. CASE /\ inbox[a] # <<>> /\ Picks(a, Head(inbox[a]))
           /\ inbox' = [inbox EXCEPT ![a] = Tail(@)]
           /\ UNCHANGED <<stream, pending>>
  <2> DEFINE h == Head(inbox[a])
             u == Tail(inbox[a])
  <2>1. /\ About(Results, inbox[a]) = One(Results, h) \cup About(Results, u)
        /\ About(Asks, inbox[a]) = One(Asks, h) \cup About(Asks, u)
        /\ Unfollowed(Starts, Results, inbox[a])
             = Unfollowed(Starts, Results, u) \cup (One(Starts, h) \ About(Results, u))
    <3>1. h \in TaskEvent /\ u \in Seq(TaskEvent) /\ inbox[a] = Single(h) \o u
      BY <1>1, <1>5, FirstAndRest
    <3> HIDE DEF h, u
    <3>2. About(Results, inbox[a]) = One(Results, h) \cup About(Results, u)
      BY <3>1, AboutFirst
    <3>3. About(Asks, inbox[a]) = One(Asks, h) \cup About(Asks, u)
      BY <3>1, AboutFirst
    <3>4. Unfollowed(Starts, Results, inbox[a])
             = Unfollowed(Starts, Results, u) \cup (One(Starts, h) \ About(Results, u))
      BY <3>1, StartsFirst
    <3> QED
      BY <3>2, <3>3, <3>4
  <2>2. inbox'[a] = u /\ Picks(a, h)
    BY <1>1, <1>5
  <2> HIDE DEF h, u
  <2>3. /\ Leaving(Work) \subseteq Leaving(Work)' /\ Leaving(Asks) \subseteq Leaving(Asks)'
        /\ InTheHand(a, Starts) = {} /\ InTheHand(a, Results) = {} /\ InTheHand(a, Asks) = {}
        /\ InTheHand(a, Starts)' = One(Starts, h)
        /\ InTheHand(a, Results)' = One(Results, h)
        /\ InTheHand(a, Asks)' = One(Asks, h)
    BY <1>3, <2>2
  <2>4. AtWork \subseteq AtWork'
    BY <1>2, <2>3 DEF AtWork, workers
  <2>5. Answered(a) \subseteq Answered(a)'
    BY <1>5, <2>1, <2>2, <2>3 DEF Answered
  <2>6. Asked(a) \subseteq Asked(a)'
    BY <1>2, <1>5, <2>1, <2>2, <2>3 DEF Asked, services
  <2> QED
    BY <1>2, <1>5, <2>1, <2>2, <2>3, <2>4, <2>5, <2>6 DEF Backed, rows
<1>6. CASE thread[a].pc = "ack" /\ Becomes(a, Idle) /\ UNCHANGED queues
  <2>1. thread[a].out = {} /\ thread'[a].pc = "idle" /\ Becomes(a, thread'[a])
    <3>1. Hand(a, thread[a])
      BY <1>1 DEF Kinds
    <3>2. thread[a].out = {}
      BY <1>6, <3>1 DEF Hand
    <3> QED
      BY <1>6, <3>2 DEF Becomes, Idle
  <2>2. Leaving(Work) \subseteq Leaving(Work)' /\ Leaving(Asks) \subseteq Leaving(Asks)'
    BY <1>1, <2>1, LeavingMoves DEF AboutAny
  <2>3. /\ InTheHand(a, Starts)' = {} /\ InTheHand(a, Results)' = {} /\ InTheHand(a, Asks)' = {}
        /\ InTheHand(a, Starts) = {} /\ InTheHand(a, Results) = {} /\ InTheHand(a, Asks) = {}
    BY <1>6, <2>1 DEF InTheHand
  <2>4. AtWork \subseteq AtWork' /\ Answered(a) \subseteq Answered(a)' /\ Asked(a) \subseteq Asked(a)'
    BY <1>2, <1>6, <2>2, <2>3 DEF AtWork, Answered, Asked, workers, services, queues
  <2> QED
    BY <1>2, <1>6, <2>3, <2>4 DEF Backed, rows, queues
<1> QED
  BY <1>1, <1>4, <1>5, <1>6, LoopIs

\* What keeps the backing: what leaves the workers leaves a result behind, no start is left
\* alone at the end of the stream, and the rows change only where there is something at work.
LEMMA StillBacked ==
  ASSUME NEW a \in Api, Backed(a), UNCHANGED <<pending, inbox>>,
         InTheHand(a, Starts)' \subseteq InTheHand(a, Starts),
         InTheHand(a, Results)' = InTheHand(a, Results),
         AtWork \subseteq AtWork' \cup About(Results, stream'["tasks"]),
         About(Results, stream["tasks"]) \subseteq About(Results, stream'["tasks"]),
         Unfollowed(Starts, Results, stream'["tasks"]) \subseteq AtWork',
         PolicyGate => Asked(a) \subseteq Asked(a)' \cup AtWork',
         \A t \in Task : \/ task'[t] = task[t]
                         \/ task'[t] \notin {"ready", "running", "blocked"}
                         \/ task'[t] # "blocked" /\ t \in AtWork'
                         \/ task'[t] = "blocked" /\ PolicyGate /\ t \in Asked(a)'
  PROVE  Backed(a)'
<1>1. /\ Unfollowed(Starts, Results, inbox'[a]) \subseteq AtWork' \cup About(Results, stream'["tasks"])
      /\ InTheHand(a, Starts)' \subseteq AtWork' \cup About(Results, stream'["tasks"])
                                           \cup About(Results, inbox'[a])
  BY DEF Backed
<1>2. Answered(a) \subseteq Answered(a)' /\ AtWork \subseteq AtWork' \cup Answered(a)'
  BY DEF Answered
<1>3. ASSUME NEW t \in Task
      PROVE  /\ task'[t] \in {"ready", "running"} => t \in AtWork' \cup Answered(a)'
             /\ task'[t] = "blocked" => PolicyGate /\ t \in AtWork' \cup Answered(a)' \cup Asked(a)'
  <2>1. CASE task'[t] = task[t] /\ task[t] \in {"ready", "running"}
    <3>1. t \in AtWork \cup Answered(a)
      BY <2>1 DEF Backed
    <3> QED
      BY <1>2, <2>1, <3>1
  <2>2. CASE task'[t] = task[t] /\ task[t] = "blocked"
    <3>1. PolicyGate /\ t \in AtWork \cup Answered(a) \cup Asked(a)
      BY <2>2 DEF Backed
    <3> QED
      BY <1>2, <2>2, <3>1
  <2>3. CASE task'[t] # task[t] /\ task'[t] \in {"ready", "running", "blocked"}
    BY <2>3
  <2>4. CASE task'[t] \notin {"ready", "running", "blocked"}
    BY <2>4
  <2> QED
    BY <2>1, <2>2, <2>3, <2>4
<1> QED
  BY <1>1, <1>3 DEF Backed

\* What a report adds to a stream.
LEMMA ReportAppended ==
  ASSUME NEW s \in Seq(TaskEvent), NEW e \in TaskEvent
  PROVE  /\ About(Results, Append(s, e)) = About(Results, s) \cup One(Results, e)
         /\ Unfollowed(Starts, Results, Append(s, e))
              = One(Starts, e) \cup (Unfollowed(Starts, Results, s) \ One(Results, e))
<1>1. About(Results, Append(s, e)) = About(Results, s) \cup One(Results, e)
  BY AboutAppend
<1>2. Unfollowed(Starts, Results, Append(s, e))
        = One(Starts, e) \cup (Unfollowed(Starts, Results, s) \ One(Results, e))
  BY UnfollowedAppend
<1> QED
  BY <1>1, <1>2

\* A report is appended to the tasks stream.
LEMMA Reporting ==
  ASSUME State, NEW e \in TaskEvent, stream' = [stream EXCEPT !["tasks"] = Append(@, e)]
  PROVE  /\ About(Results, stream'["tasks"]) = About(Results, stream["tasks"]) \cup One(Results, e)
         /\ Unfollowed(Starts, Results, stream'["tasks"])
              = One(Starts, e) \cup (Unfollowed(Starts, Results, stream["tasks"]) \ One(Results, e))
         /\ stream'["policy"] = stream["policy"]
<1> DEFINE T == stream["tasks"]
<1>1. T \in Seq(TaskEvent) /\ stream'["tasks"] = Append(T, e) /\ stream'["policy"] = stream["policy"]
  BY DEF State, Inv, QueuesTyped, Stream
<1> HIDE DEF T
<1> QED
  BY <1>1, ReportAppended DEF T

\* A worker takes something up, or puts it down.
LEMMA Holding ==
  ASSUME State, NEW w \in Worker, NEW e \in TaskEvent \cup {NoEvent},
         held' = [held EXCEPT ![w] = e]
  PROVE  /\ About(Work, held) \subseteq About(Work, held') \cup One(Work, held[w])
         /\ One(Work, e) \subseteq About(Work, held')
<1>1. held \in [Worker -> TaskEvent \cup {NoEvent}]
  BY DEF State, Inv, QueuesTyped
<1>2. ASSUME NEW f \in [Worker -> TaskEvent \cup {NoEvent}]
      PROVE  About(Work, f) \subseteq About(Work, [f EXCEPT ![w] = e]) \cup One(Work, f[w])
  BY AboutReplaced
<1>3. ASSUME NEW f \in [Worker -> TaskEvent \cup {NoEvent}]
      PROVE  One(Work, e) \subseteq About(Work, [f EXCEPT ![w] = e])
  BY AboutNew
<1> QED
  BY <1>1, <1>2, <1>3

\* What an entry adds to a queue.
LEMMA WorkAppended ==
  ASSUME NEW s \in Seq(TaskEvent), NEW e \in TaskEvent
  PROVE  /\ About(Work, Append(s, e)) = About(Work, s) \cup One(Work, e)
         /\ About(Asks, Append(s, e)) = About(Asks, s) \cup One(Asks, e)
<1>1. About(Work, Append(s, e)) = About(Work, s) \cup One(Work, e)
  BY AboutAppend
<1>2. About(Asks, Append(s, e)) = About(Asks, s) \cup One(Asks, e)
  BY AboutAppend
<1> QED
  BY <1>1, <1>2

\* What a queue without its first entry is about.
LEMMA WorkFirst ==
  ASSUME NEW h \in TaskEvent, NEW u \in Seq(TaskEvent)
  PROVE  /\ About(Work, Single(h) \o u) = One(Work, h) \cup About(Work, u)
         /\ About(Asks, Single(h) \o u) = One(Asks, h) \cup About(Asks, u)
<1>1. About(Work, Single(h) \o u) = One(Work, h) \cup About(Work, u)
  BY AboutFirst
<1>2. About(Asks, Single(h) \o u) = One(Asks, h) \cup About(Asks, u)
  BY AboutFirst
<1> QED
  BY <1>1, <1>2

\* A queue loses its first entry.
LEMMA Taken ==
  ASSUME NEW s \in Seq(TaskEvent), s # <<>>
  PROVE  /\ About(Work, s) = One(Work, Head(s)) \cup About(Work, Tail(s))
         /\ About(Asks, s) = One(Asks, Head(s)) \cup About(Asks, Tail(s))
<1> DEFINE h == Head(s)
           u == Tail(s)
<1>1. h \in TaskEvent /\ u \in Seq(TaskEvent) /\ s = Single(h) \o u
  BY FirstAndRest
<1> HIDE DEF h, u
<1> QED
  BY <1>1, WorkFirst DEF h, u

\* A task.ready is work, and nothing else here.
LEMMA ReadyIsWork ==
  \A e \in Of({"ready"}) : One(Work, e) = {e.task} /\ e \in TaskEvent /\ e.task \in Task /\ e.n \in Nat
BY DEF One, Work, Of, TaskEvent

\* A handler takes its entry in hand for what it is: a start has its result coming, and what
\* becomes ready is about to be emitted.
LEMMA HandlerBacked ==
  ASSUME NEW a \in Api, State, Backed(a), HandleEvent(a)
  PROVE  Backed(a)'
<1> DEFINE e == thread[a].ev
<1>1. HandlerFrameOf(a) /\ HandlerEffect(a)
  BY HandlerIs
<1>2. /\ a \in Thread /\ task \in [Task -> TaskStatus]
      /\ thread[a].out = {} /\ Becomes(a, thread'[a])
      /\ UNCHANGED <<queues, workers, services>>
      /\ \A K : InTheHand(a, K)' = {}
      /\ thread[a].pc = "handle" \/ thread[a].pc = "giveUp"
      /\ e # PlanCreated => e.task \in Task
  BY <1>1 DEF HandlerFrameOf, State, Inv, RowsTyped, Thread, InTheHand
<1>3. Leaving(Work) \subseteq Leaving(Work)' /\ Leaving(Asks) \subseteq Leaving(Asks)'
        /\ AboutAny(Work, thread'[a].out) \subseteq Leaving(Work)'
  BY <1>2, LeavingMoves DEF AboutAny
<1>4. AtWork \subseteq AtWork' /\ AboutAny(Work, thread'[a].out) \subseteq AtWork'
  BY <1>2, <1>3 DEF AtWork, workers
<1>5. /\ Answered(a) \subseteq Answered(a)' \cup InTheHand(a, Results)
      /\ Asked(a) \subseteq Asked(a)' \cup InTheHand(a, Asks)
      /\ About(Results, stream["tasks"]) \cup About(Results, inbox[a]) \subseteq Answered(a)'
  BY <1>2, <1>3 DEF Answered, Asked, queues, services
<1>6. /\ pending' = <<>>
      /\ Unfollowed(Starts, Results, stream'["tasks"]) \subseteq AtWork'
      /\ Unfollowed(Starts, Results, inbox'[a]) \subseteq AtWork' \cup About(Results, stream'["tasks"])
      /\ InTheHand(a, Starts)' = {}
  BY <1>2, <1>4 DEF Backed, queues
<1>7. ASSUME NEW t \in Task
      PROVE  /\ task'[t] \in {"ready", "running"} => t \in AtWork' \cup Answered(a)'
             /\ task'[t] = "blocked" => PolicyGate /\ t \in AtWork' \cup Answered(a)' \cup Asked(a)'
  <2>1. CASE task'[t] = task[t] /\ t \notin InTheHand(a, Results) \cup InTheHand(a, Asks)
    BY <1>4, <1>5, <2>1 DEF Backed
  <2>2. CASE e \in TaskEvent /\ t # e.task
    <3>1. t \notin InTheHand(a, Results) \cup InTheHand(a, Asks)
      BY <2>2 DEF InTheHand, One
    <3>2. task'[t] = task[t]
      BY <1>1, <1>2, <2>2 DEF HandlerEffect, Writes
    <3> QED
      BY <2>1, <3>1, <3>2
  <2>3. CASE e \notin TaskEvent
    <3>1. t \notin InTheHand(a, Results) \cup InTheHand(a, Asks)
      BY <2>3 DEF InTheHand, One, Results, Asks, Of
    <3>2. e = PlanCreated
      BY <1>1, <2>3 DEF HandlerFrameOf
    <3>3. thread[a].pc = "giveUp" => e \in TaskEvent
      BY <1>2 DEF State, Inv, Threads, Consistent
    <3>4. task' = task
      BY <1>1, <1>2, <2>3, <3>3 DEF HandlerEffect, Of
    <3> QED
      BY <2>1, <3>1, <3>4
  <2>4. CASE e \in TaskEvent /\ t = e.task
    <3>1. CASE task'[t] \notin {"ready", "running", "blocked"}
      BY <3>1
    <3>2. CASE e \in Of({"started"}) /\ task'[t] = "running" /\ thread[a].pc = "handle"
      <4>1. t \in InTheHand(a, Starts)
        BY <2>4, <3>2 DEF InTheHand, One, Starts
      <4> QED
        BY <1>4, <1>5, <3>2, <4>1 DEF Backed
    <3>3. CASE \E n \in Nat : task'[t] = "ready" /\ thread'[a].out = {Mk("ready", t, n, FALSE)}
      <4>1. PICK n \in Nat : task'[t] = "ready" /\ thread'[a].out = {Mk("ready", t, n, FALSE)}
        BY <3>3
      <4>2. Mk("ready", t, n, FALSE) \in Work /\ Mk("ready", t, n, FALSE).task = t
        BY DEF Mk, Work, Of, TaskEvent, EventType
      <4>3. t \in AboutAny(Work, thread'[a].out)
        BY <4>1, <4>2 DEF AboutAny, One
      <4> QED
        BY <1>4, <4>1, <4>3
    <3>4. CASE e \in Of({"allow", "deny"}) /\ task'[t] = task[t] /\ task[t] # "blocked"
      <4>1. t \notin InTheHand(a, Results)
        BY <3>4 DEF InTheHand, One, Results, Of
      <4> QED
        BY <1>4, <1>5, <3>4, <4>1 DEF Backed
    <3> QED
      <4>1. e # PlanCreated
        BY <2>4 DEF PlanCreated, Mk, TaskEvent, EventType
      <4> QED
        BY <1>1, <1>2, <2>4, <3>1, <3>2, <3>3, <3>4, <4>1 DEF HandlerEffect, Writes
  <2> QED
    BY <2>2, <2>3, <2>4
<1> QED
  BY <1>6, <1>7 DEF Backed

\* A commit writes what it is about to emit, and an emission puts it where it is awaited.
LEMMA ProceedBacked ==
  ASSUME NEW a \in Api, State, Backed(a), NEW x \in Thread, Proceed(x)
  PROVE  Backed(a)'
<1>1. ProceedFrameOf(x) /\ ProceedEffect(x)
  BY ProceedIs
<1>2. /\ a \in Thread /\ Hand(x, thread[x]) /\ UNCHANGED <<pending, inbox, held, orphaned>>
      /\ Becomes(x, thread'[x])
      /\ thread[x].pc # "handle" /\ thread'[x].pc # "handle"
      /\ ready \in Seq(TaskEvent) /\ toPolicy \in Seq(TaskEvent)
  <2>1. thread'[x].pc # "handle"
    BY <1>1 DEF ProceedFrameOf, State, Inv, Threads, ThreadRecord, End
  <2>2. thread[x].pc # "handle"
    BY <1>1 DEF ProceedEffect, ReadEffect, CommitEffect, EmitEffect, RefreshEffect
  <2> QED
    BY <1>1, <2>1, <2>2 DEF ProceedFrameOf, State, Inv, QueuesTyped, Kinds, Thread
<1>3. \A K : InTheHand(a, K)' = InTheHand(a, K)
  BY <1>2 DEF InTheHand, Becomes
<1>4. CASE ReadEffect(x) \/ CommitEffect(x) \/ RefreshEffect(x)
  <2>1. thread[x].out = {} /\ UNCHANGED <<queues, workers, services>>
    BY <1>2, <1>4 DEF ReadEffect, CommitEffect, RefreshEffect, Hand
  <2>2. /\ Leaving(Work) \subseteq Leaving(Work)' /\ Leaving(Asks) \subseteq Leaving(Asks)'
        /\ AboutAny(Work, thread'[x].out) \subseteq Leaving(Work)'
        /\ AboutAny(Asks, thread'[x].out) \subseteq Leaving(Asks)'
    BY <1>2, <2>1, LeavingMoves DEF AboutAny
  <2>3. AtWork \subseteq AtWork' /\ Leaving(Work)' \subseteq AtWork'
    BY <2>1, <2>2 DEF AtWork, workers
  <2>4. Asked(a) \subseteq Asked(a)' /\ Leaving(Asks)' \subseteq Asked(a)'
    BY <1>3, <2>1, <2>2 DEF Asked, queues, services
  <2>5. Unfollowed(Starts, Results, stream'["tasks"]) \subseteq AtWork'
    BY <2>1, <2>3 DEF Backed, queues
  <2>6. ASSUME NEW t \in Task
        PROVE  \/ task'[t] = task[t]
               \/ task'[t] \notin {"ready", "running", "blocked"}
               \/ task'[t] # "blocked" /\ t \in AtWork'
               \/ task'[t] = "blocked" /\ PolicyGate /\ t \in Asked(a)'
    <3>1. CASE ReadEffect(x) \/ RefreshEffect(x)
      BY <3>1 DEF ReadEffect, RefreshEffect, rows
    <3>2. CASE CommitEffect(x) /\ t \notin thread[x].batch
      BY <3>2 DEF CommitEffect
    <3>3. CASE CommitEffect(x) /\ t \in thread[x].batch
      <4>1. PICK type \in Emitted, n \in Nat :
              Mk(type, t, n, FALSE) \in thread'[x].out /\ task'[t] = StatusFor(type)
        BY <3>3 DEF CommitEffect
      <4> DEFINE e == Mk(type, t, n, FALSE)
      <4>2. e \in thread'[x].out /\ e.task = t /\ e.type = type /\ e \in TaskEvent
        BY <4>1 DEF Mk, TaskEvent, EventType, Emitted, Checks
      <4> HIDE DEF e
      <4>3. CASE type = "ready"
        <5>1. t \in AboutAny(Work, thread'[x].out)
          BY <4>2, <4>3 DEF AboutAny, One, Work, Of
        <5> QED
          BY <2>2, <2>3, <4>1, <4>3, <5>1 DEF StatusFor
      <4>4. CASE type = "failed"
        BY <4>1, <4>4 DEF StatusFor
      <4>5. CASE type = "policy_check" /\ PolicyGate
        <5>1. t \in AboutAny(Asks, thread'[x].out)
          BY <4>2, <4>5 DEF AboutAny, One, Asks, Of
        <5> QED
          BY <2>2, <2>4, <4>1, <4>5, <5>1 DEF StatusFor
      <4> QED
        BY <4>1, <4>3, <4>4, <4>5 DEF Emitted, Checks
    <3> QED
      BY <1>4, <3>1, <3>2, <3>3
  <2> QED
    BY <1>2, <1>3, <2>1, <2>3, <2>4, <2>5, <2>6, StillBacked DEF queues
<1>5. CASE EmitEffect(x)
  <2>1. PICK e \in thread[x].out :
          /\ thread'[x].out = thread[x].out \ {e}
          /\ ready' = IF e.type = "ready" THEN Append(ready, e) ELSE ready
          /\ toPolicy' = IF e.type = "policy_check" THEN Append(toPolicy, e) ELSE toPolicy
          /\ stream' = IF e.type = "failed"
                       THEN [stream EXCEPT !["tasks"] = Append(@, e)] ELSE stream
    BY <1>5 DEF EmitEffect
  <2>2. e \in Of(Emitted) /\ e \in TaskEvent /\ task' = task
    BY <1>2, <1>5, <2>1 DEF Hand, Of, EmitEffect, rows
  <2>3. /\ Leaving(Work) \subseteq Leaving(Work)' \cup One(Work, e)
        /\ Leaving(Asks) \subseteq Leaving(Asks)' \cup One(Asks, e)
    <3>1. /\ AboutAny(Work, thread[x].out) = AboutAny(Work, thread'[x].out) \cup One(Work, e)
          /\ AboutAny(Asks, thread[x].out) = AboutAny(Asks, thread'[x].out) \cup One(Asks, e)
      BY <2>1 DEF AboutAny
    <3> QED
      BY <1>2, <3>1, LeavingMoves
  <2>4. CASE e.type = "ready"
    <3>1. One(Asks, e) = {} /\ ready' = Append(ready, e) /\ toPolicy' = toPolicy /\ stream' = stream
      BY <2>1, <2>4 DEF One, Asks, Of
    <3>2. About(Work, ready') = About(Work, ready) \cup One(Work, e)
      BY <1>2, <2>2, <3>1, WorkAppended
    <3>3. AtWork \subseteq AtWork' /\ Asked(a) \subseteq Asked(a)'
      BY <1>2, <1>3, <2>3, <3>1, <3>2 DEF AtWork, Asked
    <3>4. Unfollowed(Starts, Results, stream'["tasks"]) \subseteq AtWork'
      BY <3>1, <3>3 DEF Backed
    <3> QED
      BY <1>2, <1>3, <2>2, <3>1, <3>3, <3>4, StillBacked
  <2>5. CASE e.type = "policy_check"
    <3>1. One(Work, e) = {} /\ ready' = ready /\ toPolicy' = Append(toPolicy, e) /\ stream' = stream
      BY <2>1, <2>5 DEF One, Work, Of
    <3>2. About(Asks, toPolicy') = About(Asks, toPolicy) \cup One(Asks, e)
      BY <1>2, <2>2, <3>1, WorkAppended
    <3>3. AtWork \subseteq AtWork' /\ Asked(a) \subseteq Asked(a)'
      BY <1>2, <1>3, <2>3, <3>1, <3>2 DEF AtWork, Asked
    <3>4. Unfollowed(Starts, Results, stream'["tasks"]) \subseteq AtWork'
      BY <3>1, <3>3 DEF Backed
    <3> QED
      BY <1>2, <1>3, <2>2, <3>1, <3>3, <3>4, StillBacked
  <2>6. CASE e.type = "failed"
    <3>1. /\ One(Asks, e) = {} /\ One(Starts, e) = {} /\ One(Work, e) = {e.task}
          /\ One(Results, e) = {e.task}
          /\ ready' = ready /\ toPolicy' = toPolicy
          /\ stream' = [stream EXCEPT !["tasks"] = Append(@, e)]
      BY <2>1, <2>2, <2>6 DEF One, Asks, Starts, Work, Results, Of
    <3>2. /\ About(Results, stream'["tasks"]) = About(Results, stream["tasks"]) \cup {e.task}
          /\ Unfollowed(Starts, Results, stream'["tasks"])
               = Unfollowed(Starts, Results, stream["tasks"]) \ {e.task}
          /\ stream'["policy"] = stream["policy"]
      BY <2>2, <3>1, Reporting
    <3>3. AtWork \subseteq AtWork' \cup {e.task} /\ Asked(a) \subseteq Asked(a)'
      BY <1>2, <1>3, <2>3, <3>1, <3>2 DEF AtWork, Asked
    <3>4. Unfollowed(Starts, Results, stream'["tasks"]) \subseteq AtWork'
      BY <3>2, <3>3 DEF Backed
    <3> QED
      BY <1>2, <1>3, <2>2, <3>1, <3>2, <3>3, <3>4, StillBacked
  <2> QED
    BY <2>2, <2>4, <2>5, <2>6 DEF Of, Emitted, Checks
<1> QED
  BY <1>1, <1>4, <1>5 DEF ProceedEffect

\* A request only makes tasks pending.
LEMMA RequestBacked ==
  ASSUME NEW a \in Api, State, Backed(a), HttpRequest
  PROVE  Backed(a)'
<1>1. /\ a \in Thread /\ a # Http /\ Http \in Thread /\ Hand(Http, thread[Http])
      /\ thread \in Threads(Nat, TaskEvent) /\ task \in [Task -> TaskStatus]
      /\ Idle \in ThreadRecord(Nat, TaskEvent)
  BY IdleTyped, OrchestratorAssumption DEF State, Inv, RowsTyped, Kinds, Thread
<1>2. UNCHANGED <<queues, workers, services>>
  BY DEF HttpRequest, CancelJob, ContinueJob, RetryJob, RetryFailedTasks, RetryTask, Reset
<1>3. thread[Http].pc = "idle" /\ thread[Http].out = {}
  BY <1>1 DEF HttpRequest, CancelJob, ContinueJob, RetryJob, RetryFailedTasks, RetryTask, Request, Hand
<1>4. Becomes(Http, thread'[Http])
  <2>1. CASE GoDispatch(Http, Idle, 0)
    BY <1>1, <2>1, Dispatching
  <2>2. CASE UNCHANGED thread
    BY <2>2 DEF Becomes
  <2> QED
    BY <2>1, <2>2
    DEF HttpRequest, CancelJob, ContinueJob, RetryJob, RetryFailedTasks, RetryTask, Reset
<1>5. \A K : InTheHand(a, K)' = InTheHand(a, K)
  BY <1>1, <1>4 DEF InTheHand, Becomes
<1>6. Leaving(Work) \subseteq Leaving(Work)' /\ Leaving(Asks) \subseteq Leaving(Asks)'
  BY <1>1, <1>3, <1>4, LeavingMoves DEF AboutAny
<1>7. AtWork \subseteq AtWork' /\ Asked(a) \subseteq Asked(a)'
  BY <1>2, <1>5, <1>6 DEF AtWork, Asked, queues, workers, services
<1>8. Unfollowed(Starts, Results, stream'["tasks"]) \subseteq AtWork'
  BY <1>2, <1>7 DEF Backed, queues
<1>9. \A t \in Task : task'[t] = task[t] \/ task'[t] = "pending"
  BY <1>1 DEF HttpRequest, CancelJob, ContinueJob, RetryJob, RetryFailedTasks, RetryTask, Reset
<1> QED
  BY <1>2, <1>5, <1>7, <1>8, <1>9, StillBacked DEF queues

\* A worker announces what it takes up, and puts nothing down without a result, a retry or an
\* entry that another worker will claim.
LEMMA WorkerBacked ==
  ASSUME NEW a \in Api, State, Backed(a), WorkerStep \/ WorkerFault, ~Lost'
  PROVE  Backed(a)'
<1>1. /\ stream \in [Stream -> Seq(TaskEvent)] /\ ready \in Seq(TaskEvent)
      /\ orphaned \in Seq(TaskEvent)
      /\ ready \in Seq(Of({"ready"})) /\ orphaned \in Seq(Of({"ready"}))
      /\ \A w \in Worker : held[w] # NoEvent => held[w] \in Of({"ready"})
      /\ One(Work, NoEvent) = {}
      /\ used \in [Disturbance -> Nat]
  BY OrchestratorAssumption DEF State, Inv, QueuesTyped, Kinds, One, Work, Of
<1>2. UNCHANGED <<rows, thread, inbox, pending, toPolicy>>
  BY DEF WorkerStep, WorkerFault, Finish, Take, Claim, Complete, Fail, WorkerCrash, LoseResult,
         Steal, services, queues
<1>3. /\ \A K : InTheHand(a, K)' = InTheHand(a, K)
      /\ Leaving(Work)' = Leaving(Work) /\ Leaving(Asks)' = Leaving(Asks)
  BY <1>2 DEF InTheHand, Leaving
\* Nothing is reported but a start, and nothing is less at work.
<1>4. ASSUME AtWork \subseteq AtWork',
             \/ stream' = stream
             \/ \E w \in Worker, e \in Of({"ready"}) :
                  Begin(w, e) /\ e.task \in AtWork'
      PROVE  Backed(a)'
  <2>1. CASE stream' = stream
    <3>1. Unfollowed(Starts, Results, stream'["tasks"]) \subseteq AtWork'
      BY <1>4, <2>1 DEF Backed
    <3>2. Asked(a) \subseteq Asked(a)'
      BY <1>2, <1>3, <2>1 DEF Asked
    <3> QED
      BY <1>2, <1>3, <1>4, <2>1, <3>1, <3>2, StillBacked DEF rows
  <2>2. ASSUME NEW w \in Worker, NEW e \in Of({"ready"}), Begin(w, e), e.task \in AtWork'
        PROVE  Backed(a)'
    <3> DEFINE start == Mk("started", e.task, e.n, FALSE)
    <3>1. start \in TaskEvent /\ One(Results, start) = {} /\ One(Starts, start) = {e.task}
      BY ReadyIsWork DEF Mk, TaskEvent, EventType, One, Results, Starts, Of
    <3>2. stream' = [stream EXCEPT !["tasks"] = Append(@, start)]
      BY <2>2 DEF Begin
    <3> HIDE DEF start
    <3>3. /\ About(Results, stream'["tasks"]) = About(Results, stream["tasks"])
          /\ Unfollowed(Starts, Results, stream'["tasks"])
               = {e.task} \cup Unfollowed(Starts, Results, stream["tasks"])
          /\ stream'["policy"] = stream["policy"]
      BY <3>1, <3>2, Reporting
    <3>4. Unfollowed(Starts, Results, stream'["tasks"]) \subseteq AtWork'
      BY <1>4, <2>2, <3>3 DEF Backed
    <3>5. Asked(a) \subseteq Asked(a)'
      BY <1>2, <1>3, <3>3 DEF Asked
    <3> QED
      BY <1>2, <1>3, <1>4, <3>3, <3>4, <3>5, StillBacked DEF rows
  <2> QED
    BY <1>4, <2>1, <2>2
\* A result is reported, of what is put down.
<1>5. ASSUME NEW w \in Worker, NEW e \in Results, e \in TaskEvent, e.task = held[w].task,
             held[w] # NoEvent, held' = [held EXCEPT ![w] = NoEvent],
             stream' = [stream EXCEPT !["tasks"] = Append(@, e)],
             UNCHANGED <<ready, orphaned>>
      PROVE  Backed(a)'
  <2>1. One(Results, e) = {e.task} /\ One(Starts, e) = {} /\ One(Work, held[w]) = {e.task}
    BY <1>1, <1>5, ReadyIsWork DEF One, Results, Starts, Of
  <2>2. About(Work, held) \subseteq About(Work, held') \cup {e.task}
    BY <1>5, <2>1, Holding
  <2>3. /\ About(Results, stream'["tasks"]) = About(Results, stream["tasks"]) \cup {e.task}
        /\ Unfollowed(Starts, Results, stream'["tasks"])
             = Unfollowed(Starts, Results, stream["tasks"]) \ {e.task}
        /\ stream'["policy"] = stream["policy"]
    BY <1>5, <2>1, Reporting
  <2>4. AtWork \subseteq AtWork' \cup {e.task} /\ Asked(a) \subseteq Asked(a)'
    BY <1>2, <1>3, <1>5, <2>2, <2>3 DEF AtWork, Asked
  <2>5. Unfollowed(Starts, Results, stream'["tasks"]) \subseteq AtWork'
    BY <2>3, <2>4 DEF Backed
  <2> QED
    BY <1>2, <1>3, <2>3, <2>4, <2>5, StillBacked DEF rows
<1>6. ASSUME NEW w \in Worker, Take(w) PROVE Backed(a)'
  <2> DEFINE h == Head(ready)
  <2>1. /\ ready # <<>> /\ held[w] = NoEvent /\ Begin(w, h)
        /\ ready' = Tail(ready) /\ orphaned' = orphaned
    BY <1>6 DEF Take
  <2>2. h \in Of({"ready"}) /\ h \in TaskEvent /\ One(Work, h) = {h.task}
    BY <1>1, <2>1, HeadTailProperties, ReadyIsWork
  <2>3. About(Work, ready) = One(Work, h) \cup About(Work, ready')
    BY <1>1, <2>1, Taken
  <2> HIDE DEF h
  <2>4. held' = [held EXCEPT ![w] = h]
    BY <2>1 DEF Begin
  <2>5. About(Work, held) \subseteq About(Work, held') /\ One(Work, h) \subseteq About(Work, held')
    BY <1>1, <2>1, <2>2, <2>4, Holding
  <2>6. AtWork \subseteq AtWork' /\ h.task \in AtWork'
    BY <1>3, <2>1, <2>2, <2>3, <2>5 DEF AtWork
  <2> QED
    BY <1>4, <2>1, <2>2, <2>6
<1>7. ASSUME NEW w \in Worker, Claim(w) PROVE Backed(a)'
  <2> DEFINE h == Head(orphaned)
  <2>1. /\ orphaned # <<>> /\ held[w] = NoEvent /\ Begin(w, h)
        /\ orphaned' = Tail(orphaned) /\ ready' = ready
    BY <1>7 DEF Claim
  <2>2. h \in Of({"ready"}) /\ h \in TaskEvent /\ One(Work, h) = {h.task}
    BY <1>1, <2>1, HeadTailProperties, ReadyIsWork
  <2>3. About(Work, orphaned) = One(Work, h) \cup About(Work, orphaned')
    BY <1>1, <2>1, Taken
  <2> HIDE DEF h
  <2>4. held' = [held EXCEPT ![w] = h]
    BY <2>1 DEF Begin
  <2>5. About(Work, held) \subseteq About(Work, held') /\ One(Work, h) \subseteq About(Work, held')
    BY <1>1, <2>1, <2>2, <2>4, Holding
  <2>6. AtWork \subseteq AtWork' /\ h.task \in AtWork'
    BY <1>3, <2>1, <2>2, <2>3, <2>5 DEF AtWork
  <2> QED
    BY <1>4, <2>1, <2>2, <2>6
<1>8. ASSUME NEW w \in Worker, NEW v \in Worker, Steal(w, v) PROVE Backed(a)'
  <2> DEFINE h == held[v]
  <2>1. h # NoEvent /\ held[w] = NoEvent /\ Begin(w, h) /\ UNCHANGED <<ready, orphaned>>
    BY <1>8 DEF Steal
  <2>2. h \in Of({"ready"}) /\ h \in TaskEvent /\ One(Work, h) = {h.task}
    BY <1>1, <2>1, ReadyIsWork
  <2> HIDE DEF h
  <2>4. held' = [held EXCEPT ![w] = h]
    BY <2>1 DEF Begin
  <2>5. About(Work, held) \subseteq About(Work, held') /\ One(Work, h) \subseteq About(Work, held')
    BY <1>1, <2>1, <2>2, <2>4, Holding
  <2>6. AtWork \subseteq AtWork' /\ h.task \in AtWork'
    BY <1>3, <2>1, <2>2, <2>5 DEF AtWork
  <2> QED
    BY <1>4, <2>1, <2>2, <2>6
<1>9. ASSUME NEW w \in Worker, Complete(w) PROVE Backed(a)'
  <2> DEFINE e == Mk("completed", held[w].task, held[w].n, FALSE)
  <2>1. held[w] # NoEvent /\ held[w].task \in Task /\ held[w].n \in Nat
    BY <1>1, <1>9, ReadyIsWork DEF Complete
  <2>2. e \in Results /\ e \in TaskEvent /\ e.task = held[w].task
    BY <2>1 DEF Mk, Results, Of, TaskEvent, EventType
  <2>3. /\ held' = [held EXCEPT ![w] = NoEvent]
        /\ stream' = [stream EXCEPT !["tasks"] = Append(@, e)]
        /\ UNCHANGED <<ready, orphaned>>
    BY <1>9 DEF Complete
  <2> HIDE DEF e
  <2> QED
    BY <1>5, <2>1, <2>2, <2>3
<1>10. ASSUME NEW w \in Worker, NEW kind \in ErrorKind, Fail(w, kind) PROVE Backed(a)'
  <2> DEFINE retry  == Mk("ready", held[w].task, held[w].n + 1, FALSE)
             failed == Mk("failed", held[w].task, held[w].n, kind = "transient")
  <2>1. /\ held[w] # NoEvent /\ held[w].task \in Task /\ held[w].n \in Nat
        /\ One(Work, held[w]) = {held[w].task}
    BY <1>1, <1>10, ReadyIsWork DEF Fail
  <2>2. /\ held' = [held EXCEPT ![w] = NoEvent] /\ orphaned' = orphaned
        /\ \/ ready' = Append(ready, retry) /\ stream' = stream
           \/ stream' = [stream EXCEPT !["tasks"] = Append(@, failed)] /\ ready' = ready
    BY <1>10 DEF Fail
  <2>3. /\ failed \in Results /\ failed \in TaskEvent /\ failed.task = held[w].task
        /\ retry \in TaskEvent /\ One(Work, retry) = {held[w].task}
    <3>1. \A b \in BOOLEAN : LET f == Mk("failed", held[w].task, held[w].n, b) IN
                               f \in Results /\ f \in TaskEvent /\ f.task = held[w].task
      BY <2>1 DEF Mk, Results, Of, TaskEvent, EventType
    <3>2. retry \in TaskEvent /\ One(Work, retry) = {held[w].task}
      BY <2>1 DEF Mk, Work, Of, One, TaskEvent, EventType
    <3> QED
      BY <3>1, <3>2
  <2> HIDE DEF retry, failed
  <2>4. CASE ready' = Append(ready, retry) /\ stream' = stream
    <3>1. About(Work, ready') = About(Work, ready) \cup {held[w].task}
      BY <1>1, <2>3, <2>4, WorkAppended
    <3>2. About(Work, held) \subseteq About(Work, held') \cup {held[w].task}
      BY <2>1, <2>2, Holding
    <3>3. AtWork \subseteq AtWork'
      BY <1>3, <2>2, <3>1, <3>2 DEF AtWork
    <3> QED
      BY <1>4, <2>4, <3>3
  <2>5. CASE stream' = [stream EXCEPT !["tasks"] = Append(@, failed)] /\ ready' = ready
    BY <1>5, <2>1, <2>2, <2>3, <2>5
  <2> QED
    BY <2>2, <2>4, <2>5
<1>11. ASSUME NEW w \in Worker, WorkerCrash(w) PROVE Backed(a)'
  <2> DEFINE h == held[w]
  <2>1. /\ h # NoEvent /\ orphaned' = Append(orphaned, h) /\ held' = [held EXCEPT ![w] = NoEvent]
        /\ ready' = ready /\ stream' = stream
    BY <1>11 DEF WorkerCrash, queues
  <2>2. h \in TaskEvent
    BY <1>1, <2>1, ReadyIsWork
  <2>3. About(Work, held) \subseteq About(Work, held') \cup One(Work, h)
    BY <2>1, Holding
  <2> HIDE DEF h
  <2>4. About(Work, orphaned') = About(Work, orphaned) \cup One(Work, h)
    BY <1>1, <2>1, <2>2, WorkAppended
  <2>5. AtWork \subseteq AtWork'
    BY <1>3, <2>1, <2>3, <2>4 DEF AtWork
  <2> QED
    BY <1>4, <2>1, <2>5
<1>12. ASSUME NEW w \in Worker, LoseResult(w) PROVE FALSE
  BY <1>1, <1>12 DEF LoseResult, Disturb, Lost, Disturbance
<1> QED
  BY <1>6, <1>7, <1>8, <1>9, <1>10, <1>11, <1>12 DEF WorkerStep, WorkerFault, Finish

\* The policy gate answers what it is asked.
LEMMA ServiceBacked ==
  ASSUME NEW a \in Api, State, Backed(a), ServiceStep, ~Lost'
  PROVE  Backed(a)'
<1>1. /\ stream \in [Stream -> Seq(TaskEvent)] /\ toPolicy \in Seq(TaskEvent)
      /\ toPolicy \in Seq(Of(Checks)) /\ used \in [Disturbance -> Nat]
  BY DEF State, Inv, QueuesTyped, Kinds
<1>2. UNCHANGED <<rows, thread, inbox, pending, workers>>
  BY DEF ServiceStep, DecidePolicy, Review, LoseCheck, LoseReview, queues
<1>3. /\ \A K : InTheHand(a, K)' = InTheHand(a, K)
      /\ Leaving(Work)' = Leaving(Work) /\ Leaving(Asks)' = Leaving(Asks)
      /\ AtWork' = AtWork
  BY <1>2 DEF InTheHand, Leaving, AtWork, workers
<1>4. ASSUME stream'["tasks"] = stream["tasks"], PolicyGate => Asked(a) \subseteq Asked(a)'
      PROVE  Backed(a)'
  <2>1. Unfollowed(Starts, Results, stream'["tasks"]) \subseteq AtWork'
    BY <1>3, <1>4 DEF Backed
  <2> QED
    BY <1>2, <1>3, <1>4, <2>1, StillBacked DEF rows
<1>5. CASE DecidePolicy
  <2> DEFINE h == Head(toPolicy)
             P == stream["policy"]
  <2>1. PICK d \in {"allow", "deny"} :
          stream' = [stream EXCEPT !["policy"] = Append(@, Mk(d, Head(toPolicy).task, 0, FALSE))]
    BY <1>5 DEF DecidePolicy
  <2> DEFINE e == Mk(d, Head(toPolicy).task, 0, FALSE)
  <2>2. toPolicy # <<>> /\ toPolicy' = Tail(toPolicy)
    BY <1>5 DEF DecidePolicy
  <2>3. h \in TaskEvent /\ h.task \in Task /\ h.type = "policy_check"
    BY <1>1, <2>2, HeadTailProperties DEF Of, Checks, TaskEvent
  <2>4. e \in TaskEvent /\ One(Asks, e) = {h.task} /\ One(Asks, h) = {h.task}
    BY <2>3 DEF Mk, TaskEvent, EventType, One, Asks, Of
  <2>5. About(Asks, toPolicy) = One(Asks, h) \cup About(Asks, toPolicy')
    BY <1>1, <2>2, Taken
  <2>6. stream'["tasks"] = stream["tasks"] /\ stream'["policy"] = Append(P, e)
    BY <1>1, <2>1 DEF Stream
  <2>7. P \in Seq(TaskEvent)
    BY <1>1 DEF Stream
  <2> HIDE DEF h, e, P
  <2>8. About(Asks, Append(P, e)) = About(Asks, P) \cup One(Asks, e)
    BY <2>4, <2>7, WorkAppended
  <2>9. Asked(a) \subseteq Asked(a)'
    BY <1>2, <1>3, <2>4, <2>5, <2>6, <2>8 DEF Asked, P
  <2> QED
    BY <1>4, <2>6, <2>9
<1>6. CASE Review
  <2>1. stream'["tasks"] = stream["tasks"] /\ stream'["policy"] = stream["policy"]
          /\ toPolicy' = toPolicy
    BY <1>1, <1>6 DEF Review, Stream
  <2>2. Asked(a) \subseteq Asked(a)'
    BY <1>2, <1>3, <2>1 DEF Asked
  <2> QED
    BY <1>4, <2>1, <2>2
<1>7. CASE LoseCheck
  <2>1. ~PolicyGate
    BY <1>1, <1>7 DEF LoseCheck, Disturb, Lost, Disturbance
  <2> QED
    BY <1>4, <1>7, <2>1 DEF LoseCheck, queues
<1>8. CASE LoseReview
  <2>1. stream' = stream /\ toPolicy' = toPolicy
    BY <1>8 DEF LoseReview, queues
  <2>2. Asked(a) \subseteq Asked(a)'
    BY <1>2, <1>3, <2>1 DEF Asked
  <2> QED
    BY <1>4, <2>1, <2>2
<1> QED
  BY <1>5, <1>6, <1>7, <1>8 DEF ServiceStep

\* What was lost stays lost.
LEMMA LostStays ==
  ASSUME State, [Next]_vars, Lost
  PROVE  Lost'
<1>1. used \in [Disturbance -> Nat]
  BY DEF State, Inv, QueuesTyped
<1>2. used' = used \/ \E kind \in Disturbance : Disturb(kind)
  <2>1. CASE Reading \/ UNCHANGED vars
    BY <2>1, ReadingRests
  <2>2. CASE \E a \in Api : Deliver(a) \/ NextEntry(a) \/ RecoverPending(a) \/ Ack(a)
    BY <2>2 DEF Deliver, NextEntry, RecoverPending, Ack
  <2>3. CASE \E a \in Api : HandleEvent(a)
    BY <2>3, HandlerIs DEF HandlerFrameOf
  <2>4. CASE \E x \in Thread : Proceed(x)
    BY <2>4, ProceedIs DEF ProceedFrameOf
  <2>5. CASE ApiFault
    BY <2>5 DEF ApiFault, HandlerError, ApiCrash, Disturbance
  <2>6. CASE HttpRequest
    BY <2>6 DEF HttpRequest, CancelJob, ContinueJob, RetryJob, RetryFailedTasks, RetryTask,
                Request, Disturbance
  <2>7. CASE WorkerStep \/ WorkerFault
    BY <2>7 DEF WorkerStep, WorkerFault, Finish, Take, Claim, Complete, Fail, WorkerCrash,
                LoseResult, Steal, Disturbance
  <2>8. CASE ServiceStep
    BY <2>8 DEF ServiceStep, DecidePolicy, Review, LoseCheck, LoseReview, Disturbance
  <2> QED
    BY <2>1, <2>2, <2>3, <2>4, <2>5, <2>6, <2>7, <2>8 DEF Next, ApiStep, Loop
<1>3. \A k \in Disturbance : used[k] > 0 => used'[k] > 0
  BY <1>1, <1>2 DEF Disturb
<1> QED
  BY <1>3 DEF Lost, Disturbance

\* At first nothing is in flight, and every task is pending.
LEMMA InitBacked ==
  ASSUME NEW a \in Api, Init
  PROVE  Backed(a)
<1>1. \A K, L : About(K, <<>>) = {} /\ Unfollowed(K, L, <<>>) = {}
  BY DEF About, Unfollowed
<1>2. thread[a].pc # "handle"
  BY DEF Init, Handle, Idle, Thread
<1> QED
  BY <1>1, <1>2 DEF Init, Backed, InTheHand, Stream

\* Every step of a program with one replica whose handlers do not raise keeps the backing, or
\* loses something.
LEMMA NextBacked ==
  ASSUME NEW a, Api = {a}, \A f \in Faults : f["apiError"] = 0,
         State, Lost \/ Backed(a), [Next]_vars
  PROVE  Lost' \/ Backed(a)'
<1> SUFFICES ASSUME ~Lost' PROVE Backed(a)'
  OBVIOUS
<1>1. Backed(a) /\ a \in Api
  BY LostStays
<1>2. CASE ApiStep
  BY <1>1, <1>2, LoopBacked, HandlerBacked, ProceedBacked DEF ApiStep, Loop
<1>3. CASE ApiFault
  <2>1. used \in [Disturbance -> Nat] /\ "apiError" \in Disturbance /\ "apiCrash" \in Disturbance
    BY DEF State, Inv, QueuesTyped, Disturbance
  <2>2. CASE HandlerError(a)
    <3>1. used'["apiError"] = used["apiError"] + 1 /\ used' \in Faults
      BY <2>1, <2>2 DEF HandlerError, Disturb
    <3> QED
      BY <2>1, <3>1
  <2>3. CASE ApiCrash(a)
    <3>1. used'["apiCrash"] = used["apiCrash"] + 1
      BY <2>1, <2>3 DEF ApiCrash, Disturb
    <3> QED
      BY <2>1, <3>1 DEF Lost
  <2> QED
    BY <1>3, <2>2, <2>3 DEF ApiFault
<1>4. CASE HttpRequest
  BY <1>1, <1>4, RequestBacked
<1>5. CASE WorkerStep \/ WorkerFault
  BY <1>1, <1>5, WorkerBacked
<1>6. CASE ServiceStep
  BY <1>1, <1>6, ServiceBacked
<1>7. CASE Reading \/ UNCHANGED vars
  <2>0. UNCHANGED <<rows, thread, queues, workers, services, used>>
    BY <1>7, ReadingRests
  <2>1. /\ AtWork' = AtWork /\ Answered(a)' = Answered(a) /\ Asked(a)' = Asked(a)
        /\ InTheHand(a, Starts)' = InTheHand(a, Starts)
    BY <2>0 DEF AtWork, Answered, Asked, InTheHand, Leaving, queues, workers, services
  <2> QED
    BY <1>1, <2>0, <2>1 DEF Backed, rows, queues
<1> QED
  BY <1>2, <1>3, <1>4, <1>5, <1>6, <1>7 DEF Next

\* What is backed is in flight.
LEMMA BackedInFlight ==
  ASSUME NEW a \in Api, Backed(a), State, NEW t \in Task,
         t \in AtWork \cup Answered(a) \cup Asked(a)
  PROVE  InFlight(t) # {}
<1>1. \A e \in Work \cup Results \cup Asks : e.task = t => Speaks(e, t)
  BY OrchestratorAssumption DEF Work, Results, Asks, Of, Speaks
<1>2. a \in Thread
  BY DEF Thread
<1> DEFINE ofInbox  == UNION {{<<"inbox", b, i>> : i \in {j \in DOMAIN inbox[b] : Speaks(inbox[b][j], t)}}
                                : b \in Api}
           ofHeld   == {<<"held", w>> : w \in {v \in Worker : Speaks(held[v], t)}}
           ofHandle == {<<"handle", x>> : x \in {y \in Thread : thread[y].pc = "handle"
                                                             /\ Speaks(thread[y].ev, t)}}
           ofEmit   == UNION {{<<"emit", x, e>> : e \in {f \in thread[x].out : Speaks(f, t)}}
                                : x \in Thread}
           ofQueues == UNION {InSeq("ready", ready, t), InSeq("orphaned", orphaned, t),
                              InSeq("policy", toPolicy, t), InSeq("pending", pending, t),
                              InSeq("tasks", stream["tasks"], t),
                              InSeq("decisions", stream["policy"], t)}
<1>9. InFlight(t) = ofQueues \cup ofInbox \cup ofHeld \cup ofHandle \cup ofEmit
  BY Zenon DEF InFlight
<1> HIDE DEF ofInbox, ofHeld, ofHandle, ofEmit, ofQueues
<1>3. ASSUME NEW K, K \in {Work, Results, Asks}, NEW s, NEW name, t \in About(K, s)
      PROVE  InSeq(name, s, t) # {}
  <2>1. PICK i \in DOMAIN s : s[i] \in K /\ s[i].task = t
    BY <1>3, AboutIff
  <2>2. <<name, i>> \in InSeq(name, s, t)
    BY <1>1, <1>3, <2>1 DEF InSeq
  <2> QED
    BY <2>2
<1>4. CASE t \in About(Work, ready) \cup About(Work, orphaned) \cup About(Asks, toPolicy)
               \cup About(Results, stream["tasks"]) \cup About(Asks, stream["policy"])
  <2>1. \/ InSeq("ready", ready, t) # {} \/ InSeq("orphaned", orphaned, t) # {}
        \/ InSeq("policy", toPolicy, t) # {} \/ InSeq("tasks", stream["tasks"], t) # {}
        \/ InSeq("decisions", stream["policy"], t) # {}
    BY <1>3, <1>4
  <2> QED
    BY <2>1 DEF InFlight
<1>5. CASE t \in About(Work, held)
  <2>1. PICK w \in DOMAIN held : held[w] \in Work /\ held[w].task = t
    BY <1>5, AboutIff
  <2>2. w \in Worker /\ Speaks(held[w], t)
    BY <1>1, <2>1 DEF State, Inv, QueuesTyped
  <2>3. <<"held", w>> \in ofHeld
    BY <2>2 DEF ofHeld
  <2> QED
    BY <1>9, <2>3
<1>6. CASE t \in About(Results, inbox[a]) \cup About(Asks, inbox[a])
  <2>1. PICK i \in DOMAIN inbox[a] : inbox[a][i] \in Results \cup Asks /\ inbox[a][i].task = t
    BY <1>6, AboutIff
  <2>2. Speaks(inbox[a][i], t)
    BY <1>1, <2>1
  <2>3. <<"inbox", a, i>> \in ofInbox
    BY <2>1, <2>2 DEF ofInbox
  <2> QED
    BY <1>9, <2>3
<1>7. CASE t \in InTheHand(a, Results) \cup InTheHand(a, Asks)
  <2>1. thread[a].pc = "handle" /\ thread[a].ev \in Results \cup Asks /\ thread[a].ev.task = t
    BY <1>7 DEF InTheHand, One
  <2>2. Speaks(thread[a].ev, t)
    BY <1>1, <2>1
  <2>3. <<"handle", a>> \in ofHandle
    BY <1>2, <2>1, <2>2 DEF ofHandle
  <2> QED
    BY <1>9, <2>3
<1>8. CASE t \in Leaving(Work) \cup Leaving(Asks)
  <2>1. PICK x \in Thread : \E e \in thread[x].out : e \in Work \cup Asks /\ e.task = t
    BY <1>8 DEF Leaving, AboutAny, One
  <2>2. PICK e \in thread[x].out : e \in Work \cup Asks /\ e.task = t
    BY <2>1
  <2>3. Speaks(e, t)
    BY <1>1, <2>2
  <2>4. <<"emit", x, e>> \in ofEmit
    BY <2>2, <2>3 DEF ofEmit
  <2> QED
    BY <1>9, <2>4
<1> QED
  BY <1>4, <1>5, <1>6, <1>7, <1>8 DEF AtWork, Answered, Asked

\* A task that the database shows as ready, running or blocked has an entry or an execution in
\* flight that will move it on, unless something was lost with the process that held it: for
\* every plan, with the gate and the critic or without, whatever the workers and the users do,
\* with one API replica whose handlers do not raise.  (With more replicas or errors, an
\* acknowledged start can be handled after the result of its execution.)
THEOREM NothingAbandoned ==
  ASSUME NEW a, Api = {a}, \A f \in Faults : f["apiError"] = 0
  PROVE  Spec => []NoTaskAbandoned
<1> DEFINE IInv == State /\ (Lost \/ Backed(a))
<1>1. Init => IInv
  BY InitState, InitBacked
<1>2. IInv /\ [Next]_vars => IInv'
  <2> SUFFICES ASSUME IInv, [Next]_vars PROVE IInv'
    OBVIOUS
  <2>1. State'
    BY NextState
  <2>2. Lost' \/ Backed(a)'
    BY NextBacked
  <2> QED
    BY <2>1, <2>2
<1>3. IInv => NoTaskAbandoned
  <2> SUFFICES ASSUME State, Backed(a), NEW t \in Task, task[t] \in {"ready", "running", "blocked"}
               PROVE  InFlight(t) # {}
    BY DEF NoTaskAbandoned
  <2>1. t \in AtWork \cup Answered(a) \cup Asked(a)
    BY DEF Backed
  <2> QED
    BY <2>1, BackedInFlight
<1> HIDE DEF IInv
<1> QED
  BY <1>1, <1>2, <1>3, PTL DEF Spec
-----------------------------------------------------------------------------
(* What a refresh finds.                                                   *)

\* No tasks wait for each other in a circle.
NoCycle == \A S \in SUBSET Task : S # {} => \E t \in S : Deps[t] \cap S = {}

\* Rows from which _refresh_job_status does not derive "planning".
Stirring ==
  \/ \E t \in Task : task[t] \in {"ready", "running", "failed"}
  \/ \A t \in Task : task[t] \in Done

\* Without a policy gate no task is blocked.
NoneBlocked == \A t \in Task : task[t] \in {"pending", "ready", "running", "failed"} \cup Done

\* No thread is between a handler's write and the end of the dispatch that follows it.
Dispatched == \A x \in Thread : thread[x].pc \notin {"dispatch", "commit"}

\* A replica that still has to refresh the job does so after a dispatch, which has left
\* something stirring unless all is done; a job stays canceled only while no request runs.
Accounted(a) ==
  /\ NoneBlocked
  /\ \A x \in Thread : /\ thread[x].pc = "commit" => thread[x].batch # {}
                       /\ thread[x].pc = "handle" => thread[x].refreshes = 0
  /\ Dispatched /\ thread[a].refreshes > 0 => Stirring
  /\ job = "canceled" => thread[Http].pc = "idle"

\* What x has read of the job is what the row holds, and it will not plan the job again.
Current(x) ==
  /\ seen[x].job # "unread" => seen[x].job = job
  /\ seen[x].derived # "planning"

\* What is known of a canceled job was read after the cancel, or is marked as crossed by it.
Informed ==
  /\ \A x \in Thread : /\ seen[x].job = "unread" => seen[x].derived = "unread"
                       /\ seen[x].derived # "canceled"
  /\ ~seen[Http].crossed
  /\ job = "canceled" => \A x \in Thread : seen[x].crossed \/ Current(x)

\* A dispatch that finds nothing to do: something stirs, or all is done.
LEMMA NothingReady ==
  ASSUME NoCycle, NoneBlocked, task \in [Task -> TaskStatus], ReadyTasks(task, Deps) = {}
  PROVE  Stirring
<1> DEFINE P == {t \in Task : task[t] = "pending"}
<1>1. Deps \in [Task -> SUBSET Task]
  BY OrchestratorAssumption
<1>2. SUFFICES ASSUME \A t \in Task : task[t] \notin {"ready", "running", "failed"}
               PROVE  P = {}
  BY DEF Stirring, NoneBlocked
<1>3. SUFFICES ASSUME NEW t \in P, Deps[t] \cap P = {}
               PROVE  FALSE
  BY DEF NoCycle
<1>4. \A d \in Deps[t] : task[d] \in Done
  BY <1>1, <1>2, <1>3 DEF NoneBlocked
<1>5. t \in ReadyTasks(task, Deps)
  BY <1>4 DEF ReadyTasks
<1> QED
  BY <1>5

\* What is derived then is not "planning", and never "canceled".
LEMMA StirringDerives ==
  /\ DerivedJobStatus({task[t] : t \in Task}) \in {"planning", "running", "succeeded", "failed"}
  /\ Stirring => DerivedJobStatus({task[t] : t \in Task}) # "planning"
<1> DEFINE S == {task[t] : t \in Task}
<1>1. DerivedJobStatus(S) \in {"planning", "running", "succeeded", "failed"}
  BY DEF DerivedJobStatus
<1>2. Stirring => "failed" \in S \/ S \subseteq Done \/ S \cap {"ready", "running"} # {}
  BY DEF Stirring
<1>3. ASSUME "failed" \in S \/ S \subseteq Done \/ S \cap {"ready", "running"} # {}
      PROVE  DerivedJobStatus(S) # "planning"
  <2> HIDE DEF S
  <2> QED
    BY <1>3 DEF DerivedJobStatus
<1> QED
  BY <1>1, <1>2, <1>3

\* Moving one thread keeps the account of a when the thread is about to dispatch, has left
\* something stirring, only goes on within its handler, or has nothing to refresh.
LEMMA StillAccounted ==
  ASSUME NEW a \in Thread, NEW x \in Thread, State, Accounted(a),
         \A y \in Thread : y # x => thread'[y] = thread[y],
         \/ thread'[x].pc \in {"dispatch", "commit"}
         \/ Stirring'
         \/ /\ task' = task /\ thread[x].pc \notin {"dispatch", "commit"}
            /\ x = a => (thread'[x].refreshes > 0 => thread[x].refreshes > 0)
         \/ x = a /\ thread'[x].refreshes = 0
  PROVE  Dispatched' /\ thread'[a].refreshes > 0 => Stirring'
<1> SUFFICES ASSUME Dispatched', thread'[a].refreshes > 0, ~Stirring'
             PROVE  FALSE
  OBVIOUS
<1>1. /\ task' = task /\ thread[x].pc \notin {"dispatch", "commit"}
      /\ x = a => (thread'[x].refreshes > 0 => thread[x].refreshes > 0)
  BY DEF Dispatched, Stirring
<1>2. thread[a].refreshes > 0
  BY <1>1
<1>3. Dispatched
  BY <1>1 DEF Dispatched
<1>4. Stirring <=> Stirring'
  BY <1>1 DEF Stirring
<1> QED
  BY <1>2, <1>3, <1>4 DEF Accounted

\* Where a handler leaves its thread and the rows.
LEMMA HandlerLeaves ==
  ASSUME State, ~PolicyGate, NEW a \in Api, HandleEvent(a), NoneBlocked,
         thread[a].pc = "handle" => thread[a].refreshes = 0
  PROVE  /\ Becomes(a, thread'[a])
         /\ thread'[a].pc \notin {"handle", "commit"}
         /\ thread'[a].pc = "dispatch" \/ Stirring'
         /\ NoneBlocked'
         /\ \/ UNCHANGED <<job, seen>>
            \/ Forget(a) /\ job' \in {job, Committed(a, "running"), Committed(a, "failed")}
<1> DEFINE r == thread[a]
           t == r.ev.task
<1>1. /\ a \in Thread /\ a # Http
      /\ thread \in Threads(Nat, TaskEvent)
      /\ r \in ThreadRecord(Nat, TaskEvent)
      /\ task \in [Task -> TaskStatus]
  BY OrchestratorAssumption DEF State, Inv, Threads, Thread, RowsTyped
<1>2. HandlerFrameOf(a) /\ HandlerEffect(a)
  BY HandlerIs
<1>15. UNCHANGED <<job, seen>> \/ Forget(a)
  BY <1>2 DEF HandlerFrameOf
<1>3. Becomes(a, thread'[a]) /\ thread'[a].pc \notin {"handle", "commit"}
  BY <1>2 DEF HandlerFrameOf
<1>4. ASSUME NEW s \in {"running", "completed", "accepted", "failed", "ready", "pending"},
             t \in Task, task' = [task EXCEPT ![t] = s]
      PROVE  NoneBlocked' /\ (s \in {"running", "failed", "ready"} => Stirring')
  <2>1. task'[t] = s /\ \A u \in Task : u # t => task'[u] = task[u]
    BY <1>1, <1>4
  <2> QED
    BY <1>4, <2>1 DEF NoneBlocked, Stirring, Done
<1>5. /\ r.ev # PlanCreated => t \in Task /\ r.ev \in TaskEvent
      /\ r.ev.type \notin {"allow", "deny"}
  <2>1. r.ev \in Of(Heard) \cup {PlanCreated, NoEvent} /\ r.ev # NoEvent
    BY <1>1, <1>2 DEF State, Kinds, Hand, HandlerFrameOf
  <2>2. PlanCreated.type = "plan_created"
    BY DEF PlanCreated, Mk
  <2> QED
    BY <1>2, <2>1, <2>2 DEF HandlerFrameOf, Of, Heard, Reports, Reviews, Decisions
<1>6. \A type \in EventType : Handling(a, type) => t \in Task
  BY <1>5, TaskHandler
<1>7. CASE HandlePlanCreated(a)
  BY <1>1, <1>3, <1>7, Dispatching DEF HandlePlanCreated, rows, NoneBlocked
<1>8. CASE HandleStarted(a)
  BY <1>3, <1>4, <1>6, <1>8, <1>15 DEF HandleStarted, EventType
<1>9. CASE HandleCompleted(a)
  BY <1>1, <1>3, <1>4, <1>6, <1>9, Dispatching DEF HandleCompleted, EventType
<1>10. CASE RetrySameStep(a)
  BY <1>3, <1>4, <1>6, <1>10, <1>15 DEF RetrySameStep, EventType
<1>11. CASE GiveUp(a)
  <2>1. t \in Task
    <3>1. CASE Handling(a, "failed")
      BY <1>6, <3>1 DEF EventType
    <3>2. CASE r.pc = "giveUp"
      <4>1. r.ev \in TaskEvent
        BY <1>1, <3>2 DEF Threads, Consistent
      <4> QED
        BY <4>1 DEF TaskEvent
    <3> QED
      BY <1>11, <3>1, <3>2 DEF GiveUp
  <2> QED
    BY <1>3, <1>4, <1>11, <1>15, <2>1 DEF GiveUp
<1>12. CASE HandleAccepted(a)
  BY <1>1, <1>3, <1>4, <1>6, <1>12, Dispatching DEF HandleAccepted, EventType
<1>13. CASE HandleRework(a)
  <2>1. t \in Task
    BY <1>6, <1>13 DEF HandleRework, EventType
  <2>2. CASE /\ task' = [task EXCEPT ![t] = "pending"]
             /\ GoDispatch(a, r, 0) /\ UNCHANGED job
    BY <1>1, <1>3, <1>4, <1>15, <2>1, <2>2, Dispatching
  <2>3. CASE task' = [task EXCEPT ![t] = "failed"] /\ job' = Committed(a, "failed")
    BY <1>3, <1>4, <1>15, <2>1, <2>3
  <2> QED
    BY <1>13, <2>2, <2>3 DEF HandleRework
<1>14. ~HandlePolicyDecision(a)
  BY <1>5 DEF HandlePolicyDecision, Handling
<1> QED
  BY <1>7, <1>8, <1>9, <1>10, <1>11, <1>12, <1>13, <1>14 DEF HandleEvent

\* Where a thread that goes on within its handler is left, and the rows.
LEMMA ProceedLeaves ==
  ASSUME State, NoCycle, ~PolicyGate, NEW x \in Thread, Proceed(x), NoneBlocked,
         thread[x].pc = "commit" => thread[x].batch # {}
  PROVE  /\ Becomes(x, thread'[x])
         /\ thread[x].pc # "idle"
         /\ thread'[x].pc # "handle"
         /\ thread'[x].pc = "commit" => thread'[x].batch # {}
         /\ NoneBlocked'
         /\ \/ thread'[x].pc = "commit"
            \/ Stirring'
            \/ /\ task' = task /\ thread[x].pc \notin {"dispatch", "commit"}
               /\ thread'[x].refreshes > 0 => thread[x].refreshes > 0
         /\ \/ UNCHANGED <<job, seen>>
            \/ /\ thread[x].pc = "refresh" /\ thread[x].refreshes > 0
               /\ Forget(x) /\ job' = Committed(x, StatusRead(x))
<1> DEFINE r == thread[x]
<1>1. /\ thread \in Threads(Nat, TaskEvent)
      /\ r \in ThreadRecord(Nat, TaskEvent)
      /\ Consistent(x, r, TaskEvent)
      /\ task \in [Task -> TaskStatus]
      /\ r.refreshes \in Nat /\ r.end \in {"idle", "ack", "giveUp"}
  BY DEF State, Inv, Threads, RowsTyped, ThreadRecord, End
<1>2. ProceedFrameOf(x)
  BY ProceedIs
<1>3. /\ Becomes(x, thread'[x])
      /\ thread'[x].pc \in {"commit", "emit", "refresh", "idle", "ack", "giveUp"}
  BY <1>1, <1>2 DEF ProceedFrameOf
<1>4. r.pc \in {"dispatch", "commit", "emit", "refresh"}
  BY DEF Proceed, DispatchRead, DispatchCommit, Emit, Refresh
<1>5. ASSUME NEW s \in ThreadRecord(Nat, TaskEvent), Settle(x, s), s.end = r.end
      PROVE  thread'[x].pc # "commit" /\ thread'[x].refreshes = s.refreshes
  <2>1. /\ thread'[x].refreshes = s.refreshes
        /\ s.out # {} => thread'[x].pc = "emit"
        /\ s.out = {} => thread'[x].pc \in {"refresh", s.end}
    BY <1>1, <1>5, Settled
  <2> QED
    BY <1>1, <1>5, <2>1
<1>6. CASE DispatchRead(x)
  <2>1. task' = task /\ UNCHANGED <<job, seen>>
    BY <1>6 DEF DispatchRead, rows
  <2>2. NoneBlocked'
    BY <2>1 DEF NoneBlocked
  <2>3. CASE ReadyTasks(task, Deps) = {}
    <3>1. Stirring
      BY <1>1, <2>3, NothingReady
    <3>2. Stirring'
      BY <2>1, <3>1 DEF Stirring
    <3>3. Settle(x, r)
      BY <1>6, <2>3 DEF DispatchRead
    <3> QED
      BY <1>1, <1>3, <1>4, <1>5, <2>1, <2>2, <3>2, <3>3
  <2>4. CASE ReadyTasks(task, Deps) # {}
    <3> DEFINE S    == ReadyTasks(task, Deps)
               snap == [t \in Task |-> IF t \in S THEN attempts[t] ELSE 0]
               s    == [r EXCEPT !.pc = "commit", !.refreshes = @ + 1, !.batch = S, !.snap = snap]
    <3>1. thread' = [thread EXCEPT ![x] = s]
      BY <1>6, <2>4 DEF DispatchRead
    <3>2. s.pc = "commit" /\ s.batch = S
      BY <1>1 DEF ThreadRecord
    <3>3. thread'[x] = s
      <4> HIDE DEF s
      <4> QED
        BY <1>1, <3>1 DEF Threads
    <3> HIDE DEF s
    <3> QED
      BY <1>3, <1>4, <2>1, <2>2, <2>4, <3>2, <3>3
  <2> QED
    BY <2>3, <2>4
<1>7. CASE DispatchCommit(x)
  <2> DEFINE S == r.batch
  <2>1. /\ r.pc = "commit" /\ S # {} /\ S \subseteq Task /\ UNCHANGED <<job, seen>>
        /\ \A t \in Task \ S : task'[t] = task[t]
        /\ \A t \in S : \E type \in Emitted, n \in Nat : task'[t] = StatusFor(type)
    <3>1. CommitEffect(x)
      BY <1>4, <1>7, ProceedIs
         DEF ProceedEffect, ReadEffect, EmitEffect, RefreshEffect, DispatchCommit
    <3> QED
      BY <1>7, <3>1 DEF CommitEffect, DispatchCommit
  <2>2. \A t \in S : task'[t] \in {"ready", "failed"}
    BY <2>1 DEF Emitted, Checks, StatusFor
  <2>3. Stirring' /\ NoneBlocked'
    BY <2>1, <2>2 DEF Stirring, NoneBlocked
  <2>4. thread'[x].pc = "commit" => thread'[x].batch # {}
    <3>1. PICK s \in ThreadRecord(Nat, TaskEvent) : Settle(x, s) /\ s.end = r.end
      <4>1. PICK invalid \in SUBSET (S \cap BadInput) :
              Settle(x, [r EXCEPT !.batch = {}, !.snap = NoCount,
                !.out = {Mk(EventOf[Fate(r.snap[t], t \notin invalid)], t, Counted(r.snap[t]), FALSE)
                           : t \in S}])
        BY <1>7 DEF DispatchCommit
      <4> DEFINE out == {Mk(EventOf[Fate(r.snap[t], t \notin invalid)], t, Counted(r.snap[t]), FALSE)
                           : t \in S}
                 s   == [r EXCEPT !.batch = {}, !.snap = NoCount, !.out = out]
      <4>2. ASSUME NEW t \in S
            PROVE  Mk(EventOf[Fate(r.snap[t], t \notin invalid)], t, Counted(r.snap[t]), FALSE)
                     \in TaskEvent
        <5>1. t \in Task /\ r.snap[t] \in Nat
          BY <1>1, <2>1 DEF ThreadRecord
        <5>2. /\ EventOf[Fate(r.snap[t], t \notin invalid)] \in EventType
              /\ Counted(r.snap[t]) \in Nat
          BY <5>1, FateIs DEF Emitted, Checks, EventType
        <5> QED
          BY <5>1, <5>2 DEF Mk, TaskEvent
      <4>3. out \subseteq TaskEvent
        BY <4>2
      <4> HIDE DEF out
      <4>4. s \in ThreadRecord(Nat, TaskEvent) /\ s.end = r.end
        BY <1>1, <4>3 DEF ThreadRecord, NoCount
      <4> QED
        BY <4>1, <4>4 DEF out
    <3> QED
      BY <1>5, <3>1
  <2> QED
    BY <1>3, <1>4, <2>1, <2>3, <2>4
<1>8. CASE Emit(x)
  <2>1. PICK e \in r.out : Settle(x, [r EXCEPT !.out = @ \ {e}])
    BY <1>8 DEF Emit
  <2> DEFINE s == [r EXCEPT !.out = @ \ {e}]
  <2>2. s \in ThreadRecord(Nat, TaskEvent) /\ s.end = r.end /\ s.refreshes = r.refreshes
    BY <1>1 DEF ThreadRecord
  <2>3. r.pc = "emit" /\ task' = task /\ UNCHANGED <<job, seen>>
    BY <1>8 DEF Emit, rows
  <2>4. NoneBlocked'
    BY <2>3 DEF NoneBlocked
  <2> HIDE DEF s
  <2>5. thread'[x].pc # "commit" /\ thread'[x].refreshes = r.refreshes
    <3>1. Settle(x, s)
      BY <2>1 DEF s
    <3> QED
      BY <1>5, <2>2, <3>1
  <2> QED
    BY <1>3, <1>4, <2>3, <2>4, <2>5
<1>9. CASE Refresh(x)
  <2> DEFINE s == [r EXCEPT !.refreshes = @ - 1]
  <2>1. /\ r.pc = "refresh" /\ r.refreshes > 0 /\ task' = task
        /\ Forget(x) /\ job' = Committed(x, StatusRead(x))
    BY <1>1, <1>9 DEF Refresh, Consistent
  <2>2. s \in ThreadRecord(Nat, TaskEvent) /\ s.end = r.end /\ Settle(x, s)
    BY <1>1, <1>9, <2>1 DEF ThreadRecord, Refresh
  <2>3. NoneBlocked'
    BY <2>1 DEF NoneBlocked
  <2> HIDE DEF s
  <2>4. thread'[x].pc # "commit"
    BY <1>5, <2>2
  <2> QED
    BY <1>3, <1>4, <2>1, <2>3, <2>4
<1> QED
  BY <1>6, <1>7, <1>8, <1>9 DEF Proceed

\* What a request does to the rows and to the request thread.
LEMMA RequestLeaves ==
  ASSUME State, HttpRequest, NoneBlocked
  PROVE  /\ thread[Http].pc = "idle"
         /\ NoneBlocked'
         /\ \/ CancelJob
            \/ /\ Becomes(Http, thread'[Http]) /\ thread'[Http].pc = "dispatch"
               /\ Forget(Http) /\ job' = Committed(Http, "planning")
<1>1. Http \in Thread /\ thread \in Threads(Nat, TaskEvent)
  BY DEF Thread, State, Inv
<1>2. ASSUME GoDispatch(Http, Idle, 0)
      PROVE  Becomes(Http, thread'[Http]) /\ thread'[Http].pc = "dispatch"
  <2>1. Idle \in ThreadRecord(Nat, TaskEvent)
    BY <1>1, OrchestratorAssumption, IdleTyped
  <2> QED
    BY <1>1, <1>2, <2>1, Dispatching
<1>3. ASSUME NEW S, Reset(S)
      PROVE  /\ NoneBlocked' /\ Forget(Http) /\ job' = Committed(Http, "planning")
             /\ Becomes(Http, thread'[Http]) /\ thread'[Http].pc = "dispatch"
  BY <1>2, <1>3 DEF Reset, NoneBlocked
<1>4. CASE CancelJob
  BY <1>4 DEF CancelJob, Request, NoneBlocked
<1>5. CASE ContinueJob
  BY <1>2, <1>5 DEF ContinueJob, Request, NoneBlocked
<1> QED
  BY <1>3, <1>4, <1>5 DEF HttpRequest, RetryJob, RetryFailedTasks, RetryTask, Request

\* An entry is taken or acknowledged; nothing else is touched.
LEMMA LoopLeaves ==
  ASSUME State, NEW a \in Api, Deliver(a) \/ NextEntry(a) \/ RecoverPending(a) \/ Ack(a)
  PROVE  /\ UNCHANGED <<job, task>> /\ Becomes(a, thread'[a])
         /\ thread'[a].refreshes = 0 /\ thread'[a].pc # "commit"
<1>1. \/ Becomes(a, Idle)
      \/ \E e : Becomes(a, Handle(e))
  BY LoopIs DEF Picks
<1>2. /\ Idle.refreshes = 0 /\ Idle.pc = "idle"
      /\ \A e : Handle(e).refreshes = 0 /\ Handle(e).pc = "handle"
  BY DEF Idle, Handle
<1>3. UNCHANGED <<job, task>>
  BY LoopIs DEF rows
<1> QED
  BY <1>1, <1>2, <1>3 DEF Becomes

\* Every step is of one of these kinds.
LEMMA StepKinds ==
  ASSUME NEW a, Api = {a}, [Next]_vars
  PROVE  \/ HandleEvent(a)
         \/ Deliver(a) \/ NextEntry(a) \/ RecoverPending(a) \/ Ack(a)
         \/ \E x \in Thread : Proceed(x)
         \/ HandlerError(a)
         \/ ApiCrash(a)
         \/ HttpRequest
         \/ Reading
         \/ UNCHANGED <<rows, thread, seen>>
<1>1. CASE WorkerStep \/ WorkerFault \/ ServiceStep \/ UNCHANGED vars
  BY <1>1 DEF WorkerStep, WorkerFault, ServiceStep, Finish, Take, Claim, Complete, Fail, Steal,
              WorkerCrash, LoseResult, DecidePolicy, Review, LoseCheck, LoseReview, vars
<1> QED
  BY <1>1 DEF Next, ApiStep, ApiFault, Loop

\* What changes the status of a job that is over or canceled.
LEMMA EndedJob ==
  ASSUME NEW s \in JobStatus
  PROVE  /\ SetJobStatus("canceled", s) # "canceled" => s = "planning"
         /\ SetJobStatus("succeeded", s) = "succeeded"
         /\ SetJobStatus("failed", s) # "failed" => s = "planning"
         /\ \A t \in {"succeeded", "failed", "canceled"} : "canceled" \notin JobTransitions[t]
BY DEF SetJobStatus, JobTransitions, JobStatus

\* A transaction that knows the job does not change it once it is over or canceled, unless it
\* plans it again.
LEMMA CurrentStays ==
  ASSUME NEW x \in Thread, Current(x), job \in {"succeeded", "failed", "canceled"},
         NEW s \in JobStatus, s # "planning"
  PROVE  Committed(x, s) = job /\ JobRead(x) = job
<1>1. JobRead(x) = job
  BY DEF Current, JobRead
<1>2. SetJobStatus(job, s) = job
  BY EndedJob
<1> QED
  BY <1>1, <1>2 DEF Committed

\* Nothing but a cancellation makes a job canceled.
LEMMA OnlyCancels ==
  ASSUME NEW x, NEW t, t # "canceled", Committed(x, t) = "canceled"
  PROVE  job = "canceled"
BY DEF Committed, SetJobStatus

\* What a refresh derives, now or from what it has read, is a status, and never "canceled".
LEMMA DerivedIs ==
  ASSUME State, Informed, NEW x \in Thread
  PROVE  StatusRead(x) \in JobStatus \ {"canceled"}
BY StirringDerives, CommittedTyped DEF State, Inv, Informed, StatusRead, DerivedStatus

\* Every step keeps the account.
LEMMA NextAccounted ==
  ASSUME NEW a, Api = {a}, ~PolicyGate, NoCycle, State, Accounted(a), Informed, [Next]_vars
  PROVE  Accounted(a)'
<1>1. /\ a \in Api /\ a \in Thread /\ Http \in Thread /\ a # Http
      /\ \A x \in Thread : x = a \/ x = Http
      /\ job \in JobStatus /\ NoneBlocked
      /\ thread[Http].pc = "handle" => FALSE
  <2>1. thread[Http].pc # "handle"
    <3>1. Consistent(Http, thread[Http], TaskEvent) /\ Hand(Http, thread[Http])
      BY DEF State, Inv, Threads, Kinds, Thread
    <3> QED
      BY <3>1 DEF Consistent, Hand
  <2> QED
    BY <2>1, OrchestratorAssumption DEF Thread, State, Inv, RowsTyped, Accounted
<1>2. ASSUME NEW x \in Thread, Becomes(x, thread'[x]), NoneBlocked',
             thread'[x].pc = "commit" => thread'[x].batch # {},
             thread'[x].pc = "handle" => thread'[x].refreshes = 0,
             \/ thread'[x].pc \in {"dispatch", "commit"}
             \/ Stirring'
             \/ /\ task' = task /\ thread[x].pc \notin {"dispatch", "commit"}
                /\ thread'[x].refreshes > 0 => thread[x].refreshes > 0
             \/ x = a /\ thread'[x].refreshes = 0,
             job' = "canceled" => thread'[Http].pc = "idle"
      PROVE  Accounted(a)'
  <2>1. \A y \in Thread : y # x => thread'[y] = thread[y]
    BY <1>2 DEF Becomes
  <2>2. Dispatched' /\ thread'[a].refreshes > 0 => Stirring'
    BY <1>1, <1>2, <2>1, StillAccounted
  <2>3. \A y \in Thread : /\ thread'[y].pc = "commit" => thread'[y].batch # {}
                          /\ thread'[y].pc = "handle" => thread'[y].refreshes = 0
    BY <1>2, <2>1 DEF Accounted
  <2> QED
    BY <1>2, <2>2, <2>3 DEF Accounted
<1>3. CASE HandleEvent(a)
  <2>1. /\ Becomes(a, thread'[a]) /\ NoneBlocked'
        /\ thread'[a].pc \notin {"handle", "commit"}
        /\ thread'[a].pc = "dispatch" \/ Stirring'
        /\ job' \in {job, Committed(a, "running"), Committed(a, "failed")}
    BY <1>1, <1>3, HandlerLeaves DEF Accounted
  <2>2. job' = "canceled" => thread'[Http].pc = "idle"
    BY <1>1, <2>1, OnlyCancels DEF Becomes, Accounted
  <2> QED
    BY <1>1, <1>2, <2>1, <2>2
<1>4. CASE Deliver(a) \/ NextEntry(a) \/ RecoverPending(a) \/ Ack(a)
  <2>1. /\ UNCHANGED <<job, task>> /\ Becomes(a, thread'[a])
        /\ thread'[a].refreshes = 0 /\ thread'[a].pc # "commit"
    BY <1>1, <1>4, LoopLeaves
  <2>2. NoneBlocked' /\ (job' = "canceled" => thread'[Http].pc = "idle")
    BY <1>1, <2>1 DEF NoneBlocked, Becomes, Accounted
  <2> QED
    BY <1>1, <1>2, <2>1, <2>2
<1>5. ASSUME NEW x \in Thread, Proceed(x)
      PROVE  Accounted(a)'
  <2>1. /\ Becomes(x, thread'[x]) /\ NoneBlocked' /\ thread[x].pc # "idle"
        /\ thread'[x].pc # "handle"
        /\ thread'[x].pc = "commit" => thread'[x].batch # {}
        /\ \/ thread'[x].pc = "commit"
           \/ Stirring'
           \/ /\ task' = task /\ thread[x].pc \notin {"dispatch", "commit"}
              /\ thread'[x].refreshes > 0 => thread[x].refreshes > 0
        /\ job' = job \/ job' = Committed(x, StatusRead(x))
    BY <1>1, <1>5, ProceedLeaves DEF Accounted
  <2>2. job' = "canceled" => job = "canceled"
    BY <1>1, <1>5, <2>1, DerivedIs, OnlyCancels
  <2>3. job' = "canceled" => thread'[Http].pc = "idle"
    BY <1>1, <2>1, <2>2 DEF Becomes, Accounted
  <2> QED
    BY <1>2, <1>5, <2>1, <2>3
<1>6. CASE HandlerError(a)
  <2>1. thread' = [thread EXCEPT ![a] = Idle] /\ job' = job /\ task' = task
    BY <1>6 DEF HandlerError, rows
  <2>2. Becomes(a, Idle)
    BY <1>1, <2>1, BecomesUpdate DEF State, Inv
  <2>3. thread'[a] = Idle /\ Becomes(a, thread'[a]) /\ Idle.refreshes = 0 /\ Idle.pc = "idle"
    BY <2>2 DEF Becomes, Idle
  <2>4. NoneBlocked' /\ (job' = "canceled" => thread'[Http].pc = "idle")
    BY <1>1, <2>1, <2>3 DEF NoneBlocked, Becomes, Accounted
  <2> QED
    BY <1>1, <1>2, <2>3, <2>4
<1>7. CASE ApiCrash(a)
  <2>1. /\ job' = job /\ task' = task
        /\ thread'[a] = Idle
        /\ thread'[Http] = Idle \/ (thread'[Http] = [Idle EXCEPT !.pc = "dispatch"]
                                     /\ job \in {"queued", "planning", "running"})
    <3>1. thread \in [Thread -> ThreadRecord(Nat, TaskEvent)]
      BY DEF State, Inv, Threads
    <3> QED
      BY <1>1, <1>7, <3>1 DEF ApiCrash, rows
  <2>2. Idle.refreshes = 0 /\ Idle.pc = "idle" /\ [Idle EXCEPT !.pc = "dispatch"].pc = "dispatch"
    BY DEF Idle
  <2>3. NoneBlocked' /\ (job' = "canceled" => thread'[Http].pc = "idle")
    BY <1>1, <2>1, <2>2 DEF NoneBlocked
  <2>4. \A y \in Thread : thread'[y].pc \notin {"commit", "handle"}
    BY <1>1, <2>1, <2>2
  <2>5. ~(thread'[a].refreshes > 0)
    BY <2>1, <2>2
  <2> QED
    BY <2>3, <2>4, <2>5 DEF Accounted
<1>8. CASE HttpRequest
  <2>1. /\ thread[Http].pc = "idle"
        /\ NoneBlocked'
        /\ \/ UNCHANGED <<task, thread>>
           \/ /\ Becomes(Http, thread'[Http]) /\ thread'[Http].pc = "dispatch"
              /\ job' = Committed(Http, "planning")
    BY <1>1, <1>8, RequestLeaves DEF CancelJob
  <2>2. CASE UNCHANGED <<task, thread>>
    BY <2>1, <2>2 DEF Accounted, Dispatched, Stirring
  <2>3. CASE /\ Becomes(Http, thread'[Http]) /\ thread'[Http].pc = "dispatch"
             /\ job' = Committed(Http, "planning")
    <3>1. job' # "canceled"
      BY <1>1, <2>3 DEF Informed, Current, Committed, JobRead, SetJobStatus, JobTransitions
    <3> QED
      BY <1>1, <1>2, <2>1, <2>3, <3>1
  <2> QED
    BY <2>1, <2>2, <2>3
<1>9. CASE Reading \/ UNCHANGED <<rows, thread, seen>>
  BY <1>9, ReadingRests DEF Accounted, Dispatched, Stirring, NoneBlocked, rows
<1> QED
  BY <1>3, <1>4, <1>5, <1>6, <1>7, <1>8, <1>9, StepKinds

\* Every step keeps what is known of a canceled job.
LEMMA NextInformed ==
  ASSUME NEW a, Api = {a}, ~PolicyGate, NoCycle, State, Accounted(a), Informed, [Next]_vars
  PROVE  Informed'
<1>1. /\ a \in Api /\ a \in Thread /\ Http \in Thread /\ a # Http /\ NoneBlocked
      /\ \A x \in Thread : x = a \/ x = Http
      /\ seen \in Readings
      /\ \A x \in Thread : thread[x].pc = "refresh" => thread[x].refreshes > 0
      /\ Unread.job = "unread" /\ Unread.derived = "unread" /\ ~Unread.crossed
  BY OrchestratorAssumption
  DEF Thread, Accounted, State, Inv, RowsTyped, Threads, Consistent, Unread
<1>2. ASSUME UNCHANGED <<job, seen>> PROVE Informed'
  BY <1>2 DEF Informed, Current
<1>3. ASSUME NEW x \in Thread, Forget(x), job' = "canceled" => job = "canceled" PROVE Informed'
  <2>1. seen'[x] = Unread /\ \A y \in Thread : y # x => seen'[y] = seen[y]
    BY <1>1, <1>3 DEF Forget, Readings
  <2> QED
    BY <1>1, <1>3, <2>1 DEF Informed, Current
<1>4. CASE HandleEvent(a)
  <2>1. \/ UNCHANGED <<job, seen>>
        \/ Forget(a) /\ job' \in {job, Committed(a, "running"), Committed(a, "failed")}
    BY <1>1, <1>4, HandlerLeaves DEF Accounted
  <2> QED
    BY <1>1, <1>2, <1>3, <2>1, OnlyCancels
<1>5. ASSUME NEW x \in Thread, Proceed(x) PROVE Informed'
  <2>1. UNCHANGED <<job, seen>> \/ (Forget(x) /\ job' = Committed(x, StatusRead(x)))
    BY <1>1, <1>5, ProceedLeaves DEF Accounted
  <2> QED
    BY <1>2, <1>3, <1>5, <2>1, DerivedIs, OnlyCancels
<1>6. CASE Deliver(a) \/ NextEntry(a) \/ RecoverPending(a) \/ Ack(a)
  BY <1>2, <1>6 DEF Deliver, NextEntry, RecoverPending, Ack, rows
<1>7. CASE HandlerError(a)
  BY <1>1, <1>3, <1>7 DEF HandlerError, rows
<1>8. CASE ApiCrash(a)
  <2>1. job' = job /\ \A x \in Thread : seen'[x] = Unread
    BY <1>1, <1>8 DEF ApiCrash, rows, Readings
  <2> QED
    BY <1>1, <2>1 DEF Informed, Current
<1>9. CASE HttpRequest
  <2>1. CASE CancelJob
    <3>1. \A x \in Thread :
            seen'[x] = IF x = Http \/ seen[x].job = "unread" THEN Unread
                       ELSE [seen[x] EXCEPT !.crossed = TRUE]
      BY <1>1, <2>1 DEF CancelJob, Readings
    <3>2. seen'[Http] = Unread
      BY <1>1, <3>1
    <3>3. seen'[a] = Unread \/ (/\ seen'[a].job = seen[a].job /\ seen'[a].crossed
                                /\ seen'[a].derived = seen[a].derived /\ seen[a].job # "unread")
      BY <1>1, <3>1 DEF Readings
    <3> QED
      BY <1>1, <3>2, <3>3 DEF Informed, Current
  <2>2. CASE Forget(Http) /\ job' = Committed(Http, "planning")
    BY <1>1, <1>3, <2>2, OnlyCancels
  <2> QED
    BY <1>1, <1>9, <2>1, <2>2, RequestLeaves
<1>10. CASE Reading
  <2>1. PICK x \in Thread : ReadJob(x) \/ ReadTasks(x)
    BY <1>10 DEF Reading
  <2>2. job' = job /\ \A y \in Thread : y # x => seen'[y] = seen[y]
    BY <1>1, <2>1 DEF ReadJob, ReadTasks, rows, Readings
  <2>3. CASE ReadJob(x)
    <3>1. /\ seen[x].job = "unread" /\ seen'[x].job = job /\ seen'[x].derived = seen[x].derived
          /\ seen'[x].crossed = seen[x].crossed /\ job # "unread"
      BY <1>1, <2>3 DEF ReadJob, Readings, State, Inv, RowsTyped, JobStatus
    <3> QED
      BY <1>1, <2>2, <3>1 DEF Informed, Current
  <2>4. CASE ReadTasks(x)
    <3>1. /\ thread[x].pc = "refresh" /\ seen[x].job # "unread" /\ seen'[x].job = seen[x].job
          /\ seen'[x].derived = DerivedStatus /\ seen'[x].crossed = seen[x].crossed
      BY <1>1, <2>4 DEF ReadTasks, Readings
    <3>2. DerivedStatus # "canceled"
      BY StirringDerives DEF DerivedStatus
    <3>3. ASSUME job = "canceled" PROVE DerivedStatus # "planning"
      <4>1. thread[Http].pc = "idle" /\ x = a /\ Dispatched
        BY <1>1, <3>1, <3>3 DEF Accounted, Dispatched
      <4>2. Stirring
        BY <1>1, <3>1, <4>1 DEF Accounted
      <4> QED
        BY <4>2, StirringDerives DEF DerivedStatus
    <3> QED
      BY <1>1, <2>2, <3>1, <3>2, <3>3 DEF Informed, Current
  <2> QED
    BY <2>1, <2>3, <2>4
<1>11. CASE UNCHANGED <<rows, thread, seen>>
  BY <1>2, <1>11 DEF rows
<1> QED
  BY <1>4, <1>5, <1>6, <1>7, <1>8, <1>9, <1>10, <1>11, StepKinds

\* While no request runs, a job that is over or canceled stays so, or a request resumes it, or a
\* transaction that had read it before it was canceled commits; the others know it.
LEMMA StatusStays ==
  ASSUME NEW a, Api = {a}, ~PolicyGate, NoCycle, State, Accounted(a), Informed, [Next]_vars,
         job \in {"succeeded", "failed", "canceled"}, thread[Http].pc = "idle",
         \A x \in Thread : seen[x].crossed \/ Current(x)
  PROVE  job' = job \/ ResumedByRequest \/ CrossesCancel
<1>1. /\ a \in Api /\ a \in Thread /\ Http \in Thread /\ NoneBlocked
      /\ {"running", "failed"} \subseteq JobStatus
      /\ \A x \in Thread : x = a \/ x = Http
  BY DEF Thread, Accounted, JobStatus
<1>2. ASSUME NEW x \in Thread, Forget(x), seen[x].crossed PROVE CrossesCancel
  BY <1>2 DEF Forget, CrossesCancel, Unread, State, Inv, RowsTyped, Readings
<1>3. CASE HandleEvent(a)
  <2>1. \/ UNCHANGED <<job, seen>>
        \/ Forget(a) /\ job' \in {job, Committed(a, "running"), Committed(a, "failed")}
    BY <1>1, <1>3, HandlerLeaves DEF Accounted
  <2> QED
    BY <1>1, <1>2, <2>1, CurrentStays
<1>4. ASSUME NEW x \in Thread, Proceed(x)
      PROVE  job' = job \/ CrossesCancel
  <2>1. /\ thread[x].pc # "idle"
        /\ \/ UNCHANGED <<job, seen>>
           \/ /\ thread[x].pc = "refresh" /\ thread[x].refreshes > 0
              /\ Forget(x) /\ job' = Committed(x, StatusRead(x))
    BY <1>1, <1>4, ProceedLeaves DEF Accounted
  <2>2. CASE /\ thread[x].pc = "refresh" /\ thread[x].refreshes > 0
             /\ Current(x) /\ job' = Committed(x, StatusRead(x))
    <3>1. x = a /\ Dispatched /\ Stirring
      BY <1>1, <2>1, <2>2 DEF Dispatched, Accounted
    <3>2. DerivedStatus # "planning"
      BY <3>1, StirringDerives DEF DerivedStatus
    <3>3. StatusRead(x) # "planning" /\ StatusRead(x) \in JobStatus
      BY <1>4, <2>2, <3>2, DerivedIs DEF StatusRead, Current
    <3> QED
      BY <1>4, <2>2, <3>3, CurrentStays
  <2> QED
    BY <1>2, <1>4, <2>1, <2>2
<1>5. CASE HttpRequest
  <2>1. CASE CancelJob
    <3>1. Current(Http)
      BY <1>1 DEF Informed
    <3>2. JobRead(Http) = job
      BY <3>1 DEF Current, JobRead
    <3>3. "canceled" \in JobTransitions[JobRead(Http)]
      BY <2>1 DEF CancelJob
    <3>4. "canceled" \notin JobTransitions[job]
      BY <1>1, EndedJob
    <3> QED
      BY <3>2, <3>3, <3>4
  <2> QED
    BY <1>1, <1>5, <2>1, RequestLeaves DEF ResumedByRequest
<1>6. CASE Deliver(a) \/ NextEntry(a) \/ RecoverPending(a) \/ Ack(a)
  BY <1>1, <1>6, LoopLeaves
<1>7. CASE HandlerError(a) \/ ApiCrash(a) \/ Reading \/ UNCHANGED <<rows, thread, seen>>
  BY <1>7, ReadingRests DEF HandlerError, ApiCrash, rows
<1> QED
  BY <1>3, <1>4, <1>5, <1>6, <1>7, StepKinds

\* The first dispatch is still to come.
LEMMA InitAccounted ==
  ASSUME NEW a, Api = {a}, Init
  PROVE  /\ Accounted(a) /\ Informed /\ thread[Http].pc = "idle"
         /\ seen = [x \in Thread |-> Unread]
<1> DEFINE first == [Handle(PlanCreated) EXCEPT !.pc = "dispatch", !.refreshes = 1]
<1>1. thread = [x \in Thread |-> IF x = a THEN first ELSE Idle]
  BY DEF Init
<1>2. first.pc = "dispatch" /\ Idle.pc = "idle" /\ a # Http /\ a \in Thread /\ Http \in Thread
  BY OrchestratorAssumption DEF Handle, Idle, Thread
<1> HIDE DEF first
<1>3. thread[a].pc = "dispatch" /\ \A x \in Thread : x # a => thread[x].pc = "idle"
  BY <1>1, <1>2
<1>4. NoneBlocked /\ job # "canceled" /\ seen = [x \in Thread |-> Unread]
  BY DEF Init, NoneBlocked
<1>5. Informed
  BY <1>2, <1>4 DEF Informed, Unread
<1> QED
  BY <1>2, <1>3, <1>4, <1>5 DEF Accounted, Dispatched

\* A canceled job stays canceled until the user continues or retries it, or a transaction that
\* had read it before the cancel commits, for every plan without a cycle and without a policy
\* gate, with one replica, any number of requests, workers, crashes and redeliveries, with or
\* without a critic.  (With the gate, or two replicas, a refresh may find tasks that only wait,
\* and plans the job again.)
THEOREM CancelFinal ==
  ASSUME NEW a, Api = {a}, ~PolicyGate, NoCycle
  PROVE  Spec => CancelSticks
<1> DEFINE IInv == State /\ Accounted(a) /\ Informed
           Stays == job = "canceled" => (job' = job \/ ResumedByRequest \/ CrossesCancel)
<1>1. Init => IInv
  BY InitState, InitAccounted
<1>2. IInv /\ [Next]_vars => IInv'
  BY NextState, NextAccounted, NextInformed
<1>3. IInv /\ [Next]_vars => [Stays]_vars
  BY StatusStays DEF Accounted, Informed
<1>4. CancelSticks <=> [][Stays]_vars
  BY DEF CancelSticks
<1> HIDE DEF IInv, Stays
<1> QED
  BY <1>1, <1>2, <1>3, <1>4, PTL DEF Spec

\* Without requests and crashes of the API the request thread rests; then nobody can overtake
\* the only replica, which reads the job when it commits.
LEMMA NobodyOvertakes ==
  ASSUME NEW a, Api = {a}, State, thread[Http].pc = "idle", seen = [x \in Thread |-> Unread],
         \A f \in Faults : f["request"] = 0 /\ f["apiCrash"] = 0, [Next]_vars
  PROVE  thread'[Http].pc = "idle" /\ seen' = [x \in Thread |-> Unread]
<1>1. /\ a \in Api /\ a \in Thread /\ Http \in Thread /\ a # Http
      /\ \A x \in Thread : x = a \/ x = Http
      /\ used \in [Disturbance -> Nat]
  BY OrchestratorAssumption DEF Thread, State, Inv, QueuesTyped
<1>2. ~HttpRequest /\ ~ApiCrash(a) /\ ~RequestPossible
  <2>0. \A k \in {"request", "apiCrash"} : [used EXCEPT ![k] = @ + 1] \notin Faults
    <3> SUFFICES ASSUME NEW k \in {"request", "apiCrash"}
                 PROVE  [used EXCEPT ![k] = @ + 1][k] # 0
      OBVIOUS
    <3>1. k \in Disturbance
      BY DEF Disturbance
    <3> QED
      BY <1>1, <3>1
  <2>1. ~Disturb("request") /\ ~Disturb("apiCrash") /\ ~RequestPossible
    BY <2>0 DEF Disturb, RequestPossible
  <2>2. HttpRequest => Disturb("request")
    BY DEF HttpRequest, CancelJob, ContinueJob, RetryJob, RetryFailedTasks, RetryTask, Request
  <2>3. ApiCrash(a) => Disturb("apiCrash")
    BY DEF ApiCrash
  <2> QED
    BY <2>1, <2>2, <2>3
<1>3. ASSUME NEW x \in Thread, Forget(x) PROVE seen' = [y \in Thread |-> Unread]
  BY <1>3 DEF Forget
<1>4. CASE HandleEvent(a)
  BY <1>1, <1>3, <1>4, HandlerIs DEF HandlerFrameOf, Becomes
<1>5. CASE Deliver(a) \/ NextEntry(a) \/ RecoverPending(a) \/ Ack(a)
  <2>1. seen' = seen
    BY <1>5 DEF Deliver, NextEntry, RecoverPending, Ack
  <2> QED
    BY <1>1, <1>5, <2>1, LoopLeaves DEF Becomes
<1>6. ASSUME NEW x \in Thread, Proceed(x)
      PROVE  thread'[Http].pc = "idle" /\ seen' = [y \in Thread |-> Unread]
  <2>1. x # Http
    BY <1>6 DEF Proceed, DispatchRead, DispatchCommit, Emit, Refresh
  <2> QED
    BY <1>1, <1>3, <1>6, <2>1, ProceedIs DEF ProceedFrameOf, Becomes
<1>7. CASE HandlerError(a)
  BY <1>1, <1>3, <1>7 DEF HandlerError, State, Inv, Threads
<1>8. ~Reading
  <2> SUFFICES ASSUME NEW x \in Thread, ReadJob(x) \/ ReadTasks(x) PROVE FALSE
    BY DEF Reading
  <2>1. ASSUME x = Http PROVE FALSE
    <3>1. ~ReadTasks(Http)
      BY DEF ReadTasks
    <3>2. WritesJob(Http)
      BY <2>1, <3>1 DEF ReadJob
    <3>3. thread[Http].pc \notin {"refresh", "giveUp", "handle"}
      OBVIOUS
    <3> QED
      BY <1>2, <3>2, <3>3 DEF WritesJob
  <2>2. ~Overtakable(x)
    BY <1>1, <1>2, <2>1 DEF Overtakable
  <2> QED
    BY <2>2 DEF ReadJob, ReadTasks
<1>9. CASE UNCHANGED <<rows, thread, seen>>
  BY <1>9
<1> QED
  BY <1>2, <1>4, <1>5, <1>6, <1>7, <1>8, <1>9, StepKinds

\* The outcome of a job is final, also with a critic that asks for rework after it and with
\* executions claimed twice, for every plan without a cycle and without a policy gate, with one
\* replica, no request and no crash of the API.
THEOREM OutcomeFinalUngated ==
  ASSUME NEW a, Api = {a}, ~PolicyGate, NoCycle,
         \A f \in Faults : f["request"] = 0 /\ f["apiCrash"] = 0
  PROVE  Spec => OutcomeIsFinal
<1> DEFINE IInv == /\ State /\ Accounted(a) /\ Informed
                   /\ thread[Http].pc = "idle" /\ seen = [x \in Thread |-> Unread]
           Stays == Ended => (job' = job \/ ResumedByRequest)
<1>1. Init => IInv
  BY InitState, InitAccounted
<1>2. IInv /\ [Next]_vars => IInv'
  BY NobodyOvertakes, NextState, NextAccounted, NextInformed
<1>3. IInv /\ [Next]_vars => [Stays]_vars
  <2> SUFFICES ASSUME IInv, Next, Ended PROVE job' = job \/ ResumedByRequest
    OBVIOUS
  <2>1. \A x \in Thread : ~seen[x].crossed /\ Current(x)
    BY DEF Unread, Current
  <2> QED
    BY <2>1, StatusStays DEF Ended, CrossesCancel
<1>4. OutcomeIsFinal <=> [][Stays]_vars
  BY DEF OutcomeIsFinal
<1> HIDE DEF IInv, Stays
<1> QED
  BY <1>1, <1>2, <1>3, <1>4, PTL DEF Spec
=============================================================================
