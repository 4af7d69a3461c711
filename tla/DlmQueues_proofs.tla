--------------------------- MODULE DlmQueues_proofs ---------------------------
(***************************************************************************)
(* What every operation of the master does to its three lists: lemmas that *)
(* the proofs about DlmClients and DlmGlue cite, one for each operation.   *)
(***************************************************************************)
EXTENDS DlmQueues, SequenceTheorems, TLAPS

-----------------------------------------------------------------------------
(* The queues as sequences                                                 *)

LEMMA SeqRange ==
  ASSUME NEW S, NEW q \in Seq(S)
  PROVE  Range(q) \subseteq S
BY ElementOfSeq, LenProperties DEF Range

\* list_add_tail() of a lock that is not on the list
LEMMA AppendRange ==
  ASSUME NEW S, NEW q \in Seq(S), NEW x \in S
  PROVE  /\ Append(q, x) \in Seq(S)
         /\ Range(Append(q, x)) = Range(q) \union {x}
         /\ (IsInjective(q) /\ x \notin Range(q)) => IsInjective(Append(q, x))
<1> DEFINE r == Append(q, x)
<1>1. /\ r \in Seq(S)
      /\ Len(r) = Len(q) + 1
      /\ \A i \in 1..Len(q) : r[i] = q[i]
      /\ r[Len(q) + 1] = x
  BY AppendProperties
<1>2. Len(q) \in Nat /\ DOMAIN q = 1..Len(q) /\ DOMAIN r = 1..(Len(q) + 1)
  BY <1>1, LenProperties
<1>3. Range(r) = Range(q) \union {x}
  BY <1>1, <1>2 DEF Range
<1>4. ASSUME IsInjective(q), x \notin Range(q) PROVE IsInjective(r)
  BY <1>1, <1>2, <1>4 DEF IsInjective, Range
<1> QED
  BY <1>1, <1>3, <1>4

\* The head of a list, and the list without it
LEMMA TailRange ==
  ASSUME NEW S, NEW q \in Seq(S), q # <<>>
  PROVE  /\ Head(q) \in S
         /\ Head(q) \in Range(q)
         /\ Tail(q) \in Seq(S)
         /\ Range(Tail(q)) \subseteq Range(q)
         /\ Range(q) = Range(Tail(q)) \union {Head(q)}
         /\ IsInjective(q) => /\ IsInjective(Tail(q))
                              /\ Head(q) \notin Range(Tail(q))
<1> DEFINE r == Tail(q)
<1>1. /\ Head(q) \in S
      /\ r \in Seq(S)
      /\ Len(r) = Len(q) - 1
      /\ \A i \in 1..Len(r) : r[i] = q[i + 1]
  BY HeadTailProperties
<1>2. /\ Len(q) \in Nat \ {0}
      /\ DOMAIN q = 1..Len(q)
      /\ DOMAIN r = 1..(Len(q) - 1)
  BY <1>1, LenProperties, EmptySeq
<1>3. Head(q) = q[1]
  BY <1>2
<1>4. Range(q) = Range(r) \union {Head(q)}
  <2>1. ASSUME NEW i \in DOMAIN q PROVE q[i] \in Range(r) \union {Head(q)}
    <3>1. CASE i = 1
      BY <3>1, <1>3
    <3>2. CASE i # 1
      <4>1. i - 1 \in DOMAIN r /\ r[i - 1] = q[i]
        BY <3>2, <2>1, <1>1, <1>2
      <4> QED
        BY <4>1 DEF Range
    <3> QED
      BY <3>1, <3>2
  <2>2. ASSUME NEW i \in DOMAIN r PROVE r[i] \in Range(q)
    <3>1. i + 1 \in DOMAIN q /\ r[i] = q[i + 1]
      BY <2>2, <1>1, <1>2
    <3> QED
      BY <3>1 DEF Range
  <2>3. Head(q) \in Range(q)
    BY <1>2, <1>3 DEF Range
  <2> QED
    BY <2>1, <2>2, <2>3 DEF Range
<1>5. ASSUME IsInjective(q) PROVE IsInjective(r) /\ Head(q) \notin Range(r)
  <2>1. IsInjective(r)
    BY <1>1, <1>2, <1>5 DEF IsInjective
  <2>2. ASSUME NEW i \in DOMAIN r PROVE r[i] # Head(q)
    <3>1. i + 1 \in DOMAIN q /\ r[i] = q[i + 1] /\ 1 \in DOMAIN q /\ i + 1 # 1
      BY <2>2, <1>1, <1>2
    <3> QED
      BY <3>1, <1>3, <1>5 DEF IsInjective
  <2> QED
    BY <2>1, <2>2 DEF Range
<1> QED
  BY <1>1, <1>4, <1>5

\* list_del() of x from the list it is on
LEMMA WithoutRange ==
  ASSUME NEW S, NEW q \in Seq(S), NEW x \in Range(q)
  PROVE  /\ Without(q, x) \in Seq(S)
         /\ Range(Without(q, x)) \subseteq Range(q)
         /\ IsInjective(q) => /\ IsInjective(Without(q, x))
                        /\ Range(Without(q, x)) = Range(q) \ {x}
<1> DEFINE k == CHOOSE j \in DOMAIN q : q[j] = x
           s == SubSeq(q, 1, k - 1)
           t == SubSeq(q, k + 1, Len(q))
           r == s \o t
<1>1. Len(q) \in Nat /\ DOMAIN q = 1..Len(q) /\ \A i \in 1..Len(q) : q[i] \in S
  BY LenProperties, ElementOfSeq
<1>2. k \in 1..Len(q) /\ q[k] = x
  BY <1>1 DEF Range
<1>3. Without(q, x) = r
  BY DEF Without
<1> HIDE DEF k
<1>4. /\ s \in Seq(S)
      /\ Len(s) = k - 1
      /\ \A i \in 1..(k - 1) : s[i] = q[i]
  <2>1. \A i \in 1..(k - 1) : q[i] \in S
    BY <1>1, <1>2
  <2> QED
    BY <2>1, <1>2, SubSeqProperties
<1>5. /\ t \in Seq(S)
      /\ Len(t) = Len(q) - k
      /\ \A i \in 1..(Len(q) - k) : t[i] = q[k + i]
  <2>1. \A i \in (k + 1)..Len(q) : q[i] \in S
    BY <1>1, <1>2
  <2>2. k + 1 \in Int /\ Len(q) \in Int /\ Len(q) - (k + 1) + 1 = Len(q) - k
    BY <1>1, <1>2
  <2>3. /\ t \in Seq(S)
        /\ Len(t) = IF k + 1 <= Len(q) THEN Len(q) - (k + 1) + 1 ELSE 0
        /\ \A i \in 1..(Len(q) - (k + 1) + 1) : t[i] = q[(k + 1) + i - 1]
    BY <2>1, <2>2, SubSeqProperties
  <2> DEFINE len == Len(t)
  <2>4. len = Len(q) - k
    <3>1. len = IF k + 1 <= Len(q) THEN Len(q) - (k + 1) + 1 ELSE 0
      BY <2>3
    <3>2. k \in Int /\ Len(q) \in Int /\ k <= Len(q)
      BY <1>1, <1>2
    <3> HIDE DEF len
    <3>3. CASE k = Len(q)
      <4>1. ~(k + 1 <= Len(q)) /\ Len(q) - k = 0
        BY <3>2, <3>3
      <4> QED
        BY <3>1, <4>1
    <3>4. CASE k # Len(q)
      <4>1. k + 1 <= Len(q) /\ Len(q) - (k + 1) + 1 = Len(q) - k
        BY <3>2, <3>4
      <4> QED
        BY <3>1, <4>1
    <3> QED
      BY <3>3, <3>4
  <2> HIDE DEF t
  <2>5. ASSUME NEW i \in 1..(Len(q) - k) PROVE t[i] = q[k + i]
    <3>1. i \in 1..(Len(q) - (k + 1) + 1) /\ (k + 1) + i - 1 = k + i
      BY <2>5, <1>1, <1>2
    <3>2. t[i] = q[(k + 1) + i - 1]
      BY <3>1, <2>3
    <3> QED
      BY <3>1, <3>2
  <2> QED
    BY <2>3, <2>4, <2>5
<1> HIDE DEF s, t
<1>6. /\ r \in Seq(S)
      /\ Len(r) = Len(q) - 1
      /\ DOMAIN r = 1..(Len(q) - 1)
      /\ \A i \in 1..(Len(q) - 1) : r[i] = IF i < k THEN q[i] ELSE q[i + 1]
  <2>1. /\ r \in Seq(S)
        /\ Len(r) = Len(s) + Len(t)
        /\ \A i \in 1..(Len(s) + Len(t)) :
             r[i] = IF i <= Len(s) THEN s[i] ELSE t[i - Len(s)]
    BY <1>4, <1>5, ConcatProperties
  <2>2. DOMAIN r = 1..Len(r)
    BY <2>1, LenProperties
  <2> HIDE DEF r
  <2>3. Len(r) = Len(q) - 1
    BY <2>1, <1>1, <1>2, <1>4, <1>5
  <2>4. ASSUME NEW i \in 1..(Len(q) - 1)
        PROVE  r[i] = IF i < k THEN q[i] ELSE q[i + 1]
    <3>1. CASE i < k
      BY <3>1, <2>1, <2>3, <2>4, <1>1, <1>2, <1>4
    <3>2. CASE ~(i < k)
      <4>1. i - (k - 1) \in 1..(Len(q) - k) /\ k + (i - (k - 1)) = i + 1
        BY <3>2, <2>4, <1>1, <1>2
      <4>2. r[i] = t[i - (k - 1)]
        BY <3>2, <2>1, <2>3, <2>4, <1>1, <1>2, <1>4
      <4> QED
        BY <4>1, <4>2, <3>2, <1>5
    <3> QED
      BY <3>1, <3>2
  <2> QED
    BY <2>1, <2>2, <2>3, <2>4
<1> HIDE DEF r
<1>7. Range(r) \subseteq Range(q)
  BY <1>1, <1>2, <1>6 DEF Range
<1>8. ASSUME IsInjective(q) PROVE IsInjective(r)
  <2>1. SUFFICES ASSUME NEW i \in DOMAIN r, NEW j \in DOMAIN r, r[i] = r[j]
                 PROVE  i = j
    BY DEF IsInjective
  <2> DEFINE From(n) == IF n < k THEN n ELSE n + 1
  <2>2. \A n \in DOMAIN r : From(n) \in DOMAIN q /\ r[n] = q[From(n)]
    BY <1>1, <1>2, <1>6
  <2>3. From(i) = From(j)
    BY <2>1, <2>2, <1>8 DEF IsInjective
  <2> QED
    BY <2>1, <2>3, <1>1, <1>2, <1>6
<1>9. ASSUME IsInjective(q) PROVE Range(r) = Range(q) \ {x}
  <2>1. ASSUME NEW i \in DOMAIN r PROVE r[i] # x
    <3> DEFINE m == IF i < k THEN i ELSE i + 1
    <3>1. m \in DOMAIN q /\ m # k /\ r[i] = q[m]
      BY <2>1, <1>1, <1>2, <1>6
    <3> HIDE DEF m
    <3> QED
      BY <3>1, <1>1, <1>2, <1>9 DEF IsInjective
  <2>2. ASSUME NEW i \in DOMAIN q, q[i] # x PROVE q[i] \in Range(r)
    <3>1. CASE i < k
      <4>1. i \in DOMAIN r /\ r[i] = q[i]
        BY <3>1, <1>1, <1>2, <1>6
      <4> QED
        BY <4>1 DEF Range
    <3>2. CASE i > k
      <4>1. i - 1 \in DOMAIN r /\ r[i - 1] = q[i]
        BY <3>2, <1>1, <1>2, <1>6
      <4> QED
        BY <4>1 DEF Range
    <3> QED
      BY <3>1, <3>2, <2>2, <1>1, <1>2
  <2> QED
    BY <2>1, <2>2, <1>7 DEF Range
<1> QED
  BY <1>3, <1>6, <1>7, <1>8, <1>9

-----------------------------------------------------------------------------
(* The lock modes                                                          *)

LEMMA CompatibleSymmetric ==
  ASSUME NEW a \in AnyMode, NEW b \in AnyMode, Compatible(a, b)
  PROVE  Compatible(b, a)
BY DEF AnyMode, Mode, IV, NL, PR, EX, Compatible

\* Who goes with a mode goes with every lower one.
LEMMA CompatibleBelow ==
  ASSUME NEW a \in AnyMode, NEW b \in AnyMode, NEW c \in AnyMode,
         Compatible(a, b), c <= b
  PROVE  Compatible(a, c)
BY DEF AnyMode, Mode, IV, NL, PR, EX, Compatible

-----------------------------------------------------------------------------
(* The invariant of the lists: that the granted modes are compatible is    *)
(* inductive only with what the lists look like.                           *)

DlmInv == DlmTypeOK /\ OneList /\ GrantedCompatible

\* Steps that grant no mode that was not granted before
LEMMA NothingGranted ==
  ASSUME GrantedCompatible,
         OnLists' \subseteq OnLists,
         \A l \in OnLists' : type'[l] = type[l]
  PROVE  GrantedCompatible'
BY DEF GrantedCompatible

\* Steps that grant n a mode which goes with all the others
LEMMA OneGranted ==
  ASSUME DlmTypeOK, GrantedCompatible,
         NEW n \in Node, NEW mode \in AnyMode,
         OnLists' \subseteq OnLists \union {n},
         type' = [type EXCEPT ![n] = mode],
         \A l \in OnLists \ {n} : Compatible(type[l], mode)
  PROVE  GrantedCompatible'
<1>1. SUFFICES ASSUME NEW l \in OnLists', NEW m \in OnLists', l # m
               PROVE  Compatible(type'[l], type'[m])
  BY DEF GrantedCompatible
<1>2. OnLists' \subseteq Node /\ OnLists \subseteq Node
  <2>1. Range(converting) \subseteq Node
    BY SeqRange DEF DlmTypeOK
  <2>2. OnLists \subseteq Node
    BY <2>1 DEF OnLists, DlmTypeOK
  <2> QED
    BY <2>2
<1>3. type'[n] = mode /\ \A k \in Node \ {n} : type'[k] = type[k]
  BY <1>2 DEF DlmTypeOK
<1>4. \A k \in Node : type[k] \in AnyMode
  BY DEF DlmTypeOK
<1>5. CASE l = n
  <2>1. m \in OnLists \ {n} /\ type'[m] = type[m]
    BY <1>1, <1>2, <1>3, <1>5
  <2>2. Compatible(type[m], mode)
    BY <2>1
  <2> QED
    BY <2>1, <2>2, <1>1, <1>2, <1>3, <1>4, <1>5, CompatibleSymmetric
<1>6. CASE m = n
  <2>1. l \in OnLists \ {n} /\ type'[l] = type[l]
    BY <1>1, <1>2, <1>3, <1>6
  <2> QED
    BY <2>1, <1>3, <1>6
<1>7. CASE l # n /\ m # n
  <2>1. /\ l \in OnLists /\ type'[l] = type[l]
        /\ m \in OnLists /\ type'[m] = type[m]
    BY <1>1, <1>2, <1>3, <1>7
  <2> QED
    BY <2>1, <1>1 DEF GrantedCompatible
<1> QED
  BY <1>5, <1>6, <1>7

\* Steps that leave the lists alone
LEMMA SameLists ==
  ASSUME OneList, GrantedCompatible,
         UNCHANGED <<type, convert, granted, converting, blocked>>
  PROVE  OneList' /\ GrantedCompatible'
BY DEF OneList, GrantedCompatible, OnLists

LEMMA DlmInitInv ==
  ASSUME DlmInit
  PROVE  DlmInv
<1>1. Range(<<>>) = {} /\ IsInjective(<<>>)
  BY DEF Range, IsInjective
<1>2. DlmTypeOK
  <2>1. <<>> \in Seq(Node) /\ IV \in AnyMode
    BY EmptySeq DEF AnyMode
  <2> QED
    BY <2>1 DEF DlmInit, DlmTypeOK
<1>3. OneList /\ GrantedCompatible
  BY <1>1 DEF DlmInit, OneList, GrantedCompatible, OnLists
<1> QED
  BY <1>2, <1>3 DEF DlmInv

-----------------------------------------------------------------------------
(* The request handlers                                                    *)

LEMMA DlmNotQueuedInv ==
  ASSUME DlmInv, NEW n \in Node, DlmNotQueued(n)
  PROVE  DlmInv'
<1>1. DlmTypeOK'
  BY DEF DlmInv, DlmNotQueued, DlmTypeOK
<1> QED
  BY <1>1, SameLists DEF DlmInv, DlmNotQueued

LEMMA DlmLockInv ==
  ASSUME DlmInv, NEW n \in Node, NEW mode \in Mode,
         type[n] = IV, DlmLock(n, mode)
  PROVE  DlmInv'
<1>1. mode \in AnyMode /\ mode # IV
  BY DEF AnyMode, Mode, IV, NL, PR, EX
<1>2. n \notin OnLists \union Range(blocked)
  BY DEF DlmInv, OneList
<1>3. CASE CanGrantNew(mode)
  <2>1. /\ type' = [type EXCEPT ![n] = mode]
        /\ granted' = granted \union {n}
        /\ UNCHANGED <<convert, converting, blocked>>
        /\ OnLists' = OnLists \union {n}
    BY <1>3 DEF DlmLock, OnLists
  <2>2. DlmTypeOK'
    BY <1>1, <1>3 DEF DlmInv, DlmLock, DlmTypeOK
  <2>3. OneList'
    BY <1>1, <1>2, <2>1 DEF DlmInv, DlmTypeOK, OneList, OnLists
  <2>4. \A l \in OnLists \ {n} : Compatible(type[l], mode)
    BY <1>3 DEF CanGrantNew, OnLists
  <2>5. GrantedCompatible'
    BY <1>1, <2>1, <2>4, OneGranted DEF DlmInv
  <2> QED
    BY <2>2, <2>3, <2>5 DEF DlmInv
<1>4. CASE ~CanGrantNew(mode)
  <2>1. /\ type' = [type EXCEPT ![n] = mode]
        /\ blocked' = Append(blocked, n)
        /\ UNCHANGED <<convert, granted, converting>>
        /\ OnLists' = OnLists
    BY <1>4 DEF DlmLock, OnLists
  <2>2. /\ blocked' \in Seq(Node)
        /\ Range(blocked') = Range(blocked) \union {n}
        /\ IsInjective(blocked')
    BY <1>2, <2>1, AppendRange DEF DlmInv, DlmTypeOK, OneList
  <2>3. DlmTypeOK'
    BY <1>1, <1>4, <2>1, <2>2 DEF DlmInv, DlmLock, DlmTypeOK
  <2>4. OneList'
    BY <1>1, <1>2, <2>1, <2>2 DEF DlmInv, DlmTypeOK, OneList, OnLists
  <2>5. GrantedCompatible'
    BY <1>2, <2>1, NothingGranted DEF DlmInv, DlmTypeOK
  <2> QED
    BY <2>3, <2>4, <2>5 DEF DlmInv
<1> QED
  BY <1>3, <1>4

\* The upconvert test lets nobody in who disagrees with another lock.
LEMMA CanConvertSound ==
  ASSUME DlmInv, NEW n \in granted, NEW mode \in AnyMode, CanConvert(n, mode)
  PROVE  \A l \in OnLists \ {n} : Compatible(type[l], mode)
<1>1. /\ n \in OnLists /\ granted \subseteq Node /\ OnLists \subseteq Node
      /\ \A k \in Node : type[k] \in AnyMode
      /\ n \notin Range(converting)
  BY SeqRange DEF DlmInv, DlmTypeOK, OneList, OnLists
<1>2. CASE mode <= type[n]
  <2>1. ASSUME NEW l \in OnLists \ {n} PROVE Compatible(type[l], mode)
    <3>1. Compatible(type[l], type[n])
      BY <1>1, <2>1 DEF DlmInv, GrantedCompatible
    <3> QED
      BY <1>1, <1>2, <3>1, CompatibleBelow
  <2> QED
    BY <2>1
<1>3. CASE ~(mode <= type[n])
  BY <1>1, <1>3 DEF CanConvert, OnLists
<1> QED
  BY <1>2, <1>3

LEMMA DlmConvertInv ==
  ASSUME DlmInv, NEW n \in Node, NEW mode \in Mode, DlmConvert(n, mode)
  PROVE  DlmInv'
<1>1. mode \in AnyMode /\ mode # IV
  BY DEF AnyMode, Mode, IV, NL, PR, EX
<1>2. /\ n \in granted
      /\ n \notin Range(converting)
      /\ type[n] # IV
  BY DEF DlmConvert, DlmInv, OneList, OnLists
<1>3. CASE CanConvert(n, mode)
  <2>1. /\ type' = [type EXCEPT ![n] = mode]
        /\ UNCHANGED <<convert, granted, converting, blocked>>
        /\ OnLists' = OnLists
    BY <1>3 DEF DlmConvert, OnLists
  <2>2. DlmTypeOK'
    BY <1>1, <1>3 DEF DlmInv, DlmConvert, DlmTypeOK
  <2>3. OneList'
    BY <1>1, <1>2, <2>1 DEF DlmInv, DlmTypeOK, OneList
  <2>4. GrantedCompatible'
    BY <1>1, <1>2, <1>3, <2>1, CanConvertSound, OneGranted DEF DlmInv
  <2> QED
    BY <2>2, <2>3, <2>4 DEF DlmInv
<1>4. CASE ~CanConvert(n, mode)
  <2>1. /\ convert' = [convert EXCEPT ![n] = mode]
        /\ granted' = granted \ {n}
        /\ converting' = Append(converting, n)
        /\ UNCHANGED <<type, blocked>>
    BY <1>4 DEF DlmConvert
  <2>2. /\ converting' \in Seq(Node)
        /\ Range(converting') = Range(converting) \union {n}
        /\ IsInjective(converting')
    BY <1>2, <2>1, AppendRange DEF DlmInv, DlmTypeOK, OneList
  <2>3. OnLists' = OnLists
    BY <1>2, <2>1, <2>2 DEF OnLists
  <2>4. DlmTypeOK'
    BY <1>1, <1>4, <2>1, <2>2 DEF DlmInv, DlmConvert, DlmTypeOK
  <2>5. OneList'
    BY <1>1, <1>2, <2>1, <2>2, <2>3 DEF DlmInv, DlmTypeOK, OneList
  <2>6. GrantedCompatible'
    BY <2>1, <2>3, NothingGranted DEF DlmInv
  <2> QED
    BY <2>4, <2>5, <2>6 DEF DlmInv
<1> QED
  BY <1>3, <1>4

LEMMA DlmCancelInv ==
  ASSUME DlmInv, NEW n \in Node, DlmCancel(n)
  PROVE  DlmInv'
<1>1. IV \in AnyMode
  BY DEF AnyMode
<1>2. CASE /\ n \in Range(converting)
           /\ converting' = Without(converting, n)
           /\ granted' = granted \union {n}
           /\ convert' = [convert EXCEPT ![n] = IV]
           /\ UNCHANGED <<type, blocked>>
  <2>1. /\ converting' \in Seq(Node)
        /\ Range(converting') = Range(converting) \ {n}
        /\ IsInjective(converting')
    BY <1>2, WithoutRange DEF DlmInv, DlmTypeOK, OneList
  <2>2. OnLists' = OnLists
    BY <1>2, <2>1 DEF OnLists
  <2>3. DlmTypeOK'
    BY <1>1, <1>2, <2>1 DEF DlmInv, DlmCancel, DlmTypeOK
  <2>4. OneList'
    BY <1>2, <2>1, <2>2 DEF DlmInv, DlmTypeOK, OneList
  <2>5. GrantedCompatible'
    BY <1>2, <2>2, NothingGranted DEF DlmInv
  <2> QED
    BY <2>3, <2>4, <2>5 DEF DlmInv
<1>3. CASE /\ n \in Range(blocked)
           /\ blocked' = Without(blocked, n)
           /\ type' = [type EXCEPT ![n] = IV]
           /\ UNCHANGED <<convert, granted, converting>>
  <2>1. /\ blocked' \in Seq(Node)
        /\ Range(blocked') = Range(blocked) \ {n}
        /\ IsInjective(blocked')
    BY <1>3, WithoutRange DEF DlmInv, DlmTypeOK, OneList
  <2>2. OnLists' = OnLists /\ n \notin OnLists
    BY <1>3 DEF OnLists, DlmInv, OneList
  <2>3. DlmTypeOK'
    BY <1>1, <1>3, <2>1 DEF DlmInv, DlmCancel, DlmTypeOK
  <2>4. OneList'
    BY <1>3, <2>1, <2>2 DEF DlmInv, DlmTypeOK, OneList
  <2>5. GrantedCompatible'
    BY <1>3, <2>2, NothingGranted DEF DlmInv, DlmTypeOK
  <2> QED
    BY <2>3, <2>4, <2>5 DEF DlmInv
<1>4. CASE UNCHANGED <<type, convert, granted, converting, blocked>>
  <2>1. DlmTypeOK'
    BY <1>4 DEF DlmInv, DlmCancel, DlmTypeOK
  <2> QED
    BY <1>4, <2>1, SameLists DEF DlmInv
<1> QED
  BY <1>2, <1>3, <1>4 DEF DlmCancel

LEMMA DlmUnlockInv ==
  ASSUME DlmInv, NEW n \in Node, DlmUnlock(n)
  PROVE  DlmInv'
<1>1. /\ n \in granted
      /\ n \notin Range(converting) \union Range(blocked)
      /\ granted' = granted \ {n}
      /\ type' = [type EXCEPT ![n] = IV]
      /\ UNCHANGED <<convert, converting, blocked>>
  BY DEF DlmUnlock, DlmInv, OneList, OnLists
<1>2. OnLists' = OnLists \ {n}
  BY <1>1 DEF OnLists
<1>3. DlmTypeOK'
  BY <1>1 DEF DlmInv, DlmUnlock, DlmTypeOK, AnyMode
<1>4. OneList'
  BY <1>1, <1>2 DEF DlmInv, DlmTypeOK, OneList
<1>5. GrantedCompatible'
  BY <1>1, <1>2, NothingGranted DEF DlmInv, DlmTypeOK
<1> QED
  BY <1>3, <1>4, <1>5 DEF DlmInv

LEMMA DlmPostInv ==
  ASSUME DlmInv, NEW n \in Node, DlmPost(n)
  PROVE  DlmInv'
<1>1. DlmTypeOK'
  BY DEF DlmInv, DlmPost, DlmTypeOK, AnyMode
<1> QED
  BY <1>1, SameLists DEF DlmInv, DlmPost

-----------------------------------------------------------------------------
(* dlm_thread                                                              *)

LEMMA DeliverAstInv ==
  ASSUME DlmInv, NEW n \in Node, DeliverAst(n)
  PROVE  DlmInv'
<1>1. DlmTypeOK'
  BY DEF DlmInv, DeliverAst, DlmTypeOK
<1> QED
  BY <1>1, SameLists DEF DlmInv, DeliverAst

LEMMA DeliverBastInv ==
  ASSUME DlmInv, NEW n \in Node, DeliverBast(n)
  PROVE  DlmInv'
<1>1. DlmTypeOK'
  BY DEF DlmInv, DeliverBast, DlmTypeOK
<1> QED
  BY <1>1, SameLists DEF DlmInv, DeliverBast

LEMMA TakeBastInv ==
  ASSUME DlmInv, NEW n \in Node, TakeBast(n)
  PROVE  DlmInv'
<1>1. highestBlocked[n] \in Mode /\ IV \in AnyMode
  BY DEF DlmInv, DlmTypeOK, TakeBast, PendingBasts, AnyMode
<1>2. DlmTypeOK'
  BY <1>1 DEF DlmInv, TakeBast, DlmTypeOK
<1> QED
  BY <1>2, SameLists DEF DlmInv, TakeBast

LEMMA ShuffleConvertInv ==
  ASSUME DlmInv, ShuffleConvert
  PROVE  DlmInv'
<1> DEFINE t == ConvertTarget
<1>1. /\ t \in Node
      /\ t \in Range(converting)
      /\ converting' = Tail(converting)
      /\ converting' \in Seq(Node)
      /\ Range(converting') = Range(converting) \ {t}
      /\ IsInjective(converting')
  <2>1. /\ converting # <<>>
        /\ converting \in Seq(Node)
        /\ IsInjective(converting)
    BY DEF ShuffleConvert, DlmInv, DlmTypeOK, OneList
  <2>2. converting' = Tail(converting)
    BY DEF ShuffleConvert
  <2> QED
    BY <2>1, <2>2, TailRange DEF ConvertTarget
<1>2. /\ type' = [type EXCEPT ![t] = convert[t]]
      /\ convert' = [convert EXCEPT ![t] = IV]
      /\ granted' = granted \union {t}
      /\ pendingAsts' = pendingAsts \union {t}
      /\ UNCHANGED <<blocked, owed, highestBlocked, inflight, dirty, thread>>
      /\ ConvertObstacles = {} /\ converting # <<>>
  BY DEF ShuffleConvert
<1>3. /\ convert[t] \in AnyMode /\ convert[t] # IV
      /\ type[t] # IV
      /\ t \in OnLists
  BY <1>1 DEF DlmInv, DlmTypeOK, OneList, OnLists
<1>4. \A l \in OnLists \ {t} : Compatible(type[l], convert[t])
  BY <1>2 DEF ConvertObstacles, Obstacles
<1> HIDE DEF t
<1>5. OnLists' = OnLists
  BY <1>1, <1>2 DEF OnLists
<1>6. DlmTypeOK'
  BY <1>1, <1>2, <1>3 DEF DlmInv, DlmTypeOK, AnyMode
<1>7. OneList'
  BY <1>1, <1>2, <1>3, <1>5 DEF DlmInv, DlmTypeOK, OneList
<1>8. GrantedCompatible'
  BY <1>1, <1>2, <1>3, <1>4, <1>5, OneGranted DEF DlmInv
<1> QED
  BY <1>6, <1>7, <1>8 DEF DlmInv

LEMMA ShuffleBlockedInv ==
  ASSUME DlmInv, ShuffleBlocked
  PROVE  DlmInv'
<1> DEFINE t == BlockedTarget
<1>1. /\ t \in Node
      /\ t \in Range(blocked)
      /\ blocked' \in Seq(Node)
      /\ Range(blocked') = Range(blocked) \ {t}
      /\ IsInjective(blocked')
  <2>1. blocked # <<>> /\ blocked \in Seq(Node) /\ IsInjective(blocked)
    BY DEF ShuffleBlocked, DlmInv, DlmTypeOK, OneList
  <2>2. blocked' = Tail(blocked)
    BY DEF ShuffleBlocked
  <2> QED
    BY <2>1, <2>2, TailRange DEF BlockedTarget
<1>2. /\ granted' = granted \union {t}
      /\ pendingAsts' = pendingAsts \union {t}
      /\ UNCHANGED <<type, convert, converting, owed, highestBlocked, inflight,
                     dirty, thread>>
      /\ BlockedObstacles = {} /\ blocked # <<>>
  BY DEF ShuffleBlocked
<1>3. type[t] \in AnyMode /\ type[t] # IV /\ t \notin OnLists
  BY <1>1 DEF DlmInv, DlmTypeOK, OneList
<1>4. \A l \in OnLists \ {t} : Compatible(type[l], type[t])
  BY <1>2 DEF BlockedObstacles, Obstacles
<1> HIDE DEF t
<1>5. OnLists' = OnLists \union {t} /\ type' = [type EXCEPT ![t] = type[t]]
  BY <1>2 DEF OnLists, DlmInv, DlmTypeOK
<1>6. DlmTypeOK'
  BY <1>1, <1>2 DEF DlmInv, DlmTypeOK
<1>7. OneList'
  <2>1. granted' \intersect Range(converting') = {}
    BY <1>2, <1>3 DEF DlmInv, OneList, OnLists
  <2>2. OnLists' \intersect Range(blocked') = {}
    BY <1>1, <1>3, <1>5 DEF DlmInv, OneList
  <2>3. OnLists' \union Range(blocked') = OnLists \union Range(blocked)
    BY <1>1, <1>5
  <2> QED
    BY <1>1, <1>2, <2>1, <2>2, <2>3 DEF DlmInv, OneList
<1>8. GrantedCompatible'
  BY <1>1, <1>3, <1>4, <1>5, OneGranted DEF DlmInv
<1> QED
  BY <1>6, <1>7, <1>8 DEF DlmInv

LEMMA ShuffleBastsInv ==
  ASSUME DlmInv, ShuffleBasts
  PROVE  DlmInv'
<1>1. ASSUME NEW hb \in [Node -> AnyMode], NEW ls, NEW mode \in AnyMode
      PROVE  Raised(hb, ls, mode) \in [Node -> AnyMode]
  BY <1>1 DEF Raised
<1>2. converting # <<>> => convert[ConvertTarget] \in AnyMode
  <2>1. converting # <<>> => ConvertTarget \in Node
    BY TailRange DEF DlmInv, DlmTypeOK, ConvertTarget
  <2> QED
    BY <2>1 DEF DlmInv, DlmTypeOK
<1>3. blocked # <<>> => type[BlockedTarget] \in AnyMode
  <2>1. blocked # <<>> => BlockedTarget \in Node
    BY TailRange DEF DlmInv, DlmTypeOK, BlockedTarget
  <2> QED
    BY <2>1 DEF DlmInv, DlmTypeOK
<1>4. highestBlocked' \in [Node -> AnyMode]
  <2> DEFINE told == IF converting = <<>> THEN highestBlocked
                     ELSE Raised(highestBlocked, ConvertObstacles,
                                 convert[ConvertTarget])
  <2>1. told \in [Node -> AnyMode]
    BY <1>1, <1>2 DEF DlmInv, DlmTypeOK
  <2>2. highestBlocked' = IF blocked = <<>> THEN told
                          ELSE Raised(told, BlockedObstacles,
                                      type[BlockedTarget])
    BY DEF ShuffleBasts
  <2> HIDE DEF told
  <2> QED
    BY <1>1, <1>3, <2>1, <2>2
<1>5. DlmTypeOK'
  BY <1>4 DEF DlmInv, ShuffleBasts, DlmTypeOK
<1> QED
  BY <1>5, SameLists DEF DlmInv, ShuffleBasts

LEMMA DlmThreadInv ==
  ASSUME DlmInv, DlmThread
  PROVE  DlmInv'
<1>1. CASE ShuffleStart
  <2>1. DlmTypeOK'
    BY <1>1 DEF DlmInv, ShuffleStart, DlmTypeOK
  <2> QED
    BY <1>1, <2>1, SameLists DEF DlmInv, ShuffleStart
<1>2. CASE FlushDone
  <2>1. DlmTypeOK'
    BY <1>2 DEF DlmInv, FlushDone, DlmTypeOK
  <2> QED
    BY <1>2, <2>1, SameLists DEF DlmInv, FlushDone
<1> QED
  BY <1>1, <1>2, ShuffleConvertInv, ShuffleBlockedInv, ShuffleBastsInv,
     TakeBastInv DEF DlmThread

\* ... and a step in which the master does nothing
LEMMA DlmStutterInv ==
  ASSUME DlmInv, UNCHANGED dlmVars
  PROVE  DlmInv'
<1>1. DlmTypeOK'
  BY DEF DlmInv, dlmVars, DlmTypeOK
<1> QED
  BY <1>1, SameLists DEF DlmInv, dlmVars
=============================================================================
