---------------------------- MODULE SimpleEkfProofs ----------------------------
(* First what the history of the estimator keeps, for any sources, times and    *)
(* latency.  The invariant behind everything is that the buffer is a suffix of  *)
(* the line of operations the state is the result of, each entry with the      *)
(* prefix before it: a rewind and a replay then insert one operation into that  *)
(* line.  Then that the plugin keeps what its history needs, so that all of it  *)
(* holds of the plugin; and what the callbacks make sure of by themselves: the  *)
(* rate of a topic and the order of the readings.                              *)
EXTENDS SimpleEkf, TLAPS

Prefix(s, n) == [i \in 1..n |-> s[i]]

(* s with op after its first p elements. *)
With(s, p, op) ==
    [i \in 1..(Len(s) + 1) |-> IF i <= p THEN s[i] ELSE IF i = p + 1 THEN op ELSE s[i - 1]]

SuffixOf(b, s) ==
    /\ Len(b) <= Len(s)
    /\ \A i \in 1..Len(b) :
          /\ b[i].op = s[Len(s) - Len(b) + i]
          /\ b[i].before = Prefix(s, Len(s) - Len(b) + i - 1)

Types ==
    /\ state \in Seq(Operation)
    /\ buffer \in Seq(Entry)
    /\ recorded \in Nat
    /\ sealed \in Nat
    /\ latest \in Nat
    /\ ordered \in BOOLEAN

-----------------------------------------------------------------------------
LEMMA PrefixType ==
    ASSUME NEW S, NEW s \in Seq(S), NEW n \in 0..Len(s)
    PROVE  Prefix(s, n) \in Seq(S) /\ Len(Prefix(s, n)) = n
BY DEF Prefix

LEMMA WholePrefix ==
    ASSUME NEW S, NEW s \in Seq(S)
    PROVE  Prefix(s, Len(s)) = s
BY DEF Prefix

LEMMA EntryType ==
    ASSUME NEW e \in Entry
    PROVE  e.op \in Operation /\ e.before \in Seq(Operation)
BY DEF Entry

LEMMA WithType ==
    ASSUME NEW s \in Seq(Operation), NEW p \in 0..Len(s), NEW op \in Operation
    PROVE  /\ With(s, p, op) \in Seq(Operation)
           /\ Len(With(s, p, op)) = Len(s) + 1
           /\ \A i \in 1..(Len(s) + 1) :
                 With(s, p, op)[i] = IF i <= p THEN s[i]
                                     ELSE IF i = p + 1 THEN op ELSE s[i - 1]
BY DEF With

(* Dropping entries from the front leaves a suffix.                           *)
LEMMA TrimmedSuffix ==
    ASSUME NEW s \in Seq(Operation), NEW b \in Seq(Entry), SuffixOf(b, s),
           NEW k \in 1..Len(b)
    PROVE  /\ SubSeq(b, k, Len(b)) \in Seq(Entry)
           /\ Len(SubSeq(b, k, Len(b))) = Len(b) - k + 1
           /\ \A i \in 1..(Len(b) - k + 1) : SubSeq(b, k, Len(b))[i] = b[k + i - 1]
           /\ SuffixOf(SubSeq(b, k, Len(b)), s)
<1> DEFINE c == SubSeq(b, k, Len(b))
<1>1. c \in Seq(Entry) /\ Len(c) = Len(b) - k + 1
      /\ \A i \in 1..(Len(b) - k + 1) : c[i] = b[k + i - 1]
  OBVIOUS
<1>2. SuffixOf(c, s)
  <2> SUFFICES ASSUME NEW i \in 1..Len(c)
               PROVE  /\ c[i].op = s[Len(s) - Len(c) + i]
                      /\ c[i].before = Prefix(s, Len(s) - Len(c) + i - 1)
    BY <1>1 DEF SuffixOf
  <2>1. c[i] = b[k + i - 1] /\ k + i - 1 \in 1..Len(b)
    BY <1>1
  <2>2. Len(s) - Len(b) + (k + i - 1) = Len(s) - Len(c) + i
    BY <1>1
  <2> QED
    BY <2>1, <2>2 DEF SuffixOf
<1> QED
  BY <1>1, <1>2

(* A prediction extends both.                                                 *)
LEMMA PushedSuffix ==
    ASSUME NEW s \in Seq(Operation), NEW b \in Seq(Entry), SuffixOf(b, s),
           NEW op \in Operation
    PROVE  /\ Append(b, [op |-> op, before |-> s]) \in Seq(Entry)
           /\ SuffixOf(Append(b, [op |-> op, before |-> s]), Append(s, op))
<1> DEFINE e == [op |-> op, before |-> s]
           c == Append(b, e)
           t == Append(s, op)
<1>1. e \in Entry
  BY DEF Entry
<1>2. /\ c \in Seq(Entry) /\ Len(c) = Len(b) + 1 /\ c[Len(c)] = e
      /\ \A i \in 1..Len(b) : c[i] = b[i]
  BY <1>1
<1>3. /\ t \in Seq(Operation) /\ Len(t) = Len(s) + 1 /\ t[Len(t)] = op
      /\ \A i \in 1..Len(s) : t[i] = s[i]
  OBVIOUS
<1>4. Len(b) <= Len(s)
  BY DEF SuffixOf
<1>5. ASSUME NEW n \in 0..Len(s) PROVE Prefix(t, n) = Prefix(s, n)
  BY <1>3, <1>5 DEF Prefix
<1>6. ASSUME NEW i \in 1..Len(c)
      PROVE  /\ c[i].op = t[Len(t) - Len(c) + i]
             /\ c[i].before = Prefix(t, Len(t) - Len(c) + i - 1)
  <2>1. CASE i = Len(c)
    BY <2>1, <1>2, <1>3, <1>5, WholePrefix
  <2>2. CASE i <= Len(b)
    <3>1. /\ b[i].op = s[Len(s) - Len(b) + i]
          /\ b[i].before = Prefix(s, Len(s) - Len(b) + i - 1)
      BY <2>2 DEF SuffixOf
    <3>2. Len(s) - Len(b) + i \in 1..Len(s)
      BY <2>2, <1>4
    <3> QED
      BY <2>2, <3>1, <3>2, <1>2, <1>3, <1>5
  <2>3. i = Len(c) \/ i <= Len(b)
    BY <1>2
  <2> QED
    BY <2>1, <2>2, <2>3
<1> HIDE DEF c, t
<1>7. SuffixOf(c, t)
  BY <1>2, <1>3, <1>4, <1>6 DEF SuffixOf
<1> QED
  BY <1>2, <1>7 DEF c, t

(* Two sequences in a row, position by position.                              *)
LEMMA Joined ==
    ASSUME NEW s \in Seq(Operation), NEW t \in Seq(Operation), NEW j \in 1..(Len(s) + Len(t))
    PROVE  (s \o t)[j] = IF j <= Len(s) THEN s[j] ELSE t[j - Len(s)]
OBVIOUS

LEMMA SamePrefix ==
    ASSUME NEW S, NEW s \in Seq(S), NEW t \in Seq(S), Len(t) <= Len(s),
           \A j \in 1..Len(t) : t[j] = s[j]
    PROVE  Prefix(s, Len(t)) = t
BY DEF Prefix

(* The sizes of both, by name: n entries, after o operations without one.      *)
Aligned(n, o) ==
    /\ n \in Nat /\ o \in Nat
    /\ Len(buffer) = n /\ Len(state) = o + n
    /\ state \in Seq(Operation) /\ buffer \in Seq(Entry)
    /\ SuffixOf(buffer, state)

LEMMA AlignedAt ==
    ASSUME NEW n, NEW o, Aligned(n, o), NEW i \in 1..n
    PROVE  /\ buffer[i] \in Entry
           /\ buffer[i].op = state[o + i] /\ buffer[i].op \in Operation
           /\ buffer[i].before = Prefix(state, o + i - 1)
           /\ o + i \in 1..(o + n)
<1>1. /\ n \in Nat /\ o \in Nat /\ Len(buffer) = n /\ Len(state) = o + n
      /\ state \in Seq(Operation) /\ buffer \in Seq(Entry)
  BY DEF Aligned
<1>2. Len(state) - Len(buffer) + i = o + i
  BY <1>1
<1>3. buffer[i] \in Entry
  BY <1>1
<1> QED
  BY <1>1, <1>2, <1>3, EntryType DEF Aligned, SuffixOf

LEMMA AlignedWith ==
    ASSUME NEW n, NEW o, Aligned(n, o), NEW op \in Operation, NEW p \in 0..(o + n)
    PROVE  /\ With(state, p, op) \in Seq(Operation)
           /\ Len(With(state, p, op)) = o + n + 1
           /\ \A i \in 1..(o + n + 1) :
                 With(state, p, op)[i] = IF i <= p THEN state[i]
                                         ELSE IF i = p + 1 THEN op ELSE state[i - 1]
<1>1. /\ n \in Nat /\ o \in Nat /\ Len(state) = o + n
      /\ state \in Seq(Operation)
  BY DEF Aligned
<1>2. p \in 0..Len(state) /\ Len(state) + 1 = o + n + 1
  BY <1>1
<1>3. With(state, p, op) \in Seq(Operation) /\ Len(With(state, p, op)) = Len(state) + 1
  BY <1>1, <1>2, WithType, ZenonT(60)
<1>4. ASSUME NEW i \in 1..(o + n + 1)
      PROVE  With(state, p, op)[i] = IF i <= p THEN state[i]
                                     ELSE IF i = p + 1 THEN op ELSE state[i - 1]
  <2>1. i \in 1..(Len(state) + 1)
    BY <1>1
  <2> QED
    BY <2>1 DEF With
<1> QED
  BY <1>2, <1>3, <1>4

(* A rewind to entry k and a replay up to entry m give the operations before   *)
(* entry m of the line with the new one in it.                                *)
LEMMA ReplayedPrefix ==
    ASSUME NEW n \in Nat, NEW o \in Nat, Aligned(n, o),
           NEW k \in 1..(n + 1), NEW op \in Operation, NEW p \in Nat, p = o + k - 1,
           NEW m \in k..(n + 2)
    PROVE  replayed(k, op, m) = Prefix(With(state, p, op), o + m - 1)
<1> DEFINE w == With(state, p, op)
<1>1. /\ state \in Seq(Operation) /\ Len(state) = o + n /\ Len(buffer) = n
      /\ p \in 0..(o + n)
  BY DEF Aligned
<1>2. /\ w \in Seq(Operation) /\ Len(w) = o + n + 1
      /\ \A i \in 1..(o + n + 1) :
            w[i] = IF i <= p THEN state[i] ELSE IF i = p + 1 THEN op ELSE state[i - 1]
  <2>1. p \in 0..(o + n)
    BY <1>1
  <2> QED
    BY <2>1, AlignedWith
<1>l. Len(w) = o + n + 1
  BY <1>2
<1> HIDE DEF w
<1>3. ASSUME NEW i \in 1..n
      PROVE  /\ buffer[i].op = state[o + i] /\ buffer[i].op \in Operation
             /\ buffer[i].before = Prefix(state, o + i - 1)
             /\ o + i \in 1..(o + n)
  BY AlignedAt
<1>4. rewind_state(k) = Prefix(state, p)
  <2>1. CASE k <= n
    <3>1. k \in 1..n /\ k <= Len(buffer)
      BY <2>1, <1>1
    <3> QED
      BY <3>1, <1>3 DEF rewind_state
  <2>2. CASE k = n + 1
    <3>1. p = Len(state) /\ ~(k <= Len(buffer))
      BY <2>2, <1>1
    <3> QED
      BY <2>2, <3>1, <1>1, WholePrefix DEF rewind_state
  <2> QED
    BY <2>1, <2>2
<1>5. /\ Prefix(state, p) \in Seq(Operation) /\ Len(Prefix(state, p)) = p
      /\ \A j \in 1..p : Prefix(state, p)[j] = state[j]
  <2>1. \A j \in 1..p : Prefix(state, p)[j] = state[j]
    BY DEF Prefix
  <2> QED
    BY <1>1, <2>1, PrefixType
<1>6. CASE m = k
  <2>1. o + m - 1 = p
    BY <1>6
  <2>2. Prefix(state, p) = Prefix(w, p)
    BY <1>1, <1>2, SMTT(30) DEF Prefix
  <2> QED
    BY <1>6, <2>1, <2>2, <1>4 DEF replayed, w
<1>7. CASE m > k
  <2>1. PICK q \in Nat : m = k + 1 + q
    <3>1. m - k - 1 \in Nat /\ m = k + 1 + (m - k - 1)
      BY <1>7
    <3> QED
      BY <3>1
  <2> DEFINE head == Append(Prefix(state, p), op)
             tail == [i \in 1..q |-> buffer[k + i - 1].op]
  <2>2. /\ head \in Seq(Operation) /\ Len(head) = p + 1 /\ head[p + 1] = op
        /\ \A j \in 1..p : head[j] = state[j]
    BY <1>5
  <2>3. /\ tail \in Seq(Operation) /\ Len(tail) = q
        /\ \A i \in 1..q : tail[i] = state[p + i]
    <3>1. ASSUME NEW i \in 1..q
          PROVE  /\ buffer[k + i - 1].op = state[p + i]
                 /\ buffer[k + i - 1].op \in Operation
      <4>1. k + i - 1 \in 1..n /\ o + (k + i - 1) = p + i
        BY <2>1
      <4> QED
        BY <4>1, <1>3
    <3>2. \A i \in 1..q : tail[i] = state[p + i] /\ tail[i] \in Operation
      BY <3>1
    <3>3. tail \in [1..q -> Operation]
      BY <3>2
    <3> HIDE DEF tail
    <3> QED
      BY <3>2, <3>3
  <2>4. replayed(k, op, m) = head \o tail
    <3>1. m - k - 1 = q /\ m # k
      BY <2>1
    <3> QED
      BY <3>1, <1>4 DEF replayed
  <2> HIDE DEF head, tail
  <2>5. /\ head \o tail \in Seq(Operation) /\ Len(head \o tail) = p + 1 + q
        /\ \A j \in 1..(p + 1 + q) : (head \o tail)[j] =
              IF j <= p + 1 THEN head[j] ELSE tail[j - (p + 1)]
    <3>1. head \o tail \in Seq(Operation) /\ Len(head \o tail) = p + 1 + q
      <4>1. /\ head \in Seq(Operation) /\ Len(head) = p + 1
            /\ tail \in Seq(Operation) /\ Len(tail) = q
        BY <2>2, <2>3
      <4> QED
        BY <4>1
    <3>2. ASSUME NEW j \in 1..(p + 1 + q)
          PROVE  (head \o tail)[j] = IF j <= p + 1 THEN head[j] ELSE tail[j - (p + 1)]
      <4>1. j \in 1..(Len(head) + Len(tail)) /\ Len(head) = p + 1
        BY <2>2, <2>3
      <4> QED
        BY <4>1, <2>2, <2>3, Joined, ZenonT(60)
    <3> QED
      BY <3>1, <3>2
  <2>6. p + 1 + q = o + m - 1 /\ p + 1 + q <= Len(w)
    BY <2>1, <1>l
  <2>7. ASSUME NEW j \in 1..(p + 1 + q) PROVE (head \o tail)[j] = w[j]
    <3>1. j \in 1..(o + n + 1)
      BY <2>6, <1>l
    <3>2. CASE j <= p
      <4>1. (head \o tail)[j] = head[j] /\ head[j] = state[j]
        BY <3>2, <2>5, <2>2
      <4>2. w[j] = state[j]
        BY <3>1, <3>2, <1>2
      <4> QED
        BY <4>1, <4>2
    <3>3. CASE j = p + 1
      <4>1. (head \o tail)[j] = op
        BY <3>3, <2>5, <2>2
      <4>2. w[j] = op
        BY <3>1, <3>3, <1>2
      <4> QED
        BY <4>1, <4>2
    <3>4. CASE j > p + 1
      <4>1. PICK r \in 1..q : r = j - (p + 1)
        BY <3>4
      <4>2. (head \o tail)[j] = tail[r]
        BY <3>4, <4>1, <2>5
      <4>3. w[j] = state[j - 1]
        BY <3>1, <3>4, <1>2
      <4>4. tail[r] = state[p + r]
        BY <2>3
      <4>5. p + r = j - 1
        BY <4>1
      <4> QED
        BY <4>2, <4>3, <4>4, <4>5, Zenon
    <3>5. j <= p \/ j = p + 1 \/ j > p + 1
      OBVIOUS
    <3> QED
      BY <3>2, <3>3, <3>4, <3>5, Zenon
  <2>8. Prefix(w, p + 1 + q) = head \o tail
    BY <1>2, <2>5, <2>6, <2>7, SamePrefix
  <2> QED
    BY <2>4, <2>6, <2>8 DEF w
<1> QED
  BY <1>6, <1>7

(* A rewind and a replay put the operation at its place in both.              *)
LEMMA InsertedSuffix ==
    ASSUME NEW n \in Nat, NEW o \in Nat, Aligned(n, o),
           NEW k \in 1..(n + 1), NEW op \in Operation, NEW p \in Nat, p = o + k - 1
    PROVE  /\ replayed(k, op, n + 2) = With(state, p, op)
           /\ inserted(k, op) \in Seq(Entry)
           /\ Len(inserted(k, op)) = n + 1
           /\ SuffixOf(inserted(k, op), With(state, p, op))
<1> DEFINE w == With(state, p, op)
<1>1. /\ state \in Seq(Operation) /\ Len(state) = o + n /\ Len(buffer) = n
      /\ p \in 0..(o + n)
  BY DEF Aligned
<1>2. /\ w \in Seq(Operation) /\ Len(w) = o + n + 1
      /\ \A i \in 1..(o + n + 1) :
            w[i] = IF i <= p THEN state[i] ELSE IF i = p + 1 THEN op ELSE state[i - 1]
  <2>1. p \in 0..(o + n)
    BY <1>1
  <2> QED
    <3>1. w \in Seq(Operation) /\ Len(w) = o + n + 1
      BY <2>1, AlignedWith
    <3>2. ASSUME NEW i \in 1..(o + n + 1)
          PROVE  w[i] = IF i <= p THEN state[i] ELSE IF i = p + 1 THEN op ELSE state[i - 1]
      BY <2>1, AlignedWith
    <3> QED
      BY <3>1, <3>2
<1>l. Len(w) = o + n + 1
  BY <1>2
<1> DEFINE b == inserted(k, op)
<1>3. \A m \in k..(n + 2) : replayed(k, op, m) = Prefix(w, o + m - 1)
  BY ReplayedPrefix
<1>4. ASSUME NEW m \in 1..(n + 1)
      PROVE  b[m] = IF m < k THEN buffer[m]
                    ELSE [op |-> IF m = k THEN op ELSE buffer[m - 1].op,
                          before |-> replayed(k, op, m)]
  <2>1. m \in 1..(Len(buffer) + 1)
    BY <1>1
  <2> QED
    BY <2>1 DEF inserted
<1> HIDE DEF w
<1>5. ASSUME NEW i \in 1..n
      PROVE  /\ buffer[i] \in Entry
             /\ buffer[i].op = state[o + i]
             /\ buffer[i].before = Prefix(state, o + i - 1)
  BY AlignedAt
<1>6. replayed(k, op, n + 2) = w
  <2>1. o + (n + 2) - 1 = Len(w) /\ n + 2 \in k..(n + 2)
    BY <1>l
  <2> QED
    BY <2>1, <1>3, <1>2, WholePrefix
<1>7. ASSUME NEW m \in 1..(n + 1)
      PROVE  b[m] \in Entry /\ b[m].op = w[o + m] /\ b[m].before = Prefix(w, o + m - 1)
  <2>1. o + m \in 1..(o + n + 1) /\ o + m - 1 \in 0..Len(w)
    BY <1>l
  <2>2. CASE m < k
    <3>1. b[m] = buffer[m] /\ m \in 1..n
      <4>1. m \in 1..n
        BY <2>2
      <4> HIDE DEF b
      <4> QED
        BY <2>2, <4>1, <1>4
    <3>2. \A i \in 1..(o + m) : w[i] = state[i]
      BY <2>1, <2>2, <1>2
    <3>3. Prefix(w, o + m - 1) = Prefix(state, o + m - 1)
      BY <3>2 DEF Prefix
    <3>4. w[o + m] = state[o + m]
      <4>1. o + m \in 1..(o + m)
        BY <2>1
      <4> QED
        BY <3>2, <4>1
    <3> QED
      BY <3>1, <3>3, <3>4, <1>5
  <2>3. CASE m >= k
    <3>1. b[m] = [op |-> IF m = k THEN op ELSE buffer[m - 1].op,
                  before |-> Prefix(w, o + m - 1)]
      BY <2>3, <1>3, <1>4
    <3>2. Prefix(w, o + m - 1) \in Seq(Operation)
      BY <2>1, <1>2, PrefixType
    <3>3. (IF m = k THEN op ELSE buffer[m - 1].op) = w[o + m]
      <4>1. CASE m = k
        <5>1. o + m = p + 1
          BY <4>1
        <5> QED
          BY <4>1, <5>1, <2>1, <1>2
      <4>2. CASE m > k
        <5>1. m - 1 \in 1..n /\ o + (m - 1) = (o + m) - 1 /\ o + m > p + 1
          BY <4>2
        <5>2. buffer[m - 1].op = state[(o + m) - 1]
          BY <5>1, <1>5
        <5>3. w[o + m] = state[(o + m) - 1]
          <6> DEFINE j == o + m
          <6>1. j \in 1..(o + n + 1) /\ j > p + 1 /\ p \in Nat
            BY <5>1, <2>1
          <6>2. \A i \in 1..(o + n + 1) :
                    w[i] = IF i <= p THEN state[i] ELSE IF i = p + 1 THEN op ELSE state[i - 1]
            BY <1>2
          <6> HIDE DEF w, j
          <6> QED
            <7>1. w[j] = state[j - 1]
              BY <6>1, <6>2
            <7> QED
              BY <7>1 DEF j
        <5> QED
          BY <4>2, <5>2, <5>3
      <4> QED
        BY <4>1, <4>2, <2>3
    <3>4. w[o + m] \in Operation
      BY <2>1, <1>2
    <3> HIDE DEF b
    <3> QED
      BY <3>1, <3>2, <3>3, <3>4 DEF Entry
  <2> QED
    BY <2>2, <2>3
<1>8. b \in Seq(Entry) /\ Len(b) = n + 1
  <2>1. b = [m \in 1..(n + 1) |-> b[m]]
    BY <1>1, Zenon DEF inserted
  <2> HIDE DEF b
  <2>2. b \in [1..(n + 1) -> Entry]
    BY <2>1, <1>7
  <2> QED
    BY <2>1, <2>2
<1> HIDE DEF b
<1>9. SuffixOf(b, w)
  <2>1. Len(w) - Len(b) = o /\ Len(b) <= Len(w)
    BY <1>l, <1>8
  <2>2. ASSUME NEW m \in 1..Len(b)
        PROVE  /\ b[m].op = w[Len(w) - Len(b) + m]
               /\ b[m].before = Prefix(w, Len(w) - Len(b) + m - 1)
    <3>1. m \in 1..(n + 1)
      BY <1>8
    <3> QED
      BY <2>1, <3>1, <1>7
  <2> QED
    BY <2>1, <2>2 DEF SuffixOf
<1> QED
  BY <1>6, <1>8, <1>9 DEF w, b
-----------------------------------------------------------------------------
(* The steps, for the state and the buffer *)

Shape == Types /\ SuffixOf(buffer, state)

LEMMA NewOperationType ==
    ASSUME recorded \in Nat, NEW source \in Sources, NEW stamp \in Times
    PROVE  /\ NewOperation(source, stamp) \in Operation
           /\ NewOperation(source, stamp).id = recorded + 1
           /\ NewOperation(source, stamp).source = source
           /\ NewOperation(source, stamp).stamp = stamp
BY DEF NewOperation, Operation

(* What is trimmed is the front; but for the first of them, what is dropped    *)
(* and the first kept are older than the horizon.                             *)
LEMMA TrimStep ==
    ASSUME NEW s \in Seq(Operation), NEW b \in Seq(Entry), SuffixOf(b, s),
           NEW t \in Nat, latest \in Nat, trim(b, t)
    PROVE  /\ buffer' \in Seq(Entry)
           /\ SuffixOf(buffer', s)
           /\ Len(buffer') \in 1..Len(b)
           /\ latest' \in Nat /\ latest' >= latest /\ latest' >= t
           /\ t >= latest => latest' = t
           /\ \A i \in (Len(s) - Len(b) + 2)..(Len(s) - Len(buffer') + 1) :
                 s[i].stamp < t - MaxUpdateLatency
<1>1. PICK k \in 1..Len(b) :
         /\ \A i \in 2..k : b[i].op.stamp < t - MaxUpdateLatency
         /\ buffer' = SubSeq(b, k, Len(b))
         /\ latest' = Later(latest, t)
  BY DEF trim
<1>2. /\ buffer' \in Seq(Entry)
      /\ Len(buffer') = Len(b) - k + 1
      /\ SuffixOf(buffer', s)
  BY <1>1, TrimmedSuffix
<1>3. latest' \in Nat /\ latest' >= latest /\ latest' >= t /\ (t >= latest => latest' = t)
  BY <1>1 DEF Later
<1>4. ASSUME NEW i \in (Len(s) - Len(b) + 2)..(Len(s) - Len(buffer') + 1)
      PROVE  s[i].stamp < t - MaxUpdateLatency
  <2>1. PICK j \in Int : j = i - (Len(s) - Len(b))
    OBVIOUS
  <2>2. j \in 2..k /\ j \in 1..Len(b)
    BY <2>1, <1>2
  <2>3. b[j].op = s[Len(s) - Len(b) + j]
    BY <2>2 DEF SuffixOf
  <2>4. Len(s) - Len(b) + j = i
    BY <2>1
  <2> QED
    BY <2>2, <2>3, <2>4, <1>1
<1>5. Len(buffer') \in 1..Len(b)
  BY <1>2
<1> QED
  BY <1>1, <1>2, <1>3, <1>4, <1>5

LEMMA PredictStep ==
    ASSUME Shape, NEW stamp \in Times, predictAndRecord(stamp)
    PROVE  /\ Shape'
           /\ state' = Append(state, NewOperation(Imu, stamp))
           /\ Len(buffer') >= 1
           /\ Len(state') - Len(buffer') >= Len(state) - Len(buffer)
           /\ latest' >= latest /\ latest' >= stamp
           /\ \A i \in (Len(state) - Len(buffer) + 2)..(Len(state') - Len(buffer') + 1) :
                 state'[i].stamp < stamp - MaxUpdateLatency
<1> DEFINE op == NewOperation(Imu, stamp)
           e == [op |-> op, before |-> state]
           b == Append(buffer, e)
           s == Append(state, op)
<1>1. /\ state \in Seq(Operation) /\ buffer \in Seq(Entry) /\ recorded \in Nat
      /\ latest \in Nat /\ stamp \in Nat
      /\ SuffixOf(buffer, state)
  BY HistoryAssumption DEF Shape, Types
<1>2. op \in Operation
  BY <1>1, NewOperationType, HistoryAssumption
<1>3. state' = s /\ trim(b, stamp)
  BY DEF predictAndRecord
<1>4. s \in Seq(Operation) /\ Len(s) = Len(state) + 1 /\ Len(b) = Len(buffer) + 1
  BY <1>1, <1>2
<1>5. b \in Seq(Entry) /\ SuffixOf(b, s)
  BY <1>1, <1>2, PushedSuffix
<1> HIDE DEF s, b, op
<1>6. /\ buffer' \in Seq(Entry)
      /\ SuffixOf(buffer', s)
      /\ Len(buffer') \in 1..Len(b)
      /\ latest' \in Nat /\ latest' >= latest /\ latest' >= stamp
      /\ \A i \in (Len(s) - Len(b) + 2)..(Len(s) - Len(buffer') + 1) :
            s[i].stamp < stamp - MaxUpdateLatency
  BY <1>1, <1>3, <1>4, <1>5, TrimStep
<1>7. Types'
  BY <1>1, <1>3, <1>4, <1>6 DEF Shape, Types, predictAndRecord
<1>8. Len(s) - Len(b) = Len(state) - Len(buffer)
  BY <1>1, <1>4
<1>9. Len(state') - Len(buffer') >= Len(state) - Len(buffer) /\ Len(buffer') >= 1
  BY <1>1, <1>3, <1>4, <1>6
<1>10. \A i \in (Len(state) - Len(buffer) + 2)..(Len(state') - Len(buffer') + 1) :
            state'[i].stamp < stamp - MaxUpdateLatency
  BY <1>3, <1>6, <1>8
<1> QED
  BY <1>3, <1>6, <1>7, <1>9, <1>10 DEF Shape, s, op

LEMMA InsertStep ==
    ASSUME Shape, NEW source \in Sources, NEW stamp \in Times, NEW t \in Times,
           insertAndReplay(source, stamp, t)
    PROVE  /\ Shape'
           /\ \E k \in newer(stamp) :
                 state' = With(state, Len(state) - Len(buffer) + k - 1,
                               NewOperation(source, stamp))
           /\ Len(buffer') >= 1
           /\ Len(state') = Len(state) + 1
           /\ Len(state') - Len(buffer') >= Len(state) - Len(buffer)
           /\ latest' >= latest /\ latest' >= t /\ (t >= latest => latest' = t)
           /\ \A i \in (Len(state) - Len(buffer) + 2)..(Len(state') - Len(buffer') + 1) :
                 state'[i].stamp < t - MaxUpdateLatency
<1>1. /\ state \in Seq(Operation) /\ buffer \in Seq(Entry) /\ recorded \in Nat
      /\ latest \in Nat /\ t \in Nat
      /\ SuffixOf(buffer, state)
  BY HistoryAssumption DEF Shape, Types
<1>2. PICK op : op = NewOperation(source, stamp)
  OBVIOUS
<1>3. op \in Operation
  BY <1>1, <1>2, NewOperationType
<1>4. PICK k \in newer(stamp) :
         /\ state' = replayed(k, op, Len(buffer) + 2)
         /\ trim(inserted(k, op), t)
  BY <1>2 DEF insertAndReplay
<1>5. PICK n \in Nat, o \in Nat : Aligned(n, o) /\ n = Len(buffer) /\ o = Len(state) - Len(buffer)
  <2>1. Len(buffer) \in Nat /\ Len(state) - Len(buffer) \in Nat
        /\ (Len(state) - Len(buffer)) + Len(buffer) = Len(state)
    BY <1>1 DEF SuffixOf
  <2> QED
    BY <1>1, <2>1 DEF Aligned
<1>6. k \in 1..(n + 1)
  BY <1>4, <1>5 DEF newer
<1>7. PICK p \in Nat : p = o + k - 1
  BY <1>6
<1>8. PICK b : b = inserted(k, op)
  OBVIOUS
<1>9. /\ state' = With(state, p, op)
      /\ b \in Seq(Entry) /\ Len(b) = n + 1 /\ SuffixOf(b, state')
  BY <1>3, <1>4, <1>5, <1>6, <1>7, <1>8, InsertedSuffix
<1>10. state' \in Seq(Operation) /\ Len(state') = o + n + 1
  <2>1. p \in 0..(o + n)
    BY <1>6, <1>7
  <2> QED
    BY <1>3, <1>5, <1>9, <2>1, AlignedWith
<1>11. /\ buffer' \in Seq(Entry)
       /\ SuffixOf(buffer', state')
       /\ Len(buffer') \in 1..Len(b)
       /\ latest' \in Nat /\ latest' >= latest /\ latest' >= t
       /\ t >= latest => latest' = t
       /\ \A i \in (Len(state') - Len(b) + 2)..(Len(state') - Len(buffer') + 1) :
             state'[i].stamp < t - MaxUpdateLatency
  <2>1. trim(b, t)
    BY <1>4, <1>8
  <2> QED
    BY <1>1, <1>9, <1>10, <2>1, TrimStep
<1>12. Types'
  BY <1>1, <1>10, <1>11 DEF Shape, Types, insertAndReplay
<1>13. /\ Len(state') - Len(b) = Len(state) - Len(buffer)
       /\ Len(state') = Len(state) + 1
       /\ Len(buffer') >= 1
       /\ Len(state') - Len(buffer') >= Len(state) - Len(buffer)
  <2>1. Len(state') - Len(b) = o /\ Len(state) = o + n
    BY <1>5, <1>9, <1>10 DEF Aligned
  <2> QED
    BY <2>1, <1>5, <1>9, <1>10, <1>11
<1>14. Shape'
  BY <1>11, <1>12 DEF Shape
<1> QED
  BY <1>2, <1>4, <1>5, <1>7, <1>9, <1>11, <1>13, <1>14

(* Every operation of the state was recorded, so that the next id is a new one. *)
Fresh == \A i \in 1..Len(state) : state[i].id <= recorded

LEMMA IdType ==
    ASSUME NEW op \in Operation
    PROVE  op.id \in Nat /\ op.id >= 1 /\ op.source \in Sources /\ op.stamp \in Times
BY DEF Operation

LEMMA NothingRecorded ==
    ASSUME Shape, Fresh, recorded = 0
    PROVE  Len(state) = 0 /\ Len(buffer) = 0
<1>1. state \in Seq(Operation) /\ buffer \in Seq(Entry) /\ Len(buffer) <= Len(state)
  BY DEF Shape, Types, SuffixOf
<1>2. ASSUME Len(state) >= 1 PROVE FALSE
  <2>1. state[1] \in Operation /\ state[1].id <= recorded
    BY <1>1, <1>2 DEF Fresh
  <2> QED
    BY <2>1, IdType
<1> QED
  BY <1>1, <1>2

(* What an operation added to the line makes of the freshness.                *)
LEMMA FreshPredict ==
    ASSUME Shape, Fresh, NEW stamp \in Times, predictAndRecord(stamp)
    PROVE  /\ Fresh'
           /\ recorded' = recorded + 1
           /\ state'[Len(state) + 1] = NewOperation(Imu, stamp)
           /\ \A i \in 1..Len(state) : state'[i] = state[i]
           /\ Len(state') = Len(state) + 1
<1>1. state \in Seq(Operation) /\ recorded \in Nat
  BY DEF Shape, Types
<1>2. PICK op : op = NewOperation(Imu, stamp)
  OBVIOUS
<1>3. op \in Operation /\ op.id = recorded + 1
  BY <1>1, <1>2, NewOperationType, HistoryAssumption
<1>4. state' = Append(state, op) /\ recorded' = recorded + 1
  BY <1>2 DEF predictAndRecord
<1>5. /\ Len(state') = Len(state) + 1 /\ state'[Len(state) + 1] = op
      /\ \A i \in 1..Len(state) : state'[i] = state[i]
  BY <1>1, <1>3, <1>4
<1>6. ASSUME NEW i \in 1..Len(state') PROVE state'[i].id <= recorded'
  <2>1. CASE i = Len(state) + 1
    BY <2>1, <1>1, <1>3, <1>4, <1>5
  <2>2. CASE i \in 1..Len(state)
    <3>1. state[i].id <= recorded /\ state[i] \in Operation
      BY <2>2, <1>1 DEF Fresh
    <3>2. state[i].id \in Nat
      BY <3>1, IdType
    <3> QED
      BY <2>2, <3>1, <3>2, <1>1, <1>4, <1>5
  <2> QED
    BY <2>1, <2>2, <1>1, <1>5
<1> QED
  BY <1>2, <1>4, <1>5, <1>6 DEF Fresh

LEMMA FreshInsert ==
    ASSUME Shape, Fresh, NEW source \in Sources, NEW stamp \in Times, NEW t \in Times,
           insertAndReplay(source, stamp, t)
    PROVE  /\ Fresh'
           /\ recorded' = recorded + 1
           /\ \E k \in newer(stamp), p \in 0..Len(state) :
                 /\ p = Len(state) - Len(buffer) + k - 1
                 /\ Len(state') = Len(state) + 1
                 /\ state'[p + 1] = NewOperation(source, stamp)
                 /\ \A i \in 1..p : state'[i] = state[i]
                 /\ \A i \in (p + 2)..(Len(state) + 1) : state'[i] = state[i - 1]
<1>1. /\ state \in Seq(Operation) /\ buffer \in Seq(Entry) /\ recorded \in Nat
      /\ Len(buffer) <= Len(state)
  BY DEF Shape, Types, SuffixOf
<1>2. PICK op : op = NewOperation(source, stamp)
  OBVIOUS
<1>3. op \in Operation /\ op.id = recorded + 1
  BY <1>1, <1>2, NewOperationType
<1>4. PICK k \in newer(stamp) : state' = With(state, Len(state) - Len(buffer) + k - 1, op)
  BY <1>2, InsertStep
<1>5. PICK p \in 0..Len(state) : p = Len(state) - Len(buffer) + k - 1
  BY <1>1, <1>4 DEF newer
<1>6. recorded' = recorded + 1
  BY DEF insertAndReplay
<1>7. /\ Len(state') = Len(state) + 1
      /\ \A i \in 1..(Len(state) + 1) :
            state'[i] = IF i <= p THEN state[i] ELSE IF i = p + 1 THEN op ELSE state[i - 1]
  <2>1. state' = With(state, p, op)
    BY <1>4, <1>5
  <2>2. Len(state') = Len(state) + 1
    BY <1>1, <1>3, <2>1, WithType
  <2>3. ASSUME NEW i \in 1..(Len(state) + 1)
        PROVE  state'[i] = IF i <= p THEN state[i]
                           ELSE IF i = p + 1 THEN op ELSE state[i - 1]
    BY <2>1 DEF With
  <2> QED
    BY <2>2, <2>3
<1>8. /\ state'[p + 1] = op
      /\ \A i \in 1..p : state'[i] = state[i]
      /\ \A i \in (p + 2)..(Len(state) + 1) : state'[i] = state[i - 1]
  BY <1>1, <1>7
<1>9. ASSUME NEW i \in 1..Len(state) PROVE state[i].id <= recorded + 1
  <2>1. state[i].id <= recorded /\ state[i] \in Operation
    BY <1>1 DEF Fresh
  <2>2. state[i].id \in Nat
    BY <2>1, IdType
  <2> QED
    BY <2>1, <2>2, <1>1
<1>10. ASSUME NEW i \in 1..(Len(state) + 1) PROVE state'[i].id <= recorded'
  <2>1. CASE i <= p
    BY <2>1, <1>1, <1>6, <1>8, <1>9
  <2>2. CASE i = p + 1
    BY <2>2, <1>1, <1>3, <1>6, <1>8
  <2>3. CASE i > p + 1
    <3>1. i - 1 \in 1..Len(state) /\ i \in (p + 2)..(Len(state) + 1)
      BY <2>3, <1>1
    <3> QED
      BY <3>1, <1>6, <1>8, <1>9
  <2> QED
    BY <2>1, <2>2, <2>3
<1> QED
  BY <1>2, <1>5, <1>6, <1>7, <1>8, <1>10 DEF Fresh

THEOREM HistoryIsInductive ==
    ASSUME Shape, Fresh, [HistoryNext]_history
    PROVE  Shape' /\ Fresh'
<1>1. ASSUME NEW stamp \in Times, predictAndRecord(stamp) PROVE Shape' /\ Fresh'
  BY <1>1, PredictStep, FreshPredict
<1>2. CASE UNCHANGED history
  BY <1>2 DEF history, Shape, Types, SuffixOf, Fresh
<1>3. ASSUME NEW source \in Sources \ {Imu}, NEW stamp \in Times, NEW t \in Times,
             updateAndRecord(source, stamp, t)
      PROVE  Shape' /\ Fresh'
  <2>1. CASE insertAndReplay(source, stamp, t)
    BY <2>1, InsertStep, FreshInsert
  <2> QED
    BY <1>2, <1>3, <2>1 DEF updateAndRecord
<1>4. CASE clear
  BY <1>4 DEF clear, Shape, Types, SuffixOf, Fresh
<1>5. CASE recorded = 0 /\ resetStateToPose
  <2>1. Len(state) = 0 /\ Len(buffer) = 0 /\ state \in Seq(Operation) /\ buffer \in Seq(Entry)
    BY <1>5, NothingRecorded DEF Shape, Types
  <2>2. state = <<>> /\ buffer = <<>>
    BY <2>1
  <2>3. UNCHANGED <<state, buffer, recorded, sealed, latest, ordered>>
    BY <1>5, <2>2 DEF resetStateToPose
  <2> QED
    BY <2>3 DEF Shape, Types, SuffixOf, Fresh
<1> QED
  BY <1>1, <1>2, <1>3, <1>4, <1>5 DEF HistoryNext

LEMMA HistoryStarts ==
    ASSUME HistoryInit
    PROVE  Shape /\ Fresh
BY DEF HistoryInit, Shape, Types, SuffixOf, Fresh

(* A suffix of the line, entry by entry, chains.                              *)
LEMMA ChainsHold ==
    ASSUME Shape
    PROVE  HistoryChains
<1>1. PICK n \in Nat, o \in Nat : Aligned(n, o) /\ n = Len(buffer)
  <2>1. state \in Seq(Operation) /\ buffer \in Seq(Entry) /\ SuffixOf(buffer, state)
    BY DEF Shape, Types
  <2>2. Len(buffer) \in Nat /\ Len(state) - Len(buffer) \in Nat
        /\ (Len(state) - Len(buffer)) + Len(buffer) = Len(state)
    BY <2>1 DEF SuffixOf
  <2> QED
    BY <2>1, <2>2 DEF Aligned
<1>2. state \in Seq(Operation) /\ Len(state) = o + n
  BY <1>1 DEF Aligned
<1>3. ASSUME NEW j \in 0..(Len(state) - 1)
      PROVE  Append(Prefix(state, j), state[j + 1]) = Prefix(state, j + 1)
  <2>1. j \in 0..Len(state) /\ state[j + 1] \in Operation
    BY <1>2
  <2>2. Prefix(state, j) \in Seq(Operation) /\ Len(Prefix(state, j)) = j
    BY <1>2, <2>1, PrefixType
  <2> QED
    BY <2>1, <2>2 DEF Prefix
<1>4. ASSUME NEW i \in 1..n
      PROVE  Append(buffer[i].before, buffer[i].op) =
                IF i < n THEN buffer[i + 1].before ELSE state
  <2>1. /\ buffer[i].op = state[o + i] /\ buffer[i].before = Prefix(state, o + i - 1)
    BY <1>1, AlignedAt
  <2>2. Append(Prefix(state, o + i - 1), state[o + i]) = Prefix(state, o + i)
    <3>1. PICK j \in 0..(Len(state) - 1) : j = o + i - 1
      BY <1>2
    <3>2. j + 1 = o + i
      BY <3>1
    <3> QED
      BY <1>3, <3>1, <3>2
  <2>3. CASE i < n
    <3>1. i + 1 \in 1..n /\ o + (i + 1) - 1 = o + i
      BY <2>3
    <3>2. buffer[i + 1].before = Prefix(state, o + (i + 1) - 1)
      BY <3>1, <1>1, AlignedAt
    <3> QED
      BY <2>1, <2>2, <2>3, <3>1, <3>2
  <2>4. CASE i = n
    <3>1. Prefix(state, o + i) = state
      BY <2>4, <1>2, WholePrefix
    <3> QED
      BY <2>1, <2>2, <2>4, <3>1
  <2> QED
    BY <2>3, <2>4
<1> QED
  BY <1>1, <1>4 DEF HistoryChains

(* HistoryChains in every behavior: what EkfTimelineEntry says of itself holds  *)
(* for any readings, in any order, at any times.                              *)
THEOREM ChainsAlwaysHold == HistorySpec => []HistoryChains
<1>1. HistoryInit => Shape /\ Fresh
  BY HistoryStarts
<1>2. Shape /\ Fresh /\ [HistoryNext]_history => (Shape /\ Fresh)'
  BY HistoryIsInductive
<1>3. Shape => HistoryChains
  BY ChainsHold
<1> QED
  BY <1>1, <1>2, <1>3, PTL DEF HistorySpec

-----------------------------------------------------------------------------
(* The history implements the line of operations *)

LEMMA PredictFuses ==
    ASSUME Shape, Fresh, NEW stamp \in Times, predictAndRecord(stamp)
    PROVE  Timeline!Fuse
<1>1. /\ state \in Seq(Operation) /\ state' \in Seq(Operation) /\ recorded \in Nat
  BY PredictStep DEF Shape, Types
<1>2. PICK p \in 0..Len(state) : p = Len(state)
  BY <1>1
<1>3. /\ state'[p + 1].id = recorded + 1
      /\ \A i \in 1..Len(state) : state'[i] = state[i]
      /\ Len(state') = Len(state) + 1
  BY <1>1, <1>2, FreshPredict, NewOperationType, HistoryAssumption
<1>4. ASSUME NEW i \in 1..Len(state) PROVE state[i] # state'[p + 1]
  <2>1. state[i].id <= recorded /\ state[i].id \in Nat
    BY <1>1, IdType DEF Fresh
  <2> QED
    BY <2>1, <1>1, <1>3
<1>5. \A i \in 1..Len(state) : state[i] = state'[IF i <= p THEN i ELSE i + 1]
  BY <1>2, <1>3
<1> QED
  BY <1>1, <1>3, <1>4, <1>5 DEF Timeline!Fuse

LEMMA InsertFuses ==
    ASSUME Shape, Fresh, NEW source \in Sources, NEW stamp \in Times, NEW t \in Times,
           insertAndReplay(source, stamp, t)
    PROVE  Timeline!Fuse
<1>1. /\ state \in Seq(Operation) /\ state' \in Seq(Operation) /\ recorded \in Nat
  BY InsertStep DEF Shape, Types
<1>2. PICK p \in 0..Len(state) :
         /\ Len(state') = Len(state) + 1
         /\ state'[p + 1] = NewOperation(source, stamp)
         /\ \A i \in 1..p : state'[i] = state[i]
         /\ \A i \in (p + 2)..(Len(state) + 1) : state'[i] = state[i - 1]
  BY FreshInsert
<1>3. state'[p + 1].id = recorded + 1
  BY <1>1, <1>2, NewOperationType
<1>4. ASSUME NEW i \in 1..Len(state) PROVE state[i] # state'[p + 1]
  <2>1. state[i].id <= recorded /\ state[i].id \in Nat
    BY <1>1, IdType DEF Fresh
  <2> QED
    BY <2>1, <1>1, <1>3
<1>5. ASSUME NEW i \in 1..Len(state)
      PROVE  state[i] = state'[IF i <= p THEN i ELSE i + 1]
  <2>1. CASE i <= p
    BY <2>1, <1>2
  <2>2. CASE i > p
    <3>1. i + 1 \in (p + 2)..(Len(state) + 1) /\ (i + 1) - 1 = i
      BY <2>2, <1>1
    <3>2. state'[i + 1] = state[(i + 1) - 1]
      BY <3>1, <1>2
    <3> QED
      BY <2>2, <3>1, <3>2
  <2> QED
    BY <2>1, <2>2
<1> QED
  BY <1>1, <1>2, <1>4, <1>5 DEF Timeline!Fuse

(* The history implements FusionTimeline: for any readings and any times, no    *)
(* operation the filter was given is lost, applied twice or reordered by a     *)
(* rewind, a replay, a trim or the history being forgotten.                    *)
THEOREM HistoryImplementsTimeline == HistorySpec => ImplementsTimeline
<1>1. HistoryInit => Shape /\ Fresh
  BY HistoryStarts
<1>2. Shape /\ Fresh /\ [HistoryNext]_history => (Shape /\ Fresh)'
  BY HistoryIsInductive
<1>3. HistoryInit => Timeline!Init
  BY DEF HistoryInit, Timeline!Init
<1>4. ASSUME Shape, Fresh, [HistoryNext]_history
      PROVE  [Timeline!Fuse]_state
  <2>1. ASSUME NEW stamp \in Times, predictAndRecord(stamp) PROVE Timeline!Fuse
    BY <1>4, <2>1, PredictFuses
  <2>2. CASE UNCHANGED history
    BY <2>2 DEF history
  <2>3. ASSUME NEW source \in Sources \ {Imu}, NEW stamp \in Times, NEW t \in Times,
               updateAndRecord(source, stamp, t)
        PROVE  [Timeline!Fuse]_state
    <3>1. CASE insertAndReplay(source, stamp, t)
      BY <1>4, <3>1, InsertFuses
    <3> QED
      BY <2>3, <3>1 DEF updateAndRecord, history
  <2>4. CASE clear
    BY <2>4 DEF clear
  <2>5. CASE recorded = 0 /\ resetStateToPose
    <3>1. Len(state) = 0 /\ state \in Seq(Operation)
      BY <1>4, <2>5, NothingRecorded DEF Shape, Types
    <3> QED
      BY <2>5, <3>1 DEF resetStateToPose
  <2> QED
    BY <1>4, <2>1, <2>2, <2>3, <2>4, <2>5 DEF HistoryNext
<1> QED
  BY <1>1, <1>2, <1>3, <1>4, PTL DEF HistorySpec, ImplementsTimeline, Timeline!Spec

-----------------------------------------------------------------------------
(* The frames *)

(* What is assumed of the numbers: a line of operations leads to a position.   *)
PositionIsAnInteger == \A s \in Seq(Operation) : Position(s) \in Int

(* OdometryIsContinuous for every step: an absolute pose moves map->odom by as  *)
(* much as it moves the state, replay included, and nothing else moves it.     *)
THEOREM OdometryStaysContinuous ==
    ASSUME PositionIsAnInteger
    PROVE  HistorySpec => OdometryIsContinuous
<1> DEFINE Inv == Shape /\ Fresh /\ map_to_odom \in Int
           Corrected == \E i \in 1..Len(state') : /\ state'[i].id = recorded'
                                                  /\ state'[i].source \in AbsoluteSources
           Continuous == recorded' # recorded =>
                            IF Corrected THEN odom_to_base' = odom_to_base
                            ELSE map_to_odom' = map_to_odom
<1>1. HistoryInit => Inv
  BY HistoryStarts DEF HistoryInit
<1>2. ASSUME Inv, [HistoryNext]_history
      PROVE  Inv' /\ Continuous
  <2>1. Shape' /\ Fresh'
    BY <1>2, HistoryIsInductive
  <2>2. /\ state \in Seq(Operation) /\ state' \in Seq(Operation) /\ recorded \in Nat
        /\ Position(state) \in Int /\ Position(state') \in Int
    BY <1>2, <2>1 DEF Shape, Types, PositionIsAnInteger
  <2>3. CASE map_to_odom' = map_to_odom /\ recorded' = recorded
    BY <1>2, <2>1, <2>3
  <2>4. ASSUME NEW stamp \in Times, predictAndRecord(stamp)
        PROVE  Inv' /\ Continuous
    <3>1. map_to_odom' = map_to_odom /\ recorded' = recorded + 1
      BY <2>4 DEF predictAndRecord
    <3>2. ASSUME NEW i \in 1..Len(state'), state'[i].id = recorded'
          PROVE  state'[i].source = Imu
      <4>1. /\ state'[Len(state) + 1] = NewOperation(Imu, stamp)
            /\ \A j \in 1..Len(state) : state'[j] = state[j]
            /\ Len(state') = Len(state) + 1
        BY <1>2, <2>4, FreshPredict
      <4>2. CASE i = Len(state) + 1
        BY <4>1, <4>2, <2>2, NewOperationType, HistoryAssumption
      <4>3. CASE i \in 1..Len(state)
        <5>1. state[i].id <= recorded /\ state[i].id \in Nat
          BY <1>2, <4>3, <2>2, IdType DEF Fresh
        <5> QED
          BY <3>1, <3>2, <4>1, <4>3, <5>1, <2>2
      <4> QED
        BY <4>1, <4>2, <4>3, <2>2
    <3>3. ~Corrected
      BY <3>2, HistoryAssumption
    <3> QED
      BY <1>2, <2>1, <3>1, <3>3
  <2>5. ASSUME NEW source \in Sources, NEW stamp \in Times, NEW t \in Times,
               insertAndReplay(source, stamp, t)
        PROVE  Inv' /\ Continuous
    <3>1. /\ recorded' = recorded + 1
          /\ map_to_odom' = IF source \in AbsoluteSources
                            THEN map_to_odom + Position(state') - Position(state)
                            ELSE map_to_odom
      BY <2>5 DEF insertAndReplay, compute_map_to_odom
    <3>2. map_to_odom' \in Int
      BY <1>2, <2>2, <3>1
    <3>3. PICK p \in 0..Len(state) :
             /\ Len(state') = Len(state) + 1
             /\ state'[p + 1] = NewOperation(source, stamp)
             /\ \A i \in 1..p : state'[i] = state[i]
             /\ \A i \in (p + 2)..(Len(state) + 1) : state'[i] = state[i - 1]
      BY <1>2, <2>5, FreshInsert
    <3>4. state'[p + 1].id = recorded' /\ state'[p + 1].source = source
      BY <2>2, <3>1, <3>3, NewOperationType
    <3>5. ASSUME NEW i \in 1..Len(state'), state'[i].id = recorded'
          PROVE  state'[i].source = source
      <4>1. ASSUME NEW j \in 1..Len(state) PROVE state[j].id # recorded'
        <5>1. state[j].id <= recorded /\ state[j].id \in Nat
          BY <1>2, <2>2, IdType DEF Fresh
        <5> QED
          BY <5>1, <2>2, <3>1
      <4>2. i <= p => i \in 1..p /\ i \in 1..Len(state)
        BY <2>2
      <4>3. i > p + 1 => i \in (p + 2)..(Len(state) + 1) /\ i - 1 \in 1..Len(state)
        BY <2>2, <3>3
      <4>4. i = p + 1
        BY <3>3, <3>5, <4>1, <4>2, <4>3, <2>2
      <4> QED
        BY <3>4, <4>4
    <3>6. Corrected <=> source \in AbsoluteSources
      <4>1. p + 1 \in 1..Len(state')
        BY <2>2, <3>3
      <4> QED
        BY <3>4, <3>5, <4>1
    <3>7. source \in AbsoluteSources => odom_to_base' = odom_to_base
      BY <1>2, <2>2, <3>1 DEF odom_to_base
    <3> QED
      BY <2>1, <3>1, <3>2, <3>6, <3>7
  <2>6. ASSUME NEW source \in Sources \ {Imu}, NEW stamp \in Times, NEW t \in Times,
               updateAndRecord(source, stamp, t)
        PROVE  Inv' /\ Continuous
    BY <2>3, <2>5, <2>6 DEF updateAndRecord, history
  <2>7. clear \/ resetStateToPose \/ UNCHANGED history
        => map_to_odom' = map_to_odom /\ recorded' = recorded
    BY DEF clear, resetStateToPose, history
  <2> QED
    BY <1>2, <2>3, <2>4, <2>6, <2>7 DEF HistoryNext
<1>3. Inv /\ [HistoryNext]_history => Inv'
  BY <1>2
<1>4. Inv /\ [HistoryNext]_history => [Continuous]_history
  BY <1>2
<1> QED
  BY <1>1, <1>3, <1>4, PTL DEF HistorySpec, OdometryIsContinuous

-----------------------------------------------------------------------------
(* The order of the stamps.  What the trimming dropped is older than the        *)
(* horizon, so a measurement that is not too late belongs after all of it.     *)

Dropped == Len(state) - Len(buffer)

Chrono ==
    /\ sealed <= Dropped
    /\ Len(buffer) = 0 => sealed = Len(state)
    /\ Chronological
    /\ ordered => \A i \in (sealed + 1)..Dropped : state[i].stamp < latest - MaxUpdateLatency

LEMMA StampType ==
    ASSUME NEW s \in Seq(Operation), NEW i \in 1..Len(s)
    PROVE  s[i].stamp \in Nat /\ s[i].id \in Nat
<1>1. s[i] \in Operation
  OBVIOUS
<1> QED
  BY <1>1, IdType, HistoryAssumption

(* In a line in order, what was dropped before and what is trimmed now are all*)
(* older than the horizon.                                                    *)
LEMMA OlderThanTheHorizon ==
    ASSUME NEW s \in Seq(Operation), NEW from \in Nat, NEW o \in Nat, NEW o1 \in Nat,
           NEW t \in Nat, NEW old \in Nat, NEW new \in Nat, old <= new, t <= new,
           o <= o1, o1 + 1 <= Len(s),
           \A i, j \in (from + 1)..Len(s) : i < j => s[i].stamp <= s[j].stamp,
           \A i \in (from + 1)..o : s[i].stamp < old - MaxUpdateLatency,
           \A i \in (o + 2)..(o1 + 1) : s[i].stamp < t - MaxUpdateLatency
    PROVE  \A i \in (from + 1)..o1 : s[i].stamp < new - MaxUpdateLatency
<1> SUFFICES ASSUME NEW i \in (from + 1)..o1
             PROVE  s[i].stamp < new - MaxUpdateLatency
  OBVIOUS
<1>1. i \in 1..Len(s) /\ i + 1 \in 1..Len(s) /\ i + 1 \in (from + 1)..Len(s)
      /\ i \in (from + 1)..Len(s)
  OBVIOUS
<1>2. s[i].stamp \in Nat /\ s[i + 1].stamp \in Nat /\ MaxUpdateLatency \in Nat
  BY <1>1, StampType, HistoryAssumption
<1>3. CASE i <= o
  <2>1. s[i].stamp < old - MaxUpdateLatency
    BY <1>3
  <2> QED
    BY <2>1, <1>2
<1>4. CASE i > o
  <2>1. i + 1 \in (o + 2)..(o1 + 1)
    BY <1>4
  <2>2. s[i + 1].stamp < t - MaxUpdateLatency
    BY <2>1
  <2>3. s[i].stamp <= s[i + 1].stamp
    BY <1>1
  <2> QED
    BY <2>2, <2>3, <1>2
<1> QED
  BY <1>3, <1>4

(* Chronological as an order of the stamps and as the order within one stamp.   *)
LEMMA InOrder ==
    ASSUME state \in Seq(Operation), sealed \in Nat, Chronological, ordered,
           NEW i \in (sealed + 1)..Len(state), NEW j \in (sealed + 1)..Len(state), i <= j
    PROVE  state[i].stamp <= state[j].stamp
<1>1. i \in 1..Len(state) /\ j \in 1..Len(state)
  OBVIOUS
<1>2. state[i].stamp \in Nat /\ state[j].stamp \in Nat
  BY <1>1, StampType
<1>3. CASE i = j
  BY <1>2, <1>3
<1>4. CASE i < j
  BY <1>2, <1>4 DEF Chronological
<1> QED
  BY <1>3, <1>4

LEMMA PredictKeepsOrder ==
    ASSUME Shape, Fresh, Chrono, NEW stamp \in Times, predictAndRecord(stamp)
    PROVE  Chrono'
<1>1. /\ state \in Seq(Operation) /\ buffer \in Seq(Entry) /\ recorded \in Nat
      /\ sealed \in Nat /\ latest \in Nat /\ ordered \in BOOLEAN
      /\ SuffixOf(buffer, state) /\ Len(buffer) <= Len(state)
      /\ stamp \in Nat /\ MaxUpdateLatency \in Nat
  BY HistoryAssumption DEF Shape, Types, SuffixOf
<1>2. /\ state' \in Seq(Operation) /\ buffer' \in Seq(Entry)
      /\ Len(buffer') <= Len(state') /\ Len(buffer') >= 1
      /\ Dropped' >= Dropped
      /\ latest' \in Nat /\ latest' >= latest /\ latest' >= stamp
      /\ \A i \in (Dropped + 2)..(Dropped' + 1) : state'[i].stamp < stamp - MaxUpdateLatency
  BY PredictStep DEF Shape, Types, SuffixOf, Dropped
<1>3. /\ Len(state') = Len(state) + 1
      /\ state'[Len(state) + 1].stamp = stamp
      /\ state'[Len(state) + 1].id = recorded + 1
      /\ \A i \in 1..Len(state) : state'[i] = state[i]
  BY <1>1, FreshPredict, NewOperationType, HistoryAssumption
<1>4. /\ sealed' = sealed
      /\ ordered' => ordered /\ \A i \in 1..Len(buffer) : buffer[i].op.stamp <= stamp
  BY DEF predictAndRecord
<1>5. sealed <= Dropped /\ Dropped \in Nat /\ Dropped' \in Nat /\ sealed \in 0..Len(state)
  BY <1>1, <1>2 DEF Chrono, Dropped
<1>6. ASSUME ordered', NEW i \in (sealed + 1)..Len(state)
      PROVE  state[i].stamp <= stamp /\ state[i].id < recorded + 1
             /\ state[i].stamp \in Nat /\ state[i].id \in Nat
  <2>1. Len(buffer) # 0
    BY <1>1, <1>6 DEF Chrono
  <2>2. Len(buffer) \in 1..Len(buffer)
    BY <2>1, <1>1
  <2>3. buffer[Len(buffer)].op = state[Len(state) - Len(buffer) + Len(buffer)]
    BY <2>2 DEF Shape, SuffixOf
  <2>4. Len(state) - Len(buffer) + Len(buffer) = Len(state)
    BY <1>1
  <2>5. state[Len(state)].stamp <= stamp
    BY <2>2, <2>3, <2>4, <1>4, <1>6
  <2>6. state[i].stamp <= state[Len(state)].stamp
    BY <1>1, <1>4, <1>5, <1>6, InOrder DEF Chrono
  <2>7. i \in 1..Len(state) /\ Len(state) \in 1..Len(state)
    BY <1>1, <1>6
  <2>8. state[i].stamp \in Nat /\ state[i].id \in Nat /\ state[Len(state)].stamp \in Nat
    BY <2>7, <1>1, StampType
  <2>9. state[i].id <= recorded
    BY <2>7 DEF Fresh
  <2> QED
    BY <2>5, <2>6, <2>8, <2>9, <1>1
<1>7. Chronological'
  <2> SUFFICES ASSUME ordered', NEW i \in (sealed + 1)..Len(state'),
                      NEW j \in (sealed + 1)..Len(state'), i < j
               PROVE  \/ state'[i].stamp < state'[j].stamp
                      \/ state'[i].stamp = state'[j].stamp /\ state'[i].id < state'[j].id
    BY <1>4 DEF Chronological
  <2>1. i \in (sealed + 1)..Len(state) /\ state'[i] = state[i]
    BY <1>1, <1>3
  <2>2. CASE j <= Len(state)
    <3>1. j \in (sealed + 1)..Len(state) /\ state'[j] = state[j]
      BY <2>2, <1>1, <1>3
    <3> QED
      BY <2>1, <3>1, <1>4 DEF Chrono, Chronological
  <2>3. CASE j = Len(state) + 1
    BY <2>1, <2>3, <1>1, <1>3, <1>6
  <2> QED
    BY <2>2, <2>3, <1>1, <1>3
<1>8. ASSUME ordered'
      PROVE  \A i \in (sealed + 1)..Dropped' : state'[i].stamp < latest' - MaxUpdateLatency
  <2>1. \A i, j \in (sealed + 1)..Len(state') : i < j => state'[i].stamp <= state'[j].stamp
    <3> SUFFICES ASSUME NEW i \in (sealed + 1)..Len(state'),
                        NEW j \in (sealed + 1)..Len(state'), i < j
                 PROVE  state'[i].stamp <= state'[j].stamp
      OBVIOUS
    <3>1. state'[i].stamp \in Nat /\ state'[j].stamp \in Nat
      <4>1. sealed \in Nat /\ state' \in Seq(Operation)
        BY <1>1, <1>2
      <4>2. i \in 1..Len(state') /\ j \in 1..Len(state')
        BY <4>1
      <4> QED
        BY <4>1, <4>2, StampType
    <3> QED
      BY <3>1, <1>4, <1>7, <1>8 DEF Chronological
  <2>2. \A i \in (sealed + 1)..Dropped : state'[i].stamp < latest - MaxUpdateLatency
    <3> SUFFICES ASSUME NEW i \in (sealed + 1)..Dropped
                 PROVE  state'[i].stamp < latest - MaxUpdateLatency
      OBVIOUS
    <3>1. i \in 1..Len(state)
      BY <1>1 DEF Dropped
    <3> QED
      BY <3>1, <1>3, <1>4, <1>8 DEF Chrono
  <2>3. Dropped' + 1 <= Len(state')
    BY <1>2 DEF Dropped
  <2> QED
    BY <2>1, <2>2, <2>3, <1>1, <1>2, <1>5, OlderThanTheHorizon
<1> QED
  BY <1>2, <1>4, <1>5, <1>7, <1>8 DEF Chrono

LEMMA InsertKeepsOrder ==
    ASSUME Shape, Fresh, Chrono, NEW source \in Sources, NEW stamp \in Times, NEW t \in Times,
           t - stamp <= MaxUpdateLatency, insertAndReplay(source, stamp, t)
    PROVE  Chrono'
<1>1. /\ state \in Seq(Operation) /\ buffer \in Seq(Entry) /\ recorded \in Nat
      /\ sealed \in Nat /\ latest \in Nat /\ ordered \in BOOLEAN
      /\ SuffixOf(buffer, state) /\ Len(buffer) <= Len(state)
      /\ stamp \in Nat /\ t \in Nat /\ MaxUpdateLatency \in Nat
  BY HistoryAssumption DEF Shape, Types, SuffixOf
<1>2. /\ state' \in Seq(Operation) /\ buffer' \in Seq(Entry)
      /\ Len(buffer') <= Len(state') /\ Len(buffer') >= 1
      /\ Dropped' >= Dropped
      /\ latest' \in Nat /\ latest' >= latest /\ latest' >= t
      /\ \A i \in (Dropped + 2)..(Dropped' + 1) : state'[i].stamp < t - MaxUpdateLatency
  BY InsertStep DEF Shape, Types, SuffixOf, Dropped
<1>3. PICK k \in newer(stamp), p \in 0..Len(state) :
         /\ p = Dropped + k - 1
         /\ Len(state') = Len(state) + 1
         /\ state'[p + 1] = NewOperation(source, stamp)
         /\ \A i \in 1..p : state'[i] = state[i]
         /\ \A i \in (p + 2)..(Len(state) + 1) : state'[i] = state[i - 1]
  BY FreshInsert DEF Dropped
<1>4. state'[p + 1].stamp = stamp /\ state'[p + 1].id = recorded + 1
  BY <1>1, <1>3, NewOperationType
<1>5. /\ sealed' = sealed
      /\ ordered' => ordered /\ t >= latest
  BY DEF insertAndReplay
<1>6. /\ sealed <= Dropped /\ Dropped \in Nat /\ Dropped' \in Nat /\ sealed \in 0..Len(state)
      /\ Dropped + Len(buffer) = Len(state)
      /\ k \in 1..(Len(buffer) + 1) /\ Dropped <= p
  <2>1. k \in 1..(Len(buffer) + 1)
    BY <1>3 DEF newer
  <2>2. sealed <= Dropped /\ Dropped \in Nat /\ Dropped + Len(buffer) = Len(state)
    BY <1>1 DEF Chrono, Dropped
  <2>3. Dropped' \in Nat
    BY <1>2 DEF Dropped
  <2>4. Dropped <= p
    BY <2>1, <2>2, <1>3, <1>1
  <2> QED
    BY <2>1, <2>2, <2>3, <2>4, <1>1
(* What is before the new operation is not newer, what is after it is.         *)
<1>7. ASSUME ordered', NEW i \in (sealed + 1)..Len(state)
      PROVE  /\ state[i].stamp \in Nat /\ state[i].id \in Nat /\ state[i].id < recorded + 1
             /\ i <= p => state[i].stamp <= stamp
             /\ i > p => stamp < state[i].stamp
  <2>1. i \in 1..Len(state)
    BY <1>1
  <2>2. state[i].stamp \in Nat /\ state[i].id \in Nat /\ state[i].id <= recorded
    BY <2>1, <1>1, StampType DEF Fresh
  <2>3. ASSUME i <= Dropped PROVE state[i].stamp <= stamp
    <3>1. state[i].stamp < latest - MaxUpdateLatency
      BY <2>3, <1>1, <1>5, <1>6, <1>7 DEF Chrono
    <3> QED
      BY <3>1, <2>2, <1>1, <1>5, <1>7
  <2>4. ASSUME Dropped < i, i <= p PROVE state[i].stamp <= stamp
    <3>1. k - 1 \in 1..Len(buffer)
      BY <2>4, <1>1, <1>3, <1>6
    <3>2. buffer[k - 1].op.stamp <= stamp
      BY <3>1, <1>3 DEF newer
    <3>3. buffer[k - 1].op = state[Dropped + (k - 1)]
      BY <3>1 DEF Shape, SuffixOf, Dropped
    <3>4. Dropped + (k - 1) = p
      BY <1>3, <1>6
    <3>5. p \in (sealed + 1)..Len(state) /\ p \in 1..Len(state)
      BY <2>4, <1>1, <1>3
    <3>6. state[i].stamp <= state[p].stamp /\ state[p].stamp \in Nat
      BY <3>5, <2>4, <1>1, <1>5, <1>7, InOrder, StampType DEF Chrono
    <3> QED
      BY <3>2, <3>3, <3>4, <3>6, <2>2, <1>1
  <2>5. ASSUME i > p PROVE stamp < state[i].stamp
    <3>1. k \in 1..Len(buffer)
      BY <2>5, <1>1, <1>3, <1>6, SMTT(30)
    <3>2. stamp < buffer[k].op.stamp
      BY <3>1, <1>3 DEF newer
    <3>3. buffer[k].op = state[Dropped + k]
      BY <3>1 DEF Shape, SuffixOf, Dropped
    <3>4. Dropped + k = p + 1
      BY <1>3, <1>6
    <3>5. p + 1 \in (sealed + 1)..Len(state) /\ p + 1 \in 1..Len(state)
      BY <2>5, <1>1, <1>6
    <3>6. state[p + 1].stamp <= state[i].stamp /\ state[p + 1].stamp \in Nat
      BY <3>5, <2>5, <1>1, <1>5, <1>7, InOrder, StampType DEF Chrono
    <3> QED
      BY <3>2, <3>3, <3>4, <3>6, <2>2, <1>1, SMTT(30)
  <2>6. i <= p => i <= Dropped \/ (Dropped < i /\ i <= p)
    BY <1>6
  <2>7. state[i].id < recorded + 1
    BY <2>2, <1>1
  <2> QED
    BY <2>2, <2>3, <2>4, <2>5, <2>6, <2>7
<1>8. Chronological'
  <2> SUFFICES ASSUME ordered', NEW i \in (sealed + 1)..Len(state'),
                      NEW j \in (sealed + 1)..Len(state'), i < j
               PROVE  \/ state'[i].stamp < state'[j].stamp
                      \/ state'[i].stamp = state'[j].stamp /\ state'[i].id < state'[j].id
    BY <1>5 DEF Chronological
  <2>1. CASE j <= p
    <3>1. /\ i \in (sealed + 1)..Len(state) /\ state'[i] = state[i]
          /\ j \in (sealed + 1)..Len(state) /\ state'[j] = state[j]
      BY <2>1, <1>1, <1>3
    <3> QED
      BY <3>1, <1>5 DEF Chrono, Chronological
  <2>2. CASE j = p + 1
    <3>1. i \in (sealed + 1)..Len(state) /\ state'[i] = state[i] /\ i <= p
      BY <2>2, <1>1, <1>3
    <3>2. /\ state[i].stamp \in Nat /\ state[i].id \in Nat /\ state[i].id < recorded + 1
          /\ state[i].stamp <= stamp
      BY <3>1, <1>7
    <3> QED
      BY <2>2, <3>1, <3>2, <1>1, <1>4
  <2>3. CASE j > p + 1
    <3>1. /\ j \in (p + 2)..(Len(state) + 1) /\ state'[j] = state[j - 1]
          /\ j - 1 \in (sealed + 1)..Len(state) /\ j - 1 > p
      BY <2>3, <1>1, <1>3, SMTT(30)
    <3>2. CASE i <= p
      <4>1. state'[i] = state[i] /\ i \in (sealed + 1)..Len(state) /\ i < j - 1
        BY <3>1, <3>2, <1>1, <1>3, SMTT(30)
      <4> QED
        BY <3>1, <4>1, <1>5 DEF Chrono, Chronological
    <3>3. CASE i = p + 1
      <4>1. stamp < state[j - 1].stamp
        BY <3>1, <1>7
      <4> QED
        BY <3>1, <3>3, <4>1, <1>4
    <3>4. CASE i > p + 1
      <4>1. /\ i \in (p + 2)..(Len(state) + 1)
            /\ i - 1 \in (sealed + 1)..Len(state) /\ i - 1 < j - 1
        <5>1. Len(state) \in Nat /\ sealed \in Nat /\ sealed <= p /\ p \in Nat
          BY <1>1, <1>6
        <5>2. Len(state') = Len(state) + 1
          BY <1>3
        <5> QED
          BY <3>4, <5>1, <5>2
      <4>2. state'[i] = state[i - 1]
        BY <4>1, <1>3
      <4>3. \/ state[i - 1].stamp < state[j - 1].stamp
            \/ state[i - 1].stamp = state[j - 1].stamp /\ state[i - 1].id < state[j - 1].id
        BY <3>1, <4>1, <1>5 DEF Chrono, Chronological
      <4> QED
        BY <3>1, <4>2, <4>3
    <3>5. i <= p \/ i = p + 1 \/ i > p + 1
      BY <1>3
    <3> QED
      BY <3>2, <3>3, <3>4, <3>5
  <2>4. j <= p \/ j = p + 1 \/ j > p + 1
    BY <1>3
  <2> QED
    BY <2>1, <2>2, <2>3, <2>4
<1>9. ASSUME ordered'
      PROVE  \A i \in (sealed + 1)..Dropped' : state'[i].stamp < latest' - MaxUpdateLatency
  <2>1. \A i, j \in (sealed + 1)..Len(state') : i < j => state'[i].stamp <= state'[j].stamp
    <3> SUFFICES ASSUME NEW i \in (sealed + 1)..Len(state'),
                        NEW j \in (sealed + 1)..Len(state'), i < j
                 PROVE  state'[i].stamp <= state'[j].stamp
      OBVIOUS
    <3>1. state'[i].stamp \in Nat /\ state'[j].stamp \in Nat
      <4>1. sealed \in Nat /\ state' \in Seq(Operation)
        BY <1>1, <1>2
      <4>2. i \in 1..Len(state') /\ j \in 1..Len(state')
        BY <4>1
      <4> QED
        BY <4>1, <4>2, StampType
    <3> QED
      BY <3>1, <1>5, <1>8, <1>9 DEF Chronological
  <2>2. \A i \in (sealed + 1)..Dropped : state'[i].stamp < latest - MaxUpdateLatency
    <3> SUFFICES ASSUME NEW i \in (sealed + 1)..Dropped
                 PROVE  state'[i].stamp < latest - MaxUpdateLatency
      OBVIOUS
    <3>1. i \in 1..p
      BY <1>1, <1>6
    <3> QED
      BY <3>1, <1>3, <1>5, <1>9 DEF Chrono
  <2>3. Dropped' + 1 <= Len(state')
    BY <1>2 DEF Dropped
  <2> QED
    BY <2>1, <2>2, <2>3, <1>1, <1>2, <1>6, OlderThanTheHorizon
<1> QED
  BY <1>2, <1>5, <1>6, <1>8, <1>9 DEF Chrono

(* Chronological in every behavior: a late measurement is applied at its own    *)
(* timestamp, also among what the trimming dropped, for any readings.          *)
THEOREM AlwaysChronological == HistorySpec => []Chronological
<1> DEFINE Inv == Shape /\ Fresh /\ Chrono
<1>1. HistoryInit => Inv
  <2>1. ASSUME HistoryInit PROVE Chrono
    BY <2>1, HistoryAssumption DEF HistoryInit, Chrono, Chronological, Dropped
  <2> QED
    BY <2>1, HistoryStarts
<1>2. ASSUME Inv, [HistoryNext]_history PROVE Inv'
  <2>1. Shape' /\ Fresh'
    BY <1>2, HistoryIsInductive
  <2>2. ASSUME NEW stamp \in Times, predictAndRecord(stamp) PROVE Chrono'
    BY <1>2, <2>2, PredictKeepsOrder
  <2>3. CASE UNCHANGED history
    BY <1>2, <2>1, <2>3 DEF history, Chrono, Chronological, Dropped
  <2>4. ASSUME NEW source \in Sources \ {Imu}, NEW stamp \in Times, NEW t \in Times,
               updateAndRecord(source, stamp, t)
        PROVE  Chrono'
    BY <1>2, <2>3, <2>4, InsertKeepsOrder DEF updateAndRecord
  <2>5. CASE clear
    <3>1. /\ state \in Seq(Operation) /\ state' = state /\ sealed' = Len(state)
          /\ buffer' = <<>> /\ Len(buffer') = 0
      BY <1>2, <2>5 DEF clear, Shape, Types
    <3> QED
      BY <2>1, <3>1 DEF Chrono, Chronological, Dropped
  <2>6. CASE recorded = 0 /\ resetStateToPose
    <3>1. Len(state) = 0 /\ state \in Seq(Operation)
      BY <1>2, <2>6, NothingRecorded DEF Shape, Types
    <3>2. state' = state
      BY <2>6, <3>1 DEF resetStateToPose
    <3> QED
      BY <1>2, <2>1, <2>6, <3>2 DEF resetStateToPose, Chrono, Chronological, Dropped
  <2> QED
    BY <1>2, <2>1, <2>2, <2>3, <2>4, <2>5, <2>6 DEF HistoryNext
<1>3. Inv => Chronological
  BY DEF Chrono
<1>4. Inv /\ [HistoryNext]_history => Inv'
  BY <1>2
<1> QED
  BY <1>1, <1>3, <1>4, PTL DEF HistorySpec

-----------------------------------------------------------------------------
(* The plugin. *)


NodeTypes ==
    /\ now \in 1..MaxTime
    /\ corrections \in 0..MaxCorrections
    /\ set_earth_map_from_topic \in BOOLEAN /\ imu_model_fallback_enabled \in BOOLEAN
    /\ earth_to_map_set \in BOOLEAN /\ drone_has_been_offboard \in BOOLEAN
    /\ using_imu_model_fallback \in BOOLEAN
    /\ last_imu \in 0..MaxTime /\ last_imu_receive_time \in 0..MaxTime
    /\ last_fed_imu_stamp \in 0..MaxTime /\ last_reading \in 0..MaxTime
    /\ last_fused_stamp \in [Topics -> 0..MaxTime]
    /\ first_rejection_stamp \in [Topics -> 0..MaxTime]

(* Nothing is recorded before earth->map is set.                              *)
NothingBeforeEarthToMap == ~earth_to_map_set => recorded = 0

LEMMA ConstantTypes ==
    /\ Imu \in Sources /\ Imu \notin AbsoluteSources
    /\ Preflight \in Sources \ {Imu}
    /\ Topics \subseteq Sources \ {Imu}
    /\ Topics \cap {Imu, Preflight} = {}
    /\ MaxTime \in Nat /\ MaxTime >= 1 /\ MaxCorrections \in Nat
    /\ 1..MaxTime \subseteq Times
    /\ VelocityTopics \subseteq Topics
BY HistoryAssumption, EkfAssumption DEF Topics

LEMMA StampsType ==
    ASSUME NodeTypes, NEW delay, NEW stamp \in Stamps(delay)
    PROVE  stamp \in 1..MaxTime /\ stamp \in Times /\ now \in Times
BY ConstantTypes DEF NodeTypes, Stamps

-----------------------------------------------------------------------------
(* Every callback changes the history by one of its operations *)

LEMMA ReadingStep ==
    ASSUME NEW stamp \in Times, onImu(stamp)
    PROVE  \/ ClockJumped(stamp) /\ clear
           \/ ~ClockJumped(stamp) /\ predictAndRecord(stamp)
BY DEF onImu

LEMMA CallbackSteps ==
    ASSUME NodeTypes, NothingBeforeEarthToMap, Next
    PROVE  /\ [HistoryNext]_history
           /\ NothingBeforeEarthToMap'
<1>1. CASE UNCHANGED history /\ (earth_to_map_set => earth_to_map_set')
  BY <1>1 DEF NothingBeforeEarthToMap, history
<1>2. ASSUME NEW stamp \in Times, onImu(stamp), earth_to_map_set'
      PROVE  [HistoryNext]_history /\ NothingBeforeEarthToMap'
  BY <1>2, ReadingStep DEF HistoryNext, NothingBeforeEarthToMap
<1>3. ASSUME NEW s \in Sources \ {Imu}, NEW stamp \in Times, now \in Times,
             updateAndRecord(s, stamp, now), earth_to_map_set'
      PROVE  [HistoryNext]_history /\ NothingBeforeEarthToMap'
  BY <1>3 DEF HistoryNext, NothingBeforeEarthToMap
<1>4. ASSUME NEW s \in Topics, NEW within \in BOOLEAN, NEW stamp \in Times, now \in Times,
             process(s, within, stamp), earth_to_map_set, earth_to_map_set'
      PROVE  [HistoryNext]_history /\ NothingBeforeEarthToMap'
  <2>1. s \in Sources \ {Imu}
    BY ConstantTypes
  <2> QED
    BY <1>1, <1>3, <1>4, <2>1 DEF process
<1>5. CASE Tick \/ SetBack \/ platformInfoCallback
  BY <1>1, <1>5 DEF Tick, SetBack, platformInfoCallback
<1>6. ASSUME NEW stamp \in Stamps(MaxImuDelay), imuCallback(stamp)
      PROVE  [HistoryNext]_history /\ NothingBeforeEarthToMap'
  <2>1. stamp \in Times
    BY StampsType
  <2> QED
    BY <1>1, <1>2, <1>6, <2>1 DEF imuCallback
<1>7. ASSUME NEW s \in Topics \ VelocityTopics, NEW stamp \in Stamps(MaxDelay),
             PoseCallback(s, stamp)
      PROVE  [HistoryNext]_history /\ NothingBeforeEarthToMap'
  <2>1. stamp \in Times /\ now \in Times
    BY StampsType
  <2>2. PICK within \in BOOLEAN, repeated \in BOOLEAN, frame \in {"earth", "map", "other"} :
           IF repeated THEN UNCHANGED <<history, first_rejection_stamp, earth_to_map_set>>
           ELSE fusePose(s, within, frame, stamp)
    BY <1>7 DEF PoseCallback
  <2>3. CASE repeated
    BY <1>1, <2>2, <2>3
  <2>4. CASE ~repeated /\ earth_to_map_set
    BY <1>4, <2>1, <2>2, <2>4 DEF fusePose
  <2>5. CASE ~repeated /\ ~earth_to_map_set
    <3>1. UNCHANGED history \/ resetStateToPose
      BY <2>2, <2>5 DEF fusePose, setEarthToMapFromFirstPose
    <3>2. recorded = 0 /\ (resetStateToPose => recorded' = 0)
      BY <2>5 DEF NothingBeforeEarthToMap, resetStateToPose
    <3> QED
      BY <1>1, <2>5, <3>1, <3>2 DEF HistoryNext, NothingBeforeEarthToMap
  <2> QED
    BY <2>3, <2>4, <2>5
<1>8. ASSUME NEW s \in VelocityTopics, s \in Topics, NEW stamp \in Stamps(MaxDelay),
             twistWithCovarianceCallback(s, stamp)
      PROVE  [HistoryNext]_history /\ NothingBeforeEarthToMap'
  <2>1. stamp \in Times /\ now \in Times
    BY StampsType
  <2> QED
    BY <1>1, <1>4, <1>8, <2>1 DEF twistWithCovarianceCallback
<1>9. CASE bodyRatesCallback
  <2>1. now \in Times
    BY ConstantTypes DEF NodeTypes
  <2> QED
    BY <1>2, <1>9, <2>1 DEF bodyRatesCallback
<1>10. CASE timerCallback
  <2>1. now \in Times /\ Preflight \in Sources \ {Imu}
    BY ConstantTypes DEF NodeTypes
  <2> QED
    BY <1>3, <1>10, <2>1 DEF timerCallback
<1> QED
  BY <1>5, <1>6, <1>7, <1>8, <1>9, <1>10, ConstantTypes DEF Next

LEMMA NodeTypesStart ==
    ASSUME Init
    PROVE  NodeTypes /\ NothingBeforeEarthToMap
<1>1. set_earth_map_from_topic \in BOOLEAN
  BY Zenon DEF Init
<1>2. now \in 1..MaxTime /\ corrections \in 0..MaxCorrections /\ 0 \in 0..MaxTime
  BY ConstantTypes DEF Init
<1>3. /\ last_fused_stamp \in [Topics -> 0..MaxTime]
      /\ first_rejection_stamp \in [Topics -> 0..MaxTime]
  BY <1>2 DEF Init
<1> QED
  BY <1>1, <1>2, <1>3 DEF Init, HistoryInit, NodeTypes, NothingBeforeEarthToMap

LEMMA NodeTypesKept ==
    ASSUME NodeTypes, [Next]_vars
    PROVE  NodeTypes'
<1> USE DEF NodeTypes
<1>1. CASE UNCHANGED vars
  BY <1>1 DEF vars, parameters, imu_vars, topic_vars
<1>2. CASE Tick
  BY <1>2, ConstantTypes DEF Tick, parameters, imu_vars, topic_vars
<1>3. CASE SetBack
  BY <1>3, ConstantTypes DEF SetBack, parameters, imu_vars, topic_vars
<1>4. CASE platformInfoCallback
  BY <1>4 DEF platformInfoCallback, parameters, imu_vars, topic_vars
<1>5. ASSUME NEW stamp \in Stamps(MaxImuDelay), imuCallback(stamp)
      PROVE  NodeTypes'
  <2>1. stamp \in 0..MaxTime /\ now \in 0..MaxTime
    BY StampsType, ConstantTypes
  <2>2. earth_to_map_set' \in BOOLEAN
    BY <1>5, Zenon DEF imuCallback
  <2>3. last_reading' \in 0..MaxTime /\ last_imu_receive_time' \in 0..MaxTime
    BY <1>5, <2>1, ConstantTypes DEF imuCallback
  <2>4. /\ last_imu' \in 0..MaxTime /\ last_fed_imu_stamp' \in 0..MaxTime
        /\ using_imu_model_fallback' \in BOOLEAN
    BY <1>5, <2>1 DEF imuCallback, onImu
  <2>5. UNCHANGED <<now, corrections, parameters, drone_has_been_offboard, topic_vars>>
    BY <1>5 DEF imuCallback
  <2> QED
    BY <2>2, <2>3, <2>4, <2>5 DEF parameters, topic_vars
<1>6. ASSUME NEW s \in Topics, NEW within \in BOOLEAN, NEW stamp \in 0..MaxTime,
             process(s, within, stamp)
      PROVE  first_rejection_stamp' \in [Topics -> 0..MaxTime]
  BY <1>6, ConstantTypes DEF process
<1>7. ASSUME NEW s \in Topics, NEW stamp \in 0..MaxTime, keepStamp(s, stamp)
      PROVE  last_fused_stamp' \in [Topics -> 0..MaxTime]
  BY <1>7 DEF keepStamp
<1>8. ASSUME NEW s \in Topics \ VelocityTopics, NEW stamp \in Stamps(MaxDelay),
             PoseCallback(s, stamp)
      PROVE  NodeTypes'
  <2>1. stamp \in 0..MaxTime
    BY StampsType, ConstantTypes
  <2>2. keepStamp(s, stamp)
    BY <1>8 DEF PoseCallback
  <2>3. first_rejection_stamp' \in [Topics -> 0..MaxTime]
    BY <1>6, <1>8, <2>1 DEF PoseCallback, fusePose
  <2>4. earth_to_map_set' \in BOOLEAN
    BY <1>8 DEF PoseCallback, fusePose, setEarthToMapFromFirstPose
  <2>5. UNCHANGED <<now, corrections, parameters, drone_has_been_offboard, imu_vars>>
    BY <1>8 DEF PoseCallback
  <2> QED
    BY <1>7, <2>1, <2>2, <2>3, <2>4, <2>5 DEF parameters, imu_vars
<1>9. ASSUME NEW s \in VelocityTopics, s \in Topics, NEW stamp \in Stamps(MaxDelay),
             twistWithCovarianceCallback(s, stamp)
      PROVE  NodeTypes'
  <2>1. stamp \in 0..MaxTime
    BY StampsType, ConstantTypes
  <2>2. keepStamp(s, stamp)
    BY <1>9 DEF twistWithCovarianceCallback
  <2>3. first_rejection_stamp' \in [Topics -> 0..MaxTime]
    BY <1>6, <1>9, <2>1 DEF twistWithCovarianceCallback
  <2>4. UNCHANGED <<now, corrections, parameters, earth_to_map_set,
                    drone_has_been_offboard, imu_vars>>
    BY <1>9 DEF twistWithCovarianceCallback
  <2> QED
    BY <1>7, <1>9, <2>1, <2>2, <2>3, <2>4 DEF parameters, imu_vars
<1>10. CASE bodyRatesCallback
  <2>1. now \in 0..MaxTime
    BY ConstantTypes
  <2>2. /\ last_imu' = now /\ last_fed_imu_stamp' = now /\ using_imu_model_fallback' = TRUE
    BY <1>10 DEF bodyRatesCallback, onImu
  <2>3. UNCHANGED <<now, corrections, parameters, earth_to_map_set, drone_has_been_offboard,
                    last_imu_receive_time, last_reading, topic_vars>>
    BY <1>10 DEF bodyRatesCallback
  <2> QED
    BY <2>1, <2>2, <2>3 DEF parameters, topic_vars
<1>11. CASE timerCallback
  BY <1>11 DEF timerCallback, parameters, imu_vars, topic_vars
<1> QED
  BY <1>1, <1>2, <1>3, <1>4, <1>5, <1>8, <1>9, <1>10, <1>11, ConstantTypes DEF Next

(* ImplementsHistory: every behavior of the plugin is one of the history, so it *)
(* never sets the state under a recorded history.                              *)
THEOREM PluginImplementsHistory == Spec => ImplementsHistory
<1> DEFINE Inv == NodeTypes /\ NothingBeforeEarthToMap
<1>1. Init => Inv /\ HistoryInit
  BY NodeTypesStart DEF Init
<1>2. Inv /\ [Next]_vars => Inv' /\ [HistoryNext]_history
  <2>1. CASE UNCHANGED vars
    BY <2>1, NodeTypesKept DEF vars, history, NothingBeforeEarthToMap
  <2> QED
    BY <2>1, NodeTypesKept, CallbackSteps
<1> QED
  BY <1>1, <1>2, PTL DEF Spec, ImplementsHistory, HistorySpec

(* What the history keeps, in every behavior of the plugin.                    *)
THEOREM PluginHistoryChains == Spec => []HistoryChains
BY PluginImplementsHistory, ChainsAlwaysHold, PTL DEF ImplementsHistory

THEOREM PluginIsChronological == Spec => []Chronological
BY PluginImplementsHistory, AlwaysChronological, PTL DEF ImplementsHistory

THEOREM PluginImplementsTimeline == Spec => ImplementsTimeline
BY PluginImplementsHistory, HistoryImplementsTimeline, PTL DEF ImplementsHistory

THEOREM PluginOdometryIsContinuous ==
    ASSUME PositionIsAnInteger
    PROVE  Spec => OdometryIsContinuous
BY PluginImplementsHistory, OdometryStaysContinuous, PTL DEF ImplementsHistory

LEMMA MapToOdomType ==
    ASSUME PositionIsAnInteger, Shape, Shape', map_to_odom \in Int, [HistoryNext]_history
    PROVE  map_to_odom' \in Int
<1>1. Position(state) \in Int /\ Position(state') \in Int
  BY DEF Shape, Types, PositionIsAnInteger
<1>2. CASE map_to_odom' = map_to_odom
  BY <1>2
<1>3. ASSUME NEW source \in Sources, NEW stamp \in Times, NEW t \in Times,
             insertAndReplay(source, stamp, t)
      PROVE  map_to_odom' \in Int
  <2>1. \/ map_to_odom' = map_to_odom
        \/ map_to_odom' = map_to_odom + Position(state') - Position(state)
    BY <1>3 DEF insertAndReplay, compute_map_to_odom
  <2> QED
    BY <2>1, <1>1
<1> QED
  BY <1>2, <1>3 DEF HistoryNext, predictAndRecord, updateAndRecord, clear, resetStateToPose,
                    history

(* TypeOK in every behavior, the positions being numbers.                     *)
THEOREM PluginTypesHold ==
    ASSUME PositionIsAnInteger
    PROVE  Spec => []TypeOK
<1> DEFINE Inv == Shape /\ Fresh /\ map_to_odom \in Int /\ NodeTypes /\ NothingBeforeEarthToMap
<1>1. ASSUME Init PROVE Inv
  <2>1. HistoryInit /\ map_to_odom = 0
    BY <1>1 DEF Init, HistoryInit
  <2> QED
    BY <1>1, <2>1, HistoryStarts, NodeTypesStart
<1>2. ASSUME Inv, [Next]_vars PROVE Inv'
  <2>1. NodeTypes' /\ NothingBeforeEarthToMap' /\ [HistoryNext]_history
    <3>1. CASE UNCHANGED vars
      BY <1>2, <3>1, NodeTypesKept DEF vars, history, NothingBeforeEarthToMap
    <3> QED
      BY <1>2, <3>1, NodeTypesKept, CallbackSteps
  <2> QED
    BY <1>2, <2>1, HistoryIsInductive, MapToOdomType
<1>3. Inv => TypeOK
  BY DEF Shape, Types, NodeTypes, TypeOK, HistoryTypeOK
<1>4. Inv /\ [Next]_vars => Inv'
  BY <1>2
<1> QED
  BY <1>1, <1>3, <1>4, PTL DEF Spec

-----------------------------------------------------------------------------
(* The operations of the state, one at a time *)

(* The line has op more, and the others of it are those of the state.          *)
Extended(op) ==
    \E p \in 0..Len(state) :
        /\ Len(state') = Len(state) + 1
        /\ state'[p + 1] = op
        /\ \A i \in 1..p : state'[i] = state[i]
        /\ \A i \in (p + 2)..(Len(state) + 1) : state'[i] = state[i - 1]

LEMMA PredictExtends ==
    ASSUME Shape, Fresh, NEW stamp \in Times, predictAndRecord(stamp)
    PROVE  Extended(NewOperation(Imu, stamp))
<1>1. Len(state) \in Nat
  BY DEF Shape, Types
<1>2. PICK p \in 0..Len(state) : p = Len(state)
  BY <1>1
<1> QED
  BY <1>1, <1>2, FreshPredict DEF Extended

LEMMA InsertExtends ==
    ASSUME Shape, Fresh, NEW source \in Sources, NEW stamp \in Times, NEW t \in Times,
           insertAndReplay(source, stamp, t)
    PROVE  Extended(NewOperation(source, stamp))
BY FreshInsert DEF Extended

(* A pair of the new line is a pair of the old one, but for the new operation.  *)
LEMMA ExtendedPairs ==
    ASSUME state \in Seq(Operation), NEW op, Extended(op)
    PROVE  /\ \A i \in 1..Len(state') : state'[i] # op =>
                 \E k \in 1..Len(state) : state'[i] = state[k]
           /\ \A i, j \in 1..Len(state') : i # j =>
                 \/ \E k, l \in 1..Len(state) :
                       k # l /\ state'[i] = state[k] /\ state'[j] = state[l]
                 \/ \E k \in 1..Len(state) : state'[i] = op /\ state'[j] = state[k]
                 \/ \E k \in 1..Len(state) : state'[j] = op /\ state'[i] = state[k]
<1>1. Len(state) \in Nat
  OBVIOUS
<1>2. PICK p \in 0..Len(state) :
        /\ Len(state') = Len(state) + 1
        /\ state'[p + 1] = op
        /\ \A i \in 1..p : state'[i] = state[i]
        /\ \A i \in (p + 2)..(Len(state) + 1) : state'[i] = state[i - 1]
  BY DEF Extended
<1> DEFINE old(i) == IF i <= p THEN i ELSE i - 1
<1>3. ASSUME NEW i \in 1..Len(state'), i # p + 1
      PROVE  old(i) \in 1..Len(state) /\ state'[i] = state[old(i)]
  <2>1. CASE i <= p
    BY <2>1, <1>1, <1>2
  <2>2. CASE i > p + 1
    <3>1. i \in (p + 2)..(Len(state) + 1)
      BY <2>2, <1>1, <1>2
    <3> QED
      BY <2>2, <3>1, <1>1, <1>2
  <2> QED
    BY <2>1, <2>2, <1>1, <1>2, <1>3
<1>4. ASSUME NEW i \in 1..Len(state'), NEW j \in 1..Len(state'),
             i # j, i # p + 1, j # p + 1
      PROVE  old(i) # old(j)
  BY <1>1, <1>2, <1>4
<1> HIDE DEF old
<1> QED
  BY <1>2, <1>3, <1>4

-----------------------------------------------------------------------------
(* The rate of a topic *)

Limited(op) == op.source \in Topics /\ update_period[op.source] > 0

(* Every measurement of a topic with a rate was kept as its last, or before it. *)
LastIsLast ==
    \A i \in 1..Len(state) :
        Limited(state[i]) => /\ last_fused_stamp[state[i].source] # 0
                             /\ state[i].stamp <= last_fused_stamp[state[i].source]

Rates == LastIsLast /\ RateIsRespected

LEMMA PeriodType ==
    ASSUME NodeTypes, NEW s \in Topics
    PROVE  /\ update_period[s] \in Nat
           /\ last_fused_stamp[s] \in Nat
BY EkfAssumption, ConstantTypes DEF NodeTypes

(* What keepStamp keeps is not before what it kept.                           *)
LEMMA StampIsLater ==
    ASSUME NodeTypes, NEW s \in Topics, NEW stamp \in 1..MaxTime,
           ~Throttled(s, stamp), keepStamp(s, stamp)
    PROVE  /\ \A r \in Topics : update_period[r] > 0 =>
                 /\ last_fused_stamp'[r] >= last_fused_stamp[r]
                 /\ last_fused_stamp[r] # 0 => last_fused_stamp'[r] # 0
           /\ update_period[s] > 0 =>
                 /\ last_fused_stamp'[s] = stamp
                 /\ last_fused_stamp[s] # 0 =>
                       stamp - last_fused_stamp[s] >= update_period[s]
<1>1. last_fused_stamp \in [Topics -> 0..MaxTime] /\ update_period[s] \in Nat
      /\ last_fused_stamp[s] \in Nat /\ stamp \in Nat /\ stamp # 0
  BY PeriodType, ConstantTypes DEF NodeTypes
<1>2. CASE update_period[s] > 0
  <2>1. last_fused_stamp' = [last_fused_stamp EXCEPT ![s] = stamp]
    BY <1>2 DEF keepStamp
  <2>2. last_fused_stamp[s] # 0 => stamp - last_fused_stamp[s] >= update_period[s]
    BY <1>1, <1>2 DEF Throttled
  <2>3. last_fused_stamp'[s] = stamp
    BY <1>1, <2>1
  <2>4. ASSUME NEW r \in Topics
        PROVE  /\ last_fused_stamp'[r] >= last_fused_stamp[r]
               /\ last_fused_stamp[r] # 0 => last_fused_stamp'[r] # 0
    <3>1. CASE r = s
      BY <3>1, <1>1, <2>2, <2>3
    <3>2. CASE r # s
      <4>1. last_fused_stamp'[r] = last_fused_stamp[r]
        BY <3>2, <1>1, <2>1
      <4> QED
        BY <4>1, PeriodType
    <3> QED
      BY <3>1, <3>2
  <2> QED
    BY <2>2, <2>3, <2>4
<1>3. CASE ~(update_period[s] > 0)
  <2>1. last_fused_stamp' = last_fused_stamp
    BY <1>3 DEF keepStamp
  <2> QED
    BY <1>3, <2>1, PeriodType
<1> QED
  BY <1>2, <1>3

LEMMA ElementType ==
    ASSUME state \in Seq(Operation), NEW i \in 1..Len(state)
    PROVE  state[i] \in Operation /\ state[i].stamp \in Nat /\ state[i].id \in Nat
<1>1. state[i] \in Operation
  OBVIOUS
<1> QED
  BY <1>1, StampType

(* A measurement that is not throttled keeps the rates, fused or dropped.      *)
LEMMA FusedKeepsRates ==
    ASSUME Shape, NodeTypes, Rates, NEW s \in Topics, NEW stamp \in 1..MaxTime,
           ~Throttled(s, stamp), keepStamp(s, stamp), NEW op,
           op.source = s, op.stamp = stamp,
           state' = state \/ Extended(op)
    PROVE  Rates'
<1>1. /\ state \in Seq(Operation) /\ stamp \in Nat /\ stamp # 0
      /\ update_period[s] \in Nat
  BY PeriodType, ConstantTypes DEF Shape, Types
<1>2. ASSUME NEW k \in 1..Len(state), Limited(state[k])
      PROVE  /\ last_fused_stamp'[state[k].source] # 0
             /\ state[k].stamp <= last_fused_stamp'[state[k].source]
             /\ state[k].source = s => stamp - state[k].stamp >= update_period[s]
  <2>1. /\ state[k].source \in Topics /\ update_period[state[k].source] > 0
        /\ state[k].stamp \in Nat
    BY <1>1, <1>2, ElementType DEF Limited
  <2>2. /\ last_fused_stamp[state[k].source] # 0
        /\ state[k].stamp <= last_fused_stamp[state[k].source]
    BY <1>2 DEF Rates, LastIsLast
  <2>3. last_fused_stamp[state[k].source] \in Nat
    BY <2>1, PeriodType
  <2>4. /\ last_fused_stamp'[state[k].source] >= last_fused_stamp[state[k].source]
        /\ last_fused_stamp'[state[k].source] # 0
    BY <2>1, <2>2, StampIsLater
  <2>5. last_fused_stamp'[state[k].source] \in Nat
    <3>1. last_fused_stamp' \in [Topics -> 0..MaxTime]
      BY ConstantTypes DEF keepStamp, NodeTypes
    <3> QED
      BY <2>1, <3>1, ConstantTypes
  <2>6. ASSUME state[k].source = s PROVE stamp - state[k].stamp >= update_period[s]
    BY <2>1, <2>2, <2>3, <2>6, <1>1, StampIsLater
  <2> QED
    BY <2>1, <2>2, <2>3, <2>4, <2>5, <2>6
<1>3. CASE state' = state
  BY <1>2, <1>3 DEF Rates, LastIsLast, RateIsRespected
<1>4. CASE Extended(op)
  <2>1. LastIsLast'
    <3> SUFFICES ASSUME NEW i \in 1..Len(state'), Limited(state'[i])
                 PROVE  /\ last_fused_stamp'[state'[i].source] # 0
                        /\ state'[i].stamp <= last_fused_stamp'[state'[i].source]
      BY DEF LastIsLast, Limited
    <3>1. CASE state'[i] = op
      <4>1. update_period[s] > 0
        BY <3>1 DEF Limited
      <4> QED
        BY <3>1, <4>1, <1>1, StampIsLater
    <3>2. CASE state'[i] # op
      <4>1. PICK k \in 1..Len(state) : state'[i] = state[k]
        BY <3>2, <1>1, <1>4, ExtendedPairs
      <4> QED
        BY <4>1, <1>2
    <3> QED
      BY <3>1, <3>2
  <2>2. RateIsRespected'
    <3> SUFFICES ASSUME NEW i \in 1..Len(state'), NEW j \in 1..Len(state'), i # j,
                        state'[i].source = state'[j].source, state'[i].source \in Topics
                 PROVE  LET d == update_period[state'[i].source]
                        IN  \/ state'[i].stamp - state'[j].stamp >= d
                            \/ state'[j].stamp - state'[i].stamp >= d
      BY DEF RateIsRespected
    <3>1. \/ \E k, l \in 1..Len(state) :
                k # l /\ state'[i] = state[k] /\ state'[j] = state[l]
          \/ \E k \in 1..Len(state) : state'[i] = op /\ state'[j] = state[k]
          \/ \E k \in 1..Len(state) : state'[j] = op /\ state'[i] = state[k]
      BY <1>1, <1>4, ExtendedPairs
    <3>2. ASSUME NEW k \in 1..Len(state), state[k].source = s
          PROVE  \/ stamp - state[k].stamp >= update_period[s]
                 \/ state[k].stamp - stamp >= update_period[s]
      <4>1. state[k].stamp \in Nat
        BY <1>1, ElementType
      <4>2. CASE update_period[s] > 0
        BY <3>2, <4>2, <1>2 DEF Limited
      <4>3. CASE update_period[s] = 0
        BY <4>1, <4>3, <1>1
      <4> QED
        BY <4>2, <4>3, <1>1
    <3>3. CASE \E k, l \in 1..Len(state) :
                  k # l /\ state'[i] = state[k] /\ state'[j] = state[l]
      BY <3>3 DEF Rates, RateIsRespected
    <3>4. CASE \E k \in 1..Len(state) : state'[i] = op /\ state'[j] = state[k]
      BY <3>2, <3>4
    <3>5. CASE \E k \in 1..Len(state) : state'[j] = op /\ state'[i] = state[k]
      BY <3>2, <3>5
    <3> QED
      BY <3>1, <3>3, <3>4, <3>5
  <2> QED
    BY <2>1, <2>2 DEF Rates
<1> QED
  BY <1>3, <1>4

(* What is no measurement of a topic leaves the rates alone.                   *)
LEMMA OtherKeepsRates ==
    ASSUME Shape, NodeTypes, Rates, last_fused_stamp' = last_fused_stamp, NEW op,
           op.source \notin Topics,
           state' = state \/ state' = <<>> \/ Extended(op)
    PROVE  Rates'
<1>1. state \in Seq(Operation)
  BY DEF Shape, Types
<1>2. CASE state' = state
  BY <1>2 DEF Rates, LastIsLast, RateIsRespected
<1>3. CASE state' = <<>>
  BY <1>3 DEF Rates, LastIsLast, RateIsRespected
<1>4. CASE Extended(op)
  <2>1. LastIsLast'
    <3> SUFFICES ASSUME NEW i \in 1..Len(state'), Limited(state'[i])
                 PROVE  /\ last_fused_stamp[state'[i].source] # 0
                        /\ state'[i].stamp <= last_fused_stamp[state'[i].source]
      BY DEF LastIsLast, Limited
    <3>1. state'[i] # op
      BY DEF Limited
    <3>2. PICK k \in 1..Len(state) : state'[i] = state[k]
      BY <3>1, <1>1, <1>4, ExtendedPairs
    <3> QED
      BY <3>2 DEF Rates, LastIsLast
  <2>2. RateIsRespected'
    <3> SUFFICES ASSUME NEW i \in 1..Len(state'), NEW j \in 1..Len(state'), i # j,
                        state'[i].source = state'[j].source, state'[i].source \in Topics
                 PROVE  LET d == update_period[state'[i].source]
                        IN  \/ state'[i].stamp - state'[j].stamp >= d
                            \/ state'[j].stamp - state'[i].stamp >= d
      BY DEF RateIsRespected
    <3>1. state'[i] # op /\ state'[j] # op
      OBVIOUS
    <3>2. PICK k \in 1..Len(state), l \in 1..Len(state) :
             k # l /\ state'[i] = state[k] /\ state'[j] = state[l]
      BY <3>1, <1>1, <1>4, ExtendedPairs
    <3> QED
      BY <3>2 DEF Rates, RateIsRespected
  <2> QED
    BY <2>1, <2>2 DEF Rates
<1> QED
  BY <1>2, <1>3, <1>4

(* What a callback's measurement makes of the line.                           *)
LEMMA MeasurementExtends ==
    ASSUME Shape, Fresh, NodeTypes, NEW s \in Sources, NEW stamp \in Times,
           updateAndRecord(s, stamp, now)
    PROVE  state' = state \/ Extended(NewOperation(s, stamp))
<1>1. now \in Times
  BY ConstantTypes DEF NodeTypes
<1> QED
  BY <1>1, InsertExtends DEF updateAndRecord, history

LEMMA ReadingExtends ==
    ASSUME Shape, Fresh, NEW stamp \in Times, onImu(stamp)
    PROVE  state' = state \/ Extended(NewOperation(Imu, stamp))
BY ReadingStep, PredictExtends DEF clear

(* RateIsRespected in every behavior of the plugin, whatever the order the      *)
(* measurements of a topic arrive in and whatever the clock does.              *)
THEOREM RateIsAlwaysRespected == Spec => []RateIsRespected
<1> DEFINE Inv == Shape /\ Fresh /\ NodeTypes /\ NothingBeforeEarthToMap /\ Rates
<1>1. ASSUME Init PROVE Inv
  <2>1. HistoryInit /\ state = <<>>
    BY <1>1 DEF Init, HistoryInit
  <2>2. Rates
    BY <2>1 DEF Rates, LastIsLast, RateIsRespected
  <2> QED
    BY <1>1, <2>1, <2>2, HistoryStarts, NodeTypesStart
<1>2. ASSUME Inv, [Next]_vars PROVE Inv'
  <2>1. NodeTypes' /\ NothingBeforeEarthToMap' /\ [HistoryNext]_history
    <3>1. CASE UNCHANGED vars
      BY <1>2, <3>1, NodeTypesKept DEF vars, history, NothingBeforeEarthToMap
    <3> QED
      BY <1>2, <3>1, NodeTypesKept, CallbackSteps
  <2>2. Shape' /\ Fresh'
    BY <1>2, <2>1, HistoryIsInductive
  <2>3. recorded \in Nat /\ Imu \notin Topics /\ Preflight \notin Topics
    BY <1>2, ConstantTypes DEF Shape, Types
  <2>4. ASSUME state' = state, last_fused_stamp' = last_fused_stamp
        PROVE  Rates'
    BY <1>2, <2>4 DEF Rates, LastIsLast, RateIsRespected
  <2>5. ASSUME NEW stamp \in Times, onImu(stamp), last_fused_stamp' = last_fused_stamp
        PROVE  Rates'
    <3>1. NewOperation(Imu, stamp).source \notin Topics
      BY <2>3, <2>5, NewOperationType, ConstantTypes
    <3> QED
      BY <1>2, <2>5, <3>1, ReadingExtends, OtherKeepsRates
  <2>6. ASSUME NEW s \in Topics, NEW stamp \in Stamps(MaxDelay),
               ~Throttled(s, stamp), keepStamp(s, stamp),
               state' = state \/ updateAndRecord(s, stamp, now)
        PROVE  Rates'
    <3>1. stamp \in 1..MaxTime /\ stamp \in Times /\ s \in Sources
      BY <1>2, <2>6, StampsType, ConstantTypes
    <3>2. /\ NewOperation(s, stamp).source = s /\ NewOperation(s, stamp).stamp = stamp
      BY <2>3, <3>1, NewOperationType
    <3>3. state' = state \/ Extended(NewOperation(s, stamp))
      BY <1>2, <2>6, <3>1, MeasurementExtends
    <3> QED
      BY <1>2, <2>6, <3>1, <3>2, <3>3, FusedKeepsRates
  <2>7. ASSUME NEW stamp \in Stamps(MaxImuDelay), imuCallback(stamp)
        PROVE  Rates'
    <3>1. stamp \in Times
      BY <1>2, <2>7, StampsType
    <3> QED
      BY <2>4, <2>5, <2>7, <3>1 DEF imuCallback, topic_vars, history
  <2>8. ASSUME NEW s \in Topics \ VelocityTopics, NEW stamp \in Stamps(MaxDelay),
               PoseCallback(s, stamp)
        PROVE  Rates'
    <3>1. ~Throttled(s, stamp) /\ keepStamp(s, stamp)
      BY <2>8 DEF PoseCallback
    <3>2. state' = state \/ updateAndRecord(s, stamp, now) \/ state' = <<>>
      BY <2>8 DEF PoseCallback, fusePose, process, setEarthToMapFromFirstPose,
                  resetStateToPose, history
    <3>3. CASE state' = <<>>
      BY <3>3 DEF Rates, LastIsLast, RateIsRespected
    <3> QED
      BY <2>6, <2>8, <3>1, <3>2, <3>3
  <2>9. ASSUME NEW s \in VelocityTopics, NEW stamp \in Stamps(MaxDelay),
               twistWithCovarianceCallback(s, stamp)
        PROVE  Rates'
    <3>1. ~Throttled(s, stamp) /\ keepStamp(s, stamp) /\ s \in Topics
      BY <2>9, ConstantTypes DEF twistWithCovarianceCallback
    <3>2. state' = state \/ updateAndRecord(s, stamp, now)
      BY <2>9 DEF twistWithCovarianceCallback, process, history
    <3> QED
      BY <2>6, <2>9, <3>1, <3>2
  <2>10. CASE bodyRatesCallback
    <3>1. now \in Times
      BY <1>2, ConstantTypes DEF NodeTypes
    <3> QED
      BY <2>2, <2>1, <2>5, <2>10, <3>1 DEF bodyRatesCallback, topic_vars
  <2>11. CASE timerCallback
    <3>1. now \in Times /\ Preflight \in Sources
      BY <1>2, ConstantTypes DEF NodeTypes
    <3>2. NewOperation(Preflight, now).source \notin Topics
      BY <2>3, <3>1, NewOperationType
    <3>3. state' = state \/ Extended(NewOperation(Preflight, now))
      BY <1>2, <2>11, <3>1, MeasurementExtends DEF timerCallback
    <3>4. last_fused_stamp' = last_fused_stamp
      BY <2>11 DEF timerCallback, topic_vars
    <3>5. Rates'
      BY <1>2, <3>2, <3>3, <3>4, OtherKeepsRates
    <3> QED
      BY <2>1, <2>2, <3>5
  <2>12. CASE Tick \/ SetBack \/ platformInfoCallback \/ UNCHANGED vars
    <3>1. state' = state /\ last_fused_stamp' = last_fused_stamp
      BY <2>12 DEF Tick, SetBack, platformInfoCallback, vars, history, topic_vars
    <3> QED
      BY <2>1, <2>2, <2>4, <3>1
  <2> QED
    BY <1>2, <2>1, <2>2, <2>7, <2>8, <2>9, <2>10, <2>11, <2>12 DEF Next
<1>3. Inv /\ [Next]_vars => Inv'
  BY <1>2
<1>4. Inv => RateIsRespected
  BY DEF Rates
<1> QED
  BY <1>1, <1>3, <1>4, PTL DEF Spec

-----------------------------------------------------------------------------
(* The order of the readings *)

(* No reading of the state, modelled or not, is newer than the last one fed.   *)
FedIsLast ==
    imu_model_fallback_enabled =>
        \A i \in 1..Len(state) : state[i].source = Imu => state[i].stamp <= last_fed_imu_stamp

Readings == FedIsLast /\ PredictionsMoveForward

(* A reading after the last one fed goes after all of them.                    *)
LEMMA ReadingKeepsReadings ==
    ASSUME Shape, Fresh, NodeTypes, Readings, NEW stamp \in Times, onImu(stamp),
           imu_model_fallback_enabled' = imu_model_fallback_enabled,
           imu_model_fallback_enabled =>
              stamp > last_fed_imu_stamp /\ last_fed_imu_stamp' = stamp
    PROVE  Readings'
<1>1. /\ state \in Seq(Operation) /\ recorded \in Nat /\ stamp \in Nat
      /\ last_fed_imu_stamp \in Nat
  BY ConstantTypes, HistoryAssumption DEF Shape, Types, NodeTypes
<1>2. PICK op : op = NewOperation(Imu, stamp)
  OBVIOUS
<1>3. op.id = recorded + 1 /\ op.stamp = stamp /\ op.source = Imu
  BY <1>1, <1>2, NewOperationType, ConstantTypes
<1>4. ASSUME NEW k \in 1..Len(state), imu_model_fallback_enabled
      PROVE  /\ state[k].id < recorded + 1 /\ state[k].id \in Nat
             /\ state[k].source = Imu => state[k].stamp < stamp
  <2>1. state[k].id <= recorded /\ state[k].id \in Nat /\ state[k].stamp \in Nat
    BY <1>1, ElementType DEF Fresh
  <2> QED
    BY <2>1, <1>1, <1>4 DEF Readings, FedIsLast
<1>5. CASE state' = state
  <2>1. ASSUME NEW i \in 1..Len(state), imu_model_fallback_enabled, state[i].source = Imu
        PROVE  state[i].stamp <= stamp
    <3>1. state[i].stamp \in Nat
      BY <1>1, ElementType
    <3> QED
      BY <3>1, <1>1, <1>4, <2>1
  <2> QED
    BY <1>5, <2>1 DEF Readings, FedIsLast, PredictionsMoveForward
<1>6. CASE Extended(op)
  <2>1. FedIsLast'
    <3> SUFFICES ASSUME imu_model_fallback_enabled,
                        NEW i \in 1..Len(state'), state'[i].source = Imu
                 PROVE  state'[i].stamp <= stamp
      BY DEF FedIsLast
    <3>1. CASE state'[i] = op
      BY <3>1, <1>1, <1>3
    <3>2. CASE state'[i] # op
      <4>1. PICK k \in 1..Len(state) : state'[i] = state[k]
        BY <3>2, <1>1, <1>6, ExtendedPairs
      <4>2. state[k].stamp \in Nat /\ state[k].stamp < stamp
        BY <4>1, <1>1, <1>4, ElementType
      <4> QED
        BY <4>1, <4>2, <1>1
    <3> QED
      BY <3>1, <3>2
  <2>2. PredictionsMoveForward'
    <3> SUFFICES ASSUME NEW i \in 1..Len(state'), NEW j \in 1..Len(state'),
                        {state'[i].source, state'[j].source} = {Imu},
                        state'[i].id < state'[j].id, imu_model_fallback_enabled
                 PROVE  state'[i].stamp < state'[j].stamp
      BY DEF PredictionsMoveForward
    <3>1. CASE i = j
      <4>1. state'[i].id \in Nat
        <5>1. CASE state'[i] = op
          BY <5>1, <1>1, <1>3
        <5>2. CASE state'[i] # op
          BY <5>2, <1>1, <1>6, ExtendedPairs, ElementType
        <5> QED
          BY <5>1, <5>2
      <4> QED
        BY <3>1, <4>1
    <3>2. CASE \E k, l \in 1..Len(state) :
                  k # l /\ state'[i] = state[k] /\ state'[j] = state[l]
      BY <3>2 DEF Readings, PredictionsMoveForward
    <3>3. CASE \E k \in 1..Len(state) : state'[i] = op /\ state'[j] = state[k]
      BY <3>3, <1>1, <1>3, <1>4
    <3>4. CASE \E k \in 1..Len(state) : state'[j] = op /\ state'[i] = state[k]
      BY <3>4, <1>3, <1>4
    <3> QED
      BY <3>1, <3>2, <3>3, <3>4, <1>1, <1>6, ExtendedPairs
  <2> QED
    BY <2>1, <2>2 DEF Readings
<1> QED
  BY <1>2, <1>5, <1>6, ReadingExtends

(* What is no reading leaves them alone.                                      *)
LEMMA OtherKeepsReadings ==
    ASSUME Shape, Readings, NEW op, op.source # Imu,
           imu_model_fallback_enabled' = imu_model_fallback_enabled,
           last_fed_imu_stamp' = last_fed_imu_stamp,
           state' = state \/ state' = <<>> \/ Extended(op)
    PROVE  Readings'
<1>1. state \in Seq(Operation)
  BY DEF Shape, Types
<1>2. CASE state' = state
  BY <1>2 DEF Readings, FedIsLast, PredictionsMoveForward
<1>3. CASE state' = <<>>
  BY <1>3 DEF Readings, FedIsLast, PredictionsMoveForward
<1>4. CASE Extended(op)
  <2>1. FedIsLast'
    <3> SUFFICES ASSUME imu_model_fallback_enabled,
                        NEW i \in 1..Len(state'), state'[i].source = Imu
                 PROVE  state'[i].stamp <= last_fed_imu_stamp
      BY DEF FedIsLast
    <3>1. PICK k \in 1..Len(state) : state'[i] = state[k]
      BY <1>1, <1>4, ExtendedPairs
    <3> QED
      BY <3>1 DEF Readings, FedIsLast
  <2>2. PredictionsMoveForward'
    <3> SUFFICES ASSUME NEW i \in 1..Len(state'), NEW j \in 1..Len(state'),
                        {state'[i].source, state'[j].source} = {Imu},
                        state'[i].id < state'[j].id, imu_model_fallback_enabled
                 PROVE  state'[i].stamp < state'[j].stamp
      BY DEF PredictionsMoveForward
    <3>1. state'[i].source = Imu /\ state'[j].source = Imu
      OBVIOUS
    <3>2. PICK k \in 1..Len(state) : state'[i] = state[k]
      BY <3>1, <1>1, <1>4, ExtendedPairs
    <3>3. PICK l \in 1..Len(state) : state'[j] = state[l]
      BY <3>1, <1>1, <1>4, ExtendedPairs
    <3> QED
      BY <3>2, <3>3 DEF Readings, PredictionsMoveForward
  <2> QED
    BY <2>1, <2>2 DEF Readings
<1> QED
  BY <1>2, <1>3, <1>4

(* PredictionsMoveForward in every behavior of the plugin: where readings are   *)
(* modelled when there is none, no time is predicted over twice.               *)
THEOREM PredictionsAlwaysMoveForward == Spec => []PredictionsMoveForward
<1> DEFINE Inv == Shape /\ Fresh /\ NodeTypes /\ NothingBeforeEarthToMap /\ Readings
<1>1. ASSUME Init PROVE Inv
  <2>1. HistoryInit /\ state = <<>>
    BY <1>1 DEF Init, HistoryInit
  <2>2. Readings
    BY <2>1 DEF Readings, FedIsLast, PredictionsMoveForward
  <2> QED
    BY <1>1, <2>1, <2>2, HistoryStarts, NodeTypesStart
<1>2. ASSUME Inv, [Next]_vars PROVE Inv'
  <2>1. NodeTypes' /\ NothingBeforeEarthToMap' /\ [HistoryNext]_history
    <3>1. CASE UNCHANGED vars
      BY <1>2, <3>1, NodeTypesKept DEF vars, history, NothingBeforeEarthToMap
    <3> QED
      BY <1>2, <3>1, NodeTypesKept, CallbackSteps
  <2>2. Shape' /\ Fresh'
    BY <1>2, <2>1, HistoryIsInductive
  <2>3. recorded \in Nat
    BY <1>2 DEF Shape, Types
  <2>4. ASSUME state' = state \/ state' = <<>>, UNCHANGED <<imu_model_fallback_enabled, last_fed_imu_stamp>>
        PROVE  Readings'
    <3>1. CASE state' = state
      BY <1>2, <2>4, <3>1 DEF Readings, FedIsLast, PredictionsMoveForward
    <3>2. CASE state' = <<>>
      BY <3>2 DEF Readings, FedIsLast, PredictionsMoveForward
    <3> QED
      BY <2>4, <3>1, <3>2
  <2>5. ASSUME NEW s \in Sources \ {Imu}, NEW stamp \in Times,
               updateAndRecord(s, stamp, now),
               UNCHANGED <<imu_model_fallback_enabled, last_fed_imu_stamp>>
        PROVE  Readings'
    <3>1. NewOperation(s, stamp).source # Imu
      BY <2>3, NewOperationType
    <3>2. state' = state \/ Extended(NewOperation(s, stamp))
      BY <1>2, <2>5, MeasurementExtends
    <3> QED
      BY <1>2, <2>5, <3>1, <3>2, OtherKeepsReadings
  <2>6. ASSUME NEW stamp \in Stamps(MaxImuDelay), imuCallback(stamp)
        PROVE  Readings'
    <3>1. /\ stamp \in Times /\ stamp \in Nat /\ last_fed_imu_stamp \in Nat
      BY <1>2, <2>6, StampsType, ConstantTypes DEF NodeTypes
    <3>2. imu_model_fallback_enabled' = imu_model_fallback_enabled
      BY <2>6 DEF imuCallback, parameters
    <3>3. CASE ~earth_to_map_set' \/ DroppedReading(stamp)
      BY <2>4, <2>6, <3>2, <3>3 DEF imuCallback, history
    <3>4. CASE ~(~earth_to_map_set' \/ DroppedReading(stamp))
      <4>1. onImu(stamp) /\ (imu_model_fallback_enabled => last_fed_imu_stamp' = stamp)
        BY <2>6, <3>4 DEF imuCallback
      <4>2. imu_model_fallback_enabled => stamp > last_fed_imu_stamp
        BY <3>1, <3>4 DEF DroppedReading
      <4> QED
        BY <1>2, <3>1, <3>2, <4>1, <4>2, ReadingKeepsReadings
    <3> QED
      BY <3>3, <3>4
  <2>7. ASSUME NEW s \in Topics \ VelocityTopics, NEW stamp \in Stamps(MaxDelay),
               PoseCallback(s, stamp)
        PROVE  Readings'
    <3>1. stamp \in Times /\ s \in Sources \ {Imu}
      BY <1>2, <2>7, StampsType, ConstantTypes
    <3>2. state' = state \/ updateAndRecord(s, stamp, now) \/ state' = <<>>
      BY <2>7 DEF PoseCallback, fusePose, process, setEarthToMapFromFirstPose,
                  resetStateToPose, history
    <3>3. UNCHANGED <<imu_model_fallback_enabled, last_fed_imu_stamp>>
      BY <2>7 DEF PoseCallback, parameters, imu_vars
    <3> QED
      BY <2>4, <2>5, <3>1, <3>2, <3>3
  <2>8. ASSUME NEW s \in VelocityTopics, NEW stamp \in Stamps(MaxDelay),
               twistWithCovarianceCallback(s, stamp)
        PROVE  Readings'
    <3>1. stamp \in Times /\ s \in Sources \ {Imu}
      BY <1>2, <2>8, StampsType, ConstantTypes
    <3>2. state' = state \/ updateAndRecord(s, stamp, now)
      BY <2>8 DEF twistWithCovarianceCallback, process, history
    <3>3. UNCHANGED <<imu_model_fallback_enabled, last_fed_imu_stamp>>
      BY <2>8 DEF twistWithCovarianceCallback, parameters, imu_vars
    <3> QED
      BY <2>4, <2>5, <3>1, <3>2, <3>3
  <2>9. CASE bodyRatesCallback
    <3>1. /\ now \in Times /\ onImu(now) /\ now > last_fed_imu_stamp
          /\ last_fed_imu_stamp' = now
          /\ imu_model_fallback_enabled' = imu_model_fallback_enabled
      BY <1>2, <2>9, ConstantTypes DEF bodyRatesCallback, parameters, NodeTypes
    <3>2. Readings'
      BY <1>2, <3>1, ReadingKeepsReadings
    <3> QED
      BY <2>1, <2>2, <3>2
  <2>10. CASE timerCallback
    <3>1. /\ now \in Times /\ Preflight \in Sources \ {Imu}
          /\ updateAndRecord(Preflight, now, now)
          /\ UNCHANGED <<imu_model_fallback_enabled, last_fed_imu_stamp>>
      BY <1>2, <2>10, ConstantTypes DEF timerCallback, parameters, imu_vars, NodeTypes
    <3> QED
      BY <2>1, <2>2, <2>5, <3>1
  <2>11. CASE Tick \/ SetBack \/ platformInfoCallback \/ UNCHANGED vars
    <3>1. state' = state /\ UNCHANGED <<imu_model_fallback_enabled, last_fed_imu_stamp>>
      BY <2>11 DEF Tick, SetBack, platformInfoCallback, vars, history, parameters, imu_vars
    <3> QED
      BY <2>1, <2>2, <2>4, <3>1
  <2> QED
    BY <1>2, <2>1, <2>2, <2>6, <2>7, <2>8, <2>9, <2>10, <2>11 DEF Next
<1>3. Inv /\ [Next]_vars => Inv'
  BY <1>2
<1>4. Inv => PredictionsMoveForward
  BY DEF Readings
<1> QED
  BY <1>1, <1>3, <1>4, PTL DEF Spec

-----------------------------------------------------------------------------
(* Nothing is read before earth->map is set, and where no reading is modelled  *)
(* the last message is the one the filter read last, if it read any.           *)
LastMessage ==
    /\ ~earth_to_map_set => last_imu = 0
    /\ last_reading # 0 => ~imu_model_fallback_enabled /\ last_imu \in {0, last_reading}

LEMMA LastMessageKept ==
    ASSUME NodeTypes, LastMessage, [Next]_vars
    PROVE  LastMessage'
<1>1. ASSUME NEW stamp \in Stamps(MaxImuDelay), imuCallback(stamp)
      PROVE  LastMessage'
  <2>1. /\ last_reading' = IF imu_model_fallback_enabled THEN 0 ELSE stamp
        /\ imu_model_fallback_enabled' = imu_model_fallback_enabled
        /\ earth_to_map_set => earth_to_map_set'
    BY <1>1 DEF imuCallback, parameters
  <2>2. CASE ~earth_to_map_set'
    BY <1>1, <2>1, <2>2 DEF imuCallback, LastMessage
  <2>3. CASE earth_to_map_set' /\ ~imu_model_fallback_enabled
    BY <1>1, <2>1, <2>3 DEF imuCallback, DroppedReading, onImu, LastMessage
  <2>4. CASE earth_to_map_set' /\ imu_model_fallback_enabled
    BY <2>1, <2>4 DEF LastMessage
  <2> QED
    BY <2>2, <2>3, <2>4 DEF NodeTypes
<1>2. CASE bodyRatesCallback
  BY <1>2 DEF bodyRatesCallback, parameters, LastMessage
<1>3. ASSUME NEW s \in Topics \ VelocityTopics, NEW stamp \in Stamps(MaxDelay),
             PoseCallback(s, stamp)
      PROVE  LastMessage'
  <2>1. earth_to_map_set => earth_to_map_set'
    BY <1>3 DEF PoseCallback, fusePose, setEarthToMapFromFirstPose
  <2>2. UNCHANGED <<parameters, imu_vars>>
    BY <1>3 DEF PoseCallback
  <2> QED
    BY <2>1, <2>2 DEF parameters, imu_vars, LastMessage
<1>4. ASSUME NEW s \in VelocityTopics, NEW stamp \in Stamps(MaxDelay),
             twistWithCovarianceCallback(s, stamp)
      PROVE  LastMessage'
  BY <1>4 DEF twistWithCovarianceCallback, parameters, imu_vars, LastMessage
<1>5. CASE timerCallback \/ Tick \/ SetBack \/ platformInfoCallback \/ UNCHANGED vars
  BY <1>5 DEF timerCallback, Tick, SetBack, platformInfoCallback, vars, parameters, imu_vars,
              LastMessage
<1> QED
  BY <1>1, <1>2, <1>3, <1>4, <1>5 DEF Next

(* A message that comes with a new stamp is a reading, and where earth->map is *)
(* set and no reading is modelled it is predicted with or the clock jumped.    *)
LEMMA MessageIsRead ==
    ASSUME NodeTypes, LastMessage, [Next]_vars, earth_to_map_set, last_reading # 0,
           last_reading' # last_reading
    PROVE  onImu(last_reading')
<1>1. PICK stamp \in Stamps(MaxImuDelay) : imuCallback(stamp)
  <2>1. ~(timerCallback \/ Tick \/ SetBack \/ platformInfoCallback \/ UNCHANGED vars)
    BY DEF timerCallback, Tick, SetBack, platformInfoCallback, vars, imu_vars
  <2>2. ~bodyRatesCallback
    BY DEF bodyRatesCallback
  <2>3. \A s, stamp : ~PoseCallback(s, stamp) /\ ~twistWithCovarianceCallback(s, stamp)
    BY DEF PoseCallback, twistWithCovarianceCallback, imu_vars
  <2> QED
    BY <2>1, <2>2, <2>3 DEF Next
<1>2. ~imu_model_fallback_enabled
  BY DEF LastMessage
<1>3. last_reading' = stamp /\ earth_to_map_set'
  BY <1>1, <1>2 DEF imuCallback
<1> QED
  BY <1>1, <1>2, <1>3 DEF imuCallback, DroppedReading

(* ReadingsResume in every behavior of the plugin: a step of the clock costs     *)
(* one reading, however long the clock was wrong and whatever was fused since   *)
(* (onImu).                                                                   *)
THEOREM ReadingsAlwaysResume == Spec => ReadingsResume
<1> DEFINE Inv == NodeTypes /\ LastMessage
           Next1 == /\ earth_to_map_set
                    /\ last_reading # 0
                    /\ last_reading' \in (last_reading + 1)..(last_reading + max_imu_dt)
                    => recorded' = recorded + 1
<1>1. Init => Inv
  BY NodeTypesStart DEF Init, LastMessage
<1>2. Inv /\ [Next]_vars => Inv'
  BY NodeTypesKept, LastMessageKept
<1>3. Inv /\ [Next]_vars => [Next1]_vars
  <2> SUFFICES ASSUME Inv, [Next]_vars, earth_to_map_set, last_reading # 0,
                      last_reading' \in (last_reading + 1)..(last_reading + max_imu_dt)
               PROVE  recorded' = recorded + 1
    OBVIOUS
  <2>1. /\ last_reading \in Nat /\ last_imu \in {0, last_reading} /\ max_imu_dt \in Nat
        /\ last_reading' \in Nat
    BY ConstantTypes, EkfAssumption DEF NodeTypes, LastMessage
  <2>2. ASSUME NEW old \in Nat, NEW gap \in Nat, NEW new \in (old + 1)..(old + gap)
        PROVE  new # old /\ ~(new < old) /\ ~(new - old > gap)
    BY <2>2
  <2>3. /\ last_reading' # last_reading
        /\ ~(last_reading' < last_reading) /\ ~(last_reading' - last_reading > max_imu_dt)
    BY <2>1, <2>2
  <2>4. onImu(last_reading')
    BY <2>3, MessageIsRead
  <2>5. ~ClockJumped(last_reading')
    <3>1. CASE last_imu = 0
      BY <3>1 DEF ClockJumped
    <3>2. CASE last_imu = last_reading
      BY <3>2, <2>3 DEF ClockJumped
    <3> QED
      BY <2>1, <3>1, <3>2
  <2> QED
    BY <2>4, <2>5 DEF onImu, predictAndRecord
<1> QED
  BY <1>1, <1>2, <1>3, PTL DEF Spec, ReadingsResume
=============================================================================
