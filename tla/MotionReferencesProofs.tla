------------------------ MODULE MotionReferencesProofs ------------------------
(***************************************************************************)
(* MotionReferences for every set of nodes, of handlers and of modes: the    *)
(* types, and when a granted mode is kept to.                                *)
(***************************************************************************)
EXTENDS MotionReferences, SequenceTheorems, TLAPS

USE HandlersAssumption, RequestsAssumption, HoverModesAssumption

(* Who is in the queue is waiting, once, for a mode of its own, and the        *)
(* request being served is the one at the head.                              *)
Queued ==
    /\ \A i \in DOMAIN queue : at[queue[i]] = "asking"
    /\ \A i, j \in DOMAIN queue : queue[i] = queue[j] => i = j
    /\ \A n \in Nodes : at[n] # "free" => desired[n] \in Requests
    /\ serving # NoMode => queue # <<>> /\ serving = desired[Head(queue)]

(* A granted mode is the one reported, so it is in all the messages newer than *)
(* the grant; and it is on the bus of its node, unless an older one was read.  *)
Kept ==
    /\ \A g, h \in granted : g = h
    /\ \A g \in granted :
          /\ serving = NoMode
          /\ ~isHoverMode(g[2]) =>
                /\ reported = g[2]
                /\ \A k \in DOMAIN info[g[1]] : k > stale => info[g[1]][k] = g[2]
                /\ misled \/ current_mode[g[1]] = g[2]

IInv == TypeOK /\ Queued /\ Kept

-----------------------------------------------------------------------------
LEMMA NoModeIsNone == NoMode \notin Mode /\ UnsetMode \in Mode
  BY DEF NoMode, Mode, ModeOf, UnsetMode, ControlModes, YawModes

LEMMA ZeroToDepth == Depth \in Nat /\ 0 \in 0..Depth /\ 0 <= Depth
  BY DepthAssumption

LEMMA InitIInv == Init => IInv
  <1> SUFFICES ASSUME Init PROVE IInv
    OBVIOUS
  <1> USE NoModeIsNone DEF Init, MSInit
  <1>1. TypeOK
    <2>1. queue \in Seq(Nodes) /\ granted \subseteq Nodes \X Requests
      OBVIOUS
    <2>2. current_mode \in [Nodes -> Mode] /\ reported \in Mode
      OBVIOUS
    <2>3. /\ info \in [Nodes -> Seq(Mode)] /\ \A n \in Nodes : Len(info[n]) <= Depth
          /\ desired \in [Nodes -> Requests \cup {NoMode}]
      <3>1. <<>> \in Seq(Mode) /\ Len(<<>>) = 0 /\ 0 <= Depth
        BY ZeroToDepth
      <3> QED
        BY <3>1
    <2>4. /\ at \in [Nodes -> {"free", "asking", "sleeping"}]
          /\ left \in [Nodes -> 0..1]
      OBVIOUS
    <2>6. stale \in 0..Depth /\ misled \in BOOLEAN
      BY ZeroToDepth
    <2>5. /\ serving \in Requests \cup {NoMode} /\ active \in BOOLEAN
          /\ response \in {"none", "waiting", "yes", "no"}
      OBVIOUS
    <2> QED
      BY <2>1, <2>2, <2>3, <2>4, <2>5, <2>6 DEF TypeOK
  <1>2. Queued /\ Kept
    BY DEF Queued, Kept
  <1> QED
    BY <1>1, <1>2 DEF IInv

(* A refused node leaves its place, and may take one behind the others.        *)
LEMMA RefusedKeeps ==
    ASSUME TypeOK, Queued,
           NEW i \in DOMAIN queue,
           refused(queue[i], RemoveAt(queue, i)),
           serving' = NoMode \/ (serving' = serving /\ i # 1)
    PROVE  /\ at' \in [Nodes -> {"free", "asking", "sleeping"}]
           /\ desired' \in [Nodes -> Requests \cup {NoMode}]
           /\ left' \in [Nodes -> 0..1]
           /\ queue' \in Seq(Nodes)
           /\ Queued'
           /\ \A n \in Nodes : at'[n] = "sleeping" <=> at[n] = "sleeping"
  <1> DEFINE n == queue[i]
             rest == RemoveAt(queue, i)
             old(k) == IF k < i THEN k ELSE k + 1
  <1>1. n \in Nodes /\ queue \in Seq(Nodes) /\ i \in 1 .. Len(queue) /\ Len(queue) \in Nat
    BY DEF TypeOK
  <1>2. /\ rest \in Seq(Nodes)
        /\ Len(rest) = Len(queue) - 1
        /\ \A k \in 1 .. Len(rest) : rest[k] = queue[old(k)]
    <2> DEFINE front == SubSeq(queue, 1, i - 1)
               back == SubSeq(queue, i + 1, Len(queue))
    <2>1. /\ front \in Seq(Nodes) /\ Len(front) = i - 1
          /\ \A k \in 1 .. i - 1 : front[k] = queue[k]
      BY <1>1
    <2>2. /\ back \in Seq(Nodes) /\ Len(back) = Len(queue) - i
          /\ \A k \in 1 .. Len(queue) - i : back[k] = queue[k + i]
      BY <1>1
    <2>3. rest = front \o back
      BY DEF RemoveAt
    <2> HIDE DEF front, back, rest
    <2>4. rest \in Seq(Nodes) /\ Len(rest) = Len(queue) - 1
      BY <1>1, <2>1, <2>2, <2>3
    <2>5. ASSUME NEW k \in 1 .. Len(rest)
          PROVE  rest[k] = queue[old(k)]
      <3>1. CASE k < i
        BY <1>1, <2>1, <2>2, <2>3, <2>4, <3>1
      <3>2. CASE k >= i
        <4>1. rest[k] = back[k - (i - 1)] /\ k - (i - 1) \in 1 .. Len(queue) - i
          BY <1>1, <2>1, <2>2, <2>3, <2>4, <3>2
        <4> QED
          BY <1>1, <2>2, <3>2, <4>1
      <3> QED
        BY <1>1, <3>1, <3>2
    <2> QED
      BY <2>4, <2>5
  <1>3. at[n] = "asking" /\ desired[n] \in Requests
    BY <1>1 DEF Queued
  <1>4. \A k \in DOMAIN rest : /\ at[rest[k]] = "asking" /\ rest[k] # n
                               /\ rest[k] \in Nodes
    BY <1>1, <1>2 DEF Queued
  <1>5. \A j, k \in DOMAIN rest : rest[j] = rest[k] => j = k
    <2>1. SUFFICES ASSUME NEW j \in 1 .. Len(rest), NEW k \in 1 .. Len(rest), rest[j] = rest[k]
                   PROVE  j = k
      BY <1>2
    <2>2. old(j) \in DOMAIN queue /\ old(k) \in DOMAIN queue
      BY <1>1, <1>2
    <2>3. old(j) = old(k)
      BY <1>2, <2>1, <2>2 DEF Queued
    <2> QED
      BY <1>1, <2>3
  <1>6. serving' # NoMode => rest # <<>> /\ Head(rest) = Head(queue)
                             /\ serving' = desired[Head(rest)] /\ Head(rest) # n
    BY <1>1, <1>2, <1>4 DEF Queued
  <1> HIDE DEF n, rest
  <1>7. CASE /\ at' = [at EXCEPT ![n] = "asking"]
             /\ desired' = [desired EXCEPT ![n] = desired[n]]
             /\ left' = [left EXCEPT ![n] = left[n] - 1]
             /\ left[n] > 0
             /\ queue' = Append(rest, n)
    <2>1. /\ at' \in [Nodes -> {"free", "asking", "sleeping"}]
          /\ desired' = desired
          /\ at' = at
          /\ left' \in [Nodes -> 0..1]
          /\ queue' \in Seq(Nodes)
      BY <1>1, <1>2, <1>3, <1>7 DEF TypeOK
    <2>2. /\ Len(queue') = Len(rest) + 1
          /\ DOMAIN queue' = 1 .. Len(rest) + 1
          /\ \A k \in DOMAIN rest : queue'[k] = rest[k]
          /\ queue'[Len(rest) + 1] = n
          /\ DOMAIN rest = 1 .. Len(rest) /\ Len(rest) \in Nat
      BY <1>1, <1>2, <1>7
    <2>3. \A k \in DOMAIN queue' : at'[queue'[k]] = "asking"
      BY <2>1, <2>2, <1>3, <1>4
    <2>4. \A j, k \in DOMAIN queue' : queue'[j] = queue'[k] => j = k
      BY <2>2, <1>4, <1>5
    <2>5. serving' # NoMode => queue' # <<>> /\ serving' = desired'[Head(queue')]
      BY <2>1, <2>2, <1>2, <1>6
    <2> QED
      BY <2>1, <2>3, <2>4, <2>5 DEF Queued, TypeOK
  <1>8. CASE return(n) /\ queue' = rest
    <2>1. /\ at' \in [Nodes -> {"free", "asking", "sleeping"}]
          /\ desired' \in [Nodes -> Requests \cup {NoMode}]
          /\ left' \in [Nodes -> 0..1]
          /\ \A c \in Nodes : c # n => at'[c] = at[c] /\ desired'[c] = desired[c]
          /\ at'[n] = "free"
      BY <1>1, <1>8 DEF TypeOK, return
    <2>2. Queued'
      BY <2>1, <1>2, <1>4, <1>5, <1>6, <1>8 DEF Queued
    <2> QED
      BY <1>2, <1>3, <1>8, <2>1, <2>2 DEF TypeOK
  <1> QED
    BY <1>7, <1>8 DEF refused, setMode, n, rest

(* The first of the queue leaves it. *)
LEMMA HeadLeaves ==
    ASSUME NEW q \in Seq(Nodes), q # <<>>
    PROVE  RemoveAt(q, 1) = Tail(q) /\ 1 \in DOMAIN q /\ q[1] = Head(q)
  <1>1. SubSeq(q, 1, 0) = <<>> /\ SubSeq(q, 2, Len(q)) = Tail(q)
    BY SubSeqEmpty, TailIsSubSeq
  <1>2. Tail(q) \in Seq(Nodes)
    OBVIOUS
  <1> QED
    BY <1>1, <1>2, ConcatEmptySeq DEF RemoveAt

(* The node at the head is told no.                                           *)
LEMMA HeadRefusedKeeps ==
    ASSUME TypeOK, Queued, queue # <<>>,
           refused(Head(queue), Tail(queue)),
           serving' = NoMode
    PROVE  /\ at' \in [Nodes -> {"free", "asking", "sleeping"}]
           /\ desired' \in [Nodes -> Requests \cup {NoMode}]
           /\ left' \in [Nodes -> 0..1]
           /\ queue' \in Seq(Nodes)
           /\ Queued'
           /\ \A n \in Nodes : at'[n] = "sleeping" <=> at[n] = "sleeping"
  <1>1. refused(queue[1], RemoveAt(queue, 1)) /\ 1 \in DOMAIN queue
    BY HeadLeaves DEF TypeOK
  <1> QED
    BY <1>1, RefusedKeeps

LEMMA NextIInv == IInv /\ [Next]_vars => IInv'
  <1> SUFFICES ASSUME IInv, [Next]_vars
               PROVE  IInv'
    OBVIOUS
  <1>0. TypeOK /\ Queued /\ Kept
    BY DEF IInv
  <1>1. ASSUME NEW n \in Nodes, NEW m \in Handlers[n], send(n, m)
        PROVE  IInv'
    <2>1. m \in Requests /\ checks(m) - 1 \in 0..1
      BY DEF checks
    <2>2. TypeOK'
      BY <1>0, <1>1, <2>1 DEF TypeOK, send, setMode, msVars, busVars, grantVars
    <2>3. /\ at[n] = "free"
          /\ at' = [at EXCEPT ![n] = "asking"]
          /\ desired' = [desired EXCEPT ![n] = m]
          /\ queue' = Append(queue, n)
          /\ UNCHANGED <<serving, reported, current_mode, info, granted, stale, misled>>
      BY <1>1 DEF send, setMode, msVars, busVars, grantVars
    <2>4. Queued'
      <3>1. /\ DOMAIN queue = 1 .. Len(queue) /\ Len(queue) \in Nat
            /\ DOMAIN queue' = 1 .. Len(queue) + 1
            /\ \A k \in DOMAIN queue : queue'[k] = queue[k] /\ queue[k] \in Nodes
            /\ queue'[Len(queue) + 1] = n
        BY <1>0, <2>3 DEF TypeOK
      <3>2. \A k \in DOMAIN queue : queue[k] # n
        BY <1>0, <2>3 DEF Queued
      <3>3. \A k \in DOMAIN queue' : at'[queue'[k]] = "asking"
        BY <1>0, <2>3, <3>1, <3>2 DEF TypeOK, Queued
      <3>4. \A j, k \in DOMAIN queue' : queue'[j] = queue'[k] => j = k
        BY <1>0, <3>1, <3>2 DEF Queued
      <3>5. \A c \in Nodes : at'[c] # "free" => desired'[c] \in Requests
        BY <1>0, <2>1, <2>3 DEF TypeOK, Queued
      <3>6. ASSUME serving' # NoMode
            PROVE  queue' # <<>> /\ serving' = desired'[Head(queue')]
        <4>1. queue # <<>> /\ serving = desired[Head(queue)]
          BY <1>0, <2>3, <3>6 DEF Queued
        <4>2. 1 \in DOMAIN queue /\ Head(queue) = queue[1]
          BY <1>0, <4>1, HeadLeaves DEF TypeOK
        <4>3. queue' # <<>> /\ Head(queue') = queue[1] /\ queue[1] # n /\ queue[1] \in Nodes
          BY <3>1, <3>2, <4>2, <2>3
        <4> QED
          BY <1>0, <2>3, <4>1, <4>2, <4>3 DEF TypeOK
      <3> QED
        BY <3>3, <3>4, <3>5, <3>6 DEF Queued
    <2>5. Kept'
      BY <1>0, <2>3 DEF Kept, TypeOK
    <2> QED
      BY <2>2, <2>4, <2>5 DEF IInv
  <1>2. CASE serviceMissing
    <2>1. PICK i \in DOMAIN queue :
              (serving # NoMode => i # 1) /\ refused(queue[i], RemoveAt(queue, i))
      BY <1>2 DEF serviceMissing
    <2>2. UNCHANGED <<serving, active, reported, response, current_mode, info, granted, stale, misled>>
      BY <1>2 DEF serviceMissing, msVars, busVars, grantVars
    <2>3. /\ at' \in [Nodes -> {"free", "asking", "sleeping"}]
          /\ desired' \in [Nodes -> Requests \cup {NoMode}]
          /\ left' \in [Nodes -> 0..1]
          /\ queue' \in Seq(Nodes)
          /\ Queued'
          /\ \A n \in Nodes : at'[n] = "sleeping" <=> at[n] = "sleeping"
      BY <1>0, <2>1, <2>2, RefusedKeeps
    <2> QED
      BY <1>0, <2>2, <2>3 DEF IInv, TypeOK, Kept
  <1>3. ASSUME NEW n \in Nodes, wake(n)
        PROVE  IInv'
    <2>1. TypeOK'
      BY <1>0, <1>3 DEF TypeOK, wake, return, msVars, busVars, grantVars
    <2>2. Queued'
      BY <1>0, <1>3 DEF TypeOK, Queued, wake, return, msVars
    <2>3. Kept'
      BY <1>0, <1>3 DEF TypeOK, Kept, wake, return, msVars, busVars, grantVars
    <2> QED
      BY <2>1, <2>2, <2>3 DEF IInv
  <1>4. ASSUME NEW n \in Nodes, controllerInfoCallback(n)
        PROVE  IInv'
    <2>1. PICK k \in DOMAIN info[n] :
              /\ current_mode' = [current_mode EXCEPT ![n] = info[n][k]]
              /\ info' = [info EXCEPT ![n] = SubSeq(info[n], k + 1, Len(info[n]))]
              /\ IF \E g \in granted : g[1] = n
                 THEN /\ misled' = (k <= stale)
                      /\ stale' = IF k <= stale THEN stale - k ELSE 0
                 ELSE UNCHANGED <<stale, misled>>
      BY <1>4 DEF controllerInfoCallback
    <2>2. UNCHANGED <<msVars, callVars, queue, granted>>
      BY <1>4 DEF controllerInfoCallback
    <2> DEFINE rest == SubSeq(info[n], k + 1, Len(info[n]))
    <2>3. info[n] \in Seq(Mode) /\ Len(info[n]) \in Nat /\ k \in 1 .. Len(info[n])
          /\ Len(info[n]) <= Depth
      BY <1>0 DEF TypeOK
    <2>4. /\ rest \in Seq(Mode) /\ Len(rest) = Len(info[n]) - k
          /\ \A j \in 1 .. Len(info[n]) - k : rest[j] = info[n][j + k]
      BY <2>3
    <2> HIDE DEF rest
    <2>5. /\ info' = [info EXCEPT ![n] = rest]
          /\ current_mode' \in [Nodes -> Mode]
      BY <1>0, <2>1, <2>3 DEF TypeOK, rest
    <2>6. stale' \in 0..Depth /\ misled' \in BOOLEAN
      <3>1. stale \in 0..Depth /\ misled \in BOOLEAN
        BY <1>0 DEF TypeOK
      <3> QED
        <4>1. CASE \E g \in granted : g[1] = n
          <5>1. misled' = (k <= stale) /\ stale' = IF k <= stale THEN stale - k ELSE 0
            BY <2>1, <4>1
          <5>2. k \in Nat /\ k >= 1
            BY <2>3
          <5>3. stale' \in 0..Depth
            BY <3>1, <5>1, <5>2, ZeroToDepth
          <5> QED
            BY <5>1, <5>3
        <4>2. CASE ~ \E g \in granted : g[1] = n
          BY <2>1, <3>1, <4>2
        <4> QED
          BY <4>1, <4>2
    <2>7. info' \in [Nodes -> Seq(Mode)] /\ \A c \in Nodes : Len(info'[c]) <= Depth
      <3>1. info' \in [Nodes -> Seq(Mode)]
        BY <1>0, <2>4, <2>5 DEF TypeOK
      <3>2. Len(rest) <= Depth
        BY <2>3, <2>4, ZeroToDepth
      <3> QED
        BY <1>0, <2>5, <3>1, <3>2 DEF TypeOK
    <2>8. TypeOK'
      BY <1>0, <2>2, <2>5, <2>6, <2>7 DEF TypeOK, msVars, callVars
    <2>9. Queued'
      BY <1>0, <2>2 DEF Queued, msVars, callVars
    <2>10. Kept'
      <3>1. SUFFICES ASSUME NEW g \in granted, ~isHoverMode(g[2])
                     PROVE  /\ \A j \in DOMAIN info'[g[1]] :
                                  j > stale' => info'[g[1]][j] = g[2]
                            /\ misled' \/ current_mode'[g[1]] = g[2]
        BY <1>0, <2>2 DEF Kept, msVars
      <3>2. g[1] \in Nodes
        BY <1>0 DEF TypeOK
      <3>3. /\ \A j \in DOMAIN info[g[1]] : j > stale => info[g[1]][j] = g[2]
            /\ misled \/ current_mode[g[1]] = g[2]
        BY <1>0, <3>1 DEF Kept
      <3>9. stale \in Nat
        BY <1>0, ZeroToDepth DEF TypeOK
      <3>4. CASE g[1] = n
        <4>1. misled' = (k <= stale) /\ stale' = IF k <= stale THEN stale - k ELSE 0
          BY <2>1, <3>4
        <4>2. info'[g[1]] = rest /\ DOMAIN rest = 1 .. Len(info[n]) - k
              /\ current_mode'[g[1]] = info[n][k]
          BY <1>0, <2>1, <2>4, <2>5, <3>4 DEF TypeOK
        <4>3. ASSUME NEW j \in 1 .. Len(info[n]) - k, j > stale'
              PROVE  rest[j] = g[2]
          <5>1. j + k \in 1 .. Len(info[n]) /\ j + k > stale
            BY <2>3, <3>9, <4>1, <4>3
          <5>2. info[n][j + k] = g[2]
            BY <2>3, <3>3, <3>4, <5>1
          <5> QED
            BY <2>4, <4>3, <5>2
        <4>4. k <= stale \/ info[n][k] = g[2]
          BY <1>0, <2>3, <3>3, <3>4 DEF TypeOK
        <4> QED
          BY <4>1, <4>2, <4>3, <4>4
      <3>5. CASE g[1] # n
        <4>1. ~ \E h \in granted : h[1] = n
          BY <1>0, <3>5 DEF Kept
        <4> QED
          BY <1>0, <2>1, <2>5, <3>2, <3>3, <3>5, <4>1 DEF TypeOK
      <3> QED
        BY <3>4, <3>5
    <2> QED
      BY <2>8, <2>9, <2>10 DEF IInv
  <1>5. CASE take
    <2>1. Head(queue) \in Nodes /\ desired[Head(queue)] \in Requests
      <3>1. queue \in Seq(Nodes) /\ queue # <<>>
        BY <1>0, <1>5 DEF TypeOK, take
      <3>2. 1 \in DOMAIN queue /\ Head(queue) = queue[1] /\ Head(queue) \in Nodes
        BY <3>1, HeadLeaves
      <3> QED
        BY <1>0, <3>2 DEF Queued
    <2>2. TypeOK'
      BY <1>0, <1>5, <2>1, ZeroToDepth DEF TypeOK, take, MSBegin, noGrant, busVars, callVars
    <2>3. Queued'
      BY <1>0, <1>5 DEF Queued, take, MSBegin, callVars
    <2>4. Kept'
      BY <1>5 DEF Kept, take, noGrant
    <2> QED
      BY <2>2, <2>3, <2>4 DEF IInv
  <1>6. CASE refuseAtOnce
    <2>1. /\ queue # <<>> /\ refused(Head(queue), Tail(queue)) /\ serving' = NoMode
          /\ UNCHANGED <<reported, current_mode, info>>
          /\ active' = FALSE /\ response' = "no"
          /\ granted' = {} /\ stale' = 0 /\ misled' = FALSE
      BY <1>6 DEF refuseAtOnce, MSRefuse, busVars, noGrant
    <2>2. /\ at' \in [Nodes -> {"free", "asking", "sleeping"}]
          /\ desired' \in [Nodes -> Requests \cup {NoMode}]
          /\ left' \in [Nodes -> 0..1]
          /\ queue' \in Seq(Nodes)
          /\ Queued'
      BY <1>0, <2>1, HeadRefusedKeeps
    <2> QED
      BY <1>0, <2>1, <2>2, ZeroToDepth DEF IInv, TypeOK, Kept
  <1>7. CASE end(FALSE)
    <2>1. /\ serving # NoMode /\ refused(Head(queue), Tail(queue)) /\ serving' = NoMode
          /\ UNCHANGED <<current_mode, info, granted, stale, misled>>
          /\ active' \in BOOLEAN /\ response' = "no" /\ reported' \in Mode
      BY <1>0, <1>7 DEF end, MSEnd, TypeOK, grantVars
    <2>2. queue # <<>> /\ granted = {}
      BY <1>0, <2>1 DEF Queued, Kept
    <2>3. /\ at' \in [Nodes -> {"free", "asking", "sleeping"}]
          /\ desired' \in [Nodes -> Requests \cup {NoMode}]
          /\ left' \in [Nodes -> 0..1]
          /\ queue' \in Seq(Nodes)
          /\ Queued'
      BY <1>0, <2>1, <2>2, HeadRefusedKeeps
    <2> QED
      BY <1>0, <2>1, <2>2, <2>3 DEF IInv, TypeOK, Kept
  <1>8. CASE end(TRUE)
    <2> DEFINE n == Head(queue)
    <2>1. queue # <<>> /\ serving = desired[n] /\ serving # NoMode
      BY <1>0, <1>8 DEF Queued, end, MSEnd
    <2>2. queue \in Seq(Nodes) /\ 1 \in DOMAIN queue /\ n = queue[1] /\ n \in Nodes
      BY <1>0, <2>1, HeadLeaves DEF TypeOK
    <2>3. desired[n] \in Requests /\ at[n] = "asking"
      BY <1>0, <2>2 DEF Queued
    <2> HIDE DEF n
    <2>4. /\ serving' = NoMode /\ active' = TRUE /\ response' = "yes"
          /\ reported' \in ReportsOf(serving)
          /\ current_mode' = [current_mode EXCEPT ![n] = desired[n]]
          /\ at' = [at EXCEPT ![n] = "sleeping"]
          /\ granted' = {<<n, desired[n]>>}
          /\ stale' = Len(info[n])
          /\ misled' = FALSE
          /\ queue' = Tail(queue)
          /\ UNCHANGED <<desired, left, info>>
      BY <1>8 DEF end, MSEnd, n
    <2>5. reported' \in Mode
      BY <2>1, <2>3, <2>4 DEF ReportsOf
    <2>6. TypeOK'
      <3>1. stale' \in 0..Depth
        BY <1>0, <2>2, <2>4, ZeroToDepth DEF TypeOK
      <3> QED
        <4>1. current_mode' \in [Nodes -> Mode] /\ queue' \in Seq(Nodes)
          BY <1>0, <2>1, <2>2, <2>3, <2>4 DEF TypeOK
        <4>2. at' \in [Nodes -> {"free", "asking", "sleeping"}]
          BY <1>0, <2>2, <2>4 DEF TypeOK
        <4>3. granted' \subseteq Nodes \X Requests /\ misled' \in BOOLEAN
          <5>1. misled' \in BOOLEAN
            BY <2>4
          <5>2. granted' \subseteq Nodes \X Requests
            BY <2>2, <2>3, <2>4
          <5> QED
            BY <5>1, <5>2
        <4>4. /\ serving' \in Requests \cup {NoMode} /\ active' \in BOOLEAN
              /\ response' \in {"none", "waiting", "yes", "no"}
          BY <2>4
        <4> QED
          BY <1>0, <2>4, <2>5, <3>1, <4>1, <4>2, <4>3, <4>4 DEF TypeOK
    <2>7. Queued'
      <3>1. /\ DOMAIN queue = 1 .. Len(queue) /\ Len(queue) \in Nat
            /\ \A k \in DOMAIN queue' : queue'[k] = queue[k + 1] /\ k + 1 \in DOMAIN queue
                                      /\ k \in Nat /\ k >= 1
        BY <2>1, <2>2, <2>4
      <3>2. \A k \in DOMAIN queue' : queue'[k] # n /\ at[queue'[k]] = "asking"
                                    /\ queue'[k] \in Nodes
        BY <1>0, <2>2, <3>1 DEF Queued
      <3>3. \A k \in DOMAIN queue' : at'[queue'[k]] = "asking"
        BY <1>0, <2>4, <3>2 DEF TypeOK
      <3>4. \A j, k \in DOMAIN queue' : queue'[j] = queue'[k] => j = k
        BY <1>0, <3>1 DEF Queued
      <3> QED
        BY <1>0, <2>2, <2>3, <2>4, <3>3, <3>4 DEF Queued, TypeOK
    <2>8. Kept'
      BY <1>0, <2>1, <2>2, <2>3, <2>4 DEF Kept, TypeOK, ReportsOf
    <2> QED
      BY <2>6, <2>7, <2>8 DEF IInv
  <1>9. CASE modeTimerCallback
    <2>1. /\ UNCHANGED <<msVars, current_mode, callVars, queue, granted, misled>>
          /\ publish
      BY <1>9 DEF modeTimerCallback
    <2>2. ASSUME NEW n \in Nodes
          PROVE  /\ info'[n] \in Seq(Mode) /\ Len(info'[n]) <= Depth
                 /\ IF Len(info[n]) = Depth
                    THEN \A k \in DOMAIN info'[n] :
                            \/ k + 1 \in DOMAIN info[n] /\ info'[n][k] = info[n][k + 1]
                            \/ info'[n][k] = reported
                    ELSE \A k \in DOMAIN info'[n] :
                            \/ k \in DOMAIN info[n] /\ info'[n][k] = info[n][k]
                            \/ info'[n][k] = reported
      <3> DEFINE sent == Append(info[n], reported)
      <3>1. info[n] \in Seq(Mode) /\ reported \in Mode /\ Len(info[n]) \in Nat
            /\ Len(info[n]) <= Depth /\ Depth \in Nat
        BY <1>0, ZeroToDepth DEF TypeOK
      <3>2. /\ sent \in Seq(Mode) /\ Len(sent) = Len(info[n]) + 1
            /\ \A k \in 1 .. Len(info[n]) : sent[k] = info[n][k]
            /\ sent[Len(info[n]) + 1] = reported
        BY <3>1
      <3>3. info'[n] = IF Len(sent) > Depth THEN Tail(sent) ELSE sent
        BY <2>1 DEF publish
      <3> HIDE DEF sent
      <3>4. CASE Len(info[n]) = Depth
        <4>1. info'[n] = Tail(sent) /\ sent # <<>>
          BY <3>1, <3>2, <3>3, <3>4
        <4>2. /\ info'[n] \in Seq(Mode) /\ Len(info'[n]) = Len(info[n])
              /\ \A k \in 1 .. Len(info[n]) : info'[n][k] = sent[k + 1]
          BY <3>1, <3>2, <4>1
        <4>3. \A k \in 1 .. Len(info[n]) : k = Len(info[n]) \/ k + 1 \in 1 .. Len(info[n])
          BY <3>1
        <4> QED
          BY <3>1, <3>2, <3>4, <4>2, <4>3
      <3>5. CASE Len(info[n]) # Depth
        <4>1. info'[n] = sent
          BY <3>1, <3>2, <3>3, <3>5
        <4> QED
          BY <3>1, <3>2, <3>5, <4>1
      <3> QED
        BY <3>4, <3>5
    <2>3. TypeOK'
      <3>1. info' \in [Nodes -> Seq(Mode)]
        BY <2>1, <2>2 DEF publish
      <3>2. stale' \in 0..Depth
        BY <1>0, <2>1, ZeroToDepth DEF TypeOK, publish
      <3> QED
        BY <1>0, <2>1, <2>2, <3>1, <3>2 DEF TypeOK, msVars, callVars
    <2>4. Queued'
      BY <1>0, <2>1 DEF Queued, msVars, callVars
    <2>5. Kept'
      <3>1. SUFFICES ASSUME NEW g \in granted, ~isHoverMode(g[2]),
                            NEW k \in DOMAIN info'[g[1]], k > stale'
                     PROVE  info'[g[1]][k] = g[2]
        BY <1>0, <2>1 DEF Kept, msVars
      <3>2. g[1] \in Nodes /\ k \in Nat /\ stale \in Nat
        BY <1>0, <2>2, ZeroToDepth DEF TypeOK
      <3>3. /\ reported = g[2]
            /\ \A j \in DOMAIN info[g[1]] : j > stale => info[g[1]][j] = g[2]
        BY <1>0, <3>1 DEF Kept
      <3>4. CASE Len(info[g[1]]) = Depth
        <4>1. k + 1 > stale
          BY <2>1, <3>1, <3>2, <3>4 DEF publish
        <4> QED
          BY <2>2, <3>2, <3>3, <3>4, <4>1
      <3>5. CASE Len(info[g[1]]) # Depth
        <4>1. ~ \E h \in granted : Len(info[h[1]]) = Depth
          BY <1>0, <3>5 DEF Kept
        <4>2. k > stale
          BY <2>1, <3>1, <4>1 DEF publish
        <4> QED
          BY <2>2, <3>2, <3>3, <3>5, <4>2
      <3> QED
        BY <3>4, <3>5
    <2> QED
      BY <2>3, <2>4, <2>5 DEF IInv
  <1>10. CASE UNCHANGED vars
    BY <1>0, <1>10 DEF IInv, TypeOK, Queued, Kept, vars, msVars, busVars, callVars, grantVars
  <1> QED
    BY <1>1, <1>2, <1>3, <1>4, <1>5, <1>6, <1>7, <1>8, <1>9, <1>10 DEF Next, Serve

-----------------------------------------------------------------------------
(* The buses, the calls and the queue keep their types, however many nodes     *)
(* there are and whatever they are told (setMode and the info subscription).  *)
THEOREM TypeCorrect == Spec => []TypeOK
  <1>1. IInv => TypeOK
    BY DEF IInv
  <1> QED
    BY <1>1, InitIInv, NextIInv, PTL DEF Spec

(* A node whose request was the last to be granted neither negotiates its mode *)
(* again nor takes another for settled, unless the last info message it read   *)
(* was on its way when it was granted: however many such messages there are    *)
(* and however late they come, the first newer one it reads mends it (setMode  *)
(* and the info subscription of the bus).                                    *)
THEOREM GrantTheorem == Spec => []GrantHolds
  <1>1. IInv => GrantHolds
    <2> SUFFICES ASSUME IInv, NEW g \in granted,
                        at[g[1]] = "free", ~isHoverMode(g[2]), ~misled,
                        NEW m \in Handlers[g[1]]
                 PROVE  settled(g[1], m) <=> m = g[2]
      BY DEF GrantHolds
    <2>1. current_mode[g[1]] = g[2]
      BY DEF IInv, Kept
    <2> QED
      BY <2>1 DEF settled, isHoverMode
  <1> QED
    BY <1>1, InitIInv, NextIInv, PTL DEF Spec
-----------------------------------------------------------------------------
(* Whatever the nodes ask for, whoever gives up and whatever is refused, the   *)
(* controller they see moves as ModeService allows, which ControllerHandler    *)
(* implements.                                                               *)
THEOREM ControllerIsModeService == Spec => MSSpec
  <1>1. Init => MSInit
    BY DEF Init
  <1>2. IInv /\ [Next]_vars => [MSNext]_msVars
    <2> SUFFICES ASSUME IInv, [Next]_vars PROVE [MSNext]_msVars
      OBVIOUS
    <2>1. CASE take
      <3>1. queue \in Seq(Nodes) /\ queue # <<>>
        BY <2>1 DEF IInv, TypeOK, take
      <3>2. desired[Head(queue)] \in Requests
        BY <3>1, HeadLeaves DEF IInv, Queued
      <3> QED
        BY <2>1, <3>2 DEF take, MSNext
    <2>2. CASE refuseAtOnce
      BY <2>2 DEF refuseAtOnce, MSNext
    <2>3. ASSUME NEW yes \in BOOLEAN, end(yes)
          PROVE  MSNext
      BY <2>3 DEF end, MSNext
    <2>4. ASSUME NEW n \in Nodes,
                 (\E m \in Handlers[n] : send(n, m)) \/ wake(n) \/ controllerInfoCallback(n)
          PROVE  UNCHANGED msVars
      BY <2>4 DEF send, wake, controllerInfoCallback
    <2>5. CASE serviceMissing \/ modeTimerCallback \/ UNCHANGED vars
      BY <2>5 DEF serviceMissing, modeTimerCallback, vars
    <2> QED
      BY <2>1, <2>2, <2>3, <2>4, <2>5 DEF Next, Serve
  <1> QED
    BY <1>1, <1>2, InitIInv, NextIInv, PTL DEF Spec, MSSpec

(* Who asks has a place in the queue.                                         *)
AskersAreQueued == \A n \in Nodes : at[n] = "asking" => \E i \in DOMAIN queue : queue[i] = n

(* The node at a place of the queue is through, or has used up a reference for *)
(* another place; or else it is no further behind, and further ahead when the   *)
(* controller served anybody, unless it began with the request at the head.    *)
Through(i) == at'[queue[i]] # "asking" \/ left'[queue[i]] < left[queue[i]]

Stays(i) == \E j \in DOMAIN queue' : queue'[j] = queue[i] /\ j <= i

ComesUp(i) == \E j \in DOMAIN queue' : queue'[j] = queue[i] /\ j < i

Advances(i) ==
    /\ Through(i) \/ Stays(i)
    /\ Serve => Through(i) \/ ComesUp(i) \/ (serving = NoMode /\ serving' # NoMode)

(* Why negotiations end: nobody is overtaken, however many others ask, give    *)
(* up or are refused, and a node asks no more often than it has references.    *)
AskersAdvance == [][\A i \in DOMAIN queue : Advances(i)]_vars

LEMMA Removed ==
    ASSUME NEW q \in Seq(Nodes), NEW i \in DOMAIN q
    PROVE  /\ RemoveAt(q, i) \in Seq(Nodes)
           /\ \A k \in DOMAIN q :
                 /\ k < i => k \in DOMAIN RemoveAt(q, i) /\ RemoveAt(q, i)[k] = q[k]
                 /\ k > i => k - 1 \in DOMAIN RemoveAt(q, i) /\ RemoveAt(q, i)[k - 1] = q[k]
  <1> DEFINE front == SubSeq(q, 1, i - 1)
             back == SubSeq(q, i + 1, Len(q))
  <1>1. i \in 1 .. Len(q) /\ Len(q) \in Nat
    OBVIOUS
  <1>2. /\ front \in Seq(Nodes) /\ Len(front) = i - 1
        /\ \A k \in 1 .. i - 1 : front[k] = q[k]
    BY <1>1
  <1>3. /\ back \in Seq(Nodes) /\ Len(back) = Len(q) - i
        /\ \A k \in 1 .. Len(q) - i : back[k] = q[k + i]
    BY <1>1
  <1>4. RemoveAt(q, i) = front \o back
    BY DEF RemoveAt
  <1> HIDE DEF front, back
  <1>5. /\ front \o back \in Seq(Nodes) /\ Len(front \o back) = Len(q) - 1
        /\ DOMAIN (front \o back) = 1 .. Len(q) - 1
    BY <1>1, <1>2, <1>3
  <1>6. ASSUME NEW k \in 1 .. Len(q), k < i
        PROVE  k \in 1 .. Len(q) - 1 /\ (front \o back)[k] = q[k]
    BY <1>1, <1>2, <1>3, <1>5, <1>6
  <1>7. ASSUME NEW k \in 1 .. Len(q), k > i
        PROVE  k - 1 \in 1 .. Len(q) - 1 /\ (front \o back)[k - 1] = q[k]
    <2>1. k - i \in 1 .. Len(q) - i /\ back[k - i] = q[k]
      BY <1>1, <1>3, <1>7
    <2>2. (front \o back)[k - 1] = back[k - i]
      BY <1>1, <1>2, <1>3, <1>7
    <2> QED
      BY <1>1, <1>7, <2>1, <2>2
  <1>8. DOMAIN q = 1 .. Len(q) /\ \A k \in DOMAIN q : k - 1 \in Int
    BY <1>1
  <1>9. RemoveAt(q, i) \in Seq(Nodes) /\ DOMAIN RemoveAt(q, i) = 1 .. Len(q) - 1
    BY <1>4, <1>5
  <1>10. ASSUME NEW k \in DOMAIN q
         PROVE  /\ k < i => k \in DOMAIN RemoveAt(q, i) /\ RemoveAt(q, i)[k] = q[k]
                /\ k > i => k - 1 \in DOMAIN RemoveAt(q, i) /\ RemoveAt(q, i)[k - 1] = q[k]
    BY <1>4, <1>6, <1>7, <1>8, <1>9
  <1> QED
    BY <1>9, <1>10

(* A refused node is through or has one reference less; it makes room for      *)
(* those behind it, and the others keep their places.                        *)
LEMMA RefusedAdvances ==
    ASSUME TypeOK, Queued,
           NEW i \in DOMAIN queue,
           refused(queue[i], RemoveAt(queue, i))
    PROVE  /\ \/ at'[queue[i]] = "free"
              \/ at'[queue[i]] = "asking" /\ left'[queue[i]] < left[queue[i]]
           /\ at'[queue[i]] = "asking" => \E j \in DOMAIN queue' : queue'[j] = queue[i]
           /\ \A k \in DOMAIN queue : k # i =>
                 /\ left'[queue[k]] = left[queue[k]]
                 /\ \E j \in DOMAIN queue' : queue'[j] = queue[k] /\ j <= k /\ (i < k => j < k)
           /\ \A n \in Nodes : at'[n] # at[n] => at'[n] = "free"
  <1> DEFINE n == queue[i]
             rest == RemoveAt(queue, i)
  <1>1. n \in Nodes /\ queue \in Seq(Nodes) /\ i \in Nat /\ \A k \in DOMAIN queue : k \in Nat
    BY DEF TypeOK
  <1>2. /\ at[n] = "asking" /\ desired[n] \in Requests
        /\ \A k \in DOMAIN queue : queue[k] \in Nodes /\ (k # i => queue[k] # n)
    BY <1>1 DEF Queued
  <1>3. rest \in Seq(Nodes)
    BY <1>1, Removed
  <1>4. ASSUME NEW k \in DOMAIN queue, k # i
        PROVE  \E j \in DOMAIN rest : rest[j] = queue[k] /\ j <= k /\ (i < k => j < k)
    <2>1. CASE k < i
      <3>1. k \in DOMAIN rest /\ rest[k] = queue[k]
        BY <1>1, <2>1, Removed
      <3> HIDE DEF rest
      <3>2. k <= k /\ ~(i < k)
        BY <1>1, <2>1
      <3> QED
        BY <3>1, <3>2
    <2>2. CASE k > i
      <3>1. k - 1 \in DOMAIN rest /\ rest[k - 1] = queue[k]
        BY <1>1, <2>2, Removed
      <3> HIDE DEF rest
      <3>2. k - 1 <= k /\ k - 1 < k
        BY <1>1
      <3> QED
        BY <3>1, <3>2
    <2> QED
      BY <1>1, <1>4, <2>1, <2>2
  <1> HIDE DEF n, rest
  <1>5. CASE /\ at' = [at EXCEPT ![n] = "asking"]
             /\ left' = [left EXCEPT ![n] = left[n] - 1]
             /\ left[n] > 0
             /\ queue' = Append(rest, n)
    <2>1. /\ \A j \in DOMAIN rest : j \in DOMAIN queue' /\ queue'[j] = rest[j]
          /\ \E j \in DOMAIN queue' : queue'[j] = n
      <3>1. /\ DOMAIN rest = 1 .. Len(rest) /\ Len(rest) \in Nat
            /\ DOMAIN queue' = 1 .. Len(rest) + 1
            /\ \A j \in 1 .. Len(rest) : queue'[j] = rest[j]
            /\ queue'[Len(rest) + 1] = n
        BY <1>1, <1>3, <1>5
      <3> QED
        BY <3>1
    <2>2. at'[n] = "asking" /\ left'[n] < left[n] /\ at' = at
      <3>1. at \in [Nodes -> {"free", "asking", "sleeping"}] /\ left \in [Nodes -> 0..1]
        BY DEF TypeOK
      <3> QED
        BY <1>1, <1>2, <1>5, <3>1
    <2>3. \A k \in DOMAIN queue : k # i => left'[queue[k]] = left[queue[k]]
      BY <1>1, <1>2, <1>5 DEF TypeOK
    <2> QED
      BY <1>4, <2>1, <2>2, <2>3 DEF n
  <1>6. CASE return(n) /\ queue' = rest
    <2>1. at'[n] = "free" /\ \A c \in Nodes : c # n => at'[c] = at[c] /\ left'[c] = left[c]
      BY <1>1, <1>6 DEF TypeOK, return
    <2> QED
      BY <1>1, <1>2, <1>4, <1>6, <2>1 DEF n
  <1> QED
    BY <1>5, <1>6 DEF refused, setMode, n, rest

(* The first of the queue leaves it, and the others come up.                  *)
LEMMA OthersComeUp ==
    ASSUME NEW q \in Seq(Nodes), q # <<>>, NEW k \in DOMAIN q, k # 1
    PROVE  \E j \in DOMAIN Tail(q) : Tail(q)[j] = q[k] /\ j < k
  <1>1. k > 1 /\ k \in Nat /\ Tail(q) = RemoveAt(q, 1) /\ 1 \in DOMAIN q
    BY HeadLeaves
  <1>2. k - 1 \in DOMAIN Tail(q) /\ Tail(q)[k - 1] = q[k]
    BY <1>1, Removed
  <1>3. k - 1 < k
    BY <1>1
  <1> QED
    BY <1>2, <1>3

(* What the controller does brings everybody forward. *)
LEMMA ServeAdvances ==
    ASSUME IInv, Serve, NEW k \in DOMAIN queue
    PROVE  Through(k) \/ ComesUp(k) \/ (serving = NoMode /\ serving' # NoMode)
  <1>0. TypeOK /\ Queued /\ queue \in Seq(Nodes) /\ k \in Nat /\ queue[k] \in Nodes
    BY DEF IInv, TypeOK
  <1>1. CASE take
    <2>1. queue # <<>> /\ 1 \in DOMAIN queue /\ Head(queue) = queue[1]
      BY <1>0, <1>1, HeadLeaves DEF take
    <2>2. desired[Head(queue)] \in Requests
      BY <1>0, <2>1 DEF Queued
    <2> QED
      BY <1>1, <2>2, NoModeIsNone DEF take, MSBegin
  <1>2. ASSUME queue # <<>>, refused(Head(queue), Tail(queue))
        PROVE  Through(k) \/ ComesUp(k)
    <2>1. refused(queue[1], RemoveAt(queue, 1)) /\ 1 \in DOMAIN queue
      BY <1>0, <1>2, HeadLeaves
    <2>2. CASE k = 1
      BY <1>0, <2>1, <2>2, RefusedAdvances DEF Through
    <2>3. CASE k # 1
      <3>1. \E j \in DOMAIN queue' : queue'[j] = queue[k] /\ j <= k /\ (1 < k => j < k)
        BY <1>0, <2>1, <2>3, RefusedAdvances
      <3>2. 1 < k
        BY <1>0, <2>3
      <3> QED
        BY <3>1, <3>2 DEF ComesUp
    <2> QED
      BY <2>2, <2>3
  <1>3. CASE refuseAtOnce
    BY <1>2, <1>3 DEF refuseAtOnce
  <1>4. CASE end(FALSE)
    BY <1>0, <1>2, <1>4 DEF end, MSEnd, Queued
  <1>5. CASE end(TRUE)
    <2>1. queue # <<>> /\ queue' = Tail(queue) /\ at' = [at EXCEPT ![Head(queue)] = "sleeping"]
      BY <1>0, <1>5 DEF end, MSEnd, Queued
    <2>2. CASE k = 1
      BY <1>0, <2>1, <2>2, HeadLeaves DEF Through, TypeOK
    <2>3. CASE k # 1
      BY <1>0, <2>1, <2>3, OthersComeUp DEF ComesUp
    <2> QED
      BY <2>2, <2>3
  <1> QED
    BY <1>1, <1>3, <1>4, <1>5 DEF Serve

(* Nobody else's step takes a place away. *)
LEMMA QueueMoves ==
    ASSUME IInv, Next, NEW k \in DOMAIN queue
    PROVE  Through(k) \/ Stays(k)
  <1>0. TypeOK /\ Queued /\ queue \in Seq(Nodes) /\ k \in Nat /\ k <= k /\ queue[k] \in Nodes
    BY DEF IInv, TypeOK
  <1>1. ASSUME NEW n \in Nodes, NEW m \in Handlers[n], send(n, m)
        PROVE  Stays(k)
    <2>1. queue' = Append(queue, n)
      BY <1>1 DEF send, setMode
    <2>2. k \in DOMAIN queue' /\ queue'[k] = queue[k]
      BY <1>0, <2>1
    <2> QED
      BY <1>0, <2>2 DEF Stays
  <1>2. CASE serviceMissing
    <2>1. PICK i \in DOMAIN queue : refused(queue[i], RemoveAt(queue, i))
      BY <1>2 DEF serviceMissing
    <2>2. CASE k = i
      BY <1>0, <2>1, <2>2, RefusedAdvances DEF Through
    <2>3. CASE k # i
      BY <1>0, <2>1, <2>3, RefusedAdvances DEF Stays
    <2> QED
      BY <2>2, <2>3
  <1>3. ASSUME queue' = queue
        PROVE  Stays(k)
    BY <1>0, <1>3 DEF Stays
  <1>4. ASSUME Serve
        PROVE  Through(k) \/ Stays(k)
    <2>1. CASE ComesUp(k)
      <3>1. PICK j \in DOMAIN queue' : queue'[j] = queue[k] /\ j < k
        BY <2>1 DEF ComesUp
      <3>2. j \in Nat
        <4>1. queue' \in Seq(Nodes)
          BY NextIInv DEF IInv, TypeOK
        <4> QED
          BY <4>1
      <3> QED
        BY <1>0, <3>1, <3>2 DEF Stays
    <2>2. CASE serving = NoMode /\ serving' # NoMode
      <3>1. take
        BY <1>4, <2>2 DEF Serve, refuseAtOnce, MSRefuse, end, MSEnd
      <3> QED
        BY <1>3, <3>1 DEF take
    <2> QED
      BY <1>4, <2>1, <2>2, ServeAdvances
  <1>5. ASSUME NEW n \in Nodes, wake(n) \/ controllerInfoCallback(n)
        PROVE  queue' = queue
    BY <1>5 DEF wake, controllerInfoCallback
  <1>6. modeTimerCallback => queue' = queue
    BY DEF modeTimerCallback
  <1> QED
    BY <1>1, <1>2, <1>3, <1>4, <1>5, <1>6 DEF Next

(* A negotiation comes closer to its end with every request the controller     *)
(* serves, and nothing takes it back (setMode and checkMode of                *)
(* basic_motion_references.cpp; NegotiationsEnd needs the fairness too).      *)
THEOREM NegotiationsAdvance == Spec => AskersAdvance
  <1>1. IInv /\ [Next]_vars => [\A i \in DOMAIN queue : Advances(i)]_vars
    BY QueueMoves, ServeAdvances DEF Advances
  <1> QED
    BY <1>1, InitIInv, NextIInv, PTL DEF Spec, AskersAdvance

(* Who still asks after a step has a place after it. *)
LEMMA AskersStay ==
    ASSUME IInv, Next, NEW k \in DOMAIN queue, at'[queue[k]] = "asking"
    PROVE  \E j \in DOMAIN queue' : queue'[j] = queue[k]
  <1>0. TypeOK /\ Queued /\ queue \in Seq(Nodes) /\ queue[k] \in Nodes
    BY DEF IInv, TypeOK
  <1>2. ASSUME NEW i \in DOMAIN queue, refused(queue[i], RemoveAt(queue, i))
        PROVE  \E j \in DOMAIN queue' : queue'[j] = queue[k]
    <2>1. CASE k = i
      BY <1>0, <1>2, <2>1, RefusedAdvances
    <2>2. CASE k # i
      BY <1>0, <1>2, <2>2, RefusedAdvances
    <2> QED
      BY <2>1, <2>2
  <1>3. ASSUME queue # <<>>, refused(Head(queue), Tail(queue))
        PROVE  \E j \in DOMAIN queue' : queue'[j] = queue[k]
    BY <1>0, <1>2, <1>3, HeadLeaves
  <1>4. CASE serviceMissing
    BY <1>2, <1>4 DEF serviceMissing
  <1>5. CASE refuseAtOnce
    BY <1>3, <1>5 DEF refuseAtOnce
  <1>6. CASE end(FALSE)
    BY <1>0, <1>3, <1>6 DEF end, MSEnd, Queued
  <1>7. CASE end(TRUE)
    <2>1. queue # <<>> /\ queue' = Tail(queue) /\ at' = [at EXCEPT ![Head(queue)] = "sleeping"]
      BY <1>0, <1>7 DEF end, MSEnd, Queued
    <2>2. k # 1
      BY <1>0, <2>1, HeadLeaves DEF TypeOK
    <2> QED
      BY <1>0, <2>1, <2>2, OthersComeUp
  <1>8. CASE take
    BY <1>8 DEF take
  <1>9. ASSUME NEW n \in Nodes, NEW m \in Handlers[n], send(n, m)
        PROVE  \E j \in DOMAIN queue' : queue'[j] = queue[k]
    <2>1. queue' = Append(queue, n)
      BY <1>9 DEF send, setMode
    <2> QED
      BY <1>0, <2>1
  <1>10. ASSUME NEW n \in Nodes, wake(n) \/ controllerInfoCallback(n)
         PROVE  queue' = queue
    BY <1>10 DEF wake, controllerInfoCallback
  <1>11. modeTimerCallback => queue' = queue
    BY DEF modeTimerCallback
  <1> QED
    BY <1>4, <1>5, <1>6, <1>7, <1>8, <1>9, <1>10, <1>11 DEF Next, Serve

(* Who begins to ask takes the last place. *)
LEMMA NewAskers ==
    ASSUME IInv, Next, NEW n \in Nodes, at[n] # "asking", at'[n] = "asking"
    PROVE  \E j \in DOMAIN queue' : queue'[j] = n
  <1>0. TypeOK /\ Queued /\ queue \in Seq(Nodes)
    BY DEF IInv, TypeOK
  <1>1. ASSUME NEW c \in Nodes, NEW m \in Handlers[c], send(c, m)
        PROVE  \E j \in DOMAIN queue' : queue'[j] = n
    <2>1. at' = [at EXCEPT ![c] = "asking"] /\ queue' = Append(queue, c)
      BY <1>1 DEF send, setMode
    <2>2. n = c
      BY <1>0, <2>1 DEF TypeOK
    <2>3. Len(queue) + 1 \in DOMAIN queue' /\ queue'[Len(queue) + 1] = c
      BY <1>0, <2>1
    <2> QED
      BY <2>2, <2>3
  <1>2. ~serviceMissing
    BY <1>0, RefusedAdvances DEF serviceMissing
  <1>3. ASSUME queue # <<>>, refused(Head(queue), Tail(queue))
        PROVE  FALSE
    BY <1>0, <1>3, HeadLeaves, RefusedAdvances
  <1>4. ~refuseAtOnce
    BY <1>3 DEF refuseAtOnce
  <1>5. ~end(FALSE)
    BY <1>0, <1>3 DEF end, MSEnd, Queued
  <1>6. ~end(TRUE)
    BY <1>0 DEF end, TypeOK
  <1>7. ~take /\ ~modeTimerCallback
    BY DEF take, modeTimerCallback, callVars
  <1>8. \A c \in Nodes : ~wake(c) /\ ~controllerInfoCallback(c)
    BY <1>0 DEF wake, return, controllerInfoCallback, callVars, TypeOK
  <1> QED
    BY <1>1, <1>2, <1>4, <1>5, <1>6, <1>7, <1>8 DEF Next, Serve

(* Whoever asks has a place in the queue, so that AskersAdvance is about every *)
(* node that asks.                                                           *)
THEOREM AskersTheorem == Spec => []AskersAreQueued
  <1>1. Init => AskersAreQueued
    BY DEF Init, AskersAreQueued
  <1>2. IInv /\ AskersAreQueued /\ [Next]_vars => AskersAreQueued'
    <2> SUFFICES ASSUME IInv, AskersAreQueued, [Next]_vars
                 PROVE  AskersAreQueued'
      OBVIOUS
    <2>1. CASE UNCHANGED vars
      BY <2>1 DEF AskersAreQueued, vars, callVars
    <2>2. CASE Next
      <3> SUFFICES ASSUME NEW n \in Nodes, at'[n] = "asking"
                   PROVE  \E j \in DOMAIN queue' : queue'[j] = n
        BY DEF AskersAreQueued
      <3>1. CASE at[n] = "asking"
        <4>1. PICK k \in DOMAIN queue : queue[k] = n
          BY <3>1 DEF AskersAreQueued
        <4> QED
          BY <2>2, <4>1, AskersStay
      <3>2. CASE at[n] # "asking"
        BY <2>2, <3>2, NewAskers
      <3> QED
        BY <3>1, <3>2
    <2> QED
      BY <2>1, <2>2
  <1> QED
    BY <1>1, <1>2, InitIInv, NextIInv, PTL DEF Spec
=============================================================================
