------------------------------ MODULE CoreProofs ------------------------------
(***************************************************************************)
(* What the pure functions of as2_core return: the codec and the matching   *)
(* of control modes, for every mode, byte and list of bytes, and the moves  *)
(* of the platform's state machine.                                         *)
(***************************************************************************)
EXTENDS ControlMode, PlatformStateMachine, WellFoundedInduction, TLAPS

(* Whatever the byte, what it is decoded to is a mode. *)
LEMMA ConvertIsMode ==
    ASSUME NEW b
    PROVE  convertUint8tToAS2ControlMode(b) \in Mode
  <1>1. convertUint8tToAS2ControlMode(b).control_mode \in ControlModes
    <2>1. CASE \E c \in ControlModes : ControlCode[c] = b \div 16
      BY <2>1 DEF convertUint8tToAS2ControlMode
    <2>2. CASE ~ \E c \in ControlModes : ControlCode[c] = b \div 16
      BY <2>2 DEF convertUint8tToAS2ControlMode, ControlModes
    <2> QED
      BY <2>1, <2>2
  <1>2. convertUint8tToAS2ControlMode(b).yaw_mode \in YawModes
    <2>1. CASE \E y \in YawModes : YawCode[y] = (b \div 4) % 4
      BY <2>1 DEF convertUint8tToAS2ControlMode
    <2>2. CASE ~ \E y \in YawModes : YawCode[y] = (b \div 4) % 4
      BY <2>2 DEF convertUint8tToAS2ControlMode, YawModes
    <2> QED
      BY <2>1, <2>2
  <1> QED
    BY <1>1, <1>2 DEF convertUint8tToAS2ControlMode, Mode

(* A byte with the high bits of a mode's control mode is that control mode, *)
(* and one with its yaw bits too is that mode.                               *)
LEMMA HighBitsNameTheMode ==
    ASSUME NEW m \in Mode, NEW b \in Byte
    PROVE  LET code == convertAS2ControlModeToUint8t(m)
               back == convertUint8tToAS2ControlMode(b)
           IN  /\ compareModes(code, b, MATCH_CONTROL_MODE) =>
                     back.control_mode = m.control_mode
               /\ compareModes(code, b, MATCH_MODE_AND_YAW) => back = m
  <1> DEFINE code == convertAS2ControlModeToUint8t(m)
             back == convertUint8tToAS2ControlMode(b)
  <1>0. /\ m.control_mode \in ControlModes
        /\ m.yaw_mode \in YawModes
        /\ m = [control_mode |-> m.control_mode, yaw_mode |-> m.yaw_mode]
    BY DEF Mode
  <1>1. \A c \in ControlModes : ControlCode[c] \in 0..7
    BY DEF ControlModes, ControlCode
  <1>2. \A c, d \in ControlModes : ControlCode[c] = ControlCode[d] => c = d
    BY DEF ControlModes, ControlCode
  <1>3. \A y \in YawModes : YawCode[y] \in 0..2
    BY DEF YawModes, YawCode
  <1>4. \A y, z \in YawModes : YawCode[y] = YawCode[z] => y = z
    BY DEF YawModes, YawCode
  <1>5. ControlCode[m.control_mode] \in 0..7 /\ YawCode[m.yaw_mode] \in 0..2
    BY <1>0, <1>1, <1>3
  <1>6. code = 16 * ControlCode[m.control_mode] + 4 * YawCode[m.yaw_mode]
    BY DEF convertAS2ControlModeToUint8t
  <1>7. ASSUME compareModes(code, b, MATCH_CONTROL_MODE)
        PROVE  back.control_mode = m.control_mode
    <2>1. ControlCode[m.control_mode] = b \div 16
      <3>1. code \div 16 = b \div 16
        BY <1>7 DEF compareModes, MATCH_CONTROL_MODE
      <3>2. code \div 16 = ControlCode[m.control_mode]
        BY <1>5, <1>6
      <3> QED
        BY <3>1, <3>2
    <2>2. back.control_mode = CHOOSE c \in ControlModes : ControlCode[c] = b \div 16
      BY <2>1, <1>0 DEF convertUint8tToAS2ControlMode
    <2> QED
      BY <2>1, <2>2, <1>0, <1>2
  <1>8. ASSUME compareModes(code, b, MATCH_MODE_AND_YAW)
        PROVE  back = m
    <2>1. code \div 4 = b \div 4
      BY <1>8 DEF compareModes, MATCH_MODE_AND_YAW
    <2>2. code \div 4 = 4 * ControlCode[m.control_mode] + YawCode[m.yaw_mode]
      BY <1>5, <1>6
    <2>3. b \div 16 = ControlCode[m.control_mode]
      <3>1. b \in 0..255 /\ 4 * ControlCode[m.control_mode] + YawCode[m.yaw_mode] = b \div 4
        BY <2>1, <2>2 DEF Byte
      <3> HIDE DEF code
      <3> QED
        BY <3>1, <1>5, SMTT(30)
    <2>4. (b \div 4) % 4 = YawCode[m.yaw_mode]
      BY <2>1, <2>2, <1>5 DEF Byte
    <2>5. code \div 16 = ControlCode[m.control_mode]
      BY <1>5, <1>6
    <2>6. back.control_mode = m.control_mode
      BY <2>3, <2>5, <1>7 DEF compareModes, MATCH_CONTROL_MODE
    <2>7. back.yaw_mode = CHOOSE y \in YawModes : YawCode[y] = (b \div 4) % 4
      BY <2>4, <1>0 DEF convertUint8tToAS2ControlMode
    <2>8. back.yaw_mode = m.yaw_mode
      BY <2>4, <2>7, <1>0, <1>4
    <2>9. back \in Mode
      BY ConvertIsMode
    <2> QED
      BY <2>6, <2>8, <2>9, <1>0 DEF Mode
  <1> QED
    BY <1>7, <1>8

(* < is a well-founded relation on the positions of a list. *)
LEMMA LessThanIsWellFounded ==
    IsWellFoundedOn({ss \in Nat \X Nat : ss[1] < ss[2]}, Nat)
  BY NatLessThanWellFounded DEF OpToRel

(* A set of positions that is not empty has a first one. *)
LEMMA FirstIsIn ==
    ASSUME NEW I \in SUBSET Nat, I # {}
    PROVE  First(I) \in I
  <1> DEFINE R == {ss \in Nat \X Nat : ss[1] < ss[2]}
  <1>1. \A x, y \in Nat : <<x, y>> \in R <=> x < y
    OBVIOUS
  <1>2. IsWellFoundedOn(R, Nat)
    BY LessThanIsWellFounded
  <1> HIDE DEF R
  <1>3. PICK i \in I : \A j \in I : ~ (<<j, i>> \in R)
    BY <1>2, WFMin
  <1>4. \A j \in I : i <= j
    <2>1. SUFFICES ASSUME NEW j \in I PROVE i <= j
      OBVIOUS
    <2>2. i \in Nat /\ j \in Nat
      OBVIOUS
    <2>3. ~ (j < i)
      BY <1>1, <1>3, <2>2
    <2> QED
      BY <2>2, <2>3
  <1> QED
    BY <1>4 DEF First

(* A set with 0 and, with each turn of a loop, the next has every turn.       *)
LEMMA EveryTurn ==
    ASSUME NEW n \in Nat, NEW G, 0 \in G, \A k \in 1..n : k - 1 \in G => k \in G
    PROVE  0..n \subseteq G
  <1> SUFFICES ASSUME (0..n) \ G # {} PROVE FALSE
    OBVIOUS
  <1> DEFINE R == {ss \in Nat \X Nat : ss[1] < ss[2]}
             Bad == (0..n) \ G
  <1>1. \A x, y \in Nat : <<x, y>> \in R <=> x < y
    OBVIOUS
  <1>2. IsWellFoundedOn(R, Nat) /\ Bad \in SUBSET Nat
    BY LessThanIsWellFounded
  <1> HIDE DEF R
  <1>3. PICK k \in Bad : \A j \in Bad : ~ (<<j, k>> \in R)
    BY <1>2, WFMin
  <1>4. k \in 1..n /\ k - 1 \in 0..n /\ k - 1 < k
    OBVIOUS
  <1>5. k - 1 \in Bad
    BY <1>4
  <1>6. <<k - 1, k>> \in R
    BY <1>1, <1>4
  <1> QED
    BY <1>3, <1>5, <1>6

(* A list that is not empty, and so any set of its positions, has a last.     *)
LEMMA FinalIsIn ==
    ASSUME NEW n \in Nat, NEW I \in SUBSET (1..n), I # {}
    PROVE  Final(I) \in I
  <1> DEFINE H == {k \in Nat : \/ \A j \in I : j <= n - k
                              \/ \E i \in I : \A j \in I : j <= i}
  <1>1. 0 \in H
    OBVIOUS
  <1>2. ASSUME NEW k \in 1..n, k - 1 \in H
        PROVE  k \in H
    <2>1. CASE \A j \in I : j <= n - (k - 1)
      <3>1. CASE n - (k - 1) \in I
        BY <2>1, <3>1
      <3>2. CASE ~ (n - (k - 1) \in I)
        BY <2>1, <3>2
      <3> QED
        BY <3>1, <3>2
    <2>2. CASE \E i \in I : \A j \in I : j <= i
      BY <2>2
    <2> QED
      BY <1>2, <2>1, <2>2
  <1>3. n \in H
    <2> HIDE DEF H
    <2> QED
      BY <1>1, <1>2, EveryTurn
  <1>4. \E i \in I : \A j \in I : j <= i
    <2>1. PICK j \in I : TRUE
      OBVIOUS
    <2>2. j \in Nat /\ ~ (j <= n - n)
      BY <2>1
    <2> QED
      BY <1>3, <2>2
  <1> QED
    BY <1>4 DEF Final

(* What a loop of n turns leaves after each, from start: turn k takes s to     *)
(* step[k][s].                                                              *)
Runs(n, S, start, step) ==
    {f \in [0..n -> S] : f[0] = start /\ \A k \in 1..n : f[k] = step[k][f[k - 1]]}

LEMMA LoopExists ==
    ASSUME NEW n \in Nat, NEW S, NEW start \in S, NEW step \in [1..n -> [S -> S]]
    PROVE  Runs(n, S, start, step) # {}
  <1> DEFINE Run(m, f) == f[0] = start /\ \A k \in 1..m : f[k] = step[k][f[k - 1]]
             G == {m \in Nat : \E f \in [0..m -> S] : Run(m, f)}
  <1>1. 0 \in G
    <2>1. [k \in 0..0 |-> start] \in [0..0 -> S] /\ Run(0, [k \in 0..0 |-> start])
      OBVIOUS
    <2> QED
      BY <2>1
  <1>2. ASSUME NEW m \in 1..n, m - 1 \in G
        PROVE  m \in G
    <2>1. PICK f \in [0..(m - 1) -> S] : Run(m - 1, f)
      BY <1>2
    <2> DEFINE g == [k \in 0..m |-> IF k = m THEN step[m][f[m - 1]] ELSE f[k]]
    <2>2. step[m][f[m - 1]] \in S
      BY <2>1
    <2>3. g \in [0..m -> S]
      BY <2>1, <2>2
    <2>4. Run(m, g)
      <3>1. g[0] = start
        BY <2>1
      <3>2. ASSUME NEW k \in 1..m
            PROVE  g[k] = step[k][g[k - 1]]
        <4>1. g[k - 1] = f[k - 1]
          BY <3>2
        <4>2. CASE k = m
          <5>1. g[m] = step[m][f[m - 1]]
            OBVIOUS
          <5> HIDE DEF g
          <5> QED
            BY <4>1, <4>2, <5>1
        <4>3. CASE k # m
          <5>1. k \in 1..(m - 1) /\ k \in 0..m
            BY <4>3, <3>2
          <5>2. f[k] = step[k][f[k - 1]]
            BY <2>1, <5>1
          <5>3. g[k] = f[k]
            BY <4>3, <5>1
          <5> HIDE DEF g
          <5> QED
            BY <4>1, <5>2, <5>3
        <4> QED
          BY <4>2, <4>3
      <3> QED
        BY <3>1, <3>2
    <2> HIDE DEF g, Run
    <2> QED
      BY <2>3, <2>4
  <1>3. n \in G
    <2> HIDE DEF G
    <2>1. \A m \in 1..n : m - 1 \in G => m \in G
      BY <1>2
    <2>2. 0..n \subseteq G
      BY <1>1, <2>1, EveryTurn
    <2> QED
      BY <2>2
  <1>4. PICK f \in [0..n -> S] : Run(n, f)
    BY <1>3
  <1>5. f \in Runs(n, S, start, step)
    BY <1>4 DEF Runs
  <1> QED
    BY <1>5

(* The mode the platform takes for a request is the one requested, but for    *)
(* the yaw mode of a hover (resolveControlMode).                             *)
THEOREM ResolveIsTheRequest ==
    ASSUME NEW m \in Mode, NEW a \in Seq(Byte),
           resolveControlMode(m, a) # NoMode
    PROVE  /\ resolveControlMode(m, a).control_mode = m.control_mode
           /\ isHoverMode(m) \/ resolveControlMode(m, a) = m
  <1> DEFINE code == convertAS2ControlModeToUint8t(m)
             mask == IF isHoverMode(m) THEN MATCH_CONTROL_MODE ELSE MATCH_MODE_AND_YAW
             matches == {i \in DOMAIN a : compareModes(code, a[i], mask)}
             b == findBestMatchWithMask(code, a, mask)
  <1>1. resolveControlMode(m, a) = convertUint8tToAS2ControlMode(b)
    BY DEF resolveControlMode
  <1>2. \E i \in matches : b = a[i]
    <2>1. matches # {}
      BY DEF resolveControlMode, findBestMatchWithMask
    <2>2. CASE \E i \in matches : a[i] = code
      BY <2>1, <2>2 DEF findBestMatchWithMask
    <2>3. CASE ~ \E i \in matches : a[i] = code
      <3>1. b = a[First(matches)]
        BY <2>1, <2>3 DEF findBestMatchWithMask
      <3>2. First(matches) \in matches
        BY <2>1, FirstIsIn
      <3> QED
        BY <3>1, <3>2
    <2> QED
      BY <2>2, <2>3
  <1>3. b \in Byte /\ compareModes(code, b, mask)
    BY <1>2
  <1> HIDE DEF b, code
  <1>4. CASE isHoverMode(m)
    BY <1>1, <1>3, <1>4, HighBitsNameTheMode DEF code
  <1>5. CASE ~isHoverMode(m)
    BY <1>1, <1>3, <1>5, HighBitsNameTheMode DEF code
  <1> QED
    BY <1>4, <1>5

-----------------------------------------------------------------------------
(* Processing any event leads from a state to a state of the table.         *)
LEMMA ProcessEventType ==
    ASSUME NEW s \in States, NEW e \in Events
    PROVE  processEvent(s, e) \in States
  <1>1. CASE isValid(s, e)
    <2>1. PICK t \in getTransition(s, e) : processEvent(s, e) = t.to
      BY <1>1 DEF processEvent, isValid
    <2> QED
      BY <2>1 DEF getTransition, transitions, Transition, States
  <1>2. CASE ~isValid(s, e)
    BY <1>2 DEF processEvent
  <1> QED
    BY <1>1, <1>2

(* No event leaves EMERGENCY.                                               *)
LEMMA EmergencyHasNoExit ==
    ASSUME NEW e \in Events
    PROVE  processEvent("EMERGENCY", e) = "EMERGENCY"
  <1>1. ~isValid("EMERGENCY", e)
    BY DEF isValid, getTransition, transitions, Transition, States
  <1> QED
    BY <1>1 DEF processEvent

(* DISARM is the only event that leads to DISARMED.                         *)
LEMMA OnlyDisarmDisarms ==
    ASSUME NEW s \in States, NEW e \in Events,
           processEvent(s, e) = "DISARMED", s # "DISARMED"
    PROVE  e = "DISARM"
  <1>1. PICK t \in getTransition(s, e) : t.to = "DISARMED"
    BY DEF processEvent, isValid
  <1> QED
    BY <1>1 DEF getTransition, transitions, Transition, States

(* ARM always leaves DISARMED.                                              *)
LEMMA ArmLeavesDisarmed ==
    processEvent("DISARMED", "ARM") # "DISARMED"
  <1>1. Transition("DISARMED", "ARM", "LANDED") \in getTransition("DISARMED", "ARM")
    BY DEF getTransition, transitions, Transition
  <1>2. PICK t \in getTransition("DISARMED", "ARM") :
            processEvent("DISARMED", "ARM") = t.to
    BY <1>1 DEF processEvent, isValid
  <1> QED
    BY <1>2 DEF getTransition, transitions, Transition, States

(* An event either moves the state along a row of the table for that event,  *)
(* or, when there is none, leaves it as it is.                              *)
LEMMA FollowsTheTable ==
    ASSUME NEW s \in States, NEW e \in Events
    PROVE  \/ isValid(s, e) /\ Transition(s, e, processEvent(s, e)) \in transitions
           \/ ~isValid(s, e) /\ processEvent(s, e) = s
  <1>1. CASE isValid(s, e)
    <2>1. PICK t \in getTransition(s, e) : processEvent(s, e) = t.to
      BY <1>1 DEF processEvent, isValid
    <2>2. t = Transition(s, e, t.to) /\ t \in transitions
      BY <2>1 DEF getTransition, transitions, Transition
    <2> QED
      BY <1>1, <2>1, <2>2
  <1>2. CASE ~isValid(s, e)
    BY <1>2 DEF processEvent
  <1> QED
    BY <1>1, <1>2

(* The rows of each event.                                                  *)
LEMMA Rows ==
    ASSUME NEW s, NEW e, NEW to, Transition(s, e, to) \in transitions
    PROVE  \/ e = "TAKE_OFF" /\ s = "LANDED" /\ to = "TAKING_OFF"
           \/ e = "TOOK_OFF" /\ s = "TAKING_OFF" /\ to = "FLYING"
           \/ e = "LAND" /\ s = "FLYING" /\ to = "LANDING"
           \/ e = "LANDED" /\ s = "LANDING" /\ to = "LANDED"
           \/ e = "ARM" /\ s = "DISARMED" /\ to = "LANDED"
           \/ e = "DISARM" /\ s = "LANDED" /\ to = "DISARMED"
           \/ e = "EMERGENCY" /\ s \in States /\ to = "EMERGENCY"
  <1>1. ASSUME NEW x \in States, Transition(s, e, to) = Transition(x, "EMERGENCY", "EMERGENCY")
        PROVE  s = x /\ e = "EMERGENCY" /\ to = "EMERGENCY"
    BY <1>1 DEF Transition
  <1>2. ASSUME NEW a, NEW b, NEW c, Transition(s, e, to) = Transition(a, b, c)
        PROVE  s = a /\ e = b /\ to = c
    BY <1>2 DEF Transition
  <1> QED
    BY <1>1, <1>2 DEF transitions

(* What an event does, state by state.                                       *)
LEMMA Moves ==
    ASSUME NEW s \in States, NEW e \in Events, NEW to, to = processEvent(s, e)
    PROVE  \/ ~isValid(s, e) /\ to = s
           \/ isValid(s, e) /\ e = "TAKE_OFF" /\ s = "LANDED" /\ to = "TAKING_OFF"
           \/ isValid(s, e) /\ e = "TOOK_OFF" /\ s = "TAKING_OFF" /\ to = "FLYING"
           \/ isValid(s, e) /\ e = "LAND" /\ s = "FLYING" /\ to = "LANDING"
           \/ isValid(s, e) /\ e = "LANDED" /\ s = "LANDING" /\ to = "LANDED"
           \/ isValid(s, e) /\ e = "ARM" /\ s = "DISARMED" /\ to = "LANDED"
           \/ isValid(s, e) /\ e = "DISARM" /\ s = "LANDED" /\ to = "DISARMED"
           \/ isValid(s, e) /\ e = "EMERGENCY" /\ to = "EMERGENCY"
  BY FollowsTheTable, Rows

(* LANDED always leaves LANDING.                                             *)
LEMMA LandedLeavesLanding ==
    processEvent("LANDING", "LANDED") # "LANDING"
  <1>1. Transition("LANDING", "LANDED", "LANDED") \in getTransition("LANDING", "LANDED")
    BY DEF getTransition, transitions, Transition
  <1>2. isValid("LANDING", "LANDED")
    BY <1>1 DEF isValid
  <1> QED
    BY <1>2, Moves DEF States, Events
=============================================================================
