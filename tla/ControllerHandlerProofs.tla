------------------------ MODULE ControllerHandlerProofs ------------------------
(***************************************************************************)
(* Safety of ControllerHandler for every plugin, every list of platform      *)
(* modes and every set of requests, with and without a bypass.               *)
(***************************************************************************)
EXTENDS ControllerHandler, CoreProofs

-----------------------------------------------------------------------------
(* The negotiation of the modes, for every list of the plugin and of the      *)
(* platform.                                                                *)

(* A match is a byte of the list, of the same control and yaw mode. *)
LEMMA LastMatchMatches ==
    ASSUME NEW b, NEW list \in Seq(Byte), lastMatch(b, list) # 0
    PROVE  \E i \in DOMAIN list : /\ list[i] = lastMatch(b, list)
                                  /\ compareModes(b, list[i], MATCH_MODE_AND_YAW)
  <1> DEFINE matches == {i \in DOMAIN list : compareModes(b, list[i], MATCH_MODE_AND_YAW)}
  <1>1. matches # {} /\ matches \in SUBSET (1..Len(list)) /\ Len(list) \in Nat
    BY DEF lastMatch
  <1>2. Final(matches) \in matches
    BY <1>1, FinalIsIn
  <1> QED
    BY <1>1, <1>2 DEF lastMatch

(* The input mode a pair is made of is one of the plugin's, and what is asked. *)
LEMMA InputModeMatches ==
    ASSUME NEW b, NEW list \in Seq(Byte), NEW out, checkSuitabilityInputMode(b, out, list)
    PROVE  \E i \in DOMAIN list : /\ list[i] = inputMode(b, list)
                                  /\ compareModes(b, list[i], MATCH_MODE_AND_YAW)
  <1> DEFINE matches == {i \in DOMAIN list : compareModes(b, list[i], MATCH_MODE_AND_YAW)}
  <1>1. matches # {} /\ matches \in SUBSET Nat
    BY DEF checkSuitabilityInputMode
  <1>2. First(matches) \in matches
    BY <1>1, FirstIsIn
  <1> QED
    BY <1>1, <1>2 DEF inputMode

(* The lists of distinct modes of the platform. *)
ListsOf(platformIn) ==
    {modes \in Seq(Byte) :
        /\ \A i \in DOMAIN modes :
              modes[i] # 0 /\ \E p \in DOMAIN platformIn : platformIn[p] = modes[i]
        /\ \A i, j \in DOMAIN modes : modes[i] = modes[j] => i = j}

LEMMA AppendKeepsTheList ==
    ASSUME NEW platformIn \in Seq(Byte), NEW modes \in ListsOf(platformIn), NEW b
    PROVE  /\ append(modes, b, platformIn) \in ListsOf(platformIn)
           /\ \A i \in DOMAIN modes : \E k \in DOMAIN append(modes, b, platformIn) :
                 append(modes, b, platformIn)[k] = modes[i]
           /\ lastMatch(b, platformIn) # 0 =>
                 \E k \in DOMAIN append(modes, b, platformIn) :
                    append(modes, b, platformIn)[k] = lastMatch(b, platformIn)
  <1> DEFINE mode == lastMatch(b, platformIn)
             longer == append(modes, b, platformIn)
  <1>1. CASE mode = 0 \/ \E i \in DOMAIN modes : modes[i] = mode
    <2>1. append(modes, b, platformIn) = modes
      BY <1>1 DEF append
    <2> QED
      BY <1>1, <2>1
  <1>2. CASE mode # 0 /\ ~ \E i \in DOMAIN modes : modes[i] = mode
    <2>1. longer = Append(modes, mode)
      BY <1>2 DEF append
    <2>2. PICK p \in DOMAIN platformIn : platformIn[p] = mode
      BY <1>2, LastMatchMatches
    <2>3. mode \in Byte /\ modes \in Seq(Byte)
      BY <2>2 DEF ListsOf
    <2> HIDE DEF mode, longer
    <2>4. /\ longer \in Seq(Byte)
          /\ DOMAIN longer = 1..(Len(modes) + 1)
          /\ \A i \in DOMAIN modes : longer[i] = modes[i]
          /\ longer[Len(modes) + 1] = mode
          /\ DOMAIN modes = 1..Len(modes) /\ Len(modes) \in Nat
      BY <2>1, <2>3
    <2>5. \A i \in DOMAIN longer : i \in DOMAIN modes \/ i = Len(modes) + 1
      BY <2>4
    <2>6. longer \in ListsOf(platformIn)
      BY <1>2, <2>2, <2>4, <2>5 DEF ListsOf
    <2>7. \A i \in DOMAIN modes : i \in DOMAIN longer
      BY <2>4
    <2>8. Len(modes) + 1 \in DOMAIN longer
      BY <2>4
    <2> QED
      BY <2>4, <2>6, <2>7, <2>8 DEF mode, longer
  <1> QED
    BY <1>1, <1>2

(* The platform modes tried are nonzero modes of the platform, each once, and  *)
(* each that the plugin can feed is among them.                              *)
LEMMA OutputModes ==
    ASSUME NEW preferred \in Byte, NEW controllerOut \in Seq(Byte), NEW platformIn \in Seq(Byte)
    PROVE  LET outputs == findOutputModes(preferred, controllerOut, platformIn)
           IN  /\ outputs \in ListsOf(platformIn)
               /\ \A i \in DOMAIN controllerOut :
                     ~hoverOrUnset(controllerOut[i]) /\ lastMatch(controllerOut[i], platformIn) # 0
                         => \E k \in DOMAIN outputs :
                               outputs[k] = lastMatch(controllerOut[i], platformIn)
  <1> DEFINE n == Len(controllerOut)
             L == ListsOf(platformIn)
             start == IF preferred = 0 THEN <<>> ELSE append(<<>>, preferred, platformIn)
             turn(k, modes) == IF hoverOrUnset(controllerOut[k]) THEN modes
                               ELSE append(modes, controllerOut[k], platformIn)
             Loop(f) == f = [k \in 0..n |-> IF k = 0 THEN start ELSE turn(k, f[k - 1])]
             found == CHOOSE f : Loop(f)
  <1>1. n \in Nat /\ DOMAIN controllerOut = 1..n
    OBVIOUS
  <1>2. start \in L
    <2>1. <<>> \in L
      BY DEF ListsOf
    <2> QED
      BY <2>1, AppendKeepsTheList
  <1>3. \A modes \in L : \A k \in 1..n : turn(k, modes) \in L
    BY AppendKeepsTheList
  <1>4. findOutputModes(preferred, controllerOut, platformIn) = found[n]
    BY DEF findOutputModes
  <1> HIDE DEF start, turn, n
  <1>5. Loop(found)
    <2> DEFINE step == [k \in 1..n |-> [modes \in L |-> turn(k, modes)]]
    <2>1. step \in [1..n -> [L -> L]]
      BY <1>3
    <2>2. \A k \in 1..n : \A modes \in L : step[k][modes] = turn(k, modes)
      OBVIOUS
    <2> HIDE DEF step, L
    <2>3. PICK f \in Runs(n, L, start, step) : TRUE
      BY <1>1, <1>2, <2>1, LoopExists
    <2>4. f \in [0..n -> L] /\ f[0] = start /\ \A k \in 1..n : f[k] = step[k][f[k - 1]]
      BY <2>3 DEF Runs
    <2>5. \A k \in 1..n : f[k] = turn(k, f[k - 1])
      BY <1>1, <2>2, <2>4
    <2>6. Loop(f)
      BY <1>1, <2>4, <2>5
    <2> QED
      BY <2>6
  <1> HIDE DEF found
  <1> DEFINE Has(modes, i) ==
                ~hoverOrUnset(controllerOut[i]) /\ lastMatch(controllerOut[i], platformIn) # 0
                    => \E k \in DOMAIN modes : modes[k] = lastMatch(controllerOut[i], platformIn)
             G == {k \in 0..n : found[k] \in L /\ \A i \in 1..k : Has(found[k], i)}
  <1>6. 0 \in G
    BY <1>1, <1>2, <1>5
  <1>7. ASSUME NEW k \in 1..n, k - 1 \in G
        PROVE  k \in G
    <2>1. found[k] = turn(k, found[k - 1])
      BY <1>1, <1>5
    <2>2. found[k] \in L
      BY <1>3, <1>7, <2>1
    <2>3. ASSUME NEW i \in 1..k
          PROVE  Has(found[k], i)
      <3>1. i \in 1..(k - 1) \/ i = k
        BY <1>1
      <3>2. CASE i \in 1..(k - 1)
        <4>1. Has(found[k - 1], i)
          BY <1>7, <3>2
        <4> QED
          BY <1>7, <2>1, <4>1, AppendKeepsTheList DEF turn
      <3>3. CASE i = k
        BY <1>7, <2>1, <3>3, AppendKeepsTheList DEF turn
      <3> QED
        BY <3>1, <3>2, <3>3
    <2> QED
      BY <1>1, <2>2, <2>3
  <1>8. n \in G
    <2> HIDE DEF G
    <2> QED
      BY <1>1, <1>6, <1>7, EveryTurn
  <1> QED
    BY <1>1, <1>4, <1>8

(* Whether the plugin, for input b, can feed the platform with its output out. *)
CanFeed(b, out, controllerIn, platformIn) ==
    /\ ~hoverOrUnset(out)
    /\ lastMatch(out, platformIn) # 0
    /\ checkSuitabilityInputMode(b, lastMatch(out, platformIn), controllerIn)

(* The pairs tried for a request are those of the plugin's input mode for it   *)
(* with the platform modes it can feed, each once: none that raises the level  *)
(* of the input mode, and none left out (findModePairs).                     *)
THEOREM ModePairs ==
    ASSUME NEW b, NEW preferred \in Byte, NEW controllerIn \in Seq(Byte),
           NEW controllerOut \in Seq(Byte), NEW platformIn \in Seq(Byte),
           NEW pairs, pairs = findModePairs(b, preferred, controllerIn, controllerOut, platformIn)
    PROVE  /\ pairs \in Seq(Byte \X Byte)
           /\ \A i \in DOMAIN pairs :
                 /\ \E c \in DOMAIN controllerIn : controllerIn[c] = pairs[i][1]
                 /\ compareModes(b, pairs[i][1], MATCH_MODE_AND_YAW)
                 /\ \E p \in DOMAIN platformIn : platformIn[p] = pairs[i][2]
                 /\ pairs[i][2] # 0
                 /\ pairs[i][2] \div MATCH_CONTROL_MODE <= pairs[i][1] \div MATCH_CONTROL_MODE
           /\ \A i, j \in DOMAIN pairs : pairs[i][2] = pairs[j][2] => i = j
           /\ \A c \in DOMAIN controllerOut :
                 CanFeed(b, controllerOut[c], controllerIn, platformIn) =>
                     \E i \in DOMAIN pairs :
                        pairs[i][2] = lastMatch(controllerOut[c], platformIn)
  <1> DEFINE outputs == findOutputModes(preferred, controllerOut, platformIn)
             n == Len(outputs)
             in == inputMode(b, controllerIn)
             suitable(k) == checkSuitabilityInputMode(b, outputs[k], controllerIn)
             turn(k, list) == IF suitable(k) THEN Append(list, <<in, outputs[k]>>) ELSE list
             Loop(f) == f = [k \in 0..n |-> IF k = 0 THEN <<>> ELSE turn(k, f[k - 1])]
             found == CHOOSE f : Loop(f)
             L == Seq({in} \X Byte)
             start == <<>>
  <1>1. /\ outputs \in ListsOf(platformIn)
        /\ \A c \in DOMAIN controllerOut :
              ~hoverOrUnset(controllerOut[c]) /\ lastMatch(controllerOut[c], platformIn) # 0
                  => \E k \in DOMAIN outputs :
                        outputs[k] = lastMatch(controllerOut[c], platformIn)
    BY OutputModes
  <1>2. findModePairs(b, preferred, controllerIn, controllerOut, platformIn) = found[n]
    BY DEF findModePairs
  <1> HIDE DEF outputs, n, suitable, turn, in
  <1>3. /\ outputs \in Seq(Byte)
        /\ n \in Nat
        /\ DOMAIN outputs = 1..n
        /\ \A i, j \in 1..n : outputs[i] = outputs[j] => i = j
        /\ \A i \in 1..n : outputs[i] # 0 /\ \E p \in DOMAIN platformIn : platformIn[p] = outputs[i]
    BY <1>1 DEF ListsOf, n
  <1>4. \A k \in 1..n : \A list \in L : turn(k, list) \in L
    BY <1>3 DEF turn
  <1>5. Loop(found)
    <2> DEFINE step == [k \in 1..n |-> [list \in L |-> turn(k, list)]]
    <2>1. step \in [1..n -> [L -> L]]
      BY <1>4
    <2>2. \A k \in 1..n : \A list \in L : step[k][list] = turn(k, list)
      OBVIOUS
    <2>3. start \in L
      OBVIOUS
    <2> HIDE DEF step, L, start
    <2>4. n \in Nat
      BY <1>3
    <2>5. PICK f \in Runs(n, L, start, step) : TRUE
      BY <2>1, <2>3, <2>4, LoopExists
    <2>6. f \in [0..n -> L] /\ f[0] = start /\ \A k \in 1..n : f[k] = step[k][f[k - 1]]
      BY <2>5 DEF Runs
    <2>7. \A k \in 1..n : f[k] = turn(k, f[k - 1])
      BY <2>2, <2>4, <2>6
    <2>8. Loop(f)
      BY <1>3, <2>6, <2>7 DEF start
    <2> QED
      BY <2>8
  <1> HIDE DEF found
  <1> DEFINE G == {k \in 0..n :
                     /\ found[k] \in L
                     /\ \A i \in DOMAIN found[k] :
                           \E m \in 1..k : suitable(m) /\ found[k][i][2] = outputs[m]
                     /\ \A i, j \in DOMAIN found[k] : found[k][i][2] = found[k][j][2] => i = j
                     /\ \A m \in 1..k : suitable(m) =>
                           \E i \in DOMAIN found[k] : found[k][i][2] = outputs[m]}
  <1>6. 0 \in G
    BY <1>3, <1>5
  <1>7. ASSUME NEW k \in 1..n, k - 1 \in G
        PROVE  k \in G
    <2>1. found[k] = turn(k, found[k - 1]) /\ found[k - 1] \in L
      BY <1>3, <1>5, <1>7
    <2>2. \A m \in 1..k : m \in 1..(k - 1) \/ m = k
      BY <1>3
    <2>3. CASE ~suitable(k)
      <3>1. found[k] = found[k - 1]
        BY <2>1, <2>3 DEF turn
      <3>2. \A m \in 1..(k - 1) : m \in 1..k
        BY <1>3
      <3> HIDE DEF L
      <3>3. /\ found[k] \in L
            /\ \A i \in DOMAIN found[k] :
                  \E m \in 1..k : suitable(m) /\ found[k][i][2] = outputs[m]
            /\ \A i, j \in DOMAIN found[k] : found[k][i][2] = found[k][j][2] => i = j
        BY <1>7, <3>1, <3>2
      <3>4. \A m \in 1..k : suitable(m) =>
                \E i \in DOMAIN found[k] : found[k][i][2] = outputs[m]
        <4> SUFFICES ASSUME NEW m \in 1..k, suitable(m)
                     PROVE  \E i \in DOMAIN found[k] : found[k][i][2] = outputs[m]
          OBVIOUS
        <4>1. m \in 1..(k - 1)
          BY <2>2, <2>3
        <4> QED
          BY <1>7, <3>1, <4>1
      <3> QED
        BY <1>3, <3>3, <3>4
    <2>4. CASE suitable(k)
      <3> DEFINE old == found[k - 1]
                 pair == <<in, outputs[k]>>
      <3>1. found[k] = Append(old, pair) /\ pair \in {in} \X Byte /\ old \in Seq({in} \X Byte)
        BY <1>3, <2>1, <2>4 DEF turn
      <3>2. pair[2] = outputs[k]
        OBVIOUS
      <3> HIDE DEF pair
      <3>3. /\ found[k] \in L
            /\ Len(old) \in Nat
            /\ DOMAIN old = 1..Len(old)
            /\ DOMAIN found[k] = 1..(Len(old) + 1)
            /\ \A i \in DOMAIN old : found[k][i] = old[i]
            /\ found[k][Len(old) + 1] = pair
        BY <3>1
      <3>4. \A i \in DOMAIN found[k] : i \in DOMAIN old \/ i = Len(old) + 1
        BY <3>3
      <3>5. /\ \A i \in DOMAIN old : \E m \in 1..(k - 1) : suitable(m) /\ old[i][2] = outputs[m]
            /\ \A i, j \in DOMAIN old : old[i][2] = old[j][2] => i = j
            /\ \A m \in 1..(k - 1) : suitable(m) => \E i \in DOMAIN old : old[i][2] = outputs[m]
        BY <1>7
      <3>6. \A i \in DOMAIN old : old[i][2] # outputs[k]
        BY <1>3, <3>5
      <3>7. \A i \in DOMAIN old : i \in DOMAIN found[k]
        BY <3>3
      <3>8. Len(old) + 1 \in DOMAIN found[k] /\ k \in 1..k /\ \A m \in 1..(k - 1) : m \in 1..k
        BY <1>3, <3>3
      <3> HIDE DEF old, L
      <3>9. \A i \in DOMAIN found[k] :
                \E m \in 1..k : suitable(m) /\ found[k][i][2] = outputs[m]
        BY <2>4, <3>2, <3>3, <3>4, <3>5, <3>8
      <3>10. \A i, j \in DOMAIN found[k] : found[k][i][2] = found[k][j][2] => i = j
        BY <3>2, <3>3, <3>4, <3>5, <3>6
      <3>11. ASSUME NEW m \in 1..k, suitable(m)
             PROVE  \E i \in DOMAIN found[k] : found[k][i][2] = outputs[m]
        <4>1. CASE m \in 1..(k - 1)
          BY <3>3, <3>5, <3>7, <3>11, <4>1
        <4>2. CASE m = k
          BY <3>2, <3>3, <3>8, <4>2
        <4> QED
          BY <2>2, <4>1, <4>2
      <3>12. found[k] \in L
        BY <3>3
      <3> HIDE DEF suitable
      <3> QED
        BY <1>3, <3>9, <3>10, <3>11, <3>12
    <2> QED
      BY <2>3, <2>4
  <1>8. n \in G
    <2> HIDE DEF G
    <2>1. 0..n \subseteq G
      BY <1>3, <1>6, <1>7, EveryTurn
    <2> QED
      BY <1>3, <2>1
  <1>9. /\ pairs \in L
        /\ \A i \in DOMAIN pairs : \E m \in 1..n : suitable(m) /\ pairs[i][2] = outputs[m]
        /\ \A i, j \in DOMAIN pairs : pairs[i][2] = pairs[j][2] => i = j
        /\ \A m \in 1..n : suitable(m) => \E i \in DOMAIN pairs : pairs[i][2] = outputs[m]
    BY <1>2, <1>8
  <1>10. \A i \in DOMAIN pairs : pairs[i] \in {in} \X Byte /\ pairs[i][1] = in
    BY <1>9
  <1>11. ASSUME NEW i \in DOMAIN pairs
         PROVE  /\ \E c \in DOMAIN controllerIn : controllerIn[c] = pairs[i][1]
                /\ compareModes(b, pairs[i][1], MATCH_MODE_AND_YAW)
                /\ \E p \in DOMAIN platformIn : platformIn[p] = pairs[i][2]
                /\ pairs[i][2] # 0
                /\ pairs[i][2] \div MATCH_CONTROL_MODE <= pairs[i][1] \div MATCH_CONTROL_MODE
    <2>1. PICK m \in 1..n : suitable(m) /\ pairs[i][2] = outputs[m]
      BY <1>9
    <2>2. checkSuitabilityInputMode(b, outputs[m], controllerIn)
      BY <2>1 DEF suitable
    <2>3. \E c \in DOMAIN controllerIn : /\ controllerIn[c] = in
                                         /\ compareModes(b, controllerIn[c], MATCH_MODE_AND_YAW)
      BY <2>2, InputModeMatches DEF in
    <2>4. outputs[m] \div MATCH_CONTROL_MODE <= in \div MATCH_CONTROL_MODE
      BY <2>2 DEF checkSuitabilityInputMode, in
    <2> QED
      BY <1>3, <1>10, <2>1, <2>3, <2>4
  <1>12. pairs \in Seq(Byte \X Byte)
    <2>1. CASE pairs = <<>>
      BY <2>1
    <2>2. CASE pairs # <<>>
      <3>1. 1 \in DOMAIN pairs
        BY <1>9, <2>2
      <3>2. in \in Byte
        BY <1>10, <1>11, <3>1
      <3> QED
        BY <1>9, <3>2
    <2> QED
      BY <2>1, <2>2
  <1>13. ASSUME NEW c \in DOMAIN controllerOut,
                CanFeed(b, controllerOut[c], controllerIn, platformIn)
         PROVE  \E i \in DOMAIN pairs : pairs[i][2] = lastMatch(controllerOut[c], platformIn)
    <2>1. PICK k \in 1..n : outputs[k] = lastMatch(controllerOut[c], platformIn)
      BY <1>1, <1>3, <1>13 DEF CanFeed
    <2>2. suitable(k)
      BY <1>13, <2>1 DEF suitable, CanFeed
    <2> QED
      BY <1>9, <2>1, <2>2
  <1>14. \A i, j \in DOMAIN pairs : pairs[i][2] = pairs[j][2] => i = j
    BY <1>9
  <1> QED
    BY <1>11, <1>12, <1>13, <1>14

-----------------------------------------------------------------------------
(* The locals a request is served with: the fallback asks for a hover. *)
JobInv ==
    /\ DOMAIN job = {"pairs", "hover", "fallback", "changed"}
    /\ job.hover \in BOOLEAN
    /\ job.fallback \in BOOLEAN
    /\ job.fallback => job.hover

(* A request that is being served leaves no mode established, and a hover     *)
(* that bypasses the plugin has one pair, the platform's own hover.          *)
CallInv ==
    /\ at \in {"idle", "hover", "try", "restore"}
    /\ at # "idle" => established = FALSE
    /\ at = "try" /\ bypass /\ job.hover => job.pairs = <<<<0, HOVER_MODE_MASK>>>>

(* What the plugin was fed since its mode was established, and why a hover is *)
(* pending only in the mode of one.                                          *)
InputInv ==
    /\ {established, bypass, reference, hoverPending, hoverEnabled, heard} \subseteq BOOLEAN
    /\ acquired # {} \/ reference => heard
    /\ established /\ ~bypass /\ hoverPending => job.hover /\ hoverEnabled

ModeInv == modeOut \in Mode

PlatformInv ==
    /\ platformMode \in Mode
    /\ infoSent \in Mode \cup {NoMode}
    /\ infoMode \in Mode

ControllerInv ==
    /\ JobInv
    /\ CallInv
    /\ InputInv
    /\ ModeInv
    /\ PlatformInv
    /\ EstablishedModeIsThePlatforms
    /\ RefusedOrHovering

-----------------------------------------------------------------------------
(* Where setControlModeSrvCall is once it began: it waits for the platform or *)
(* refused, with no mode established and the plugin's inputs untouched.      *)
LEMMA BeginLeaves ==
    ASSUME NEW r, NEW fb \in BOOLEAN, begin(r, fb), fb => isHoverMode(r)
    PROVE  /\ established' = FALSE
           /\ UNCHANGED <<modeIn, modeOut, inputVars>>
           /\ at' \in {"idle", "hover", "try"}
           /\ at' # "idle" => bypass' \in BOOLEAN
           /\ at' = "idle" => bypass' \in {FALSE, bypass}
           /\ at' = "try" /\ bypass' => ~job'.hover
           /\ DOMAIN job' = {"pairs", "hover", "fallback", "changed"}
           /\ job'.hover = isHoverMode(r)
           /\ job'.fallback = fb
  <1> DEFINE j == [NoJob EXCEPT !.hover = isHoverMode(r), !.fallback = fb]
  <1>1. /\ DOMAIN j = {"pairs", "hover", "fallback", "changed"}
        /\ j.hover = isHoverMode(r)
        /\ j.fallback = fb
    BY DEF NoJob
  <1> HIDE DEF j
  <1>2. ASSUME NEW w, negotiate(w, j)
        PROVE  /\ established' = FALSE
               /\ UNCHANGED <<modeIn, modeOut, inputVars>>
               /\ at' \in {"idle", "try"}
               /\ bypass' = FALSE
               /\ DOMAIN job' = {"pairs", "hover", "fallback", "changed"}
               /\ job'.hover = isHoverMode(r)
               /\ job'.fallback = fb
    BY <1>1, <1>2 DEF negotiate, refuse, try
  <1>3. ASSUME NEW p, try(p, j)
        PROVE  /\ established' = FALSE
               /\ UNCHANGED <<modeIn, modeOut, inputVars>>
               /\ at' = "try"
               /\ DOMAIN job' = {"pairs", "hover", "fallback", "changed"}
               /\ job'.hover = isHoverMode(r)
               /\ job'.fallback = fb
    BY <1>1, <1>3 DEF try
  <1> DEFINE code == convertAS2ControlModeToUint8t(r)
             same == IF hoverOrUnset(code) THEN 0 ELSE lastMatch(code, available_control_modes)
  <1>4. \/ refuse /\ job' = j /\ UNCHANGED bypass
        \/ negotiate(r, j)
        \/ /\ at' = "hover"
           /\ job' = j
           /\ established' = FALSE
           /\ bypass' = FALSE
           /\ UNCHANGED <<modeIn, modeOut, inputVars>>
        \/ try(<<<<0, same>>>>, j) /\ bypass' = TRUE /\ ~j.hover
    BY DEF begin, j
  <1> HIDE DEF same
  <1>5. CASE refuse /\ job' = j /\ UNCHANGED bypass
    BY <1>1, <1>5 DEF refuse
  <1>6. CASE negotiate(r, j)
    BY <1>2, <1>6
  <1>7. CASE /\ at' = "hover"
             /\ job' = j
             /\ established' = FALSE
             /\ bypass' = FALSE
             /\ UNCHANGED <<modeIn, modeOut, inputVars>>
    BY <1>1, <1>7
  <1>8. CASE try(<<<<0, same>>>>, j) /\ bypass' = TRUE /\ ~j.hover
    BY <1>1, <1>3, <1>8
  <1> QED
    BY <1>4, <1>5, <1>6, <1>7, <1>8

(* The platform takes the mode it is asked for, but for the yaw of a hover. *)
LEMMA PlatformTakesTheRequest ==
    ASSUME PlatformInv, NEW r \in Mode, NEW answered \in BOOLEAN,
           setPlatformControlMode(r, answered)
    PROVE  /\ platformMode' \in Mode
           /\ infoSent' = infoSent
           /\ answered => /\ ~driven'
                          /\ platformMode'.control_mode = r.control_mode
                          /\ isHoverMode(r) \/ platformMode' = r
  <1> DEFINE resolved == resolveControlMode(r, available_control_modes)
  <1>1. CASE answered
    <2>1. resolved # NoMode /\ platformMode' = resolved /\ ~driven' /\ infoSent' = infoSent
      BY <1>1 DEF setPlatformControlMode
    <2>2. resolved \in Mode
      BY <2>1, ConvertIsMode DEF resolveControlMode
    <2> QED
      BY <2>1, <2>2, ResolveIsTheRequest, AvailableModesAssumption
  <1>2. CASE ~answered
    BY <1>2 DEF setPlatformControlMode, PlatformInv
  <1> QED
    BY <1>1, <1>2

LEMMA MasksAreHovers ==
    /\ convertUint8tToAS2ControlMode(HOVER_MODE_MASK) \in Mode
    /\ isHoverMode(convertUint8tToAS2ControlMode(HOVER_MODE_MASK))
  <1>1. ModeOf("HOVER", "NONE") \in Mode /\ HOVER_MODE_MASK \in Byte
    BY DEF ModeOf, Mode, ControlModes, YawModes, HOVER_MODE_MASK, Byte
  <1>2. convertAS2ControlModeToUint8t(ModeOf("HOVER", "NONE")) = 24
    BY DEF convertAS2ControlModeToUint8t, ModeOf, ControlCode, YawCode
  <1>3. compareModes(24, HOVER_MODE_MASK, MATCH_CONTROL_MODE)
    BY DEF compareModes, MATCH_CONTROL_MODE, HOVER_MODE_MASK
  <1>4. convertUint8tToAS2ControlMode(HOVER_MODE_MASK).control_mode
            = ModeOf("HOVER", "NONE").control_mode
    BY <1>1, <1>2, <1>3, HighBitsNameTheMode
  <1> QED
    BY <1>4, ConvertIsMode DEF isHoverMode, ModeOf

(* A step that leaves no mode established keeps the invariant when it keeps   *)
(* the locals and the platform in order.                                     *)
LEMMA NoModeKeepsInv ==
    ASSUME ControllerInv, established' = FALSE, UNCHANGED <<modeIn, modeOut, inputVars>>,
           bypass' \in BOOLEAN, JobInv', CallInv', PlatformInv'
    PROVE  ControllerInv'
  BY DEF ControllerInv, InputInv, ModeInv, inputVars, EstablishedModeIsThePlatforms,
         RefusedOrHovering

(* So a request that begins, of a client or as a fallback, keeps it. *)
LEMMA BeginKeepsInv ==
    ASSUME ControllerInv, NEW r, NEW fb \in BOOLEAN, begin(r, fb), fb => isHoverMode(r),
           PlatformInv'
    PROVE  ControllerInv'
  <1>1. /\ established' = FALSE
        /\ UNCHANGED <<modeIn, modeOut, inputVars>>
        /\ at' \in {"idle", "hover", "try"}
        /\ at' # "idle" => bypass' \in BOOLEAN
        /\ at' = "idle" => bypass' \in {FALSE, bypass}
        /\ at' = "try" /\ bypass' => ~job'.hover
        /\ DOMAIN job' = {"pairs", "hover", "fallback", "changed"}
        /\ job'.hover = isHoverMode(r)
        /\ job'.fallback = fb
    BY BeginLeaves
  <1>2. bypass' \in BOOLEAN
    BY <1>1 DEF ControllerInv, InputInv
  <1>3. JobInv'
    <2>1. isHoverMode(r) \in BOOLEAN
      BY DEF isHoverMode
    <2> QED
      BY <1>1, <2>1 DEF JobInv
  <1>4. CallInv'
    BY <1>1 DEF CallInv
  <1> QED
    BY <1>1, <1>2, <1>3, <1>4, NoModeKeepsInv

LEMMA FallBackKeepsInv ==
    ASSUME ControllerInv, at # "idle", fallBack, PlatformInv'
    PROVE  ControllerInv'
  <1>1. CASE job.hover
    <2>1. refuse /\ UNCHANGED <<bypass, job>>
      BY <1>1 DEF fallBack
    <2>2. JobInv' /\ CallInv' /\ bypass' \in BOOLEAN
      BY <2>1 DEF ControllerInv, JobInv, CallInv, InputInv, refuse
    <2> QED
      BY <2>1, <2>2, NoModeKeepsInv DEF refuse
  <1>2. CASE ~job.hover
    <2>1. begin(ModeOf("HOVER", "YAW_ANGLE"), TRUE)
      BY <1>2 DEF fallBack
    <2>2. isHoverMode(ModeOf("HOVER", "YAW_ANGLE"))
      BY DEF isHoverMode, ModeOf
    <2> QED
      BY <2>1, <2>2, BeginKeepsInv
  <1> QED
    BY <1>1, <1>2
-----------------------------------------------------------------------------
(* The steps of a request that waits for the platform. *)

LEMMA TryPairKeepsInv ==
    ASSUME ControllerInv, NEW answered \in BOOLEAN, NEW served \in BOOLEAN,
           tryPair(answered, served)
    PROVE  ControllerInv'
  <1> DEFINE pair == Head(job.pairs)
             tried == convertUint8tToAS2ControlMode(pair[2])
  <1>1. /\ at = "try"
        /\ setPlatformControlMode(tried, answered)
        /\ UNCHANGED infoMode
        /\ IF answered /\ (served \/ bypass) THEN establish(pair[1], pair[2])
                                             ELSE nextPair(job.changed \/ answered)
    BY DEF tryPair
  <1>2. tried \in Mode
    BY ConvertIsMode
  <1>3. /\ PlatformInv'
        /\ answered => /\ ~driven'
                       /\ platformMode'.control_mode = tried.control_mode
                       /\ isHoverMode(tried) \/ platformMode' = tried
    BY <1>1, <1>2, PlatformTakesTheRequest DEF ControllerInv, PlatformInv
  <1>4. CASE answered /\ (served \/ bypass)
    <2>1. establish(pair[1], pair[2])
      BY <1>1, <1>4
    <2>2. /\ at' = "idle"
          /\ established' = TRUE
          /\ modeOut' = tried
          /\ bypass' = bypass
          /\ acquired' = {} /\ reference' = FALSE /\ heard' = FALSE
          /\ hoverEnabled' = IF bypass THEN hoverEnabled ELSE job.hover
          /\ hoverPending' = IF bypass THEN hoverPending ELSE job.hover
          /\ response' = IF job.fallback THEN "no" ELSE "yes"
          /\ job' = [NoJob EXCEPT !.hover = job.hover]
      BY <2>1 DEF establish, reset
    <2>3. /\ job'.hover = job.hover
          /\ job'.fallback = FALSE
          /\ DOMAIN job' = {"pairs", "hover", "fallback", "changed"}
      BY <2>2 DEF NoJob
    <2>4. JobInv' /\ CallInv' /\ InputInv' /\ ModeInv'
      BY <2>2, <2>3, <1>2 DEF ControllerInv, JobInv, CallInv, InputInv, ModeInv
    <2>5. EstablishedModeIsThePlatforms'
      BY <1>3, <1>4, <2>2 DEF EstablishedModeIsThePlatforms, isHoverMode
    <2>6. RefusedOrHovering'
      <3>1. SUFFICES ASSUME job.fallback PROVE Hovering'
        BY <2>2 DEF RefusedOrHovering
      <3>2. job.hover
        BY <3>1 DEF ControllerInv, JobInv
      <3>3. CASE bypass
        <4>1. job.pairs = <<<<0, HOVER_MODE_MASK>>>>
          BY <1>1, <3>2, <3>3 DEF ControllerInv, CallInv
        <4>2. tried = convertUint8tToAS2ControlMode(HOVER_MODE_MASK)
          BY <4>1
        <4> QED
          BY <2>2, <3>3, <4>2, MasksAreHovers DEF Hovering, isHoverMode
      <3>4. CASE ~bypass
        BY <2>2, <3>2, <3>4 DEF Hovering
      <3> QED
        BY <3>3, <3>4
    <2> QED
      BY <1>3, <2>4, <2>5, <2>6 DEF ControllerInv
  <1>5. CASE ~ (answered /\ (served \/ bypass))
    <2>1. nextPair(job.changed \/ answered)
      BY <1>1, <1>5
    <2>2. CASE Len(job.pairs) > 1
      <3>1. /\ job' = [job EXCEPT !.pairs = Tail(@), !.changed = job.changed \/ answered]
            /\ UNCHANGED <<at, response, modeVars, inputVars>>
        BY <2>1, <2>2 DEF nextPair
      <3>2. /\ DOMAIN job' = DOMAIN job
            /\ job'.hover = job.hover
            /\ job'.fallback = job.fallback
        BY <3>1 DEF ControllerInv, JobInv
      <3>3. ~ (bypass /\ job.hover)
        BY <1>1, <2>2 DEF ControllerInv, CallInv
      <3>4. JobInv' /\ CallInv' /\ established' = FALSE /\ bypass' \in BOOLEAN
        BY <1>1, <3>1, <3>2, <3>3 DEF ControllerInv, JobInv, CallInv, InputInv, modeVars
      <3> QED
        BY <1>3, <3>1, <3>4, NoModeKeepsInv DEF modeVars
    <2>3. CASE ~ (Len(job.pairs) > 1) /\ (job.changed \/ answered)
      <3>1. /\ at' = "restore"
            /\ job' = [job EXCEPT !.pairs = <<>>, !.changed = TRUE]
            /\ UNCHANGED <<response, modeVars, inputVars>>
        BY <2>1, <2>3 DEF nextPair
      <3>2. /\ DOMAIN job' = DOMAIN job
            /\ job'.hover = job.hover
            /\ job'.fallback = job.fallback
        BY <3>1 DEF ControllerInv, JobInv
      <3>3. JobInv' /\ CallInv' /\ established' = FALSE /\ bypass' \in BOOLEAN
        BY <1>1, <3>1, <3>2 DEF ControllerInv, JobInv, CallInv, InputInv, modeVars
      <3> QED
        BY <1>3, <3>1, <3>3, NoModeKeepsInv DEF modeVars
    <2>4. CASE ~ (Len(job.pairs) > 1) /\ ~ (job.changed \/ answered)
      <3>1. fallBack
        BY <2>1, <2>4 DEF nextPair
      <3> QED
        BY <1>1, <1>3, <3>1, FallBackKeepsInv
    <2> QED
      BY <2>2, <2>3, <2>4
  <1> QED
    BY <1>4, <1>5

LEMMA HoverKeepsInv ==
    ASSUME ControllerInv, NEW answered \in BOOLEAN, trySetPlatformHover(answered)
    PROVE  ControllerInv'
  <1>1. /\ at = "hover"
        /\ setPlatformControlMode(convertUint8tToAS2ControlMode(HOVER_MODE_MASK), answered)
        /\ UNCHANGED infoMode
        /\ IF answered
           THEN try(<<<<0, HOVER_MODE_MASK>>>>, job) /\ bypass' = TRUE
           ELSE negotiate(ModeOf("HOVER", "NONE"), job)
    BY DEF trySetPlatformHover
  <1>2. PlatformInv'
    BY <1>1, MasksAreHovers, PlatformTakesTheRequest DEF ControllerInv, PlatformInv
  <1>3. /\ established' = FALSE
        /\ UNCHANGED <<modeIn, modeOut, inputVars>>
        /\ at' \in {"idle", "try"}
        /\ DOMAIN job' = DOMAIN job
        /\ job'.hover = job.hover
        /\ job'.fallback = job.fallback
        /\ bypass' \in BOOLEAN
        /\ at' = "try" /\ bypass' => job'.pairs = <<<<0, HOVER_MODE_MASK>>>>
    <2>1. CASE answered
      BY <1>1, <2>1 DEF try, ControllerInv, JobInv
    <2>2. CASE ~answered
      BY <1>1, <2>2 DEF negotiate, try, refuse, ControllerInv, JobInv
    <2> QED
      BY <2>1, <2>2
  <1>4. JobInv' /\ CallInv'
    BY <1>3 DEF ControllerInv, JobInv, CallInv
  <1> QED
    BY <1>2, <1>3, <1>4, NoModeKeepsInv

LEMMA RestoreKeepsInv ==
    ASSUME ControllerInv, NEW answered \in BOOLEAN, restore(answered)
    PROVE  ControllerInv'
  <1>1. PlatformInv'
    BY PlatformTakesTheRequest DEF restore, ControllerInv, PlatformInv
  <1> QED
    BY <1>1, FallBackKeepsInv DEF restore
-----------------------------------------------------------------------------
LEMMA InitInv == Init => ControllerInv
  <1> SUFFICES ASSUME Init PROVE ControllerInv
    OBVIOUS
  <1>1. UnsetMode \in Mode
    BY DEF UnsetMode, ModeOf, Mode, ControlModes, YawModes
  <1>2. JobInv
    BY DEF Init, JobInv, NoJob
  <1> QED
    BY <1>1, <1>2 DEF Init, ControllerInv, CallInv, InputInv, ModeInv, PlatformInv,
                      EstablishedModeIsThePlatforms, RefusedOrHovering

(* The steps of the platform and of its driver. *)
LEMMA PlatformKeepsInv ==
    ASSUME ControllerInv, driverSetsMode \/ publishPlatformInfo \/ platformInfoCallback
    PROVE  ControllerInv'
  <1>1. UNCHANGED <<modeVars, inputVars, callVars>>
    BY DEF driverSetsMode, publishPlatformInfo, platformInfoCallback
  <1>2. PlatformInv'
    BY ConvertIsMode DEF driverSetsMode, publishPlatformInfo, platformInfoCallback,
                         resolveControlMode, ControllerInv, PlatformInv
  <1>3. driven' \/ UNCHANGED <<platformMode, driven>>
    BY DEF driverSetsMode, publishPlatformInfo, platformInfoCallback
  <1>4. EstablishedModeIsThePlatforms'
    BY <1>1, <1>3 DEF ControllerInv, EstablishedModeIsThePlatforms, modeVars, callVars
  <1>5. JobInv' /\ CallInv' /\ InputInv' /\ ModeInv' /\ RefusedOrHovering'
    BY <1>1 DEF ControllerInv, JobInv, CallInv, InputInv, ModeInv, RefusedOrHovering, Hovering,
                modeVars, inputVars, callVars
  <1> QED
    BY <1>2, <1>4, <1>5 DEF ControllerInv

(* The steps that take a reference, a state, or send a command. *)
LEMMA InputKeepsInv ==
    ASSUME ControllerInv,
           (\E kind \in Kinds : refCallback(kind)) \/ stateCallback \/ controlTimerCallback
    PROVE  ControllerInv'
  <1>1. UNCHANGED <<platformVars, infoMode, modeVars, callVars, hoverEnabled>>
    BY DEF refCallback, stateCallback, controlTimerCallback, inputVars
  <1>2. InputInv'
    <2>1. CASE \E kind \in Kinds : refCallback(kind)
      BY <2>1, <1>1 DEF refCallback, ControllerInv, InputInv, modeVars, callVars
    <2>2. CASE stateCallback
      BY <2>2, <1>1 DEF stateCallback, ControllerInv, InputInv, modeVars, callVars
    <2>3. CASE controlTimerCallback
      BY <2>3, <1>1 DEF controlTimerCallback, ControllerInv, InputInv, inputVars, modeVars,
                        callVars
    <2> QED
      BY <2>1, <2>2, <2>3
  <1> QED
    BY <1>1, <1>2 DEF ControllerInv, JobInv, CallInv, ModeInv, PlatformInv, RefusedOrHovering,
                      EstablishedModeIsThePlatforms, Hovering, platformVars, modeVars, callVars

LEMMA NextInv == ControllerInv /\ [Next]_vars => ControllerInv'
  <1> SUFFICES ASSUME ControllerInv, [Next]_vars PROVE ControllerInv'
    OBVIOUS
  <1>1. CASE driverSetsMode \/ publishPlatformInfo \/ platformInfoCallback
    BY <1>1, PlatformKeepsInv
  <1>2. ASSUME NEW request \in Requests, setControlModeSrvCall(request)
        PROVE  ControllerInv'
    <2>1. begin(request, FALSE) /\ PlatformInv'
      BY <1>2 DEF setControlModeSrvCall, ControllerInv, PlatformInv, platformVars
    <2> QED
      BY <2>1, BeginKeepsInv
  <1>3. CASE (\E kind \in Kinds : refCallback(kind)) \/ stateCallback \/ controlTimerCallback
    BY <1>3, InputKeepsInv
  <1>4. CASE Continue
    BY <1>4, HoverKeepsInv, TryPairKeepsInv, RestoreKeepsInv DEF Continue
  <1>5. CASE UNCHANGED vars
    BY <1>5 DEF vars, platformVars, modeVars, inputVars, callVars, ControllerInv, JobInv, CallInv,
                InputInv, ModeInv, PlatformInv, EstablishedModeIsThePlatforms, RefusedOrHovering,
                Hovering
  <1> QED
    BY <1>1, <1>2, <1>3, <1>4, <1>5 DEF Next

(* The inductive invariant holds in every state of every run of the handler. *)
THEOREM Invariance == Spec => []ControllerInv
  <1> QED
    BY InitInv, NextInv, PTL DEF Spec

(* The controller and the platform agree on the established mode until the    *)
(* driver sets one by itself, whatever the lists of modes                    *)
(* (setControlModeSrvCall).                                                  *)
THEOREM ModesAgree == Spec => []EstablishedModeIsThePlatforms
  <1>1. ControllerInv => EstablishedModeIsThePlatforms
    BY DEF ControllerInv
  <1> QED
    BY <1>1, Invariance, PTL

(* A client told no finds no mode or a hover (setControlModeSrvCall).         *)
THEOREM NoMeansNoModeOrHover == Spec => []RefusedOrHovering
  <1>1. ControllerInv => RefusedOrHovering
    BY DEF ControllerInv
  <1> QED
    BY <1>1, Invariance, PTL

-----------------------------------------------------------------------------
(* What a step that takes no state, or sends no command, is seen to do. *)
LEMMA OnlyTheStateFreezesAHover ==
    ASSUME [Next]_vars, ~ UNCHANGED vars, did' = [what |-> "hover_reference"]
    PROVE  stateCallback /\ hoverPending
  BY DEF Next, Continue, nothing, driverSetsMode, publishPlatformInfo, platformInfoCallback,
         setControlModeSrvCall, trySetPlatformHover, tryPair, restore, refCallback,
         stateCallback, controlTimerCallback

LEMMA OnlyTheTimerCommands ==
    ASSUME [Next]_vars, ~ UNCHANGED vars, did'.what = "command"
    PROVE  controlTimerCallback
  <1>1. did' # nothing
    BY DEF nothing
  <1>2. ~stateCallback
    BY <1>1 DEF stateCallback
  <1> QED
    BY <1>1, <1>2 DEF Next, Continue, driverSetsMode, publishPlatformInfo,
         platformInfoCallback, setControlModeSrvCall, trySetPlatformHover, tryPair, restore,
         refCallback

(* The plugin gets a frozen position only in the mode of a hover, whatever    *)
(* came between the request and the state (stateCallback).                   *)
THEOREM FrozenForHoversOnly == Spec => HoverReferenceIsForHover
  <1>1. ControllerInv /\ [Next]_vars
            => [did' = [what |-> "hover_reference"] => job.hover /\ hoverEnabled]_vars
    <2> SUFFICES ASSUME ControllerInv, [Next]_vars, ~ UNCHANGED vars,
                        did' = [what |-> "hover_reference"]
                 PROVE  job.hover /\ hoverEnabled
      OBVIOUS
    <2>1. stateCallback /\ hoverPending
      BY OnlyTheStateFreezesAHover
    <2> QED
      BY <2>1 DEF stateCallback, ControllerInv, InputInv
  <1> QED
    BY <1>1, Invariance, PTL DEF Spec, HoverReferenceIsForHover

(* No command is computed from a reference of the mode before (reset).        *)
THEOREM CommandsAreOfTheMode == Spec => CommandsFollowReferences
  <1>1. ControllerInv /\ [Next]_vars
            => [did'.what = "command" => established /\ heard]_vars
    <2> SUFFICES ASSUME ControllerInv, [Next]_vars, ~ UNCHANGED vars, did'.what = "command"
                 PROVE  established /\ heard
      OBVIOUS
    <2>1. controlTimerCallback
      BY OnlyTheTimerCommands
    <2> QED
      BY <2>1 DEF controlTimerCallback, ControllerInv, InputInv
  <1> QED
    BY <1>1, Invariance, PTL DEF Spec, CommandsFollowReferences

(* A command of any mode with a yaw reaches the platform whole                *)
(* (publishCommand, getCommandFrameUsage).                                   *)
THEOREM CommandsAreWhole == Spec => CommandsCoverTheMode
  <1> DEFINE usage == getCommandFrameUsage(modeOut)
             Whole == IF modeOut.control_mode = "TRAJECTORY" THEN "trajectory" \in did'.topics
                      ELSE /\ usage.pose => "pose" \in did'.topics
                           /\ usage.twist => "twist" \in did'.topics
  <1>1. ControllerInv /\ [Next]_vars
            => [did'.what = "command" /\ modeOut.yaw_mode # "NONE" => Whole]_vars
    <2> SUFFICES ASSUME ControllerInv, [Next]_vars, ~ UNCHANGED vars, did'.what = "command",
                        modeOut.yaw_mode # "NONE"
                 PROVE  Whole
      OBVIOUS
    <2>1. did'.topics = publishCommand(modeOut)
      BY OnlyTheTimerCommands DEF controlTimerCallback
    <2>2. modeOut.control_mode \in ControlModes /\ modeOut.yaw_mode \in {"YAW_ANGLE", "YAW_SPEED"}
      BY DEF ControllerInv, ModeInv, Mode, YawModes
    <2> QED
      BY <2>1, <2>2 DEF publishCommand, getCommandFrameUsage, ControlModes
  <1> QED
    BY <1>1, Invariance, PTL DEF Spec, CommandsCoverTheMode

-----------------------------------------------------------------------------
(* What the controller promises its clients.  The modes it may report while   *)
(* it hovers, and those that serve the request at hand.                      *)
HoverModes == {convertUint8tToAS2ControlMode(HOVER_MODE_MASK), hoverMode}

Wanted == IF job.hover THEN HoverModes ELSE {asked}

(* Every pair to be tried makes the controller report one of the modes.       *)
PairsServe(pairs, bypassing, modes) ==
    /\ pairs # <<>>
    /\ \A i \in DOMAIN pairs :
          convertUint8tToAS2ControlMode(IF bypassing THEN pairs[i][2] ELSE pairs[i][1]) \in modes

PairsInv == at = "try" => PairsServe(job.pairs, bypass, Wanted)

(* A request is remembered exactly while it is served, and its locals say     *)
(* whether a hover is sought for its own sake or instead of what was asked.  *)
RequestInv ==
    /\ asked # NoMode <=> at # "idle"
    /\ at # "idle" => /\ response = "waiting"
                      /\ job.hover = (job.fallback \/ isHoverMode(asked))
                      /\ job.fallback => ~isHoverMode(asked)
    /\ at = "hover" => job.hover

ServiceInv == TypeOK /\ RequestInv /\ PairsInv

(* Every mode has a byte, and none is the absence of one. *)
LEMMA CodesAreBytes ==
    ASSUME NEW m \in Mode
    PROVE  convertAS2ControlModeToUint8t(m) \in Byte /\ m # NoMode
  <1>1. m.control_mode \in ControlModes /\ m.yaw_mode \in YawModes
    BY DEF Mode
  <1>2. \A c \in ControlModes : ControlCode[c] \in 0..7
    BY DEF ControlModes, ControlCode
  <1>3. \A y \in YawModes : YawCode[y] \in 0..2
    BY DEF YawModes, YawCode
  <1>4. ControlCode[m.control_mode] \in 0..7 /\ YawCode[m.yaw_mode] \in 0..2
    BY <1>1, <1>2, <1>3
  <1>5. m # NoMode
    BY <1>1 DEF NoMode, ControlModes
  <1> QED
    BY <1>4, <1>5 DEF convertAS2ControlModeToUint8t, Byte

(* The pairs negotiated for a mode all make the plugin serve that mode. *)
LEMMA NegotiatedPairs ==
    ASSUME NEW m \in Mode
    PROVE  LET pairs == modePairs[convertAS2ControlModeToUint8t(m)]
           IN  /\ pairs \in Seq(Byte \X Byte)
               /\ \A i \in DOMAIN pairs : convertUint8tToAS2ControlMode(pairs[i][1]) = m
  <1> DEFINE code == convertAS2ControlModeToUint8t(m)
             pairs == modePairs[code]
  <1>1. code \in Byte /\ 0 \in Byte
    BY CodesAreBytes DEF Byte
  <1> HIDE DEF code
  <1>2. pairs = findModePairs(code, 0, controller_available_modes_in,
                              controller_available_modes_out, available_control_modes)
    BY <1>1 DEF modePairs
  <1> HIDE DEF pairs
  <1>3. pairs \in Seq(Byte \X Byte)
    BY <1>1, <1>2, ModePairs, ControllerModesAssumption, AvailableModesAssumption
  <1>4. ASSUME NEW i \in DOMAIN pairs
        PROVE  convertUint8tToAS2ControlMode(pairs[i][1]) = m
    <2>1. compareModes(code, pairs[i][1], MATCH_MODE_AND_YAW)
      BY <1>1, <1>2, ModePairs, ControllerModesAssumption, AvailableModesAssumption
    <2>2. pairs[i][1] \in Byte
      BY <1>3
    <2> QED
      BY <2>1, <2>2, HighBitsNameTheMode DEF code
  <1> QED
    BY <1>3, <1>4 DEF pairs, code

LEMMA NegotiateServes ==
    ASSUME NEW request \in Mode, NEW j \in Job, negotiate(request, j)
    PROVE  /\ job' \in Job
           /\ job'.hover = j.hover /\ job'.fallback = j.fallback
           /\ at' \in {"idle", "try"}
           /\ response' = IF at' = "idle" THEN "no" ELSE "waiting"
           /\ bypass' = FALSE
           /\ at' = "try" => PairsServe(job'.pairs, FALSE, IF j.hover THEN HoverModes
                                                                      ELSE {request})
  <1> DEFINE wanted == IF j.hover THEN hoverMode ELSE request
             pairs == modePairs[convertAS2ControlModeToUint8t(wanted)]
  <1>1. /\ bypass' = FALSE
        /\ \/ refuse /\ job' = j
           \/ pairs # <<>> /\ try(pairs, j)
    BY DEF negotiate
  <1>2. /\ pairs \in Seq(Byte \X Byte)
        /\ \A i \in DOMAIN pairs : convertUint8tToAS2ControlMode(pairs[i][1]) = wanted
    BY NegotiatedPairs, HoverModeAssumption
  <1>3. wanted \in IF j.hover THEN HoverModes ELSE {request}
    BY DEF HoverModes
  <1> HIDE DEF pairs, wanted
  <1>4. CASE refuse /\ job' = j
    BY <1>1, <1>4 DEF refuse
  <1>5. CASE pairs # <<>> /\ try(pairs, j)
    <2>1. at' = "try" /\ job' = [j EXCEPT !.pairs = pairs] /\ response' = "waiting"
      BY <1>5 DEF try
    <2>2. /\ job' \in Job
          /\ job'.pairs = pairs /\ job'.hover = j.hover /\ job'.fallback = j.fallback
      BY <1>2, <2>1 DEF Job
    <2>3. PairsServe(pairs, FALSE, IF j.hover THEN HoverModes ELSE {request})
      BY <1>2, <1>3, <1>5 DEF PairsServe
    <2> QED
      BY <1>1, <2>1, <2>2, <2>3
  <1> QED
    BY <1>1, <1>4, <1>5

(* Where a request for a mode is left when it waits or is refused. *)
Serves(request, fb) ==
    /\ job' \in Job
    /\ job'.hover = isHoverMode(request)
    /\ job'.fallback = fb
    /\ at' \in {"idle", "hover", "try"}
    /\ at' = "hover" => job'.hover
    /\ response' = IF at' = "idle" THEN "no" ELSE "waiting"
    /\ bypass' \in BOOLEAN
    /\ at' = "try" => PairsServe(job'.pairs, bypass', IF job'.hover THEN HoverModes
                                                                    ELSE {request})

LEMMA BeginServes ==
    ASSUME NEW request \in Mode, NEW fb \in BOOLEAN, bypass \in BOOLEAN, begin(request, fb)
    PROVE  Serves(request, fb)
  <1> DEFINE j == [NoJob EXCEPT !.hover = isHoverMode(request), !.fallback = fb]
             code == convertAS2ControlModeToUint8t(request)
             same == IF hoverOrUnset(code) THEN 0 ELSE lastMatch(code, available_control_modes)
  <1>1. /\ j \in Job
        /\ j.hover = isHoverMode(request)
        /\ j.fallback = fb
    <2>1. isHoverMode(request) \in BOOLEAN
      BY DEF isHoverMode
    <2>2. <<>> \in Seq(Byte \X Byte)
      OBVIOUS
    <2> QED
      BY <2>1, <2>2 DEF NoJob, Job
  <1> HIDE DEF j
  <1>2. \/ refuse /\ job' = j /\ UNCHANGED bypass
        \/ negotiate(request, j)
        \/ /\ at' = "hover"
           /\ job' = j
           /\ bypass' = FALSE
           /\ response' = "waiting"
           /\ j.hover
        \/ try(<<<<0, same>>>>, j) /\ bypass' = TRUE /\ ~j.hover /\ same # 0
    BY DEF begin, j
  <1>3. CASE refuse /\ job' = j /\ UNCHANGED bypass
    BY <1>1, <1>3 DEF refuse, Serves
  <1>4. CASE negotiate(request, j)
    BY <1>1, <1>4, NegotiateServes DEF Serves
  <1>5. CASE /\ at' = "hover"
             /\ job' = j
             /\ bypass' = FALSE
             /\ response' = "waiting"
             /\ j.hover
    BY <1>1, <1>5 DEF Serves
  <1>6. CASE try(<<<<0, same>>>>, j) /\ bypass' = TRUE /\ ~j.hover /\ same # 0
    <2>1. PICK i \in DOMAIN available_control_modes :
              /\ available_control_modes[i] = same
              /\ compareModes(code, same, MATCH_MODE_AND_YAW)
      BY <1>6, LastMatchMatches, AvailableModesAssumption
    <2>2. same \in Byte
      BY <2>1, AvailableModesAssumption
    <2>3. convertUint8tToAS2ControlMode(same) = request
      BY <2>1, <2>2, HighBitsNameTheMode
    <2> HIDE DEF same
    <2>4. /\ at' = "try" /\ response' = "waiting"
          /\ job' = [j EXCEPT !.pairs = <<<<0, same>>>>]
      BY <1>6 DEF try
    <2>5. <<<<0, same>>>> \in Seq(Byte \X Byte)
      BY <2>2 DEF Byte
    <2>6. /\ job' \in Job
          /\ job'.pairs = <<<<0, same>>>>
          /\ job'.hover = j.hover /\ job'.fallback = j.fallback
      BY <1>1, <2>4, <2>5 DEF Job
    <2>7. PairsServe(<<<<0, same>>>>, TRUE, {request})
      BY <2>3 DEF PairsServe
    <2> QED
      BY <1>1, <1>6, <2>4, <2>6, <2>7 DEF Serves
  <1> QED
    BY <1>2, <1>3, <1>4, <1>5, <1>6

(* The values every step of a request leaves in the other variables. *)
OtherTypes ==
    /\ use_bypass \in BOOLEAN
    /\ modeIn \in Mode
    /\ stateAcquired \in BOOLEAN
    /\ acquired \subseteq Kinds
    /\ before \in Mode
    /\ driven \in BOOLEAN
    /\ did \in [what : {"nothing", "hover_reference"}] \cup
               [what : {"command"}, topics : SUBSET {"pose", "twist", "trajectory", "thrust"}]

CallTypes ==
    /\ job \in Job
    /\ response \in {"none", "waiting", "yes", "no"}
    /\ asked \in Requests \cup {NoMode}

LEMMA TypesAreParts ==
    TypeOK <=> /\ OtherTypes /\ CallTypes /\ PlatformInv /\ ModeInv
               /\ at \in {"idle", "hover", "try", "restore"}
               /\ {established, bypass, reference, hoverPending, hoverEnabled, heard}
                      \subseteq BOOLEAN
  BY DEF TypeOK, OtherTypes, CallTypes, PlatformInv, ModeInv

-----------------------------------------------------------------------------
(* The controller as a ModeService: each of its steps is one of the service,   *)
(* or is not seen by its clients.                                            *)
ServiceStep == Service!MSNext \/ UNCHANGED Service!msVars

LEMMA ServiceNames ==
    /\ Service!NoMode = NoMode
    /\ Service!UnsetMode = UnsetMode
    /\ \A m : Service!isHoverMode(m) = isHoverMode(m)
  BY DEF Service!NoMode, NoMode, Service!UnsetMode, UnsetMode, Service!ModeOf, ModeOf,
         Service!isHoverMode, isHoverMode

(* A request that goes on, or ends without a mode. *)
LEMMA HeldOff ==
    ASSUME ControllerInv, ServiceInv, at # "idle", established' = FALSE, modeIn' = modeIn, remember,
           response' = IF at' = "idle" THEN "no" ELSE "waiting"
    PROVE  ServiceStep /\ asked' = IF at' = "idle" THEN NoMode ELSE asked
  <1>1. asked # NoMode /\ response = "waiting" /\ established = FALSE
    BY DEF ServiceInv, RequestInv, ControllerInv, CallInv
  <1>2. CASE at' = "idle"
    <2>1. Service!MSEnd(FALSE)
      BY <1>1, <1>2, ServiceNames DEF remember, Service!MSEnd
    <2> QED
      BY <1>2, <2>1 DEF ServiceStep, Service!MSNext, remember
  <1>3. CASE at' # "idle"
    <2>1. UNCHANGED Service!msVars
      BY <1>1, <1>3 DEF remember, Service!msVars
    <2> QED
      BY <1>3, <2>1 DEF ServiceStep, remember
  <1> QED
    BY <1>2, <1>3

(* The call variables a step of a request leaves. *)
CallKept == CallTypes' /\ RequestInv' /\ PairsInv'

LEMMA FallBackServes ==
    ASSUME ControllerInv, ServiceInv, at # "idle", fallBack, remember
    PROVE  CallKept /\ ServiceStep
  <1>1. bypass \in BOOLEAN /\ CallTypes /\ asked # NoMode
    BY TypesAreParts DEF ServiceInv, ControllerInv, InputInv, RequestInv
  <1>2. CASE job.hover
    <2>1. /\ established' = FALSE /\ modeIn' = modeIn
          /\ at' = "idle" /\ response' = "no" /\ job' = job
      BY <1>2 DEF fallBack, refuse
    <2>2. ServiceStep /\ asked' = NoMode
      BY <2>1, HeldOff
    <2> QED
      BY <1>1, <2>1, <2>2 DEF CallKept, CallTypes, RequestInv, PairsInv
  <1>3. CASE ~job.hover
    <2> DEFINE request == ModeOf("HOVER", "YAW_ANGLE")
    <2>1. begin(request, TRUE)
      BY <1>3 DEF fallBack
    <2>2. request \in Mode /\ isHoverMode(request)
      BY DEF ModeOf, Mode, ControlModes, YawModes, isHoverMode
    <2> HIDE DEF request
    <2>3. Serves(request, TRUE)
      BY <1>1, <2>1, <2>2, BeginServes
    <2>4. established' = FALSE /\ modeIn' = modeIn
      BY <2>1, <2>2, BeginLeaves
    <2>5. ServiceStep /\ asked' = IF at' = "idle" THEN NoMode ELSE asked
      BY <2>3, <2>4, HeldOff DEF Serves
    <2>6. job'.hover /\ job'.fallback /\ isHoverMode(asked) = FALSE
      <3>1. isHoverMode(asked) \in BOOLEAN
        BY DEF isHoverMode
      <3> QED
        BY <1>3, <2>2, <2>3, <3>1 DEF Serves, ServiceInv, RequestInv, ControllerInv, JobInv
    <2>7. CallTypes'
      BY <1>1, <2>3, <2>5 DEF CallTypes, Serves
    <2>8. RequestInv'
      BY <1>1, <2>3, <2>5, <2>6 DEF RequestInv, Serves
    <2>9. PairsInv'
      BY <2>3, <2>6 DEF PairsInv, Serves, Wanted
    <2> QED
      BY <2>5, <2>7, <2>8, <2>9 DEF CallKept
  <1> QED
    BY <1>2, <1>3

LEMMA TailIsTheRest ==
    ASSUME NEW S, NEW list \in Seq(S), Len(list) > 1
    PROVE  /\ Tail(list) \in Seq(S)
           /\ Tail(list) # <<>>
           /\ \A i \in DOMAIN Tail(list) :
                 i + 1 \in DOMAIN list /\ Tail(list)[i] = list[i + 1]
  <1>1. Len(list) \in Nat /\ DOMAIN list = 1..Len(list) /\ list # <<>>
    OBVIOUS
  <1>2. Tail(list) \in Seq(S) /\ Len(Tail(list)) = Len(list) - 1
    BY <1>1
  <1>3. DOMAIN Tail(list) = 1..(Len(list) - 1)
    BY <1>1, <1>2
  <1>4. \A i \in 1..(Len(list) - 1) : Tail(list)[i] = list[i + 1]
    BY <1>1
  <1>5. Tail(list) # <<>>
    <2>1. Len(<<>>) = 0 /\ Len(Tail(list)) # 0
      BY <1>1, <1>2
    <2> QED
      BY <2>1
  <1> QED
    BY <1>1, <1>2, <1>3, <1>4, <1>5

LEMMA TryPairServes ==
    ASSUME ControllerInv, ServiceInv, NEW answered \in BOOLEAN, NEW served \in BOOLEAN,
           tryPair(answered, served)
    PROVE  CallKept /\ ServiceStep /\ modeIn' \in Mode
  <1> DEFINE pair == Head(job.pairs)
  <1>1. /\ at = "try" /\ remember
        /\ IF answered /\ (served \/ bypass) THEN establish(pair[1], pair[2])
                                             ELSE nextPair(job.changed \/ answered)
    BY DEF tryPair
  <1>2. /\ bypass \in BOOLEAN /\ job \in Job /\ CallTypes
        /\ asked # NoMode /\ response = "waiting" /\ modeIn \in Mode
        /\ established = FALSE
        /\ job.hover = (job.fallback \/ isHoverMode(asked))
        /\ job.fallback => ~isHoverMode(asked)
        /\ PairsServe(job.pairs, bypass, Wanted)
    BY <1>1, TypesAreParts DEF ServiceInv, CallTypes, OtherTypes, ControllerInv, CallInv,
                               InputInv, RequestInv, PairsInv
  <1>3. /\ job.pairs \in Seq(Byte \X Byte) /\ job.pairs # <<>>
        /\ job.hover \in BOOLEAN /\ job.fallback \in BOOLEAN /\ job.changed \in BOOLEAN
    BY <1>2 DEF Job, PairsServe
  <1>4. CASE answered /\ (served \/ bypass)
    <2>1. establish(pair[1], pair[2])
      BY <1>1, <1>4
    <2>2. /\ established' = TRUE /\ at' = "idle"
          /\ modeIn' = convertUint8tToAS2ControlMode(IF bypass THEN pair[2] ELSE pair[1])
          /\ response' = IF job.fallback THEN "no" ELSE "yes"
          /\ job' = [NoJob EXCEPT !.hover = job.hover]
          /\ asked' = NoMode
      BY <1>1, <2>1 DEF establish, remember
    <2>3. modeIn' \in Wanted
      <3>1. 1 \in DOMAIN job.pairs /\ pair = job.pairs[1]
        BY <1>3
      <3> QED
        BY <1>2, <2>2, <3>1 DEF PairsServe
    <2>4. job' \in Job
      <3>1. <<>> \in Seq(Byte \X Byte)
        OBVIOUS
      <3> QED
        BY <1>3, <2>2, <3>1 DEF NoJob, Job
    <2>5. CallKept
      BY <1>2, <2>2, <2>4 DEF CallKept, CallTypes, RequestInv, PairsInv
    <2>6. CASE job.fallback
      <3>1. modeIn' \in HoverModes /\ ~Service!isHoverMode(asked)
        BY <1>2, <2>3, <2>6, ServiceNames DEF Wanted
      <3>2. Service!MSEnd(FALSE)
        BY <1>2, <2>2, <2>6, <3>1, ServiceNames DEF Service!MSEnd, HoverModes
      <3> QED
        BY <2>2, <2>5, <3>2, ConvertIsMode DEF ServiceStep, Service!MSNext
    <2>7. CASE ~job.fallback
      <3>1. modeIn' \in Service!ReportsOf(asked)
        <4>1. CASE isHoverMode(asked)
          BY <1>2, <2>3, <2>7, <4>1, ServiceNames DEF Wanted, HoverModes, Service!ReportsOf
        <4>2. CASE ~isHoverMode(asked)
          BY <1>2, <2>3, <2>7, <4>2, ServiceNames DEF Wanted, HoverModes, Service!ReportsOf
        <4> QED
          BY <4>1, <4>2
      <3>2. Service!MSEnd(TRUE)
        BY <1>2, <2>2, <2>7, <3>1, ServiceNames DEF Service!MSEnd
      <3> QED
        BY <2>2, <2>5, <3>2, ConvertIsMode DEF ServiceStep, Service!MSNext
    <2> QED
      BY <2>6, <2>7
  <1>5. CASE ~ (answered /\ (served \/ bypass))
    <2>1. nextPair(job.changed \/ answered)
      BY <1>1, <1>5
    <2>2. CASE Len(job.pairs) > 1
      <3>1. /\ job' = [job EXCEPT !.pairs = Tail(@), !.changed = job.changed \/ answered]
            /\ UNCHANGED <<at, response, modeVars, inputVars>>
        BY <2>1, <2>2 DEF nextPair
      <3>2. /\ Tail(job.pairs) \in Seq(Byte \X Byte)
            /\ Tail(job.pairs) # <<>>
            /\ \A i \in DOMAIN Tail(job.pairs) :
                  i + 1 \in DOMAIN job.pairs /\ Tail(job.pairs)[i] = job.pairs[i + 1]
        BY <1>3, <2>2, TailIsTheRest
      <3>3. job.changed \/ answered \in BOOLEAN
        BY <1>3
      <3>4. /\ job' \in Job /\ job'.pairs = Tail(job.pairs)
            /\ job'.hover = job.hover /\ job'.fallback = job.fallback
        BY <1>2, <3>1, <3>2, <3>3 DEF Job
      <3>5. /\ bypass' = bypass /\ modeIn' = modeIn /\ established' = FALSE
            /\ at' = "try" /\ response' = "waiting"
        BY <1>1, <1>2, <3>1 DEF modeVars
      <3>6. ServiceStep /\ asked' = asked
        BY <1>1, <3>5, HeldOff
      <3>7. PairsInv'
        BY <1>2, <3>2, <3>4, <3>5, <3>6 DEF PairsInv, PairsServe, Wanted
      <3>8. CallTypes' /\ RequestInv'
        BY <1>2, <3>4, <3>5, <3>6 DEF CallTypes, RequestInv
      <3> QED
        BY <1>2, <3>5, <3>6, <3>7, <3>8 DEF CallKept
    <2>3. CASE ~ (Len(job.pairs) > 1) /\ (job.changed \/ answered)
      <3>1. /\ at' = "restore"
            /\ job' = [job EXCEPT !.pairs = <<>>, !.changed = TRUE]
            /\ UNCHANGED <<response, modeVars, inputVars>>
        BY <2>1, <2>3 DEF nextPair
      <3>2. <<>> \in Seq(Byte \X Byte)
        OBVIOUS
      <3>3. job' \in Job /\ job'.hover = job.hover /\ job'.fallback = job.fallback
        BY <1>2, <3>1, <3>2 DEF Job
      <3>4. modeIn' = modeIn /\ established' = FALSE /\ response' = "waiting"
        BY <1>2, <3>1 DEF modeVars
      <3>5. ServiceStep /\ asked' = asked
        BY <1>1, <3>1, <3>4, HeldOff
      <3> QED
        BY <1>2, <3>1, <3>3, <3>4, <3>5 DEF CallKept, CallTypes, RequestInv, PairsInv
    <2>4. CASE ~ (Len(job.pairs) > 1) /\ ~ (job.changed \/ answered)
      <3>1. fallBack
        BY <2>1, <2>4 DEF nextPair
      <3>2. modeIn' = modeIn
        <4>1. isHoverMode(ModeOf("HOVER", "YAW_ANGLE"))
          BY DEF isHoverMode, ModeOf
        <4> QED
          BY <3>1, <4>1, BeginLeaves DEF fallBack, refuse
      <3> QED
        BY <1>1, <1>2, <3>1, <3>2, FallBackServes
    <2> QED
      BY <2>2, <2>3, <2>4
  <1> QED
    BY <1>4, <1>5

(* A reference is taken, a state comes or a command goes out: no request is at *)
(* work, and what clients see does not move.                                 *)
LEMMA OthersServe ==
    ASSUME ControllerInv, ServiceInv,
           \/ driverSetsMode \/ publishPlatformInfo \/ platformInfoCallback
           \/ \E kind \in Kinds : refCallback(kind)
           \/ stateCallback \/ controlTimerCallback
    PROVE  CallKept /\ ServiceStep /\ UNCHANGED <<modeIn, before>>
  <1>1. UNCHANGED <<modeVars, callVars>>
    BY DEF driverSetsMode, publishPlatformInfo, platformInfoCallback, refCallback,
           stateCallback, controlTimerCallback
  <1>2. UNCHANGED Service!msVars
    BY <1>1 DEF modeVars, callVars, Service!msVars
  <1>3. CallKept
    BY <1>1, TypesAreParts DEF modeVars, callVars, CallKept, CallTypes, ServiceInv, RequestInv,
                               PairsInv, PairsServe, Wanted
  <1> QED
    BY <1>1, <1>2, <1>3 DEF ServiceStep, modeVars, callVars

LEMMA RequestServes ==
    ASSUME ControllerInv, ServiceInv, NEW request \in Requests, setControlModeSrvCall(request)
    PROVE  CallKept /\ ServiceStep /\ UNCHANGED modeIn
  <1>1. /\ at = "idle" /\ begin(request, FALSE)
        /\ asked' = IF at' = "idle" THEN NoMode ELSE request
    BY DEF setControlModeSrvCall
  <1>2. request \in Mode /\ request # NoMode /\ bypass \in BOOLEAN
    BY RequestsAssumption, CodesAreBytes DEF ControllerInv, InputInv
  <1>3. Serves(request, FALSE)
    BY <1>1, <1>2, BeginServes
  <1>4. established' = FALSE /\ modeIn' = modeIn
    BY <1>1, <1>2, BeginLeaves
  <1>5. asked = NoMode
    BY <1>1 DEF ServiceInv, RequestInv
  <1>6. CallTypes' /\ RequestInv'
    <2>1. ~job'.fallback /\ job'.hover = isHoverMode(request) /\ isHoverMode(request) \in BOOLEAN
      BY <1>3 DEF Serves, isHoverMode
    <2> QED
      BY <1>1, <1>2, <1>3, <2>1 DEF CallTypes, RequestInv, Serves
  <1>7. PairsInv'
    BY <1>1, <1>3 DEF PairsInv, Serves, Wanted
  <1>8. ServiceStep
    <2>1. CASE at' = "idle"
      <3>1. Service!MSRefuse
        BY <1>1, <1>3, <1>4, <1>5, <2>1, ServiceNames DEF Serves, Service!MSRefuse
      <3> QED
        BY <3>1 DEF ServiceStep, Service!MSNext
    <2>2. CASE at' # "idle"
      <3>1. Service!MSBegin(request)
        BY <1>1, <1>3, <1>4, <1>5, <2>2, ServiceNames DEF Serves, Service!MSBegin
      <3> QED
        BY <3>1 DEF ServiceStep, Service!MSNext
    <2> QED
      BY <2>1, <2>2
  <1> QED
    BY <1>4, <1>6, <1>7, <1>8 DEF CallKept

LEMMA HoverServes ==
    ASSUME ControllerInv, ServiceInv, NEW answered \in BOOLEAN, trySetPlatformHover(answered)
    PROVE  CallKept /\ ServiceStep /\ UNCHANGED modeIn
  <1>1. /\ at = "hover" /\ remember
        /\ IF answered
           THEN try(<<<<0, HOVER_MODE_MASK>>>>, job) /\ bypass' = TRUE
           ELSE negotiate(ModeOf("HOVER", "NONE"), job)
    BY DEF trySetPlatformHover
  <1>2. /\ job \in Job /\ CallTypes /\ asked # NoMode /\ job.hover
        /\ job.hover = (job.fallback \/ isHoverMode(asked))
        /\ job.fallback => ~isHoverMode(asked)
    BY <1>1, TypesAreParts DEF ServiceInv, CallTypes, RequestInv
  <1>3. /\ job' \in Job /\ job'.hover = job.hover /\ job'.fallback = job.fallback
        /\ at' \in {"idle", "try"}
        /\ response' = IF at' = "idle" THEN "no" ELSE "waiting"
        /\ established' = FALSE /\ modeIn' = modeIn
        /\ at' = "try" => PairsServe(job'.pairs, bypass', HoverModes)
    <2>1. CASE answered
      <3>1. /\ at' = "try" /\ response' = "waiting" /\ bypass' = TRUE
            /\ job' = [job EXCEPT !.pairs = <<<<0, HOVER_MODE_MASK>>>>]
            /\ established' = FALSE /\ modeIn' = modeIn
        BY <1>1, <2>1 DEF try
      <3>2. <<<<0, HOVER_MODE_MASK>>>> \in Seq(Byte \X Byte)
        BY DEF HOVER_MODE_MASK, Byte
      <3>3. /\ job' \in Job /\ job'.pairs = <<<<0, HOVER_MODE_MASK>>>>
            /\ job'.hover = job.hover /\ job'.fallback = job.fallback
        BY <1>2, <3>1, <3>2 DEF Job
      <3>4. PairsServe(<<<<0, HOVER_MODE_MASK>>>>, TRUE, HoverModes)
        BY DEF PairsServe, HoverModes
      <3> QED
        BY <3>1, <3>3, <3>4
    <2>2. CASE ~answered
      <3>1. negotiate(ModeOf("HOVER", "NONE"), job)
        BY <1>1, <2>2
      <3>2. ModeOf("HOVER", "NONE") \in Mode
        BY DEF ModeOf, Mode, ControlModes, YawModes
      <3>3. established' = FALSE /\ modeIn' = modeIn
        BY <3>1 DEF negotiate, refuse, try
      <3> QED
        BY <1>2, <3>1, <3>2, <3>3, NegotiateServes
    <2> QED
      BY <2>1, <2>2
  <1>4. ServiceStep /\ asked' = IF at' = "idle" THEN NoMode ELSE asked
    BY <1>1, <1>3, HeldOff
  <1>5. PairsInv'
    BY <1>2, <1>3 DEF PairsInv, Wanted
  <1>6. CallTypes' /\ RequestInv'
    BY <1>2, <1>3, <1>4 DEF CallTypes, RequestInv
  <1> QED
    BY <1>3, <1>4, <1>5, <1>6 DEF CallKept

LEMMA RestoreServes ==
    ASSUME ControllerInv, ServiceInv, NEW answered \in BOOLEAN, restore(answered)
    PROVE  CallKept /\ ServiceStep /\ UNCHANGED modeIn
  <1>1. at # "idle" /\ fallBack /\ remember
    BY DEF restore
  <1>2. modeIn' = modeIn
    <2>1. isHoverMode(ModeOf("HOVER", "YAW_ANGLE"))
      BY DEF isHoverMode, ModeOf
    <2> QED
      BY <1>1, <2>1, BeginLeaves DEF fallBack, refuse
  <1> QED
    BY <1>1, <1>2, FallBackServes

(* What every step leaves in the variables a request does not decide. *)
LEMMA OthersTyped ==
    ASSUME ControllerInv, TypeOK, [Next]_vars, modeIn' \in Mode
    PROVE  OtherTypes'
  <1> DEFINE Did == [what : {"nothing", "hover_reference"}] \cup
                 [what : {"command"}, topics : SUBSET {"pose", "twist", "trajectory", "thrust"}]
  <1>1. OtherTypes /\ platformMode \in Mode
    BY TypesAreParts DEF PlatformInv
  <1>2. nothing \in Did /\ [what |-> "hover_reference"] \in Did
    BY DEF nothing
  <1>3. \A m \in Mode : [what |-> "command", topics |-> publishCommand(m)] \in Did
    <2> SUFFICES ASSUME NEW m \in Mode
                 PROVE  publishCommand(m) \in SUBSET {"pose", "twist", "trajectory", "thrust"}
      OBVIOUS
    <2>1. m.control_mode \in ControlModes /\ m.yaw_mode \in YawModes
      BY DEF Mode
    <2> QED
      BY <2>1 DEF publishCommand, ControlModes
  <1> HIDE DEF Did
  <1>4. UnsetMode \in Mode
    BY DEF UnsetMode, ModeOf, Mode, ControlModes, YawModes
  <1>5. modeOut \in Mode
    BY DEF ControllerInv, ModeInv
  <1>6. use_bypass' = use_bypass
    BY DEF Next, Continue, vars
  <1>7. ASSUME NEW request \in Requests, setControlModeSrvCall(request)
        PROVE  OtherTypes'
    <2>1. UNCHANGED inputVars
      BY <1>7, BeginLeaves DEF setControlModeSrvCall
    <2> QED
      BY <1>1, <1>2, <1>4, <1>6, <1>7, <2>1 DEF setControlModeSrvCall, OtherTypes, inputVars,
                                          platformVars, Did
  <1>8. ASSUME Continue
        PROVE  OtherTypes'
    <2>1. PICK answered \in BOOLEAN : \/ trySetPlatformHover(answered)
                                      \/ \E served \in BOOLEAN : tryPair(answered, served)
                                      \/ restore(answered)
      BY <1>8 DEF Continue
    <2>2. PICK m : setPlatformControlMode(m, answered)
      BY <2>1 DEF trySetPlatformHover, tryPair, restore
    <2>3. driven' \in BOOLEAN
      BY <1>1, <2>2 DEF setPlatformControlMode, OtherTypes
    <2>4. did' = nothing /\ before' \in Mode
      BY <1>1, <1>4, <2>1 DEF trySetPlatformHover, tryPair, restore, remember, OtherTypes
    <2>5. UNCHANGED <<acquired, stateAcquired>> \/ (acquired' = {} /\ stateAcquired' = FALSE)
      <3>1. ASSUME fallBack PROVE UNCHANGED <<acquired, stateAcquired>>
        <4>1. isHoverMode(ModeOf("HOVER", "YAW_ANGLE"))
          BY DEF isHoverMode, ModeOf
        <4> QED
          BY <3>1, <4>1, BeginLeaves DEF fallBack, refuse, inputVars
      <3>2. CASE trySetPlatformHover(answered)
        BY <3>2 DEF trySetPlatformHover, try, negotiate, refuse, inputVars
      <3>3. CASE \E served \in BOOLEAN : tryPair(answered, served)
        BY <3>1, <3>3 DEF tryPair, establish, reset, nextPair, inputVars
      <3>4. CASE restore(answered)
        BY <3>1, <3>4 DEF restore
      <3> QED
        BY <2>1, <3>2, <3>3, <3>4
    <2> QED
      BY <1>1, <1>2, <1>6, <2>3, <2>4, <2>5 DEF OtherTypes, Did
  <1>9. CASE driverSetsMode
    BY <1>1, <1>2, <1>6, <1>9 DEF driverSetsMode, OtherTypes, inputVars, callVars, modeVars, Did
  <1>10. CASE publishPlatformInfo \/ platformInfoCallback
    BY <1>1, <1>2, <1>6, <1>10 DEF publishPlatformInfo, platformInfoCallback, OtherTypes,
                                   inputVars, callVars, modeVars, Did
  <1>11. ASSUME NEW kind \in Kinds, refCallback(kind)
         PROVE  OtherTypes'
    BY <1>1, <1>2, <1>6, <1>11 DEF refCallback, OtherTypes, callVars, modeVars, platformVars, Did
  <1>12. CASE stateCallback
    BY <1>1, <1>2, <1>6, <1>12 DEF stateCallback, OtherTypes, callVars, modeVars, platformVars,
                                   Did
  <1>13. CASE controlTimerCallback
    BY <1>1, <1>3, <1>5, <1>6, <1>13 DEF controlTimerCallback, OtherTypes, inputVars, callVars,
                                         modeVars, platformVars, Did
  <1>14. CASE UNCHANGED vars
    BY <1>1, <1>14 DEF vars, OtherTypes, inputVars, callVars, modeVars, platformVars
  <1> QED
    BY <1>7, <1>8, <1>9, <1>10, <1>11, <1>12, <1>13, <1>14 DEF Next

LEMMA ServiceInit == Init => ServiceInv /\ Service!MSInit
  <1> SUFFICES ASSUME Init PROVE ServiceInv /\ Service!MSInit
    OBVIOUS
  <1>1. NoJob \in Job /\ UnsetMode \in Mode /\ nothing \in [what : {"nothing", "hover_reference"}]
    <2>1. <<>> \in Seq(Byte \X Byte)
      OBVIOUS
    <2> QED
      BY <2>1 DEF NoJob, Job, UnsetMode, ModeOf, Mode, ControlModes, YawModes, nothing
  <1>2. TypeOK
    BY <1>1 DEF Init, TypeOK
  <1>3. RequestInv /\ PairsInv
    BY DEF Init, RequestInv, PairsInv
  <1>4. Service!MSInit
    BY ServiceNames DEF Init, Service!MSInit
  <1> QED
    BY <1>2, <1>3, <1>4 DEF ServiceInv

LEMMA ServiceNext ==
    ASSUME ControllerInv, ServiceInv, [Next]_vars
    PROVE  ServiceInv' /\ ServiceStep
  <1>1. CallKept /\ ServiceStep /\ modeIn' \in Mode
    <2>0. modeIn \in Mode
      BY DEF ServiceInv, TypeOK
    <2>1. ASSUME NEW request \in Requests, setControlModeSrvCall(request)
          PROVE  CallKept /\ ServiceStep /\ modeIn' \in Mode
      BY <2>0, <2>1, RequestServes
    <2>2. CASE Continue
      BY <2>0, <2>2, HoverServes, TryPairServes, RestoreServes DEF Continue
    <2>3. CASE UNCHANGED vars
      BY <2>0, <2>3, TypesAreParts
         DEF vars, modeVars, callVars, Service!msVars, ServiceStep, CallKept, CallTypes,
             ServiceInv, RequestInv, PairsInv, PairsServe, Wanted
    <2> QED
      BY <2>0, <2>1, <2>2, <2>3, OthersServe DEF Next
  <1>2. OtherTypes'
    BY <1>1, OthersTyped DEF ServiceInv
  <1>3. ControllerInv'
    BY NextInv
  <1>4. TypeOK'
    <2>1. PlatformInv' /\ ModeInv' /\ CallInv' /\ InputInv'
      BY <1>3 DEF ControllerInv
    <2>2. /\ at' \in {"idle", "hover", "try", "restore"}
          /\ {established, bypass, reference, hoverPending, hoverEnabled, heard}' \subseteq BOOLEAN
      BY <2>1 DEF CallInv, InputInv
    <2> QED
      BY <1>1, <1>2, <2>1, <2>2 DEF CallKept, TypeOK, OtherTypes, CallTypes, PlatformInv, ModeInv
  <1> QED
    BY <1>1, <1>4 DEF CallKept, ServiceInv

(* The promise to the clients is inductive: it holds in every state. *)
THEOREM ServiceInvariance == Spec => []ServiceInv
  <1>1. Init => ServiceInv
    BY ServiceInit
  <1>2. ControllerInv /\ ServiceInv /\ [Next]_vars => ServiceInv'
    BY ServiceNext
  <1> QED
    BY <1>1, <1>2, Invariance, PTL DEF Spec

(* Every variable of the handler keeps its type, the pairs of the negotiation   *)
(* and the remembered request included.                                       *)
THEOREM TypeCorrect == Spec => []TypeOK
  <1>1. ServiceInv => TypeOK
    BY DEF ServiceInv
  <1> QED
    BY <1>1, ServiceInvariance, PTL

(* Whatever the lists of modes, the plugin and the answers of the platform, a   *)
(* client told yes is served the mode it asked for, and the mode reported is   *)
(* one that was granted, or a hover (setControlModeSrvCall).                  *)
THEOREM ServesItsClients == Spec => ImplementsModeService
  <1>1. Init => Service!MSInit
    BY ServiceInit
  <1>2. ControllerInv /\ ServiceInv /\ [Next]_vars => [Service!MSNext]_(Service!msVars)
    BY ServiceNext DEF ServiceStep
  <1> QED
    BY <1>1, <1>2, Invariance, ServiceInvariance, PTL
       DEF Spec, ImplementsModeService, Service!MSSpec
-----------------------------------------------------------------------------
(* The kinds of calls a request makes come in this order: the hover, the pairs, *)
(* the restoration.                                                          *)
Phase(where) == IF where = "hover" THEN 2 ELSE IF where = "try" THEN 1 ELSE 0

(* An answer of the platform brings a request on: to the hover that takes its  *)
(* place, from which there is no way back, to its next kind of call, or to its *)
(* next pair.                                                                *)
ComesCloser ==
    \/ ~job.hover /\ job'.hover
    \/ /\ job'.hover = job.hover
       /\ \/ Phase(at') < Phase(at)
          \/ at' = at /\ Len(job'.pairs) < Len(job.pairs)

(* Why requests are answered: every answer of the platform, yes or no, ends the *)
(* request or brings it closer to its end, and nothing else touches it.        *)
RequestsAdvance ==
    [][at # "idle" => IF Continue THEN at' = "idle" \/ ComesCloser
                                  ELSE UNCHANGED <<callVars, modeVars>>]_vars

LEMMA BeginSeeks ==
    ASSUME NEW r, NEW fb \in BOOLEAN, begin(r, fb)
    PROVE  job'.hover = isHoverMode(r)
  <1> DEFINE j == [NoJob EXCEPT !.hover = isHoverMode(r), !.fallback = fb]
  <1>1. /\ j.hover = isHoverMode(r)
        /\ \A pairs : [j EXCEPT !.pairs = pairs].hover = isHoverMode(r)
    BY DEF NoJob
  <1> HIDE DEF j
  <1>2. ASSUME NEW request, negotiate(request, j)
        PROVE  job'.hover = isHoverMode(r)
    BY <1>1, <1>2 DEF negotiate, try
  <1>3. \/ job' = j
        \/ negotiate(r, j)
        \/ \E pairs : try(pairs, j)
    BY DEF begin, j
  <1> QED
    BY <1>1, <1>2, <1>3 DEF try

LEMMA FallBackComesCloser ==
    ASSUME fallBack
    PROVE  at' = "idle" \/ (~job.hover /\ job'.hover)
  <1>1. isHoverMode(ModeOf("HOVER", "YAW_ANGLE"))
    BY DEF isHoverMode, ModeOf
  <1> QED
    BY <1>1, BeginSeeks DEF fallBack, refuse

(* However many pairs there are and whatever is refused, a request for a mode   *)
(* ends (the loop of setControlModeSrvCall and its call of itself).           *)
THEOREM RequestsTheorem == Spec => RequestsAdvance
  <1>1. ASSUME ControllerInv, ServiceInv, at # "idle", Continue
        PROVE  at' = "idle" \/ ComesCloser
    <2>0. job \in Job /\ job.pairs \in Seq(Byte \X Byte)
      BY <1>1 DEF ServiceInv, TypeOK, Job
    <2>1. ASSUME NEW answered \in BOOLEAN, trySetPlatformHover(answered)
          PROVE  at' = "idle" \/ ComesCloser
      <3>1. at = "hover" /\ (at' = "idle" \/ (at' = "try" /\ job'.hover = job.hover))
        BY <2>0, <2>1 DEF trySetPlatformHover, try, negotiate, refuse, Job
      <3> QED
        BY <3>1 DEF ComesCloser, Phase
    <2>2. ASSUME NEW answered \in BOOLEAN, NEW served \in BOOLEAN, tryPair(answered, served)
          PROVE  at' = "idle" \/ ComesCloser
      <3>1. CASE at' = "idle" \/ fallBack
        BY <3>1, FallBackComesCloser DEF ComesCloser
      <3>2. CASE Len(job.pairs) > 1 /\ job' = [job EXCEPT !.pairs = Tail(job.pairs),
                                                  !.changed = job.changed \/ answered] /\ at' = at
        <4>1. /\ job'.hover = job.hover
              /\ job'.pairs = Tail(job.pairs)
          BY <2>0, <3>2 DEF Job
        <4>2. Len(Tail(job.pairs)) < Len(job.pairs)
          BY <2>0, <3>2
        <4> QED
          BY <3>2, <4>1, <4>2 DEF ComesCloser
      <3>3. CASE at' = "restore" /\ job' = [job EXCEPT !.pairs = <<>>, !.changed = TRUE]
        <4>1. at = "try" /\ job'.hover = job.hover
          BY <2>0, <2>2, <3>3 DEF tryPair, Job
        <4>2. Phase("restore") < Phase("try")
          BY DEF Phase
        <4> QED
          BY <3>3, <4>1, <4>2 DEF ComesCloser
      <3> QED
        BY <2>2, <3>1, <3>2, <3>3 DEF tryPair, establish, nextPair
    <2>3. ASSUME NEW answered \in BOOLEAN, restore(answered)
          PROVE  at' = "idle" \/ ComesCloser
      BY <2>3, FallBackComesCloser DEF restore, ComesCloser
    <2> QED
      BY <1>1, <2>1, <2>2, <2>3 DEF Continue
  <1>2. ASSUME [Next]_vars, at # "idle", ~Continue
        PROVE  UNCHANGED <<callVars, modeVars>>
    <2>1. CASE driverSetsMode \/ publishPlatformInfo
      BY <2>1 DEF driverSetsMode, publishPlatformInfo
    <2>2. CASE UNCHANGED vars
      BY <2>2 DEF vars
    <2> QED
      BY <1>2, <2>1, <2>2 DEF Next, platformInfoCallback, setControlModeSrvCall, refCallback,
                              stateCallback, controlTimerCallback
  <1>3. ControllerInv /\ ServiceInv /\ [Next]_vars =>
            [at # "idle" => IF Continue THEN at' = "idle" \/ ComesCloser
                                        ELSE UNCHANGED <<callVars, modeVars>>]_vars
    BY <1>1, <1>2
  <1> QED
    BY <1>3, Invariance, ServiceInvariance, PTL DEF Spec, RequestsAdvance
=============================================================================
