--------------------------- MODULE MotionReferences ---------------------------
(***************************************************************************)
(* The nodes that fly the drone with motion references                      *)
(* (as2_motion_reference_handlers) and the controller that serves them, a   *)
(* ModeService.  The handlers of a node share a bus, with the mode the node *)
(* believes the controller to be in; a handler asks for its mode when the   *)
(* bus has another one.  A node runs one callback at a time, so while it    *)
(* waits for an answer, or sleeps after it, it reads no info message.        *)
(*                                                                          *)
(* The controller publishes its mode from time to time, on a clock and with *)
(* a period of its own, unless it is busy serving a request.  Its messages  *)
(* reach each node in order, and as late as they like: nothing relates them *)
(* to the 100 ms of wall clock that a granted node sleeps.                   *)
(***************************************************************************)
EXTENDS ModeService, SequencesExt

CONSTANTS
    Nodes,      \* the behaviors and other clients of the controller
    Handlers,   \* the modes the handlers of each node ask for
    Unserved,   \* the modes that no pair of the controller's lists serves
    Depth       \* how many info messages may be on their way to a node: the
                \* history the publisher keeps (10 in qos_info)

ASSUME HandlersAssumption == Handlers \in [Nodes -> SUBSET Requests]
ASSUME RequestsAssumption == Requests \subseteq Mode \ {UnsetMode}
ASSUME HoverModesAssumption == HoverModes \subseteq Mode
ASSUME DepthAssumption == Depth \in Nat \ {0}

VARIABLES
    current_mode,   \* current_mode_ of each node's bus
    info,           \* the modes in the info messages on their way to each node,
                    \* oldest first
    at,             \* what each node's callback is doing
    desired,        \* the mode of the call under way, or NoMode
    left,           \* the references of the call that still have their own check
    queue,          \* the nodes with a request at the service, in order
    granted,        \* history: whose request was granted last, and for which mode,
                    \* unless the service had another one since
    stale,          \* history: how many of the messages on their way to that node
                    \* are older than its grant
    misled          \* history: whether the last one it read is

busVars == <<current_mode, info>>
callVars == <<at, desired, left>>
grantVars == <<granted, stale, misled>>
vars == <<msVars, busVars, callVars, queue, grantVars>>

TypeOK ==
    /\ serving \in Requests \cup {NoMode}
    /\ active \in BOOLEAN
    /\ reported \in Mode
    /\ response \in {"none", "waiting", "yes", "no"}
    /\ current_mode \in [Nodes -> Mode]
    /\ info \in [Nodes -> Seq(Mode)]
    /\ \A n \in Nodes : Len(info[n]) <= Depth
    /\ at \in [Nodes -> {"free", "asking", "sleeping"}]
    /\ desired \in [Nodes -> Requests \cup {NoMode}]
    /\ left \in [Nodes -> 0..1]
    /\ queue \in Seq(Nodes)
    /\ granted \subseteq Nodes \X Requests
    /\ stale \in 0..Depth
    /\ misled \in BOOLEAN

Init ==
    /\ MSInit
    /\ current_mode = [n \in Nodes |-> UnsetMode]
    /\ info = [n \in Nodes |-> <<>>]
    /\ at = [n \in Nodes |-> "free"]
    /\ desired = [n \in Nodes |-> NoMode]
    /\ left = [n \in Nodes |-> 0]
    /\ queue = <<>>
    /\ granted = {}
    /\ stale = 0
    /\ misled = FALSE

-----------------------------------------------------------------------------
(* What a call of a handler sends, each reference with a check of its own: a  *)
(* pose and a twist, or one of them, or a hover, which is the check alone.    *)
checks(m) ==
    IF m.control_mode \in {"POSITION", "SPEED_IN_A_PLANE", "BODY_RATES"} \/
       (m.control_mode = "SPEED" /\ m.yaw_mode = "YAW_ANGLE")
    THEN 2 ELSE 1

(* checkMode without asking: the bus has the mode, or any hover for a hover.  *)
settled(n, m) ==
    \/ isHoverMode(m) /\ current_mode[n].control_mode = m.control_mode
    \/ current_mode[n] = m

(* setMode: the node waits behind the requests there are. *)
setMode(n, m, more, waiting) ==
    /\ at' = [at EXCEPT ![n] = "asking"]
    /\ desired' = [desired EXCEPT ![n] = m]
    /\ left' = [left EXCEPT ![n] = more]
    /\ queue' = Append(waiting, n)

(* The call of a handler returns. *)
return(n) ==
    /\ at' = [at EXCEPT ![n] = "free"]
    /\ desired' = [desired EXCEPT ![n] = NoMode]
    /\ left' = [left EXCEPT ![n] = 0]

(* A behavior calls a handler whose mode is not settled.  When it is, the     *)
(* references are published at once, and nothing here changes.               *)
send(n, m) ==
    /\ at[n] = "free"
    /\ ~settled(n, m)
    /\ setMode(n, m, checks(m) - 1, queue)
    /\ UNCHANGED <<msVars, busVars, grantVars>>

(* Mutation: the second reference of a call is checked whatever is left.  *)
refused_Uncounted(n, waiting) ==
    IF desired[n].control_mode # "BODY_RATES"
    THEN setMode(n, desired[n], left[n] - 1, waiting)
    ELSE return(n) /\ queue' = waiting

(* Told no, a handler goes on with its other reference, for which it asks     *)
(* again; the body rates stop at the first.                                  *)
refused(n, waiting) ==
    IF left[n] > 0 /\ desired[n].control_mode # "BODY_RATES"
    THEN setMode(n, desired[n], left[n] - 1, waiting)
    ELSE return(n) /\ queue' = waiting

(* Nobody's grant is the last thing asked of the controller. *)
noGrant ==
    /\ granted' = {}
    /\ stale' = 0
    /\ misled' = FALSE

(* The controller takes the first request; busy, it publishes nothing.        *)
take ==
    /\ queue # <<>>
    /\ desired[Head(queue)] \notin Unserved
    /\ MSBegin(desired[Head(queue)])
    /\ noGrant
    /\ UNCHANGED <<busVars, callVars, queue>>

refuseAtOnce ==
    /\ queue # <<>>
    /\ desired[Head(queue)] \in Unserved
    /\ MSRefuse
    /\ refused(Head(queue), Tail(queue))
    /\ noGrant
    /\ UNCHANGED busVars

(* Mutation: the node leaves it to the info message to say the mode. *)
end_KeepsBelief(yes) ==
    /\ MSEnd(yes)
    /\ LET n == Head(queue)
       IN  IF yes
           THEN /\ at' = [at EXCEPT ![n] = "sleeping"]
                /\ queue' = Tail(queue)
                /\ granted' = {<<n, desired[n]>>}
                /\ stale' = Len(info[n])
                /\ misled' = FALSE
                /\ UNCHANGED <<current_mode, desired, left>>
           ELSE /\ refused(n, Tail(queue))
                /\ UNCHANGED <<current_mode, grantVars>>
    /\ UNCHANGED info

(* The request at the head is answered: told yes, the node takes its mode for *)
(* the controller's, and sleeps.                                             *)
end(yes) ==
    /\ MSEnd(yes)
    /\ LET n == Head(queue)
       IN  IF yes
           THEN /\ current_mode' = [current_mode EXCEPT ![n] = desired[n]]
                /\ at' = [at EXCEPT ![n] = "sleeping"]
                /\ queue' = Tail(queue)
                /\ granted' = {<<n, desired[n]>>}
                /\ stale' = Len(info[n])
                /\ misled' = FALSE
                /\ UNCHANGED <<desired, left>>
           ELSE /\ refused(n, Tail(queue))
                /\ UNCHANGED <<current_mode, grantVars>>
    /\ UNCHANGED info

(* A node is interrupted while it waits for a service that is not there, which *)
(* it does for ever otherwise: its request is never sent.                    *)
serviceMissing ==
    /\ \E i \in DOMAIN queue :
          /\ serving # NoMode => i # 1
          /\ refused(queue[i], RemoveAt(queue, i))
    /\ UNCHANGED <<msVars, busVars, grantVars>>

(* Mutation: the node sleeps until the mode it asked for is reported.  *)
wake_WhenReported(n) ==
    /\ at[n] = "sleeping"
    /\ \E k \in DOMAIN info[n] : info[n][k] = desired[n]
    /\ return(n)
    /\ UNCHANGED <<msVars, busVars, queue, grantVars>>

(* The rest of a call that was granted, when the 100 ms are over, whatever the *)
(* controller did meanwhile: the references are published, all of them, as the *)
(* bus has their mode until the callback returns.                            *)
wake(n) ==
    /\ at[n] = "sleeping"
    /\ return(n)
    /\ UNCHANGED <<msVars, busVars, queue, grantVars>>

(* A message is put behind those on their way; with Depth of them the oldest   *)
(* is lost, and it is one from before the grant if there is any.             *)
publish ==
    /\ info' = [n \in Nodes |->
                   LET sent == Append(info[n], reported)
                   IN  IF Len(sent) > Depth THEN Tail(sent) ELSE sent]
    /\ stale' = IF stale > 0 /\ \E g \in granted : Len(info[g[1]]) = Depth
                THEN stale - 1 ELSE stale

(* Mutation: without a mode the controller reports none.  *)
modeTimerCallback_WhenActive ==
    /\ serving = NoMode
    /\ active
    /\ publish
    /\ UNCHANGED <<msVars, current_mode, callVars, queue, granted, misled>>

(* The info timer of the controller, which runs when no request is served. *)
modeTimerCallback ==
    /\ serving = NoMode
    /\ publish
    /\ UNCHANGED <<msVars, current_mode, callVars, queue, granted, misled>>

(* The subscription of a node's bus keeps one message, the last of the first k *)
(* on their way, which have arrived.                                         *)
controllerInfoCallback(n) ==
    /\ at[n] = "free"
    /\ \E k \in DOMAIN info[n] :
          /\ current_mode' = [current_mode EXCEPT ![n] = info[n][k]]
          /\ info' = [info EXCEPT ![n] = SubSeq(@, k + 1, Len(@))]
          /\ IF \E g \in granted : g[1] = n
             THEN /\ misled' = (k <= stale)
                  /\ stale' = IF k <= stale THEN stale - k ELSE 0
             ELSE UNCHANGED <<stale, misled>>
    /\ UNCHANGED <<msVars, callVars, queue, granted>>

Serve == take \/ refuseAtOnce \/ \E yes \in BOOLEAN : end(yes)

Next ==
    \/ \E n \in Nodes :
          \/ \E m \in Handlers[n] : send(n, m)
          \/ wake(n)
          \/ controllerInfoCallback(n)
    \/ Serve
    \/ serviceMissing
    \/ modeTimerCallback

(* The controller answers what it is asked and its timer fires; the nodes     *)
(* wake and spin.  Nothing makes a behavior send a reference.                *)
Spec ==
    /\ Init /\ [][Next]_vars
    /\ WF_vars(Serve) /\ WF_vars(modeTimerCallback)
    /\ \A n \in Nodes : WF_vars(wake(n)) /\ WF_vars(controllerInfoCallback(n))
-----------------------------------------------------------------------------
(* While a granted request is the last the controller was asked for, only one  *)
(* thing can make its node ask for that mode again, which would end it, or    *)
(* take another for settled: that the last info message it read is older than *)
(* the grant.  The sleep of setMode does not rule it out, but the next newer  *)
(* message mends it.  A hover may be reported as another mode.               *)
GrantHolds ==
    \A g \in granted :
        at[g[1]] = "free" /\ ~isHoverMode(g[2]) /\ ~misled =>
            \A m \in Handlers[g[1]] : settled(g[1], m) <=> m = g[2]

(* A handler that asks for a mode returns, whatever it is told and however     *)
(* often the mode changes under it: nodes that want different modes never     *)
(* lock each other out.                                                      *)
NegotiationsEnd == \A n \in Nodes : at[n] = "asking" ~> at[n] = "free"

Quiet == serving = NoMode /\ queue = <<>>

(* Once nobody asks for modes, every node learns the one the controller ended *)
(* in: what a request that failed left, and hovers nobody asked for, included. *)
BeliefsConverge ==
    <>[]Quiet => \A n \in Nodes : <>[](current_mode[n] = reported)
=============================================================================
